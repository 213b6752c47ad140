--------------------- MODULE UpdatePipelineVolumeProofs ---------------------
(***************************************************************************)
(* Theorems about what UpdatePipeline makes of the volume: its PVs, its    *)
(* directories, and what it leaves behind.  What keeps replicas apart from *)
(* the creation of the tmp PV on is the tmp PV, whose name is fixed, and   *)
(* no lease takes it away; the lock is needed only where directories are   *)
(* added, and for the refinement of GuardedVolume.  Each theorem names the *)
(* kinds of trouble it holds without.                                      *)
(***************************************************************************)
EXTENDS UpdatePipelineProofs

-----------------------------------------------------------------------------
(* What the requests make of the PVs.                                      *)

\* A step leaves the PV n what it is, but for its lock, and does not unbind it.
SameVolume(n) ==
    /\ store'[n].kind = store[n].kind
    /\ store'[n].dirs = store[n].dirs
    /\ store'[n].deleting = store[n].deleting
    /\ store[n].bound => store'[n].bound

Removed(n) == store'[n].kind = "none"

\* The PV n is marked for deletion or gone.
Dropped(n) ==
    \/ Removed(n)
    \/ /\ store'[n].kind = store[n].kind /\ store'[n].dirs = store[n].dirs
       /\ store'[n].deleting

\* A CSI PV with the directories of pv takes the free name n.
Created(n, pv) ==
    /\ store[n].kind = "none"
    /\ store'[n].kind = "csi" /\ ~store'[n].deleting
    /\ store'[n].dirs = pv.dirs

LEMMA StoreType ==
    ASSUME TypeOK
    PROVE  /\ Main \in Names /\ Tmp \in Names /\ Main # Tmp
           /\ Names = {Main, Tmp}
           /\ store \in [Names -> PVs] /\ store[Main] \in PVs /\ store[Tmp] \in PVs
  BY DEF TypeOK, Names, Main, Tmp

LEMMA NoWriteSame == NoWrite => \A n \in Names : SameVolume(n)
  BY DEF NoWrite, SameVolume

\* A write of one PV leaves the other alone.
LEMMA WriteOther ==
    ASSUME TypeOK, NEW n \in Names, NEW pv, WritePV(n, pv)
    PROVE  /\ store'[n] = pv
           /\ \A m \in Names : m # n => store'[m] = store[m] /\ SameVolume(m)
  BY StoreType DEF WritePV, SameVolume

LEMMA DeleteEffect ==
    ASSUME TypeOK, NEW n \in Names, AcceptDelete(n)
    PROVE  /\ Dropped(n)
           /\ \A m \in Names : m # n => SameVolume(m)
<1> DEFINE gone == [store[n] EXCEPT !.deleting = TRUE]
<1>1. store[n] \in PVs
  BY StoreType
<1>2. /\ gone.kind = store[n].kind /\ gone.dirs = store[n].dirs /\ gone.deleting
      /\ NoPV.kind = "none"
  BY <1>1 DEF PVs, NoPV
<1>3. WritePV(n, NoPV) \/ WritePV(n, gone)
  BY DEF AcceptDelete
<1> HIDE DEF gone
<1> QED BY <1>2, <1>3, WriteOther DEF Dropped, Removed

LEMMA ClearEffect ==
    ASSUME TypeOK, NEW n \in Names, ClearFinalizers(n)
    PROVE  /\ (store[n].deleting /\ Removed(n)) \/ SameVolume(n)
           /\ \A m \in Names : m # n => SameVolume(m)
<1>1. NoPV.kind = "none"
  BY DEF NoPV
<1>2. \/ WritePV(n, store[n])
      \/ WritePV(n, NoPV) /\ store[n].deleting
      \/ NoWrite
  BY DEF ClearFinalizers
<1>3. CASE WritePV(n, store[n])
  BY <1>3, WriteOther DEF SameVolume
<1>4. CASE WritePV(n, NoPV) /\ store[n].deleting
  BY <1>1, <1>4, WriteOther DEF Removed
<1>5. CASE NoWrite
  BY <1>5, NoWriteSame
<1> QED BY <1>2, <1>3, <1>4, <1>5

LEMMA CreateEffect ==
    ASSUME TypeOK, NEW n \in Names, NEW pv \in PVs, NEW ok \in BOOLEAN,
           CreateCSIHostPathPV(n, pv, ok)
    PROVE  /\ Created(n, pv) \/ (SameVolume(n) /\ ~ok)
           /\ (~ok /\ Created(n, pv)) => "lost" \in Faults
           /\ ~ok => \/ store[n].kind # "none"
                  \/ "refused" \in Faults \/ "lost" \in Faults
           /\ \A m \in Names : m # n => SameVolume(m)
<1>1. /\ CSIFrom(pv).kind = "csi" /\ ~CSIFrom(pv).deleting
      /\ CSIFrom(pv).dirs = pv.dirs
  BY DEF CSIFrom, PVs
<1>2. CASE ok /\ store[n].kind = "none" /\ WritePV(n, CSIFrom(pv))
  BY <1>1, <1>2, WriteOther DEF Created
<1>3. CASE /\ ~ok /\ NoWrite
           /\ store[n].kind # "none" \/ "refused" \in Faults
  BY <1>3, NoWriteSame DEF Created, SameVolume
<1>4. CASE /\ ~ok /\ "lost" \in Faults /\ store[n].kind = "none"
           /\ WritePV(n, CSIFrom(pv))
  BY <1>1, <1>4, WriteOther DEF Created
<1> QED BY <1>2, <1>3, <1>4 DEF CreateCSIHostPathPV, May

\* The steps that write only the lock.
LEMMA LockWritesSame ==
    ASSUME TypeOK, NEW h \in Hosts,
           \/ StepCheck(h) \/ StepCheckUpdate(h)
           \/ UndoCheck(h) \/ UndoCheckUpdate(h)
    PROVE  \A n \in Names : SameVolume(n)
<1>s. store[Main] \in PVs
  BY StoreType
<1>1. ASSUME NEW pv, WritePV(Main, pv), pv.kind = store[Main].kind,
             pv.dirs = store[Main].dirs, pv.deleting = store[Main].deleting,
             store[Main].bound => pv.bound
      PROVE  \A n \in Names : SameVolume(n)
  BY <1>1, StoreType, WriteOther DEF SameVolume
<1>2. CASE StepCheckUpdate(h)
  <2> DEFINE locked == [store[Main] EXCEPT !.owner = h, !.started = "live"]
  <2>1. WritePV(Main, locked) \/ NoWrite
    BY <1>2 DEF StepCheckUpdate
  <2>2. /\ locked.kind = store[Main].kind /\ locked.dirs = store[Main].dirs
        /\ locked.deleting = store[Main].deleting
        /\ locked.bound = store[Main].bound
    BY <1>s DEF PVs
  <2> HIDE DEF locked
  <2> QED BY <1>1, <2>1, <2>2, NoWriteSame
<1>3. CASE UndoCheckUpdate(h)
  <2> DEFINE free == [store[Main] EXCEPT !.owner = NoHost, !.started = "none"]
  <2>1. WritePV(Main, free) \/ NoWrite
    BY <1>3 DEF UndoCheckUpdate
  <2>2. /\ free.kind = store[Main].kind /\ free.dirs = store[Main].dirs
        /\ free.deleting = store[Main].deleting
        /\ free.bound = store[Main].bound
    BY <1>s DEF PVs
  <2> HIDE DEF free
  <2> QED BY <1>1, <2>1, <2>2, NoWriteSame
<1>4. CASE StepCheck(h) \/ UndoCheck(h)
  <2>1. UNCHANGED store
    BY <1>4 DEF StepCheck, UndoCheck, NoWrite
  <2> QED BY <2>1 DEF SameVolume
<1> QED BY <1>2, <1>3, <1>4

\* A step of the surroundings that concerns neither the runs nor what the PVs
\* are and list.
Aside ==
    /\ UNCHANGED <<pc, undo, failed, snap, todo, made, waitBound, mounted, late>>
    /\ \A n \in Names : SameVolume(n)

LEMMA AsideSteps ==
    ASSUME TypeOK,
           \/ \E h \in Hosts : Stop(h) \/ TimerFires(h)
           \/ \E d \in Dirs : ChangePod(d) \/ Clean(d)
           \/ LeaseExpires \/ Bind \/ UNCHANGED vars
    PROVE  Aside
<1> USE DEF nodeVars, runVars, workVars
<1>s. store[Main] \in PVs
  BY StoreType
<1>1. CASE \/ \E h \in Hosts : Stop(h) \/ TimerFires(h)
           \/ \E d \in Dirs : ChangePod(d) \/ Clean(d)
  <2>1. /\ NoWrite
        /\ UNCHANGED <<pc, undo, failed, snap, todo, made, waitBound, mounted,
                       late>>
    BY <1>1 DEF Stop, TimerFires, ChangePod, PodRuns, EvictPod, PodGoes, Clean
  <2> QED BY <2>1, NoWriteSame DEF Aside
<1>2. CASE LeaseExpires
  <2>1. \A n \in Names : SameVolume(n)
    BY <1>2, <1>s, StoreType DEF LeaseExpires, SameVolume, PVs
  <2> QED BY <1>2, <2>1 DEF LeaseExpires, Aside
<1>3. CASE Bind
  <2> DEFINE pv == [store[Main] EXCEPT !.bound = TRUE]
  <2>1. WritePV(Main, pv)
    BY <1>3 DEF Bind
  <2>2. /\ pv.kind = store[Main].kind /\ pv.dirs = store[Main].dirs
        /\ pv.deleting = store[Main].deleting /\ pv.bound
    BY <1>s DEF PVs
  <2> HIDE DEF pv
  <2>3. \A n \in Names : SameVolume(n)
    BY <2>1, <2>2, StoreType, WriteOther DEF SameVolume
  <2> QED BY <1>3, <2>3 DEF Bind, Aside
<1>4. CASE UNCHANGED vars
  BY <1>4 DEF vars, Aside, SameVolume
<1> QED BY <1>1, <1>2, <1>3, <1>4

-----------------------------------------------------------------------------
(* The invariants.                                                         *)

\* The replica stands between the creation of its tmp PV and the request that
\* deletes it.
HasTmp(h) == undo[h] >= 3 /\ ~(pc[h] = "UndoPoll" /\ undo[h] = 3)

\* The tmp PV is there for whoever has it, and one replica has it: its fixed
\* name is a second lock, which no lease takes away.
TmpInv ==
    /\ \A h \in Hosts :
          HasTmp(h) => store[Tmp].kind = "csi" /\ ~store[Tmp].deleting
    /\ \A g, h \in Hosts : HasTmp(g) /\ HasTmp(h) => g = h

\* The replica has put the CSI PV in the place of the old one, without error
\* so far.
HasReplaced(h) ==
    \/ pc[h] \in {"WaitBound", "BoundPoll", "RestartPods"}
    \/ pc[h] \in {"Undo", "UndoPoll"} /\ undo[h] >= 3 /\ ~failed[h]

\* The replica deletes the old PV or has deleted it.
Deletes(h) == undo[h] >= 4 \/ pc[h] \in {"DeleteCall", "DeletePoll"}

\* The new PV of a replica stands until its run is over.
ReplacedInv ==
    \A h \in Hosts : HasReplaced(h) =>
       /\ store[Main].kind = "csi" /\ ~store[Main].deleting
       /\ \A g \in Hosts : Deletes(g) => g = h

\* The old PV is away or on its way out.
OldDropped == store[Main].kind # "hostpath" \/ store[Main].deleting

\* Every directory in use is listed by the PV, or by the copy a new PV is
\* going to be made from.
TakenInv ==
    /\ store[Main].kind = "hostpath" => mounted \subseteq store[Main].dirs
    /\ DirsTakenOver
    /\ \A h \in Hosts :
          /\ pc[h] \in {"DeleteCall", "DeletePoll", "CSIPV"}
                => mounted \subseteq snap[h].dirs \cup late
          /\ pc[h] \in {"DeletePoll", "CSIPV"} => OldDropped

\* No directory is ever added, so whoever lists any lists them all.
WholeInv ==
    /\ late = {}
    /\ \A n \in Names : store[n].kind # "none" => store[n].dirs = Dirs
    /\ \A h \in Hosts :
          pc[h] \in {"TmpPVCreate", "DeleteCall", "DeletePoll", "CSIPV"}
             => snap[h].dirs = Dirs

\* A replica that waited for the new PV has found it bound, and then restarts
\* every pod.
RestartInv ==
    \A h \in Hosts : waitBound[h] =>
       /\ pc[h] = "RestartPods" => store[Main].bound
       /\ pc[h] = "Undo" /\ undo[h] = 5 /\ ~failed[h] => mounted = {}

Undoes == {"Undo", "UndoPoll", "UndoUpdate"}

\* While the old PV is away, the replica that deleted it is about to create
\* the new one, or the tmp PV stays for good.
AwayInv ==
    /\ \A h \in Hosts : /\ ~timedOut[h] /\ ~stopping[h]
                        /\ failed[h] => undo[h] <= 3 /\ pc[h] \in Undoes
                        /\ pc[h] = "CSIPV" => store[Main].kind = "none"
    /\ store[Main].kind = "none" \/ store[Main].deleting
          => /\ store[Tmp].kind = "csi" /\ ~store[Tmp].deleting
             /\ \A h \in Hosts : HasTmp(h) => pc[h] \in {"DeletePoll", "CSIPV"}

\* The cleaner finds every marked directory listed.
CleanInv == suspect = {} /\ disk = Dirs

\* The directories that carry the CSI mark or have a pod that may write it.
Marks == marked \cup {d \in Dirs : pods[d] # "absent"}

\* What is marked is listed by the PV, by the copies of it and by the tmp PV,
\* also where directories are added: no replica marks any while another one
\* carries a copy.
MarkInv ==
    /\ store[Main].kind \in {"hostpath", "csi"} => Marks \subseteq store[Main].dirs
    /\ \A h \in Hosts :
          /\ pc[h] = "ChangePodCreate" =>
                /\ store[Main].kind # "csi"
                /\ store[Main].kind = "hostpath" => todo[h] \subseteq store[Main].dirs
          /\ pc[h] \in {"TmpPVCreate", "DeleteCall", "DeletePoll", "CSIPV"}
                => Marks \subseteq snap[h].dirs
          /\ HasTmp(h) => Marks \subseteq store[Tmp].dirs

\* What a run has made, it still answers for.
LeftInv ==
    /\ store[Tmp].kind # "none" => \E h \in Hosts : undo[h] >= 3
    /\ \A d \in Dirs : pods[d] # "absent" => \E h \in Hosts : d \in made[h]
    /\ \A h \in Hosts : made[h] # {} => undo[h] >= 2

-----------------------------------------------------------------------------
(* The tmp PV keeps replicas apart.                                        *)

\* A step that leaves the tmp PV alone and gives nobody one.
TmpQuiet ==
    /\ SameVolume(Tmp)
    /\ \A g \in Hosts : HasTmp(g)' => HasTmp(g)

LEMMA TmpQuietKeeps == TmpInv /\ TmpQuiet => TmpInv'
  BY DEF TmpInv, TmpQuiet, SameVolume

\* Control: no step but CreateTmpPV brings a replica to where it has one.
LEMMA TmpControl ==
    ASSUME TypeOK, UndoMatchesStep, NEW h \in Hosts,
           Pipeline(h) \/ Crash(h), ~CreateTmpPV(h)
    PROVE  \A g \in Hosts : HasTmp(g)' => HasTmp(g)
<1> USE DEF Goto, Fail, Advance, NextUndo, Undoing, Enters, Forget,
            StepStarts, UndoMatchesStep, HasTmp
<1>t. pc \in [Hosts -> Locations] /\ undo \in [Hosts -> 0 .. 5]
  BY DEF TypeOK
<1>1. CASE Abort(h) \/ StepCheck(h) \/ StepCheckUpdate(h)
  BY <1>t, <1>1 DEF Abort, StepCheck, StepCheckUpdate
<1>2. CASE StepChangePod(h) \/ CreateChangePod(h) \/ WaitPodQuit(h)
  BY <1>t, <1>2 DEF StepChangePod, CreateChangePod, WaitPodQuit
<1>3. CASE StepCreateTmpPV(h) \/ StepDeleteOldPV(h)
  BY <1>t, <1>3 DEF StepCreateTmpPV, StepDeleteOldPV
<1>4. CASE DeleteOldPV(h) \/ DeleteOldPVPoll(h)
  BY <1>t, <1>4 DEF DeleteOldPV, DeleteOldPVPoll
<1>5. CASE StepCreateCSIPV(h)
  <2>1. /\ pc[h] = "CSIPV"
        /\ Advance(h, "WaitBound", 5) \/ (Fail(h) /\ UNCHANGED undo)
    BY <1>5 DEF StepCreateCSIPV
  <2> QED BY <1>t, <2>1
<1>6. CASE StepWaitCSIPVBound(h) \/ WaitPVBound(h) \/ StepRestartPods(h)
  BY <1>t, <1>6 DEF StepWaitCSIPVBound, WaitPVBound, StepRestartPods
<1>7. CASE \/ UndoNothing(h) \/ UndoDeleteOldPV(h) \/ UndoChangePod(h)
           \/ UndoChangePodPoll(h)
  BY <1>t, <1>7
     DEF UndoNothing, UndoDeleteOldPV, UndoChangePod, UndoChangePodPoll,
         PodsUndone
<1>8. CASE UndoCreatePV(h) \/ UndoCreatePVPoll(h)
  <2>1. \/ /\ Undoing(h, 3) \/ Undoing(h, 5)
           /\ (Goto(h, "UndoPoll") /\ UNCHANGED undo) \/ NextUndo(h)
        \/ /\ pc[h] = "UndoPoll"
           /\ UNCHANGED <<pc, undo>> \/ NextUndo(h)
    BY <1>8 DEF UndoCreatePV, UndoCreatePVPoll
  <2> QED BY <1>t, <2>1
<1>9. CASE UndoCheck(h) \/ UndoCheckUpdate(h)
  BY <1>t, <1>9 DEF UndoCheck, UndoCheckUpdate
<1>10. CASE Finish(h) \/ Crash(h)
  BY <1>t, <1>10 DEF Finish, Crash
<1> QED BY <1>1, <1>2, <1>3, <1>4, <1>5, <1>6, <1>7, <1>8, <1>9, <1>10
        DEF Pipeline

\* Where the steps of a run write: the steps of the lock and of Main leave
\* the tmp PV alone.
LEMMA TmpUntouched ==
    ASSUME TypeOK, NEW h \in Hosts,
           Pipeline(h) \/ Crash(h) \/ Start(h, TRUE) \/ Start(h, FALSE),
           ~CreateTmpPV(h), ~((UndoCreatePV(h) \/ UndoCreatePVPoll(h)) /\ undo[h] # 5)
    PROVE  SameVolume(Tmp)
<1>1. CASE NoWrite
  BY <1>1, NoWriteSame, StoreType
<1>2. CASE StepCheck(h) \/ StepCheckUpdate(h) \/ UndoCheck(h) \/ UndoCheckUpdate(h)
  BY <1>2, LockWritesSame, StoreType
<1>3. CASE DeleteOldPV(h) \/ DeleteOldPVPoll(h)
  <2>1. NoWrite \/ AcceptDelete(Main) \/ ClearFinalizers(Main)
    BY <1>3 DEF DeleteOldPV, DeleteOldPVPoll
  <2> QED BY <1>1, <2>1, DeleteEffect, ClearEffect, StoreType
<1>4. CASE StepCreateCSIPV(h)
  <2>1. \E ok \in BOOLEAN : CreateCSIHostPathPV(Main, snap[h], ok)
    BY <1>4 DEF StepCreateCSIPV
  <2>2. snap[h] \in PVs
    BY DEF TypeOK
  <2> QED BY <2>1, <2>2, CreateEffect, StoreType
<1>5. CASE (UndoCreatePV(h) \/ UndoCreatePVPoll(h)) /\ undo[h] = 5
  <2>1. NoWrite \/ AcceptDelete(Main) \/ ClearFinalizers(Main)
    BY <1>5 DEF UndoCreatePV, UndoCreatePVPoll, UndoPV
  <2> QED BY <1>1, <2>1, DeleteEffect, ClearEffect, StoreType
<1>6. CASE Finish(h) \/ Crash(h)
  BY <1>6 DEF Finish, Crash, Forget, SameVolume
<1>7. CASE \/ Abort(h) \/ StepChangePod(h) \/ CreateChangePod(h)
           \/ WaitPodQuit(h) \/ StepCreateTmpPV(h) \/ StepDeleteOldPV(h)
           \/ StepWaitCSIPVBound(h) \/ WaitPVBound(h) \/ StepRestartPods(h)
           \/ UndoNothing(h) \/ UndoDeleteOldPV(h) \/ UndoChangePod(h)
           \/ UndoChangePodPoll(h)
           \/ Start(h, TRUE) \/ Start(h, FALSE)
  <2>1. NoWrite
    BY <1>7 DEF Abort, StepChangePod, CreateChangePod, WaitPodQuit,
                StepCreateTmpPV, StepDeleteOldPV, StepWaitCSIPVBound,
                WaitPVBound, StepRestartPods, UndoNothing, UndoDeleteOldPV,
                CreateVersioned, UndoChangePod, UndoChangePodPoll, PodsUndone, Start
  <2> QED BY <1>1, <2>1
<1> QED BY <1>2, <1>3, <1>4, <1>5, <1>6, <1>7 DEF Pipeline

LEMMA TmpStep ==
    ASSUME TypeOK, UndoMatchesStep, TmpInv, [Next]_vars
    PROVE  TmpInv'
<1>t. /\ pc \in [Hosts -> Locations] /\ undo \in [Hosts -> 0 .. 5]
      /\ snap \in [Hosts -> PVs]
  BY DEF TypeOK
<1>c. ASSUME UNCHANGED <<pc, undo>> PROVE \A g \in Hosts : HasTmp(g)' <=> HasTmp(g)
  BY <1>c DEF HasTmp
<1>1. ASSUME NEW h \in Hosts, CreateTmpPV(h) PROVE TmpInv'
  <2>1. \/ /\ CreateCSIHostPathPV(Tmp, snap[h], TRUE)
           /\ Advance(h, "DeleteOld", 3)
        \/ /\ CreateCSIHostPathPV(Tmp, snap[h], FALSE)
           /\ Fail(h) /\ UNCHANGED undo
    BY <1>1 DEF CreateTmpPV
  <2>2. \A g \in Hosts : g # h => HasTmp(g)' = HasTmp(g)
    BY <2>1, <1>t DEF Advance, Fail, Goto, HasTmp
  <2>3. CASE Created(Tmp, snap[h])
    <3>1. \A g \in Hosts : ~HasTmp(g)
      BY <2>3 DEF Created, TmpInv
    <3> QED BY <2>2, <2>3, <3>1 DEF Created, TmpInv
  <2>4. CASE SameVolume(Tmp) /\ Fail(h) /\ UNCHANGED undo
    <3>1. HasTmp(h)' => HasTmp(h)
      BY <1>1, <2>4, <1>t DEF CreateTmpPV, Fail, Goto, HasTmp, UndoMatchesStep
    <3> QED BY <2>2, <2>4, <3>1, TmpQuietKeeps DEF TmpQuiet
  <2> QED BY <2>1, <2>3, <2>4, <1>t, CreateEffect, StoreType
<1>2. ASSUME NEW h \in Hosts, UndoCreatePV(h) \/ UndoCreatePVPoll(h), undo[h] # 5
      PROVE  TmpInv'
  <2>1. UndoPV(h) = Tmp /\ undo[h] = 3
    BY <1>2 DEF UndoPV, UndoCreatePV, UndoCreatePVPoll, Undoing, UndoMatchesStep
  <2>2. \A g \in Hosts : HasTmp(g)' => HasTmp(g)
    BY <1>2, TmpControl DEF Pipeline, CreateTmpPV, UndoCreatePV, UndoCreatePVPoll, Undoing
  <2>3. CASE UndoCreatePV(h)
    <3>1. HasTmp(h)
      BY <2>1, <2>3 DEF HasTmp, UndoCreatePV, Undoing
    <3>2. ~HasTmp(h)'
      BY <2>1, <2>3, <1>t DEF HasTmp, UndoCreatePV, NextUndo, Goto
    <3>3. \A g \in Hosts : ~HasTmp(g)'
      BY <2>2, <3>1, <3>2 DEF TmpInv
    <3> QED BY <3>3 DEF TmpInv
  <2>4. CASE UndoCreatePVPoll(h)
    <3>1. NoWrite \/ ClearFinalizers(Tmp)
      BY <2>1, <2>4 DEF UndoCreatePVPoll
    <3>2. SameVolume(Tmp) \/ store[Tmp].deleting
      BY <3>1, NoWriteSame, ClearEffect, StoreType
    <3>3. CASE store[Tmp].deleting
      BY <2>2, <3>3 DEF TmpInv
    <3> QED BY <2>2, <3>2, <3>3, TmpQuietKeeps DEF TmpQuiet
  <2> QED BY <1>2, <2>3, <2>4
<1>3. ASSUME NEW h \in Hosts, Pipeline(h) PROVE TmpInv'
  <2>1. CASE CreateTmpPV(h) \/ ((UndoCreatePV(h) \/ UndoCreatePVPoll(h)) /\ undo[h] # 5)
    BY <2>1, <1>1, <1>2
  <2>2. CASE ~(CreateTmpPV(h) \/ ((UndoCreatePV(h) \/ UndoCreatePVPoll(h)) /\ undo[h] # 5))
    BY <1>3, <2>2, TmpControl, TmpUntouched, TmpQuietKeeps DEF TmpQuiet
  <2> QED BY <2>1, <2>2
<1>4. ASSUME NEW h \in Hosts, NEW wait \in BOOLEAN, Start(h, wait) PROVE TmpInv'
  <2>1. SameVolume(Tmp)
    BY <1>4, NoWriteSame, StoreType DEF Start
  <2>2. \A g \in Hosts : HasTmp(g)' => HasTmp(g)
    BY <1>4, <1>t DEF Start, Goto, HasTmp
  <2> QED BY <2>1, <2>2, TmpQuietKeeps DEF TmpQuiet
<1>5. ASSUME NEW h \in Hosts, Crash(h) PROVE TmpInv'
  <2>1. SameVolume(Tmp)
    BY <1>5 DEF Crash, Forget, SameVolume
  <2>2. \A g \in Hosts : HasTmp(g)' => HasTmp(g)
    BY <1>5, <1>t DEF Crash, Forget, Goto, HasTmp
  <2> QED BY <2>1, <2>2, TmpQuietKeeps DEF TmpQuiet
<1>6. ASSUME NEW n \in Names, Terminate(n) PROVE TmpInv'
  <2>1. UNCHANGED <<pc, undo>> /\ store[n].deleting /\ WritePV(n, NoPV)
    BY <1>6 DEF Terminate
  <2>2. CASE n = Tmp
    BY <1>c, <2>1, <2>2 DEF TmpInv
  <2>3. CASE n = Main
    BY <1>c, <2>1, <2>3, WriteOther, StoreType, TmpQuietKeeps DEF TmpQuiet
  <2> QED BY <2>2, <2>3, StoreType
<1>7. ASSUME NEW d \in Dirs, RecordDir(d) PROVE TmpInv'
  <2>1. UNCHANGED <<pc, undo>> /\ SameVolume(Tmp)
    BY <1>7, WriteOther, StoreType DEF RecordDir
  <2> QED BY <1>c, <2>1, TmpQuietKeeps DEF TmpQuiet
<1>8. CASE Aside
  BY <1>c, <1>8, StoreType, TmpQuietKeeps DEF Aside, TmpQuiet
<1> QED BY <1>3, <1>4, <1>5, <1>6, <1>7, <1>8, AsideSteps DEF Next, Environment

-----------------------------------------------------------------------------
(* What becomes of Main and of the copies of it.                           *)

\* How the steps of a run lead to HasReplaced and to Deletes.
LEMMA MainControl ==
    ASSUME TypeOK, UndoMatchesStep, NEW h \in Hosts, Pipeline(h) \/ Crash(h)
    PROVE  \A g \in Hosts :
              /\ HasReplaced(g)' => HasReplaced(g) \/ (g = h /\ StepCreateCSIPV(h))
              /\ Deletes(g)' => \/ Deletes(g)
                                \/ g = h /\ store[Main].kind = "hostpath"
<1> USE DEF Goto, Fail, Advance, NextUndo, Undoing, Enters, Forget,
            StepStarts, UndoMatchesStep, HasReplaced, Deletes
<1>t. /\ pc \in [Hosts -> Locations] /\ undo \in [Hosts -> 0 .. 5]
      /\ failed \in [Hosts -> BOOLEAN]
  BY DEF TypeOK
<1>1. CASE Abort(h) \/ StepCheck(h) \/ StepCheckUpdate(h)
  BY <1>t, <1>1 DEF Abort, StepCheck, StepCheckUpdate
<1>2. CASE StepChangePod(h) \/ CreateChangePod(h) \/ WaitPodQuit(h)
  BY <1>t, <1>2 DEF StepChangePod, CreateChangePod, WaitPodQuit
<1>3. CASE StepCreateTmpPV(h)
  BY <1>t, <1>3 DEF StepCreateTmpPV
<1>4. CASE CreateTmpPV(h)
  <2>1. /\ pc[h] = "TmpPVCreate"
        /\ Advance(h, "DeleteOld", 3) \/ (Fail(h) /\ UNCHANGED undo)
    BY <1>4 DEF CreateTmpPV
  <2> QED BY <1>t, <2>1
<1>5. CASE StepDeleteOldPV(h)
  BY <1>t, <1>5 DEF StepDeleteOldPV
<1>6. CASE DeleteOldPV(h) \/ DeleteOldPVPoll(h)
  BY <1>t, <1>6 DEF DeleteOldPV, DeleteOldPVPoll
<1>7. CASE StepCreateCSIPV(h)
  <2>1. /\ pc[h] = "CSIPV"
        /\ Advance(h, "WaitBound", 5) \/ (Fail(h) /\ UNCHANGED undo)
    BY <1>7 DEF StepCreateCSIPV
  <2> QED BY <1>t, <1>7, <2>1
<1>8. CASE StepWaitCSIPVBound(h) \/ WaitPVBound(h) \/ StepRestartPods(h)
  BY <1>t, <1>8 DEF StepWaitCSIPVBound, WaitPVBound, StepRestartPods
<1>9. CASE \/ UndoNothing(h) \/ UndoDeleteOldPV(h) \/ UndoChangePod(h)
           \/ UndoChangePodPoll(h)
  BY <1>t, <1>9
     DEF UndoNothing, UndoDeleteOldPV, UndoChangePod, UndoChangePodPoll,
         PodsUndone
<1>10. CASE UndoCreatePV(h) \/ UndoCreatePVPoll(h)
  <2>1. \/ /\ Undoing(h, 3) \/ (Undoing(h, 5) /\ failed[h])
           /\ (Goto(h, "UndoPoll") /\ UNCHANGED <<undo, failed>>) \/ NextUndo(h)
        \/ /\ pc[h] = "UndoPoll"
           /\ UNCHANGED <<pc, undo, failed>> \/ NextUndo(h)
    BY <1>10 DEF UndoCreatePV, UndoCreatePVPoll
  <2> QED BY <1>t, <2>1
<1>11. CASE UndoCheck(h) \/ UndoCheckUpdate(h)
  BY <1>t, <1>11 DEF UndoCheck, UndoCheckUpdate
<1>12. CASE Finish(h) \/ Crash(h)
  BY <1>t, <1>12 DEF Finish, Crash
<1> QED BY <1>1, <1>2, <1>3, <1>4, <1>5, <1>6, <1>7, <1>8, <1>9, <1>10, <1>11,
           <1>12 DEF Pipeline

\* Only a replica that deletes the old PV does more to Main than to write the
\* lock, and the one that is about to create the new one only creates it.
LEMMA MainWrites ==
    ASSUME TypeOK, UndoMatchesStep, NEW h \in Hosts, Pipeline(h) \/ Crash(h)
    PROVE  \/ SameVolume(Main)
           \/ /\ Deletes(h) /\ Dropped(Main)
              /\ HasReplaced(h) => store[Main].deleting
           \/ /\ pc[h] = "CSIPV" /\ Created(Main, snap[h])
              /\ StepCreateCSIPV(h)
<1>1. CASE NoWrite
  BY <1>1, NoWriteSame, StoreType
<1>2. CASE StepCheck(h) \/ StepCheckUpdate(h) \/ UndoCheck(h) \/ UndoCheckUpdate(h)
  BY <1>2, LockWritesSame, StoreType
<1>3. CASE DeleteOldPV(h) \/ DeleteOldPVPoll(h)
  <2>1. NoWrite \/ AcceptDelete(Main) \/ ClearFinalizers(Main)
    BY <1>3 DEF DeleteOldPV, DeleteOldPVPoll
  <2>2. pc[h] \in {"DeleteCall", "DeletePoll"}
    BY <1>3 DEF DeleteOldPV, DeleteOldPVPoll
  <2> QED BY <1>1, <2>1, <2>2, DeleteEffect, ClearEffect, StoreType
          DEF Deletes, HasReplaced, Dropped
<1>4. CASE StepCreateCSIPV(h)
  <2>1. /\ pc[h] = "CSIPV"
        /\ \E ok \in BOOLEAN : CreateCSIHostPathPV(Main, snap[h], ok)
    BY <1>4 DEF StepCreateCSIPV, Enters
  <2>2. snap[h] \in PVs
    BY DEF TypeOK
  <2> QED BY <1>4, <2>1, <2>2, CreateEffect, StoreType
<1>5. CASE UndoCreatePV(h) \/ UndoCreatePVPoll(h)
  <2>1. CASE undo[h] = 5
    <3>1. UndoPV(h) = Main
      BY <2>1 DEF UndoPV
    <3>2. \/ NoWrite
          \/ AcceptDelete(Main) /\ pc[h] = "Undo" /\ failed[h]
          \/ ClearFinalizers(Main)
      BY <1>5, <2>1, <3>1 DEF UndoCreatePV, UndoCreatePVPoll, Undoing
    <3> QED BY <1>1, <2>1, <3>2, DeleteEffect, ClearEffect, StoreType
            DEF Deletes, HasReplaced, Dropped
  <2>2. CASE undo[h] # 5
    <3>1. UndoPV(h) = Tmp
      BY <2>2 DEF UndoPV
    <3>2. NoWrite \/ AcceptDelete(Tmp) \/ ClearFinalizers(Tmp)
      BY <1>5, <3>1 DEF UndoCreatePV, UndoCreatePVPoll
    <3> QED BY <1>1, <3>2, DeleteEffect, ClearEffect, StoreType
  <2> QED BY <2>1, <2>2
<1>6. CASE CreateTmpPV(h)
  <2>1. \E ok \in BOOLEAN : CreateCSIHostPathPV(Tmp, snap[h], ok)
    BY <1>6 DEF CreateTmpPV
  <2>2. snap[h] \in PVs
    BY DEF TypeOK
  <2> QED BY <2>1, <2>2, CreateEffect, StoreType
<1>7. CASE Finish(h) \/ Crash(h)
  BY <1>7 DEF Finish, Crash, Forget, SameVolume
<1>8. CASE \/ Abort(h) \/ StepChangePod(h) \/ CreateChangePod(h)
           \/ WaitPodQuit(h) \/ StepCreateTmpPV(h) \/ StepDeleteOldPV(h)
           \/ StepWaitCSIPVBound(h) \/ WaitPVBound(h) \/ StepRestartPods(h)
           \/ UndoNothing(h) \/ UndoDeleteOldPV(h) \/ UndoChangePod(h)
           \/ UndoChangePodPoll(h)
  <2>1. NoWrite
    BY <1>8 DEF Abort, StepChangePod, CreateChangePod, WaitPodQuit,
                StepCreateTmpPV, StepDeleteOldPV, StepWaitCSIPVBound,
                WaitPVBound, StepRestartPods, UndoNothing, UndoDeleteOldPV,
                CreateVersioned, UndoChangePod, UndoChangePodPoll, PodsUndone
  <2> QED BY <1>1, <2>1
<1> QED BY <1>2, <1>3, <1>4, <1>5, <1>6, <1>7, <1>8 DEF Pipeline

\* The steps that are not of a run, and start none.
LEMMA NextCases ==
    ASSUME TypeOK, [Next]_vars
    PROVE  \/ \E h \in Hosts : Pipeline(h) \/ Crash(h)
           \/ \E h \in Hosts, wait \in BOOLEAN : Start(h, wait)
           \/ \E d \in Dirs : RecordDir(d)
           \/ \E n \in Names : Terminate(n)
           \/ Aside
  BY AsideSteps DEF Next, Environment

\* Terminate takes away what is marked for deletion, and no more.
LEMMA TerminateEffect ==
    ASSUME TypeOK, NEW n \in Names, Terminate(n)
    PROVE  /\ store[n].deleting /\ Removed(n)
           /\ \A m \in Names : m # n => SameVolume(m)
           /\ UNCHANGED <<pc, undo, failed, snap, todo, made, waitBound, pods,
                          mounted, late>>
  BY WriteOther DEF Terminate, Removed, NoPV, nodeVars, workVars, runVars

\* A PV a replica has put in the place of the old one stays as it is.
LEMMA ReplacedStands ==
    ASSUME TypeOK, UndoMatchesStep, ReplacedInv, [Next]_vars,
           NEW h \in Hosts, HasReplaced(h)
    PROVE  SameVolume(Main)
<1>r. /\ store[Main].kind = "csi" /\ ~store[Main].deleting
      /\ \A g \in Hosts : Deletes(g) => g = h
  BY DEF ReplacedInv
<1>1. ASSUME NEW g \in Hosts, Pipeline(g) \/ Crash(g) PROVE SameVolume(Main)
  BY <1>1, <1>r, MainWrites DEF Created
<1>2. ASSUME NEW g \in Hosts, NEW wait \in BOOLEAN, Start(g, wait)
      PROVE  SameVolume(Main)
  BY <1>2, NoWriteSame, StoreType DEF Start
<1>3. ASSUME NEW d \in Dirs, RecordDir(d) PROVE SameVolume(Main)
  BY <1>3, <1>r DEF RecordDir
<1>4. ASSUME NEW n \in Names, Terminate(n) PROVE SameVolume(Main)
  BY <1>4, <1>r, TerminateEffect, StoreType
<1>5. CASE Aside
  BY <1>5, StoreType DEF Aside
<1> QED BY <1>1, <1>2, <1>3, <1>4, <1>5, NextCases

LEMMA ReplacedStep ==
    ASSUME TypeOK, UndoMatchesStep, TmpInv, ReplacedInv, [Next]_vars
    PROVE  ReplacedInv'
<1>t. pc \in [Hosts -> Locations] /\ undo \in [Hosts -> 0 .. 5]
  BY DEF TypeOK
<1>1. ASSUME NEW h \in Hosts, HasReplaced(h)',
             HasReplaced(h), \A g \in Hosts : Deletes(g)' =>
                Deletes(g) \/ store[Main].kind = "hostpath"
      PROVE  /\ store'[Main].kind = "csi" /\ ~store'[Main].deleting
             /\ \A g \in Hosts : Deletes(g)' => g = h
  BY <1>1, ReplacedStands DEF ReplacedInv, SameVolume
<1>2. ASSUME NEW g \in Hosts, Pipeline(g) \/ Crash(g) PROVE ReplacedInv'
  <2> SUFFICES ASSUME NEW h \in Hosts, HasReplaced(h)'
               PROVE  /\ store'[Main].kind = "csi" /\ ~store'[Main].deleting
                      /\ \A k \in Hosts : Deletes(k)' => k = h
    BY DEF ReplacedInv
  <2>1. CASE HasReplaced(h)
    BY <1>1, <1>2, <2>1, MainControl
  <2>2. CASE ~HasReplaced(h)
    <3>1. g = h /\ StepCreateCSIPV(h)
      BY <1>2, <2>2, MainControl
    <3>2. pc[h] = "CSIPV" /\ undo[h] = 4
      BY <3>1 DEF StepCreateCSIPV, Enters, UndoMatchesStep
    <3>3. \/ CreateCSIHostPathPV(Main, snap[h], TRUE)
          \/ Fail(h) /\ UNCHANGED undo
      BY <3>1 DEF StepCreateCSIPV
    <3>4. ~(Fail(h) /\ UNCHANGED undo)
      BY <1>t, <2>2, <3>2 DEF Fail, Goto, HasReplaced, TypeOK
    <3>5. Created(Main, snap[h])
      BY <3>3, <3>4, CreateEffect, StoreType DEF TypeOK
    <3>6. \A k \in Hosts : Deletes(k) => k = h
      BY <1>t, <3>2 DEF Deletes, TmpInv, HasTmp, UndoMatchesStep
    <3>7. store[Main].kind = "none"
      BY <3>5 DEF Created
    <3> QED BY <1>2, <3>5, <3>6, <3>7, MainControl DEF Created
  <2> QED BY <2>1, <2>2
<1>3. ASSUME NEW g \in Hosts, NEW wait \in BOOLEAN, Start(g, wait)
      PROVE  ReplacedInv'
  <2>1. \A h \in Hosts : /\ HasReplaced(h)' => HasReplaced(h)
                         /\ Deletes(h)' => Deletes(h)
    BY <1>3, <1>t DEF Start, Goto, HasReplaced, Deletes, TypeOK
  <2> QED BY <1>1, <2>1 DEF ReplacedInv
<1>4. ASSUME UNCHANGED <<pc, undo, failed>> PROVE ReplacedInv'
  <2>1. \A h \in Hosts : /\ HasReplaced(h)' => HasReplaced(h)
                         /\ Deletes(h)' => Deletes(h)
    BY <1>4 DEF HasReplaced, Deletes
  <2> QED BY <1>1, <2>1 DEF ReplacedInv
<1>5. ASSUME NEW d \in Dirs, RecordDir(d) PROVE ReplacedInv'
  BY <1>4, <1>5 DEF RecordDir
<1> QED BY <1>2, <1>3, <1>4, <1>5, NextCases, TerminateEffect DEF Aside

-----------------------------------------------------------------------------
(* What the copies of the old PV list.                                     *)

\* The replica carries a copy of the old PV to the request that uses it.
Copying == {"TmpPVCreate", "DeleteCall", "DeletePoll", "CSIPV"}

\* A step takes the copy h is going to use from the PV as it is.
Copies(h) ==
    /\ pc[h] \in {"TmpPV", "DeleteOld"}
    /\ pc'[h] \in {"TmpPVCreate", "DeleteCall"}
    /\ store[Main].kind = "hostpath" /\ snap'[h] = store[Main]
    /\ NoWrite

LEMMA CopyControl ==
    ASSUME TypeOK, NEW h \in Hosts, Pipeline(h) \/ Crash(h)
    PROVE  /\ mounted' \subseteq mounted /\ late' = late
           /\ \A g \in Hosts :
                /\ pc'[g] \in Copying =>
                     \/ /\ pc[g] \in Copying /\ snap'[g] = snap[g]
                        /\ pc'[g] # "TmpPVCreate" => pc[g] # "TmpPVCreate"
                     \/ g = h /\ Copies(g)
                /\ pc'[g] \in {"DeletePoll", "CSIPV"} =>
                     \/ pc[g] \in {"DeletePoll", "CSIPV"}
                     \/ AcceptDelete(Main)
<1> USE DEF Goto, Fail, Advance, NextUndo, Undoing, Enters, Forget,
            StepStarts, Copying, Copies, nodeVars, workVars, runVars
<1>t. /\ pc \in [Hosts -> Locations] /\ snap \in [Hosts -> PVs]
  BY DEF TypeOK
<1>1. CASE Abort(h) \/ StepCheck(h) \/ StepCheckUpdate(h)
  BY <1>t, <1>1 DEF Abort, StepCheck, StepCheckUpdate
<1>2. CASE StepChangePod(h) \/ CreateChangePod(h) \/ WaitPodQuit(h)
  BY <1>t, <1>2 DEF StepChangePod, CreateChangePod, WaitPodQuit
<1>3. CASE StepCreateTmpPV(h) \/ StepDeleteOldPV(h)
  BY <1>t, <1>3 DEF StepCreateTmpPV, StepDeleteOldPV
<1>4. CASE CreateTmpPV(h)
  <2>1. /\ pc[h] = "TmpPVCreate"
        /\ Advance(h, "DeleteOld", 3) \/ Fail(h)
        /\ UNCHANGED <<nodeVars, snap>>
    BY <1>4 DEF CreateTmpPV
  <2> QED BY <1>t, <2>1
<1>5. CASE DeleteOldPV(h)
  BY <1>t, <1>5 DEF DeleteOldPV
<1>6. CASE DeleteOldPVPoll(h)
  BY <1>t, <1>6 DEF DeleteOldPVPoll
<1>7. CASE StepCreateCSIPV(h)
  <2>1. /\ pc[h] = "CSIPV"
        /\ Advance(h, "WaitBound", 5) \/ Fail(h)
        /\ UNCHANGED <<nodeVars, snap>>
    BY <1>7 DEF StepCreateCSIPV
  <2> QED BY <1>t, <2>1
<1>8. CASE StepWaitCSIPVBound(h) \/ WaitPVBound(h) \/ StepRestartPods(h)
  BY <1>t, <1>8 DEF StepWaitCSIPVBound, WaitPVBound, StepRestartPods
<1>9. CASE \/ UndoNothing(h) \/ UndoDeleteOldPV(h) \/ UndoChangePod(h)
           \/ UndoChangePodPoll(h)
  BY <1>t, <1>9
     DEF UndoNothing, UndoDeleteOldPV, UndoChangePod, UndoChangePodPoll,
         PodsUndone
<1>10. CASE UndoCreatePV(h) \/ UndoCreatePVPoll(h)
  <2>1. /\ Goto(h, "UndoPoll") \/ Goto(h, "Undo") \/ UNCHANGED pc
        /\ UNCHANGED <<nodeVars, snap>>
    BY <1>10 DEF UndoCreatePV, UndoCreatePVPoll
  <2> QED BY <1>t, <2>1
<1>11. CASE UndoCheck(h) \/ UndoCheckUpdate(h)
  BY <1>t, <1>11 DEF UndoCheck, UndoCheckUpdate
<1>12. CASE Finish(h) \/ Crash(h)
  BY <1>t, <1>12 DEF Finish, Crash
<1> QED BY <1>1, <1>2, <1>3, <1>4, <1>5, <1>6, <1>7, <1>8, <1>9, <1>10, <1>11,
           <1>12 DEF Pipeline

\* No step makes Main a hostpath PV again, or takes back its deletion.
LEMMA MainKinds ==
    ASSUME SameVolume(Main) \/ Dropped(Main) \/ \E pv : Created(Main, pv)
    PROVE  /\ OldDropped => OldDropped'
           /\ store'[Main].kind = "hostpath" => /\ store[Main].kind = "hostpath"
                                                /\ store'[Main].dirs = store[Main].dirs
  BY DEF SameVolume, Dropped, Removed, Created, OldDropped

LEMMA TakenStep ==
    ASSUME TypeOK, UndoMatchesStep, TakenInv, [Next]_vars
    PROVE  TakenInv'
<1>t. pc \in [Hosts -> Locations]
  BY DEF TypeOK
<1>1. ASSUME NEW h \in Hosts, Pipeline(h) \/ Crash(h) PROVE TakenInv'
  <2>1. \/ SameVolume(Main) \/ Dropped(Main)
        \/ pc[h] = "CSIPV" /\ Created(Main, snap[h])
    BY <1>1, MainWrites
  <2>2. /\ mounted' \subseteq mounted /\ late' = late
    BY <1>1, CopyControl
  <2>3. store'[Main].kind = "hostpath" => mounted' \subseteq store'[Main].dirs
    BY <2>1, <2>2, MainKinds DEF TakenInv
  <2>4. DirsTakenOver'
    BY <2>1, <2>2
       DEF TakenInv, DirsTakenOver, SameVolume, Dropped, Removed, Created
  <2>5. ASSUME NEW g \in Hosts, pc'[g] \in {"DeleteCall", "DeletePoll", "CSIPV"}
        PROVE  mounted' \subseteq snap'[g].dirs \cup late'
    <3>1. \/ /\ pc[g] \in {"DeleteCall", "DeletePoll", "CSIPV"}
             /\ snap'[g] = snap[g]
          \/ Copies(g)
      BY <1>1, <2>5, CopyControl DEF Copying
    <3> QED BY <2>2, <3>1 DEF TakenInv, Copies
  <2>6. ASSUME NEW g \in Hosts, pc'[g] \in {"DeletePoll", "CSIPV"}
        PROVE  OldDropped'
    <3>1. CASE AcceptDelete(Main)
      BY <3>1, DeleteEffect, StoreType DEF Dropped, Removed, OldDropped
    <3> QED BY <1>1, <2>1, <2>6, <3>1, CopyControl, MainKinds DEF TakenInv
  <2> QED BY <2>3, <2>4, <2>5, <2>6 DEF TakenInv
<1>2. ASSUME SameVolume(Main) \/ Dropped(Main),
             UNCHANGED <<snap, mounted, late>>,
             \A g \in Hosts : pc'[g] \in Copying => pc'[g] = pc[g]
      PROVE  TakenInv'
  <2>1. store'[Main].kind = "hostpath" => mounted' \subseteq store'[Main].dirs
    BY <1>2, MainKinds DEF TakenInv
  <2>2. DirsTakenOver'
    BY <1>2 DEF TakenInv, DirsTakenOver, SameVolume, Dropped, Removed
  <2>3. OldDropped => OldDropped'
    BY <1>2, MainKinds
  <2> QED BY <1>2, <2>1, <2>2, <2>3 DEF TakenInv, Copying
<1>3. ASSUME NEW h \in Hosts, NEW wait \in BOOLEAN, Start(h, wait)
      PROVE  TakenInv'
  <2>1. SameVolume(Main) /\ UNCHANGED <<snap, mounted, late>>
    BY <1>3, NoWriteSame, StoreType DEF Start, nodeVars
  <2>2. \A g \in Hosts : pc'[g] \in Copying => pc'[g] = pc[g]
    BY <1>3, <1>t DEF Start, Goto, Copying
  <2> QED BY <1>2, <2>1, <2>2
<1>4. ASSUME NEW d \in Dirs, RecordDir(d) PROVE TakenInv'
  <2> DEFINE pv == [store[Main] EXCEPT !.dirs = @ \cup {d}]
  <2>1. pv.kind = store[Main].kind /\ pv.dirs = store[Main].dirs \cup {d}
    BY StoreType DEF PVs
  <2>2. WritePV(Main, pv)
    BY <1>4 DEF RecordDir
  <2> HIDE DEF pv
  <2>3. /\ store'[Main].kind = "hostpath"
        /\ store'[Main].dirs = store[Main].dirs \cup {d}
    BY <1>4, <2>1, <2>2, WriteOther, StoreType DEF RecordDir
  <2>4. \A g \in Hosts : pc[g] \notin {"DeletePoll", "CSIPV"}
    BY <1>4 DEF RecordDir, TakenInv, OldDropped
  <2>5. /\ UNCHANGED <<pc, snap>> /\ mounted' = mounted \cup {d}
        /\ late \subseteq late'
        /\ \A g \in Hosts : pc[g] = "DeleteCall" => d \in late'
    BY <1>4 DEF RecordDir
  <2> QED BY <1>4, <2>3, <2>4, <2>5 DEF TakenInv, DirsTakenOver, RecordDir
<1>5. ASSUME NEW n \in Names, Terminate(n) PROVE TakenInv'
  BY <1>2, <1>5, TerminateEffect, StoreType DEF Dropped
<1>6. CASE Aside
  BY <1>2, <1>6, StoreType DEF Aside
<1> QED BY <1>1, <1>3, <1>4, <1>5, <1>6, NextCases

-----------------------------------------------------------------------------
(* Without new directories.                                                *)

\* The tmp PV is created from the copy, and deleted by undo 3.
LEMMA TmpWrites ==
    ASSUME TypeOK, UndoMatchesStep, NEW h \in Hosts, Pipeline(h) \/ Crash(h)
    PROVE  \/ SameVolume(Tmp) \/ Dropped(Tmp)
           \/ /\ pc[h] = "TmpPVCreate" /\ Created(Tmp, snap[h])
              /\ CreateTmpPV(h)
<1>1. CASE CreateTmpPV(h)
  <2>1. /\ pc[h] = "TmpPVCreate"
        /\ \E ok \in BOOLEAN : CreateCSIHostPathPV(Tmp, snap[h], ok)
    BY <1>1 DEF CreateTmpPV
  <2> QED BY <1>1, <2>1, CreateEffect, StoreType DEF TypeOK
<1>2. CASE (UndoCreatePV(h) \/ UndoCreatePVPoll(h)) /\ undo[h] # 5
  <2>1. NoWrite \/ AcceptDelete(Tmp) \/ ClearFinalizers(Tmp)
    BY <1>2 DEF UndoCreatePV, UndoCreatePVPoll, UndoPV
  <2> QED BY <2>1, NoWriteSame, DeleteEffect, ClearEffect, StoreType DEF Dropped
<1> QED BY <1>1, <1>2, TmpUntouched

LEMMA WholeStep ==
    ASSUME "newdir" \notin Faults, TypeOK, UndoMatchesStep, WholeInv, [Next]_vars
    PROVE  WholeInv'
<1>t. pc \in [Hosts -> Locations] /\ Names = {Main, Tmp}
  BY StoreType DEF TypeOK
<1>1. ASSUME NEW n \in Names,
             \/ SameVolume(n) \/ Dropped(n)
             \/ \E h \in Hosts : pc[h] \in Copying /\ Created(n, snap[h]),
             store'[n].kind # "none"
      PROVE  store'[n].dirs = Dirs
  BY <1>1 DEF WholeInv, Copying, SameVolume, Dropped, Removed, Created
<1>2. ASSUME NEW h \in Hosts, Pipeline(h) \/ Crash(h) PROVE WholeInv'
  <2>1. late' = {}
    BY <1>2, CopyControl DEF WholeInv
  <2>2. \A n \in Names : \/ SameVolume(n) \/ Dropped(n)
                         \/ pc[h] \in Copying /\ Created(n, snap[h])
    BY <1>2, <1>t, MainWrites, TmpWrites DEF Copying
  <2>3. ASSUME NEW g \in Hosts, pc'[g] \in Copying
        PROVE  snap'[g].dirs = Dirs
    <3>1. (pc[g] \in Copying /\ snap'[g] = snap[g]) \/ Copies(g)
      BY <1>2, <2>3, CopyControl
    <3> QED BY <3>1, StoreType DEF WholeInv, Copying, Copies
  <2> QED BY <1>1, <2>1, <2>2, <2>3 DEF WholeInv, Copying
<1>3. ASSUME UNCHANGED <<snap, late>>,
             \A n \in Names : SameVolume(n) \/ Dropped(n),
             \A g \in Hosts : pc'[g] \in Copying => pc'[g] = pc[g]
      PROVE  WholeInv'
  <2>1. \A n \in Names : store'[n].kind # "none" => store'[n].dirs = Dirs
    BY <1>1, <1>3
  <2> QED BY <1>3, <2>1 DEF WholeInv, Copying
<1>4. ASSUME NEW h \in Hosts, NEW wait \in BOOLEAN, Start(h, wait)
      PROVE  WholeInv'
  <2>1. UNCHANGED <<snap, late>> /\ \A n \in Names : SameVolume(n)
    BY <1>4, NoWriteSame DEF Start, nodeVars
  <2>2. \A g \in Hosts : pc'[g] \in Copying => pc'[g] = pc[g]
    BY <1>4, <1>t DEF Start, Goto, Copying
  <2> QED BY <1>3, <2>1, <2>2
<1>5. ASSUME NEW d \in Dirs PROVE ~RecordDir(d)
  BY DEF RecordDir, May
<1>6. ASSUME NEW n \in Names, Terminate(n) PROVE WholeInv'
  BY <1>3, <1>6, TerminateEffect DEF Dropped
<1>7. CASE Aside
  BY <1>3, <1>7 DEF Aside
<1> QED BY <1>2, <1>4, <1>5, <1>6, <1>7, NextCases

\* How a run comes to RestartPods, and past it.
LEMMA RestartControl ==
    ASSUME TypeOK, UndoMatchesStep, NEW h \in Hosts, Pipeline(h) \/ Crash(h)
    PROVE  \A g \in Hosts :
              /\ waitBound'[g] => waitBound[g]
              /\ pc'[g] = "RestartPods" =>
                   \/ pc[g] = "RestartPods" \/ ~waitBound[g]
                   \/ store[Main].bound /\ NoWrite
              /\ pc'[g] = "Undo" /\ undo'[g] = 5 /\ ~failed'[g] =>
                   \/ pc[g] = "Undo" /\ undo[g] = 5 /\ ~failed[g]
                   \/ StepRestartPods(g)
<1> USE DEF Goto, Fail, Advance, NextUndo, Undoing, Enters, Forget,
            StepStarts, UndoMatchesStep, runVars
<1>t. /\ pc \in [Hosts -> Locations] /\ undo \in [Hosts -> 0 .. 5]
      /\ failed \in [Hosts -> BOOLEAN] /\ waitBound \in [Hosts -> BOOLEAN]
  BY DEF TypeOK
<1>1. CASE Abort(h) \/ StepCheck(h) \/ StepCheckUpdate(h)
  BY <1>t, <1>1 DEF Abort, StepCheck, StepCheckUpdate
<1>2. CASE StepChangePod(h) \/ CreateChangePod(h) \/ WaitPodQuit(h)
  BY <1>t, <1>2 DEF StepChangePod, CreateChangePod, WaitPodQuit
<1>3. CASE StepCreateTmpPV(h) \/ StepDeleteOldPV(h)
  BY <1>t, <1>3 DEF StepCreateTmpPV, StepDeleteOldPV
<1>4. CASE CreateTmpPV(h)
  <2>1. /\ pc[h] = "TmpPVCreate"
        /\ Advance(h, "DeleteOld", 3) \/ (Fail(h) /\ UNCHANGED undo)
        /\ UNCHANGED runVars
    BY <1>4 DEF CreateTmpPV
  <2> QED BY <1>t, <2>1
<1>5. CASE DeleteOldPV(h) \/ DeleteOldPVPoll(h)
  BY <1>t, <1>5 DEF DeleteOldPV, DeleteOldPVPoll
<1>6. CASE StepCreateCSIPV(h)
  <2>1. /\ pc[h] = "CSIPV"
        /\ Advance(h, "WaitBound", 5) \/ (Fail(h) /\ UNCHANGED undo)
        /\ UNCHANGED runVars
    BY <1>6 DEF StepCreateCSIPV
  <2> QED BY <1>t, <2>1
<1>7. CASE StepWaitCSIPVBound(h) \/ WaitPVBound(h)
  BY <1>t, <1>7 DEF StepWaitCSIPVBound, WaitPVBound
<1>8. CASE StepRestartPods(h)
  <2>1. /\ Goto(h, "Undo") /\ pc[h] = "RestartPods"
        /\ UNCHANGED <<undo, failed, runVars>>
    BY <1>8 DEF StepRestartPods
  <2> QED BY <1>t, <1>8, <2>1
<1>9. CASE \/ UndoNothing(h) \/ UndoDeleteOldPV(h) \/ UndoChangePod(h)
           \/ UndoChangePodPoll(h)
  BY <1>t, <1>9
     DEF UndoNothing, UndoDeleteOldPV, UndoChangePod, UndoChangePodPoll,
         PodsUndone
<1>10. CASE UndoCreatePV(h) \/ UndoCreatePVPoll(h)
  <2>1. /\ \/ Goto(h, "UndoPoll") /\ UNCHANGED <<undo, failed>>
           \/ NextUndo(h)
           \/ pc[h] = "UndoPoll" /\ UNCHANGED <<pc, undo, failed>>
        /\ UNCHANGED runVars
    BY <1>10 DEF UndoCreatePV, UndoCreatePVPoll
  <2> QED BY <1>t, <2>1
<1>11. CASE UndoCheck(h) \/ UndoCheckUpdate(h)
  BY <1>t, <1>11 DEF UndoCheck, UndoCheckUpdate
<1>12. CASE Finish(h) \/ Crash(h)
  BY <1>t, <1>12 DEF Finish, Crash
<1> QED BY <1>1, <1>2, <1>3, <1>4, <1>5, <1>6, <1>7, <1>8, <1>9, <1>10, <1>11,
           <1>12 DEF Pipeline

LEMMA RestartStep ==
    ASSUME "refused" \notin Faults, "newdir" \notin Faults,
           TypeOK, UndoMatchesStep, ReplacedInv, RestartInv, [Next]_vars
    PROVE  RestartInv'
<1>t. pc \in [Hosts -> Locations] /\ waitBound \in [Hosts -> BOOLEAN]
  BY DEF TypeOK
<1>b. ASSUME NEW g \in Hosts, waitBound[g], pc[g] = "RestartPods"
      PROVE  store[Main].bound /\ store'[Main].bound
  BY <1>b, ReplacedStands DEF RestartInv, HasReplaced, SameVolume
<1>1. ASSUME NEW h \in Hosts, Pipeline(h) \/ Crash(h) PROVE RestartInv'
  <2> SUFFICES ASSUME NEW g \in Hosts, waitBound'[g]
               PROVE  /\ pc'[g] = "RestartPods" => store'[Main].bound
                      /\ pc'[g] = "Undo" /\ undo'[g] = 5 /\ ~failed'[g]
                            => mounted' = {}
    BY DEF RestartInv
  <2>1. waitBound[g]
    BY <1>1, RestartControl
  <2>2. ASSUME pc'[g] = "RestartPods" PROVE store'[Main].bound
    BY <1>1, <1>b, <2>1, <2>2, RestartControl DEF NoWrite
  <2>3. ASSUME pc'[g] = "Undo", undo'[g] = 5, ~failed'[g] PROVE mounted' = {}
    <3>1. CASE pc[g] = "Undo" /\ undo[g] = 5 /\ ~failed[g]
      BY <1>1, <2>1, <3>1, CopyControl DEF RestartInv
    <3>2. CASE StepRestartPods(g)
      BY <1>b, <2>1, <3>2 DEF StepRestartPods, Enters, May
    <3> QED BY <1>1, <2>3, <3>1, <3>2, RestartControl
  <2> QED BY <2>2, <2>3
<1>2. ASSUME NEW h \in Hosts, NEW wait \in BOOLEAN, Start(h, wait)
      PROVE  RestartInv'
  <2>1. /\ pc' = [pc EXCEPT ![h] = "Check"] /\ UNCHANGED <<store, undo, mounted>>
        /\ \A g \in Hosts : g # h => /\ waitBound'[g] = waitBound[g]
                                     /\ failed'[g] = failed[g]
    BY <1>2, <1>t DEF Start, Goto, NoWrite, nodeVars, TypeOK
  <2> QED BY <1>t, <2>1 DEF RestartInv
<1>3. ASSUME NEW d \in Dirs PROVE ~RecordDir(d)
  BY DEF RecordDir, May
<1>4. ASSUME UNCHANGED <<pc, undo, failed, waitBound, mounted>>
      PROVE  RestartInv'
  BY <1>4, <1>b DEF RestartInv
<1> QED BY <1>1, <1>2, <1>3, <1>4, NextCases, TerminateEffect DEF Aside

-----------------------------------------------------------------------------
(* While the old PV is away.                                               *)

\* Without the troubles that end a run half-way, a run that has begun to
\* delete the old PV goes on to create the new one.
LEMMA AwayControl ==
    ASSUME TypeOK, UndoMatchesStep, "refused" \notin Faults,
           "unbound" \notin Faults, NEW h \in Hosts,
           ~timedOut[h], ~stopping[h], failed[h] => pc[h] \in Undoes,
           Pipeline(h) \/ Crash(h)
    PROVE  \A g \in Hosts :
              /\ timedOut'[g] => timedOut[g]
              /\ stopping'[g] => stopping[g]
              /\ failed'[g] => failed[g] \/ g = h
              /\ failed'[g] => pc'[g] \in Undoes \/ (g # h /\ pc'[g] = pc[g])
              /\ failed'[g] /\ undo'[g] > 3 =>
                   \/ failed[g] /\ undo[g] > 3
                   \/ g = h /\ pc[h] = "CSIPV" /\ StepCreateCSIPV(h) /\ pc'[h] = "Undo"
                   \/ pc[g] = "BoundPoll" /\ store[Main].kind = "none"
              /\ pc'[g] = "CSIPV" =>
                   \/ pc[g] = "CSIPV" /\ (g # h)
                   \/ store[Main].kind = "none" /\ NoWrite
              /\ pc[g] \in {"DeletePoll", "CSIPV"} =>
                   \/ pc'[g] \in {"DeletePoll", "CSIPV"}
                   \/ undo'[g] = 0
                   \/ g = h /\ pc[h] = "CSIPV" /\ StepCreateCSIPV(h)
<1> USE DEF Goto, Fail, Advance, NextUndo, Undoing, Enters, Forget,
            StepStarts, UndoMatchesStep, May, Undoes, runVars
<1>t. /\ pc \in [Hosts -> Locations] /\ undo \in [Hosts -> 0 .. 5]
      /\ failed \in [Hosts -> BOOLEAN]
      /\ timedOut \in [Hosts -> BOOLEAN] /\ stopping \in [Hosts -> BOOLEAN]
  BY DEF TypeOK
<1>1. CASE Abort(h) \/ StepCheck(h) \/ StepCheckUpdate(h)
  BY <1>t, <1>1 DEF Abort, StepCheck, StepCheckUpdate
<1>2. CASE StepChangePod(h) \/ CreateChangePod(h) \/ WaitPodQuit(h)
  BY <1>t, <1>2 DEF StepChangePod, CreateChangePod, WaitPodQuit
<1>3. CASE StepCreateTmpPV(h) \/ StepDeleteOldPV(h)
  BY <1>t, <1>3 DEF StepCreateTmpPV, StepDeleteOldPV
<1>4. CASE CreateTmpPV(h)
  <2>1. /\ pc[h] = "TmpPVCreate"
        /\ Advance(h, "DeleteOld", 3) \/ (Fail(h) /\ UNCHANGED undo)
        /\ UNCHANGED runVars
    BY <1>4 DEF CreateTmpPV
  <2> QED BY <1>t, <2>1
<1>5. CASE DeleteOldPV(h)
  BY <1>t, <1>5 DEF DeleteOldPV
<1>6. CASE DeleteOldPVPoll(h)
  BY <1>t, <1>6 DEF DeleteOldPVPoll
<1>7. CASE StepCreateCSIPV(h)
  <2>1. /\ pc[h] = "CSIPV"
        /\ Advance(h, "WaitBound", 5) \/ (Fail(h) /\ UNCHANGED undo)
        /\ UNCHANGED runVars
    BY <1>7 DEF StepCreateCSIPV
  <2> QED BY <1>t, <1>7, <2>1
<1>8. CASE StepWaitCSIPVBound(h) \/ WaitPVBound(h)
  BY <1>t, <1>8 DEF StepWaitCSIPVBound, WaitPVBound
<1>9. CASE StepRestartPods(h)
  <2>1. /\ Goto(h, "Undo") /\ pc[h] = "RestartPods"
        /\ UNCHANGED <<undo, failed, runVars>>
    BY <1>9 DEF StepRestartPods
  <2> QED BY <1>t, <2>1
<1>10. CASE \/ UndoNothing(h) \/ UndoDeleteOldPV(h) \/ UndoChangePod(h)
            \/ UndoChangePodPoll(h)
  BY <1>t, <1>10
     DEF UndoNothing, UndoDeleteOldPV, UndoChangePod, UndoChangePodPoll,
         PodsUndone
<1>11. CASE UndoCreatePV(h) \/ UndoCreatePVPoll(h)
  <2>1. /\ pc[h] \in {"Undo", "UndoPoll"}
        /\ \/ Goto(h, "UndoPoll") /\ UNCHANGED <<undo, failed>>
           \/ NextUndo(h)
           \/ UNCHANGED <<pc, undo, failed>>
        /\ UNCHANGED runVars
    BY <1>11 DEF UndoCreatePV, UndoCreatePVPoll
  <2> QED BY <1>t, <2>1
<1>12. CASE UndoCheck(h) \/ UndoCheckUpdate(h)
  BY <1>t, <1>12 DEF UndoCheck, UndoCheckUpdate
<1>13. CASE Finish(h) \/ Crash(h)
  BY <1>t, <1>13 DEF Finish, Crash
<1> QED BY <1>1, <1>2, <1>3, <1>4, <1>5, <1>6, <1>7, <1>8, <1>9, <1>10, <1>11,
           <1>12, <1>13 DEF Pipeline

\* What takes a PV away that was not even on its way: the deletion of the old
\* PV, or the undo of a run that failed after it.
LEMMA MainDropped ==
    ASSUME TypeOK, UndoMatchesStep, NEW h \in Hosts, Pipeline(h) \/ Crash(h),
           store[Main].kind # "none", ~store[Main].deleting,
           store'[Main].kind = "none" \/ store'[Main].deleting
    PROVE  \/ pc[h] = "DeleteCall" /\ DeleteOldPV(h)
           \/ undo[h] = 5 /\ failed[h]
<1>s. ~SameVolume(Main)
  BY DEF SameVolume
<1>1. CASE DeleteOldPV(h)
  BY <1>1 DEF DeleteOldPV
<1>2. CASE DeleteOldPVPoll(h)
  <2>1. NoWrite \/ ClearFinalizers(Main)
    BY <1>2 DEF DeleteOldPVPoll
  <2> QED BY <1>s, <2>1, NoWriteSame, ClearEffect, StoreType
<1>3. CASE StepCreateCSIPV(h)
  <2>1. \E ok \in BOOLEAN : CreateCSIHostPathPV(Main, snap[h], ok)
    BY <1>3 DEF StepCreateCSIPV
  <2> QED BY <1>s, <2>1, CreateEffect, StoreType DEF Created, TypeOK
<1>4. CASE (UndoCreatePV(h) \/ UndoCreatePVPoll(h)) /\ undo[h] = 5
  <2>1. UndoPV(h) = Main
    BY <1>4 DEF UndoPV
  <2>2. NoWrite \/ ClearFinalizers(Main) \/ failed[h]
    BY <1>4, <2>1 DEF UndoCreatePV, UndoCreatePVPoll, Undoing
  <2> QED BY <1>4, <1>s, <2>2, NoWriteSame, ClearEffect, StoreType
<1>5. CASE (UndoCreatePV(h) \/ UndoCreatePVPoll(h)) /\ undo[h] # 5
  <2>1. NoWrite \/ AcceptDelete(Tmp) \/ ClearFinalizers(Tmp)
    BY <1>5 DEF UndoCreatePV, UndoCreatePVPoll, UndoPV
  <2> QED BY <1>s, <2>1, NoWriteSame, DeleteEffect, ClearEffect, StoreType
<1>6. CASE ~(\/ DeleteOldPV(h) \/ DeleteOldPVPoll(h) \/ StepCreateCSIPV(h)
             \/ UndoCreatePV(h) \/ UndoCreatePVPoll(h))
  <2>1. CASE CreateTmpPV(h)
    <3>1. \E ok \in BOOLEAN : CreateCSIHostPathPV(Tmp, snap[h], ok)
      BY <2>1 DEF CreateTmpPV
    <3> QED BY <1>s, <3>1, CreateEffect, StoreType DEF TypeOK
  <2>2. CASE StepCheck(h) \/ StepCheckUpdate(h) \/ UndoCheck(h) \/ UndoCheckUpdate(h)
    BY <1>s, <2>2, LockWritesSame, StoreType
  <2>3. CASE Finish(h) \/ Crash(h)
    BY <1>s, <2>3 DEF Finish, Crash, Forget, SameVolume
  <2>4. CASE \/ Abort(h) \/ StepChangePod(h) \/ CreateChangePod(h)
             \/ WaitPodQuit(h) \/ StepCreateTmpPV(h) \/ StepDeleteOldPV(h)
             \/ StepWaitCSIPVBound(h) \/ WaitPVBound(h) \/ StepRestartPods(h)
             \/ UndoNothing(h) \/ UndoDeleteOldPV(h) \/ UndoChangePod(h)
             \/ UndoChangePodPoll(h)
    <3>1. NoWrite
      BY <2>4 DEF Abort, StepChangePod, CreateChangePod, WaitPodQuit,
                  StepCreateTmpPV, StepDeleteOldPV, StepWaitCSIPVBound,
                  WaitPVBound, StepRestartPods, UndoNothing, UndoDeleteOldPV,
                  CreateVersioned, UndoChangePod, UndoChangePodPoll, PodsUndone
    <3> QED BY <1>s, <3>1, NoWriteSame, StoreType
  <2> QED BY <1>6, <2>1, <2>2, <2>3, <2>4 DEF Pipeline
<1> QED BY <1>1, <1>2, <1>3, <1>4, <1>5, <1>6

\* The troubles under which a run may end with the old PV away.
HalfwayFaults == {"refused", "lost", "stop", "late", "unbound"}

\* Where runs end on their own only, the creation of the new PV succeeds.
LEMMA CreationSucceeds ==
    ASSUME Faults \cap HalfwayFaults = {}, TypeOK, AwayInv,
           NEW h \in Hosts, pc[h] = "CSIPV", StepCreateCSIPV(h)
    PROVE  /\ Advance(h, "WaitBound", 5)
           /\ store'[Main].kind = "csi" /\ ~store'[Main].deleting
<1>1. store[Main].kind = "none" /\ snap[h] \in PVs
  BY DEF AwayInv, TypeOK
<1>2. ~CreateCSIHostPathPV(Main, snap[h], FALSE)
  BY <1>1 DEF CreateCSIHostPathPV, May, HalfwayFaults
<1>3. CreateCSIHostPathPV(Main, snap[h], TRUE) /\ Advance(h, "WaitBound", 5)
  BY <1>2 DEF StepCreateCSIPV
<1> QED BY <1>1, <1>3, CreateEffect, StoreType DEF Created

LEMMA AwayRunStep ==
    ASSUME Faults \cap HalfwayFaults = {}, TypeOK, UndoMatchesStep,
           TmpInv, ReplacedInv, AwayInv,
           NEW h \in Hosts, Pipeline(h) \/ Crash(h), [Next]_vars
    PROVE  AwayInv'
<1>t. /\ pc \in [Hosts -> Locations] /\ undo \in [Hosts -> 0 .. 5]
      /\ failed \in [Hosts -> BOOLEAN]
  BY DEF TypeOK
<1>f. /\ "refused" \notin Faults /\ "lost" \notin Faults
      /\ "unbound" \notin Faults
  BY DEF HalfwayFaults
<1>c. ~timedOut[h] /\ ~stopping[h] /\ (failed[h] => pc[h] \in Undoes)
  BY DEF AwayInv
<1>n. ASSUME pc[h] = "CSIPV", StepCreateCSIPV(h)
      PROVE  /\ Advance(h, "WaitBound", 5)
             /\ store'[Main].kind = "csi" /\ ~store'[Main].deleting
  BY <1>n, CreationSucceeds
<1>1. \A g \in Hosts : ~timedOut'[g] /\ ~stopping'[g]
  BY <1>c, <1>f, AwayControl DEF AwayInv
<1>u. ASSUME NEW g \in Hosts, failed'[g] PROVE pc'[g] \in Undoes
  BY <1>u, <1>c, <1>f, AwayControl DEF AwayInv
<1>2. ASSUME NEW g \in Hosts, failed'[g] PROVE undo'[g] <= 3
  <2>1. ~(failed[g] /\ undo[g] > 3)
    BY <1>t DEF AwayInv
  <2>2. ~(pc[g] = "BoundPoll" /\ store[Main].kind = "none")
    BY DEF ReplacedInv, HasReplaced
  <2>3. ~(pc[h] = "CSIPV" /\ StepCreateCSIPV(h) /\ pc'[h] = "Undo")
    BY <1>n, <1>t DEF Advance, Goto
  <2>4. undo'[g] \in 0 .. 5
    BY TypeStep DEF TypeOK
  <2>5. ~(undo'[g] > 3)
    BY <1>2, <1>c, <1>f, <2>1, <2>2, <2>3, AwayControl
  <2> QED BY <2>4, <2>5
<1>3. ASSUME NEW g \in Hosts, pc'[g] = "CSIPV" PROVE store'[Main].kind = "none"
  <2>1. CASE store[Main].kind = "none" /\ NoWrite
    BY <2>1 DEF NoWrite
  <2>2. CASE pc[g] = "CSIPV" /\ g # h
    <3>1. store[Main].kind = "none"
      BY <2>2 DEF AwayInv
    <3>2. HasTmp(g)
      BY <2>2 DEF UndoMatchesStep, HasTmp
    <3>3. pc[h] # "CSIPV"
      BY <2>2, <3>2 DEF TmpInv, UndoMatchesStep, HasTmp
    <3>4. SameVolume(Main) \/ Dropped(Main)
      BY <3>3, MainWrites
    <3> QED BY <3>1, <3>4 DEF SameVolume, Dropped, Removed
  <2> QED BY <1>3, <1>c, <1>f, <2>1, <2>2, AwayControl
<1>4. ASSUME store'[Main].kind = "none" \/ store'[Main].deleting
      PROVE  /\ store'[Tmp].kind = "csi" /\ ~store'[Tmp].deleting
             /\ \A g \in Hosts : HasTmp(g)' => pc'[g] \in {"DeletePoll", "CSIPV"}
  <2>1. CASE store[Main].kind = "none" \/ store[Main].deleting
    <3>1. /\ store[Tmp].kind = "csi" /\ ~store[Tmp].deleting
          /\ \A g \in Hosts : HasTmp(g) => pc[g] \in {"DeletePoll", "CSIPV"}
      BY <2>1 DEF AwayInv
    <3>2. ASSUME CreateTmpPV(h)
          PROVE  SameVolume(Tmp) /\ \A g \in Hosts : HasTmp(g)' => HasTmp(g)
      <4>1. ~CreateCSIHostPathPV(Tmp, snap[h], TRUE)
        BY <3>1 DEF CreateCSIHostPathPV
      <4>2. /\ CreateCSIHostPathPV(Tmp, snap[h], FALSE)
            /\ Fail(h) /\ UNCHANGED undo /\ pc[h] = "TmpPVCreate"
        BY <3>2, <4>1 DEF CreateTmpPV
      <4>3. SameVolume(Tmp)
        BY <3>1, <4>2, CreateEffect, StoreType DEF Created, TypeOK
      <4>4. \A g \in Hosts : HasTmp(g)' => HasTmp(g)
        BY <1>t, <4>2 DEF Fail, Goto, HasTmp, UndoMatchesStep
      <4> QED BY <4>3, <4>4
    <3>3. ASSUME UndoCreatePV(h) \/ UndoCreatePVPoll(h), undo[h] # 5
          PROVE  SameVolume(Tmp)
      <4>1. ~UndoCreatePV(h)
        BY <3>1, <3>3 DEF UndoCreatePV, Undoing, HasTmp
      <4>2. NoWrite \/ ClearFinalizers(Tmp)
        BY <3>3, <4>1 DEF UndoCreatePVPoll, UndoPV
      <4> QED BY <3>1, <4>2, NoWriteSame, ClearEffect, StoreType
    <3>4. SameVolume(Tmp)
      BY <3>2, <3>3, TmpUntouched
    <3>5. \A g \in Hosts : HasTmp(g)' => HasTmp(g)
      BY <3>2, TmpControl
    <3>6. ~(pc[h] = "CSIPV" /\ StepCreateCSIPV(h))
      BY <1>4, <1>n
    <3>7. ASSUME NEW g \in Hosts, HasTmp(g)'
          PROVE  pc'[g] \in {"DeletePoll", "CSIPV"}
      <4>1. pc[g] \in {"DeletePoll", "CSIPV"} /\ undo'[g] # 0
        BY <3>1, <3>5, <3>7 DEF HasTmp
      <4> QED BY <1>c, <1>f, <3>6, <4>1, AwayControl
    <3> QED BY <3>1, <3>4, <3>7 DEF SameVolume
  <2>2. CASE ~(store[Main].kind = "none" \/ store[Main].deleting)
    <3>1. ~(undo[h] = 5 /\ failed[h])
      BY DEF AwayInv
    <3>2. pc[h] = "DeleteCall" /\ DeleteOldPV(h)
      BY <1>4, <2>2, <3>1, MainDropped
    <3>3. HasTmp(h)
      BY <3>2 DEF UndoMatchesStep, HasTmp
    <3>4. ~CreateTmpPV(h) /\ ~UndoCreatePV(h) /\ ~UndoCreatePVPoll(h)
      BY <3>2 DEF CreateTmpPV, UndoCreatePV, Undoing, UndoCreatePVPoll
    <3>5. SameVolume(Tmp) /\ \A g \in Hosts : HasTmp(g)' => HasTmp(g)
      BY <3>4, TmpUntouched, TmpControl
    <3>6. pc'[h] = "DeletePoll"
      BY <1>f, <1>t, <2>2, <3>2 DEF DeleteOldPV, Goto, May
    <3> QED BY <3>3, <3>5, <3>6 DEF TmpInv, SameVolume
  <2> QED BY <2>1, <2>2
<1> QED BY <1>1, <1>u, <1>2, <1>3, <1>4 DEF AwayInv

\* A new directory is recorded in the PV that pods use, and there only.
LEMMA RecordEffect ==
    ASSUME TypeOK, NEW d \in Dirs, RecordDir(d)
    PROVE  /\ store'[Main].kind = "hostpath" /\ ~store'[Main].deleting
           /\ SameVolume(Tmp)
           /\ UNCHANGED <<pc, undo, failed, timedOut, stopping>>
<1> DEFINE pv == [store[Main] EXCEPT !.dirs = @ \cup {d}]
<1>1. pv.kind = "hostpath" /\ ~pv.deleting
  BY StoreType DEF PVs, RecordDir
<1>2. WritePV(Main, pv)
  BY DEF RecordDir
<1> HIDE DEF pv
<1>3. /\ store'[Main].kind = "hostpath" /\ ~store'[Main].deleting
      /\ SameVolume(Tmp)
  BY <1>1, <1>2, WriteOther, StoreType
<1> QED BY <1>3 DEF RecordDir, runVars

LEMMA AwayStep ==
    ASSUME Faults \cap HalfwayFaults = {}, TypeOK, UndoMatchesStep,
           TmpInv, ReplacedInv, AwayInv, [Next]_vars
    PROVE  AwayInv'
<1>t. /\ pc \in [Hosts -> Locations] /\ failed \in [Hosts -> BOOLEAN]
      /\ timedOut \in [Hosts -> BOOLEAN]
  BY DEF TypeOK
\* A step that is not of a run.
<1>1. ASSUME \A n \in Names : SameVolume(n) \/ (store[n].deleting /\ Removed(n)),
             UNCHANGED <<pc, undo, failed, timedOut, stopping>>
      PROVE  AwayInv'
  <2>1. store'[Main].kind = "none" \/ store'[Main].deleting
           => store[Main].kind = "none" \/ store[Main].deleting
    BY <1>1, StoreType DEF SameVolume
  <2>2. store[Main].kind = "none" => store'[Main].kind = "none"
    BY <1>1, StoreType DEF SameVolume, Removed
  <2>3. store[Tmp].kind = "csi" /\ ~store[Tmp].deleting
           => store'[Tmp].kind = "csi" /\ ~store'[Tmp].deleting
    BY <1>1, StoreType DEF SameVolume
  <2> QED BY <1>1, <2>1, <2>2, <2>3 DEF AwayInv, HasTmp
<1>2. ASSUME NEW h \in Hosts, NEW wait \in BOOLEAN, Start(h, wait)
      PROVE  AwayInv'
  <2>1. /\ pc' = [pc EXCEPT ![h] = "Check"] /\ pc[h] = "idle"
        /\ failed' = [failed EXCEPT ![h] = FALSE]
        /\ timedOut' = [timedOut EXCEPT ![h] = FALSE]
        /\ UNCHANGED <<store, undo, stopping>>
    BY <1>2 DEF Start, Goto, NoWrite
  <2>2. \A g \in Hosts : HasTmp(g)' => HasTmp(g) /\ (g # h)
    BY <1>t, <2>1 DEF HasTmp, UndoMatchesStep
  <2> QED BY <1>t, <2>1, <2>2 DEF AwayInv
<1>3. ASSUME NEW d \in Dirs, RecordDir(d) PROVE AwayInv'
  <2>1. /\ store'[Main].kind = "hostpath" /\ ~store'[Main].deleting
        /\ SameVolume(Tmp) /\ UNCHANGED <<pc, undo, failed, timedOut, stopping>>
    BY <1>3, RecordEffect
  <2>2. \A g \in Hosts : pc[g] # "CSIPV"
    BY <1>3 DEF RecordDir, AwayInv
  <2> QED BY <2>1, <2>2 DEF AwayInv
<1>4. ASSUME NEW n \in Names, Terminate(n) PROVE AwayInv'
  <2>1. UNCHANGED <<timedOut, stopping>>
    BY <1>4 DEF Terminate, runVars
  <2> QED BY <1>1, <1>4, <2>1, TerminateEffect
<1>5. ASSUME NEW h \in Hosts PROVE ~Stop(h) /\ ~TimerFires(h)
  BY DEF Stop, TimerFires, May, HalfwayFaults
<1>6. CASE \/ \E d \in Dirs : ChangePod(d) \/ Clean(d)
           \/ LeaseExpires \/ Bind \/ UNCHANGED vars
  <2>1. UNCHANGED <<timedOut, stopping>>
    BY <1>6
       DEF ChangePod, PodRuns, EvictPod, PodGoes, Clean, LeaseExpires, Bind,
           vars, runVars
  <2>2. Aside
    BY <1>6, AsideSteps
  <2> QED BY <1>1, <2>1, <2>2 DEF Aside
<1>7. ASSUME NEW h \in Hosts, Pipeline(h) \/ Crash(h) PROVE AwayInv'
  BY <1>7, AwayRunStep
<1> QED BY <1>2, <1>3, <1>4, <1>5, <1>6, <1>7 DEF Next, Environment

\* The old PV is away, and nobody but its run is going to bring a new one.
Away == store[Main].kind = "none" \/ store[Main].deleting

\* Where nobody crashes, that run goes on.
HeldInv == Away => \E h \in Hosts : HasTmp(h)

LEMMA UndoOfOthers ==
    ASSUME TypeOK, NEW h \in Hosts, Pipeline(h), NEW g \in Hosts, g # h
    PROVE  undo'[g] = undo[g]
<1> USE DEF Advance, NextUndo, Forget
<1>t. undo \in [Hosts -> 0 .. 5]
  BY DEF TypeOK
<1>1. CASE \/ Abort(h) \/ StepCheck(h) \/ StepCheckUpdate(h) \/ StepChangePod(h)
           \/ CreateChangePod(h) \/ WaitPodQuit(h) \/ StepCreateTmpPV(h)
  BY <1>t, <1>1 DEF Abort, StepCheck, StepCheckUpdate, StepChangePod,
     CreateChangePod, WaitPodQuit, StepCreateTmpPV
<1>2. CASE \/ CreateTmpPV(h) \/ StepDeleteOldPV(h) \/ DeleteOldPV(h)
           \/ DeleteOldPVPoll(h) \/ StepCreateCSIPV(h) \/ StepWaitCSIPVBound(h)
           \/ WaitPVBound(h) \/ StepRestartPods(h)
  BY <1>t, <1>2 DEF CreateTmpPV, StepDeleteOldPV, DeleteOldPV, DeleteOldPVPoll,
     StepCreateCSIPV, StepWaitCSIPVBound, WaitPVBound, StepRestartPods
<1>3. CASE \/ UndoNothing(h) \/ UndoCreatePV(h) \/ UndoCreatePVPoll(h)
           \/ UndoDeleteOldPV(h) \/ UndoChangePod(h)
           \/ UndoChangePodPoll(h) \/ UndoCheck(h)
           \/ UndoCheckUpdate(h) \/ Finish(h)
  BY <1>t, <1>3 DEF UndoNothing, UndoCreatePV, UndoCreatePVPoll,
     UndoDeleteOldPV, UndoChangePod, UndoChangePodPoll, PodsUndone, UndoCheck,
     UndoCheckUpdate, Finish
<1> QED BY <1>1, <1>2, <1>3 DEF Pipeline

\* A replica that waits for the end of the old PV, or is about to create the
\* new one, is not put off.
LEMMA DeletionGoesOn ==
    ASSUME TypeOK, UndoMatchesStep, NEW g \in Hosts,
           pc[g] \in {"DeletePoll", "CSIPV"},
           NEW h \in Hosts, Pipeline(h)
    PROVE  undo'[g] # 0
<1>t. /\ pc \in [Hosts -> Locations] /\ undo \in [Hosts -> 0 .. 5]
  BY DEF TypeOK
<1>u. undo[g] \in {3, 4}
  BY DEF UndoMatchesStep
<1>1. CASE g # h
  <2>1. undo'[g] = undo[g]
    BY <1>1, <1>t, UndoOfOthers
  <2> QED BY <2>1, <1>u
<1>2. CASE g = h
  <2>1. Abort(h) \/ DeleteOldPVPoll(h) \/ StepCreateCSIPV(h)
    BY <1>2
       DEF Pipeline, StepCheck, StepCheckUpdate, StepChangePod,
           CreateChangePod, WaitPodQuit, StepCreateTmpPV, CreateTmpPV,
           StepDeleteOldPV, DeleteOldPV, StepWaitCSIPVBound, WaitPVBound,
           StepRestartPods, UndoNothing, UndoCreatePV, UndoCreatePVPoll,
           UndoDeleteOldPV, UndoChangePod, UndoChangePodPoll, PodsUndone,
           UndoCheck, UndoCheckUpdate, Finish,
           Enters, Undoing
  <2>2. CASE Abort(h)
    BY <1>u, <1>2, <2>2 DEF Abort
  <2>3. CASE DeleteOldPVPoll(h)
    BY <1>t, <1>u, <1>2, <2>3 DEF DeleteOldPVPoll, Advance
  <2>4. CASE StepCreateCSIPV(h)
    <3>1. undo' = undo \/ undo' = [undo EXCEPT ![h] = 5]
      BY <2>4 DEF StepCreateCSIPV, Advance
    <3> QED BY <1>t, <1>u, <1>2, <3>1
  <2> QED BY <2>1, <2>2, <2>3, <2>4
<1> QED BY <1>1, <1>2

LEMMA HeldStep ==
    ASSUME Faults \cap HalfwayFaults = {}, "crash" \notin Faults,
           TypeOK, UndoMatchesStep, TmpInv, ReplacedInv, AwayInv, HeldInv,
           [Next]_vars
    PROVE  HeldInv'
<1>t. /\ pc \in [Hosts -> Locations] /\ undo \in [Hosts -> 0 .. 5]
  BY DEF TypeOK
<1>u. TypeOK' /\ UndoMatchesStep'
  BY TypeStep, UndoStep
\* A step that is not of a run.
<1>1. ASSUME \A n \in Names : SameVolume(n) \/ (store[n].deleting /\ Removed(n)),
             UNCHANGED <<pc, undo>>
      PROVE  HeldInv'
  <2>1. Away' => Away
    BY <1>1, StoreType DEF SameVolume, Away
  <2> QED BY <1>1, <2>1 DEF HeldInv, HasTmp
<1>2. ASSUME NEW h \in Hosts, Pipeline(h) \/ Crash(h) PROVE HeldInv'
  <2> SUFFICES ASSUME Away' PROVE \E g \in Hosts : HasTmp(g)'
    BY DEF HeldInv
  <2>0. Pipeline(h)
    BY <1>2 DEF Crash, May
  <2>c. /\ ~timedOut[h] /\ ~stopping[h] /\ (failed[h] => pc[h] \in Undoes)
        /\ "refused" \notin Faults /\ "unbound" \notin Faults
    BY DEF AwayInv, HalfwayFaults
  <2>1. CASE Away
    <3>1. PICK g \in Hosts : HasTmp(g)
      BY <2>1 DEF HeldInv
    <3>2. pc[g] \in {"DeletePoll", "CSIPV"}
      BY <2>1, <3>1 DEF AwayInv, Away
    <3>3. ~(pc[h] = "CSIPV" /\ StepCreateCSIPV(h))
      BY CreationSucceeds DEF Away
    <3>4. pc'[g] \in {"DeletePoll", "CSIPV"}
      BY <1>2, <2>0, <2>c, <3>2, <3>3, DeletionGoesOn, AwayControl
    <3> QED BY <1>u, <3>4 DEF UndoMatchesStep, HasTmp
  <2>2. CASE ~Away
    <3>1. ~(undo[h] = 5 /\ failed[h])
      BY DEF AwayInv
    <3>2. pc[h] = "DeleteCall" /\ DeleteOldPV(h)
      BY <1>2, <2>2, <3>1, MainDropped DEF Away
    <3>3. pc'[h] = "DeletePoll"
      BY <1>t, <2>2, <3>2 DEF DeleteOldPV, Goto, May, HalfwayFaults, Away
    <3> QED BY <1>u, <3>3 DEF UndoMatchesStep, HasTmp
  <2> QED BY <2>1, <2>2
<1>3. ASSUME NEW h \in Hosts, NEW wait \in BOOLEAN, Start(h, wait)
      PROVE  HeldInv'
  <2>1. /\ pc' = [pc EXCEPT ![h] = "Check"] /\ pc[h] = "idle"
        /\ UNCHANGED <<store, undo>>
    BY <1>3 DEF Start, Goto, NoWrite
  <2>2. \A g \in Hosts : HasTmp(g) => HasTmp(g)'
    BY <1>t, <2>1 DEF HasTmp, UndoMatchesStep
  <2> QED BY <2>1, <2>2 DEF HeldInv, Away
<1>4. ASSUME NEW d \in Dirs, RecordDir(d) PROVE HeldInv'
  BY <1>4, RecordEffect DEF HeldInv, Away
<1>5. ASSUME NEW n \in Names, Terminate(n) PROVE HeldInv'
  BY <1>1, <1>5, TerminateEffect
<1>6. CASE Aside
  BY <1>1, <1>6 DEF Aside
<1> QED BY <1>2, <1>3, <1>4, <1>5, <1>6, NextCases

\* Some PV lists every directory the cleaner looks at, at all times.
MarksListed == \A d \in marked : Listed(d)

\* Where no directory is added, that is every directory there is.
LEMMA AllListed ==
    ASSUME TypeOK, WholeInv, AwayInv
    PROVE  MarksListed
<1> SUFFICES ASSUME NEW d \in marked PROVE Listed(d)
  BY DEF MarksListed
<1>d. d \in Dirs
  BY DEF TypeOK
<1>1. CASE store[Main].kind # "none"
  BY <1>1, <1>d, StoreType DEF WholeInv, Listed
<1>2. CASE store[Main].kind = "none"
  BY <1>2, <1>d, StoreType DEF AwayInv, WholeInv, Listed
<1> QED BY <1>1, <1>2

\* Where none crashes, the copy the tmp PV was made from lists the marks.
LEMMA HeldListed ==
    ASSUME TypeOK, MarkInv, HeldInv
    PROVE  MarksListed
<1> SUFFICES ASSUME NEW d \in marked PROVE Listed(d)
  BY DEF MarksListed
<1>d. d \in Marks
  BY DEF Marks
<1>1. CASE store[Main].kind # "none"
  <2>1. store[Main].kind \in {"hostpath", "csi"}
    BY <1>1, StoreType DEF PVs
  <2> QED BY <2>1, <1>d, StoreType DEF MarkInv, Listed
<1>2. CASE store[Main].kind = "none"
  BY <1>2, <1>d, StoreType DEF HeldInv, Away, MarkInv, Listed
<1> QED BY <1>1, <1>2

LEMMA CleanStep ==
    ASSUME MarksListed, CleanInv, [Next]_vars
    PROVE  CleanInv'
<1> USE DEF CleanInv, nodeVars, runVars, workVars
<1>1. ASSUME NEW d \in Dirs, Clean(d) PROVE CleanInv'
  BY <1>1 DEF Clean, MarksListed
<1>2. ASSUME NEW h \in Hosts, Pipeline(h) \/ Crash(h) PROVE CleanInv'
  <2>1. UNCHANGED <<disk, suspect>>
    BY <1>2 DEF Pipeline, Abort, StepCheck, StepCheckUpdate, StepChangePod,
         CreateChangePod, WaitPodQuit, StepCreateTmpPV, CreateTmpPV,
         StepDeleteOldPV, DeleteOldPV, DeleteOldPVPoll, StepCreateCSIPV,
         StepWaitCSIPVBound, WaitPVBound, StepRestartPods, UndoNothing,
         UndoCreatePV, UndoCreatePVPoll, UndoDeleteOldPV, UndoChangePod,
         UndoChangePodPoll, PodsUndone,
         UndoCheck, UndoCheckUpdate, Finish, Crash, Forget
  <2> QED BY <2>1
<1>3. ASSUME NEW h \in Hosts, NEW wait \in BOOLEAN,
             Start(h, wait) \/ Stop(h) \/ TimerFires(h)
      PROVE  CleanInv'
  BY <1>3 DEF Start, Stop, TimerFires
<1>4. ASSUME NEW d \in Dirs, ChangePod(d) \/ RecordDir(d) PROVE CleanInv'
  BY <1>4 DEF ChangePod, PodRuns, EvictPod, PodGoes, RecordDir
<1>5. ASSUME NEW n \in Names, Terminate(n) PROVE CleanInv'
  BY <1>5 DEF Terminate
<1>6. CASE LeaseExpires \/ Bind \/ UNCHANGED vars
  BY <1>6 DEF LeaseExpires, Bind, vars
<1> QED BY <1>1, <1>2, <1>3, <1>4, <1>5, <1>6 DEF Next, Environment

-----------------------------------------------------------------------------
(* What is marked, where directories are added.                            *)

\* A replica comes to have a tmp PV only by creating it from its copy.
LEMMA TmpGained ==
    ASSUME TypeOK, UndoMatchesStep, NEW h \in Hosts, Pipeline(h) \/ Crash(h),
           NEW g \in Hosts, HasTmp(g)'
    PROVE  HasTmp(g) \/ (pc[h] = "TmpPVCreate" /\ Created(Tmp, snap[h]))
<1>t. /\ pc \in [Hosts -> Locations] /\ undo \in [Hosts -> 0 .. 5]
      /\ snap[h] \in PVs
  BY DEF TypeOK
<1>1. CASE CreateTmpPV(h)
  <2>1. CASE CreateCSIHostPathPV(Tmp, snap[h], TRUE)
    <3>1. Created(Tmp, snap[h])
      BY <1>t, <2>1, CreateEffect, StoreType
    <3> QED BY <1>1, <3>1 DEF CreateTmpPV
  <2>2. CASE Fail(h) /\ UNCHANGED undo
    BY <1>1, <1>t, <2>2 DEF CreateTmpPV, Fail, Goto, HasTmp, UndoMatchesStep
  <2> QED BY <1>1, <2>1, <2>2 DEF CreateTmpPV
<1>2. CASE ~CreateTmpPV(h)
  BY <1>2, TmpControl
<1> QED BY <1>1, <1>2

\* Only the creation of a change pod brings a directory closer to its mark.
LEMMA MarksControl ==
    ASSUME TypeOK, NEW h \in Hosts, Pipeline(h) \/ Crash(h)
    PROVE  /\ \/ Marks' \subseteq Marks
              \/ /\ pc[h] = "ChangePodCreate" /\ Marks' \subseteq Marks \cup todo[h]
                 /\ NoWrite
           /\ \A g \in Hosts : pc'[g] = "ChangePodCreate" =>
                \/ pc[g] = "ChangePodCreate" /\ todo'[g] \subseteq todo[g]
                \/ /\ store[Main].kind = "hostpath" /\ NoWrite
                   /\ todo'[g] = store[Main].dirs
<1> USE DEF Goto, Fail, Advance, NextUndo, Undoing, Enters, Forget,
            StepStarts, workVars, nodeVars, Marks
<1>t. /\ pc \in [Hosts -> Locations] /\ todo \in [Hosts -> SUBSET Dirs]
      /\ pods \in [Dirs -> {"absent", "pending", "succeeded", "failed", "going"}]
  BY DEF TypeOK
<1>1. CASE Abort(h) \/ StepCheck(h) \/ StepCheckUpdate(h)
  BY <1>t, <1>1 DEF Abort, StepCheck, StepCheckUpdate
<1>2. CASE StepChangePod(h) \/ WaitPodQuit(h)
  BY <1>t, <1>2 DEF StepChangePod, WaitPodQuit
<1>3. CASE CreateChangePod(h)
  <2>1. /\ pc[h] = "ChangePodCreate" /\ NoWrite /\ UNCHANGED marked
        /\ \/ UNCHANGED pods
           \/ \E d \in todo[h] : pods' = [pods EXCEPT ![d] = "pending"]
    BY <1>3 DEF CreateChangePod
  <2>2. Marks' \subseteq Marks \cup todo[h]
    BY <1>t, <2>1
  <2>3. \A g \in Hosts : pc'[g] = "ChangePodCreate" =>
           pc[g] = "ChangePodCreate" /\ todo'[g] \subseteq todo[g]
    BY <1>t, <1>3 DEF CreateChangePod
  <2> QED BY <2>1, <2>2, <2>3
<1>4. CASE StepCreateTmpPV(h) \/ StepDeleteOldPV(h)
  BY <1>t, <1>4 DEF StepCreateTmpPV, StepDeleteOldPV
<1>5. CASE CreateTmpPV(h)
  <2>1. /\ Goto(h, "DeleteOld") \/ Goto(h, "Undo")
        /\ UNCHANGED <<nodeVars, workVars>>
    BY <1>5 DEF CreateTmpPV
  <2> QED BY <1>t, <2>1
<1>6. CASE DeleteOldPV(h) \/ DeleteOldPVPoll(h)
  BY <1>t, <1>6 DEF DeleteOldPV, DeleteOldPVPoll
<1>7. CASE StepCreateCSIPV(h)
  <2>1. /\ Goto(h, "WaitBound") \/ Goto(h, "Undo")
        /\ UNCHANGED <<nodeVars, workVars>>
    BY <1>7 DEF StepCreateCSIPV
  <2> QED BY <1>t, <2>1
<1>8. CASE StepWaitCSIPVBound(h) \/ WaitPVBound(h)
  BY <1>t, <1>8 DEF StepWaitCSIPVBound, WaitPVBound
<1>9. CASE StepRestartPods(h)
  <2>1. /\ Goto(h, "Undo") /\ UNCHANGED <<pods, marked, workVars>>
    BY <1>9 DEF StepRestartPods
  <2> QED BY <1>t, <2>1
<1>10. CASE UndoNothing(h) \/ UndoDeleteOldPV(h)
  BY <1>t, <1>10 DEF UndoNothing, UndoDeleteOldPV
<1>11. CASE UndoChangePod(h) \/ UndoChangePodPoll(h)
  <2>1. /\ Goto(h, "UndoPoll") \/ Goto(h, "Undo")
        /\ UNCHANGED marked
        /\ \/ UNCHANGED pods
           \/ \E d \in made[h] : DeleteChangePod(d)
        /\ \A g \in Hosts : g # h => todo'[g] = todo[g]
    <3>1. CASE UndoChangePod(h)
      <4>1. /\ Goto(h, "UndoPoll") \/ Goto(h, "Undo")
            /\ UNCHANGED marked
            /\ UNCHANGED pods \/ \E d \in made[h] : DeleteChangePod(d)
        BY <3>1 DEF UndoChangePod, PodsUndone
      <4>2. \A g \in Hosts : g # h => todo'[g] = todo[g]
        BY <1>t, <3>1 DEF UndoChangePod, PodsUndone
      <4> QED BY <4>1, <4>2
    <3>2. CASE UndoChangePodPoll(h)
      BY <1>t, <3>2 DEF UndoChangePodPoll, PodsUndone
    <3> QED BY <1>11, <3>1, <3>2
  <2>2. Marks' \subseteq Marks
    BY <1>t, <2>1 DEF DeleteChangePod
  <2> QED BY <1>t, <2>1, <2>2
<1>12. CASE UndoCreatePV(h) \/ UndoCreatePVPoll(h)
  <2>1. /\ UNCHANGED pc \/ Goto(h, "Undo") \/ Goto(h, "UndoPoll")
        /\ UNCHANGED <<nodeVars, workVars>>
    BY <1>12 DEF UndoCreatePV, UndoCreatePVPoll
  <2> QED BY <1>t, <2>1
<1>13. CASE UndoCheck(h) \/ UndoCheckUpdate(h)
  BY <1>t, <1>13 DEF UndoCheck, UndoCheckUpdate
<1>14. CASE Finish(h) \/ Crash(h)
  BY <1>t, <1>14 DEF Finish, Crash
<1> QED BY <1>1, <1>2, <1>3, <1>4, <1>5, <1>6, <1>7, <1>8, <1>9, <1>10, <1>11,
           <1>12, <1>13, <1>14 DEF Pipeline

LEMMA MarkRunStep ==
    ASSUME TypeOK, UndoMatchesStep, MutualExclusion, TmpInv, MarkInv,
           NEW h \in Hosts, Pipeline(h) \/ Crash(h), [Next]_vars
    PROVE  MarkInv'
<1>t. /\ pc \in [Hosts -> Locations] /\ undo \in [Hosts -> 0 .. 5]
  BY DEF TypeOK
<1>m. \/ SameVolume(Main) \/ Dropped(Main)
      \/ pc[h] = "CSIPV" /\ Created(Main, snap[h])
  BY MainWrites
\* Who marks directories is alone.
<1>a. ASSUME NEW g \in Hosts, NEW k \in Hosts, pc[g] = "ChangePodCreate",
             pc[k] \in Copying \/ HasTmp(k)
      PROVE  FALSE
  <2>1. Holding(g) /\ Holding(k)
    BY <1>a, <1>t DEF UndoMatchesStep, Holding, Copying, HasTmp
  <2>2. g = k
    BY <2>1 DEF MutualExclusion
  <2> QED BY <1>a, <2>2 DEF UndoMatchesStep, Copying, HasTmp
<1>1. ASSUME NEW g \in Hosts, pc'[g] = "ChangePodCreate"
      PROVE  /\ store'[Main].kind # "csi"
             /\ store'[Main].kind = "hostpath" => todo'[g] \subseteq store'[Main].dirs
  <2>1. CASE pc[g] = "ChangePodCreate" /\ todo'[g] \subseteq todo[g]
    <3>1. SameVolume(Main) \/ Dropped(Main)
      BY <1>a, <1>m, <2>1 DEF Copying
    <3> QED BY <2>1, <3>1 DEF MarkInv, SameVolume, Dropped, Removed
  <2>2. CASE /\ store[Main].kind = "hostpath" /\ NoWrite
             /\ todo'[g] = store[Main].dirs
    BY <2>2 DEF NoWrite
  <2> QED BY <1>1, <2>1, <2>2, MarksControl
<1>2. ASSUME Marks' \subseteq Marks PROVE MarkInv'
  <2>1. store'[Main].kind \in {"hostpath", "csi"} => Marks' \subseteq store'[Main].dirs
    BY <1>2, <1>m DEF MarkInv, SameVolume, Dropped, Removed, Created
  <2>2. ASSUME NEW g \in Hosts, pc'[g] \in Copying
        PROVE  Marks' \subseteq snap'[g].dirs
    <3>1. (pc[g] \in Copying /\ snap'[g] = snap[g]) \/ Copies(g)
      BY <2>2, CopyControl
    <3> QED BY <1>2, <3>1 DEF MarkInv, Copying, Copies
  <2>3. ASSUME NEW g \in Hosts, HasTmp(g)'
        PROVE  Marks' \subseteq store'[Tmp].dirs
    <3>1. CASE pc[h] = "TmpPVCreate" /\ Created(Tmp, snap[h])
      BY <1>2, <3>1 DEF MarkInv, Created
    <3>2. CASE HasTmp(g)
      <4>1. store[Tmp].kind = "csi" /\ store'[Tmp].kind = "csi"
        BY <2>3, <3>2, TmpStep DEF TmpInv
      <4>2. store'[Tmp].dirs = store[Tmp].dirs
        BY <4>1, TmpWrites DEF SameVolume, Dropped, Removed, Created
      <4> QED BY <1>2, <3>2, <4>2 DEF MarkInv
    <3> QED BY <2>3, <3>1, <3>2, TmpGained
  <2> QED BY <1>1, <2>1, <2>2, <2>3 DEF MarkInv, Copying
<1>3. ASSUME pc[h] = "ChangePodCreate", Marks' \subseteq Marks \cup todo[h], NoWrite
      PROVE  MarkInv'
  <2>1. store'[Main].kind \in {"hostpath", "csi"} => Marks' \subseteq store'[Main].dirs
    BY <1>3 DEF MarkInv, NoWrite
  <2>2. ASSUME NEW g \in Hosts, pc'[g] \in Copying PROVE FALSE
    BY <1>3, <1>a, <2>2, CopyControl DEF Copies
  <2>3. ASSUME NEW g \in Hosts, HasTmp(g)' PROVE FALSE
    BY <1>3, <1>a, <2>3, TmpGained
  <2> QED BY <1>1, <2>1, <2>2, <2>3 DEF MarkInv, Copying
<1> QED BY <1>2, <1>3, MarksControl

LEMMA MarkStep ==
    ASSUME TypeOK, UndoMatchesStep, MutualExclusion, TmpInv, MarkInv,
           [Next]_vars
    PROVE  MarkInv'
<1>t. /\ pc \in [Hosts -> Locations]
      /\ pods \in [Dirs -> {"absent", "pending", "succeeded", "failed", "going"}]
  BY DEF TypeOK
<1>1. ASSUME NEW h \in Hosts, Pipeline(h) \/ Crash(h) PROVE MarkInv'
  BY <1>1, MarkRunStep
<1>2. ASSUME \A n \in Names : SameVolume(n) \/ (store[n].deleting /\ Removed(n)),
             Marks' \subseteq Marks, UNCHANGED <<undo, snap, todo>>,
             \A g \in Hosts : pc'[g] = pc[g] \/ pc'[g] = "Check"
      PROVE  MarkInv'
  <2>1. SameVolume(Main) \/ Removed(Main)
    BY <1>2, StoreType
  <2>2. \A g \in Hosts : HasTmp(g)' => HasTmp(g) \/ pc'[g] = "Check"
    BY <1>2 DEF HasTmp
  <2>3. ASSUME NEW g \in Hosts, HasTmp(g)' PROVE Marks' \subseteq store'[Tmp].dirs
    <3>1. undo'[g] >= 3
      BY <2>3 DEF HasTmp
    <3>2. HasTmp(g)
      BY <2>2, <2>3, <3>1, UndoStep DEF UndoMatchesStep
    <3>3. SameVolume(Tmp)
      BY <1>2, <3>2, StoreType DEF TmpInv
    <3> QED BY <1>2, <3>2, <3>3 DEF MarkInv, SameVolume
  <2> QED BY <1>2, <2>1, <2>3 DEF MarkInv, SameVolume, Removed
<1>3. ASSUME NEW h \in Hosts, NEW wait \in BOOLEAN, Start(h, wait)
      PROVE  MarkInv'
  <2>1. /\ \A n \in Names : SameVolume(n)
        /\ UNCHANGED <<pods, marked, undo, snap, todo>>
        /\ pc' = [pc EXCEPT ![h] = "Check"]
    BY <1>3, NoWriteSame DEF Start, Goto, nodeVars, workVars
  <2> QED BY <1>2, <1>t, <2>1 DEF Marks
<1>4. ASSUME NEW d \in Dirs, RecordDir(d) PROVE MarkInv'
  <2> DEFINE pv == [store[Main] EXCEPT !.dirs = @ \cup {d}]
  <2>1. pv.kind = store[Main].kind /\ pv.dirs = store[Main].dirs \cup {d}
    BY StoreType DEF PVs
  <2>2. WritePV(Main, pv)
    BY <1>4 DEF RecordDir
  <2> HIDE DEF pv
  <2>3. /\ store'[Main].kind = store[Main].kind
        /\ store[Main].dirs \subseteq store'[Main].dirs
        /\ store'[Tmp] = store[Tmp]
    BY <2>1, <2>2, WriteOther, StoreType
  <2>4. UNCHANGED <<pods, marked, pc, undo, snap, todo>>
    BY <1>4 DEF RecordDir, workVars
  <2> QED BY <2>3, <2>4 DEF MarkInv, Marks, HasTmp
<1>5. ASSUME NEW n \in Names, Terminate(n) PROVE MarkInv'
  <2>1. UNCHANGED <<pods, marked>>
    BY <1>5 DEF Terminate, nodeVars
  <2> QED BY <1>2, <1>5, <2>1, TerminateEffect DEF Marks
<1>6. CASE \/ \E h \in Hosts : Stop(h) \/ TimerFires(h)
           \/ \E d \in Dirs : ChangePod(d) \/ Clean(d)
           \/ LeaseExpires \/ Bind \/ UNCHANGED vars
  <2>1. Marks' \subseteq Marks
    <3>1. ASSUME NEW d \in Dirs, ChangePod(d) PROVE Marks' \subseteq Marks
      <4>1. /\ pods[d] # "absent" /\ marked' \subseteq marked \cup {d}
            /\ \A e \in Dirs : e # d => pods'[e] = pods[e]
        BY <1>t, <3>1 DEF ChangePod, PodRuns, EvictPod, PodGoes
      <4> QED BY <4>1 DEF Marks
    <3>2. CASE UNCHANGED <<pods, marked>>
      BY <3>2 DEF Marks
    <3> QED BY <1>6, <3>1, <3>2
            DEF Stop, TimerFires, Clean, LeaseExpires, Bind, vars, nodeVars
  <2>2. Aside
    BY <1>6, AsideSteps
  <2>3. UNCHANGED <<undo, snap, todo, pc>>
    BY <2>2 DEF Aside
  <2> QED BY <1>2, <2>1, <2>2, <2>3 DEF Aside
<1> QED BY <1>1, <1>3, <1>4, <1>5, <1>6 DEF Next, Environment

-----------------------------------------------------------------------------
(* What a run leaves behind.                                               *)

\* A run leaves undo 3 with the tmp PV gone, and undo 2 with no pod left.
LEMMA LeftControl ==
    ASSUME TypeOK, UndoMatchesStep, LeftInv, Faults \cap {"refused", "lost"} = {},
           NEW h \in Hosts, Pipeline(h)
    PROVE  /\ \A g \in Hosts :
                /\ undo[g] >= 3 => undo'[g] >= 3 \/ (store[Tmp].kind = "none" /\ NoWrite)
                /\ made'[g] # {} => undo'[g] >= 2
           /\ \A d \in Dirs : pods'[d] # "absent" =>
                 \/ pods[d] # "absent" /\ \A g \in Hosts : d \in made[g] => d \in made'[g]
                 \/ \E g \in Hosts : d \in made'[g]
<1> USE DEF Goto, Fail, Advance, NextUndo, Undoing, Enters,
            StepStarts, UndoMatchesStep, May, workVars, nodeVars, LeftInv
<1>t. /\ pc \in [Hosts -> Locations] /\ undo \in [Hosts -> 0 .. 5]
      /\ made \in [Hosts -> SUBSET Dirs]
      /\ pods \in [Dirs -> {"absent", "pending", "succeeded", "failed", "going"}]
  BY DEF TypeOK
<1>1. CASE Abort(h) \/ StepCheck(h) \/ StepCheckUpdate(h)
  BY <1>t, <1>1 DEF Abort, StepCheck, StepCheckUpdate
<1>2. CASE StepChangePod(h) \/ WaitPodQuit(h)
  BY <1>t, <1>2 DEF StepChangePod, WaitPodQuit
<1>3. CASE CreateChangePod(h)
  BY <1>t, <1>3 DEF CreateChangePod
<1>4. CASE StepCreateTmpPV(h) \/ StepDeleteOldPV(h)
  BY <1>t, <1>4 DEF StepCreateTmpPV, StepDeleteOldPV
<1>5. CASE CreateTmpPV(h)
  <2>1. /\ pc[h] = "TmpPVCreate"
        /\ Advance(h, "DeleteOld", 3) \/ (Fail(h) /\ UNCHANGED undo)
        /\ UNCHANGED <<nodeVars, workVars>>
    BY <1>5 DEF CreateTmpPV
  <2> QED BY <1>t, <2>1
<1>6. CASE DeleteOldPV(h) \/ DeleteOldPVPoll(h)
  BY <1>t, <1>6 DEF DeleteOldPV, DeleteOldPVPoll
<1>7. CASE StepCreateCSIPV(h)
  <2>1. /\ pc[h] = "CSIPV"
        /\ Advance(h, "WaitBound", 5) \/ (Fail(h) /\ UNCHANGED undo)
        /\ UNCHANGED <<nodeVars, workVars>>
    BY <1>7 DEF StepCreateCSIPV
  <2> QED BY <1>t, <2>1
<1>8. CASE StepWaitCSIPVBound(h) \/ WaitPVBound(h)
  BY <1>t, <1>8 DEF StepWaitCSIPVBound, WaitPVBound
<1>9. CASE StepRestartPods(h)
  BY <1>t, <1>9 DEF StepRestartPods
<1>10. CASE UndoNothing(h) \/ UndoDeleteOldPV(h)
  BY <1>t, <1>10 DEF UndoNothing, UndoDeleteOldPV
<1>11. CASE UndoChangePod(h) \/ UndoChangePodPoll(h)
  <2>1. CASE \E d \in made[h] : DeleteChangePod(d) /\ UNCHANGED <<undo, made>>
    BY <1>t, <2>1 DEF DeleteChangePod
  <2>2. CASE made[h] = {} /\ PodsUndone(h) /\ UNCHANGED pods
    BY <1>t, <2>2, <1>11 DEF PodsUndone, UndoChangePod, UndoChangePodPoll
  <2>3. CASE /\ \A d \in todo[h] : pods[d] = "absent"
             /\ made' = [made EXCEPT ![h] = @ \ todo[h]]
             /\ UNCHANGED <<undo, pods>>
    BY <1>t, <1>11, <2>3 DEF UndoChangePod, UndoChangePodPoll
  <2> QED BY <1>11, <2>1, <2>2, <2>3 DEF UndoChangePod, UndoChangePodPoll
<1>12. CASE UndoCreatePV(h) \/ UndoCreatePVPoll(h)
  <2>1. /\ \/ UNCHANGED undo
           \/ NextUndo(h) /\ store[UndoPV(h)].kind = "none" /\ NoWrite
        /\ undo[h] \in {3, 5}
        /\ UNCHANGED <<nodeVars, workVars>>
    BY <1>12 DEF UndoCreatePV, UndoCreatePVPoll
  <2>2. undo[h] = 3 => UndoPV(h) = Tmp
    BY DEF UndoPV
  <2> QED BY <1>t, <2>1, <2>2
<1>13. CASE UndoCheck(h) \/ UndoCheckUpdate(h)
  BY <1>t, <1>13 DEF UndoCheck, UndoCheckUpdate
<1>14. CASE Finish(h)
  BY <1>t, <1>14 DEF Finish, Forget
<1> QED BY <1>1, <1>2, <1>3, <1>4, <1>5, <1>6, <1>7, <1>8, <1>9, <1>10, <1>11,
           <1>12, <1>13, <1>14 DEF Pipeline

LEMMA LeftStep ==
    ASSUME Faults \cap {"crash", "refused", "lost"} = {},
           TypeOK, UndoMatchesStep, LeftInv, [Next]_vars
    PROVE  LeftInv'
<1>t. /\ pc \in [Hosts -> Locations] /\ undo \in [Hosts -> 0 .. 5]
      /\ pods \in [Dirs -> {"absent", "pending", "succeeded", "failed", "going"}]
  BY DEF TypeOK
<1>1. ASSUME NEW h \in Hosts, Pipeline(h) PROVE LeftInv'
  <2>c. Faults \cap {"refused", "lost"} = {}
    OBVIOUS
  <2>1. ASSUME store'[Tmp].kind # "none" PROVE \E g \in Hosts : undo'[g] >= 3
    <3>1. CASE CreateTmpPV(h)
      <4>1. CASE CreateCSIHostPathPV(Tmp, snap[h], TRUE) /\ Advance(h, "DeleteOld", 3)
        BY <1>t, <4>1 DEF Advance
      <4>2. CASE CreateCSIHostPathPV(Tmp, snap[h], FALSE) /\ UNCHANGED undo
        <5>1. store[Tmp].kind # "none"
          BY <2>1, <4>2 DEF CreateCSIHostPathPV, May, NoWrite
        <5> QED BY <4>2, <5>1 DEF LeftInv
      <4> QED BY <3>1, <4>1, <4>2 DEF CreateTmpPV
    <3>2. CASE ~CreateTmpPV(h)
      <4>1. SameVolume(Tmp) \/ Dropped(Tmp)
        BY <1>1, <3>2, TmpWrites
      <4>2. store[Tmp].kind # "none"
        BY <2>1, <4>1 DEF SameVolume, Dropped, Removed
      <4> QED BY <1>1, <2>1, <2>c, <4>2, LeftControl DEF LeftInv
    <3> QED BY <3>1, <3>2
  <2>2. \A d \in Dirs : pods'[d] # "absent" => \E g \in Hosts : d \in made'[g]
    BY <1>1, <2>c, LeftControl DEF LeftInv
  <2>3. \A g \in Hosts : made'[g] # {} => undo'[g] >= 2
    BY <1>1, <2>c, LeftControl
  <2> QED BY <2>1, <2>2, <2>3 DEF LeftInv
<1>2. ASSUME NEW h \in Hosts PROVE ~Crash(h)
  BY DEF Crash, May
<1>3. ASSUME SameVolume(Tmp) \/ Removed(Tmp), UNCHANGED <<undo, made>>,
             \A d \in Dirs : pods'[d] # "absent" => pods[d] # "absent"
      PROVE  LeftInv'
  BY <1>3 DEF LeftInv, SameVolume, Removed
<1>4. ASSUME NEW h \in Hosts, NEW wait \in BOOLEAN, Start(h, wait)
      PROVE  LeftInv'
  BY <1>3, <1>4, NoWriteSame, StoreType DEF Start, workVars, nodeVars
<1>5. ASSUME NEW d \in Dirs, RecordDir(d) PROVE LeftInv'
  <2>1. SameVolume(Tmp)
    BY <1>5, WriteOther, StoreType DEF RecordDir
  <2> QED BY <1>3, <1>5, <2>1 DEF RecordDir, workVars
<1>6. ASSUME NEW n \in Names, Terminate(n) PROVE LeftInv'
  BY <1>3, <1>6, TerminateEffect, StoreType
<1>7. CASE \/ \E h \in Hosts : Stop(h) \/ TimerFires(h)
           \/ \E d \in Dirs : ChangePod(d) \/ Clean(d)
           \/ LeaseExpires \/ Bind \/ UNCHANGED vars
  <2>1. \A d \in Dirs : pods'[d] # "absent" => pods[d] # "absent"
    BY <1>7, <1>t DEF Stop, TimerFires, ChangePod, PodRuns, EvictPod, PodGoes,
                      Clean, LeaseExpires, Bind, vars, nodeVars
  <2>2. Aside
    BY <1>7, AsideSteps
  <2> QED BY <1>3, <2>1, <2>2, StoreType DEF Aside
<1> QED BY <1>1, <1>2, <1>4, <1>5, <1>6, <1>7 DEF Next, Environment

-----------------------------------------------------------------------------
(* The change pods of a run that goes on.                                  *)

\* The run has left the change pods behind it.
PastPods(h) == pc[h] \in {"TmpPV", "TmpPVCreate"} \/ undo[h] >= 3

\* The pods of a run have done their work, or one of them has vanished.
PodsDone(h) ==
    \/ made[h] \cap disk \subseteq marked
    \/ \E d \in made[h] : pods[d] \in {"absent", "going"}

\* A pod that has succeeded has marked its directory, and so have the pods of
\* a run that goes on.
DoneInv ==
    /\ \A d \in Dirs : pods[d] = "succeeded" => d \in marked \/ d \notin disk
    /\ \A h \in Hosts : PastPods(h) => PodsDone(h)

\* Only WaitPodQuit lets a run pass its pods; only a run that creates them
\* brings a pod back.
LEMMA PodControl ==
    ASSUME TypeOK, UndoMatchesStep, NEW h \in Hosts, Pipeline(h) \/ Crash(h)
    PROVE  /\ UNCHANGED <<marked, disk>>
           /\ \A g \in Hosts : PastPods(g)' =>
                /\ made'[g] = made[g]
                /\ \/ PastPods(g)
                   \/ \A d \in made[g] : pods[d] = "succeeded"
                   \/ \E d \in made[g] : pods[d] = "absent"
           /\ \A d \in Dirs :
                \/ pods'[d] \in {pods[d], "going"}
                \/ pods'[d] = "pending" /\ Holding(h)' /\ ~PastPods(h)'
<1> USE DEF Goto, Fail, Advance, NextUndo, Undoing, Enters, Forget, PastPods,
            StepStarts, UndoMatchesStep, workVars, nodeVars
<1>t. /\ pc \in [Hosts -> Locations] /\ undo \in [Hosts -> 0 .. 5]
      /\ made \in [Hosts -> SUBSET Dirs]
      /\ pods \in [Dirs -> {"absent", "pending", "succeeded", "failed", "going"}]
  BY DEF TypeOK
<1>1. CASE Abort(h) \/ StepCheck(h) \/ StepCheckUpdate(h)
  BY <1>t, <1>1 DEF Abort, StepCheck, StepCheckUpdate
<1>2. CASE StepChangePod(h) \/ WaitPodQuit(h)
  BY <1>t, <1>2 DEF StepChangePod, WaitPodQuit
<1>3. CASE CreateChangePod(h)
  <2>1. /\ UNCHANGED <<marked, disk, undo>> /\ pc[h] = "ChangePodCreate"
        /\ \A g \in Hosts : g # h => UNCHANGED <<pc[g], made[g]>>
        /\ pc'[h] \in {"ChangePodCreate", "ChangePodWait", "Undo"}
        /\ \A d \in Dirs : pods'[d] \in {pods[d], "pending"}
    BY <1>t, <1>3 DEF CreateChangePod
  <2> QED BY <1>t, <2>1 DEF Holding
<1>4. CASE StepCreateTmpPV(h) \/ StepDeleteOldPV(h)
  BY <1>t, <1>4 DEF StepCreateTmpPV, StepDeleteOldPV
<1>5. CASE CreateTmpPV(h)
  <2>1. /\ pc[h] = "TmpPVCreate"
        /\ Advance(h, "DeleteOld", 3) \/ (Fail(h) /\ UNCHANGED undo)
        /\ UNCHANGED <<nodeVars, workVars>>
    BY <1>5 DEF CreateTmpPV
  <2> QED BY <1>t, <2>1
<1>6. CASE DeleteOldPV(h) \/ DeleteOldPVPoll(h)
  BY <1>t, <1>6 DEF DeleteOldPV, DeleteOldPVPoll
<1>7. CASE StepCreateCSIPV(h)
  <2>1. /\ pc[h] = "CSIPV"
        /\ Advance(h, "WaitBound", 5) \/ (Fail(h) /\ UNCHANGED undo)
        /\ UNCHANGED <<nodeVars, workVars>>
    BY <1>7 DEF StepCreateCSIPV
  <2> QED BY <1>t, <2>1
<1>8. CASE StepWaitCSIPVBound(h) \/ WaitPVBound(h)
  BY <1>t, <1>8 DEF StepWaitCSIPVBound, WaitPVBound
<1>9. CASE StepRestartPods(h)
  <2>1. /\ Goto(h, "Undo") /\ UNCHANGED <<pods, marked, disk, undo, workVars>>
    BY <1>9 DEF StepRestartPods
  <2> QED BY <1>t, <2>1
<1>10. CASE UndoNothing(h) \/ UndoDeleteOldPV(h)
  BY <1>t, <1>10 DEF UndoNothing, UndoDeleteOldPV
<1>11. CASE UndoChangePod(h) \/ UndoChangePodPoll(h)
  <2>1. /\ undo[h] = 2 /\ undo'[h] \in {1, 2}
        /\ pc'[h] \in {"Undo", "UndoPoll"}
        /\ \A g \in Hosts : g # h => UNCHANGED <<pc[g], undo[g], made[g]>>
    BY <1>t, <1>11 DEF UndoChangePod, UndoChangePodPoll, PodsUndone
  <2>2. /\ UNCHANGED <<marked, disk>>
        /\ \A d \in Dirs : pods'[d] \in {pods[d], "going"}
    BY <1>t, <1>11 DEF UndoChangePod, UndoChangePodPoll, DeleteChangePod
  <2> QED BY <1>t, <2>1, <2>2
<1>12. CASE UndoCreatePV(h) \/ UndoCreatePVPoll(h)
  <2>1. /\ \/ UNCHANGED <<pc, undo>>
           \/ Goto(h, "UndoPoll") /\ UNCHANGED undo
           \/ NextUndo(h)
        /\ undo[h] \in {3, 5}
        /\ UNCHANGED <<nodeVars, workVars>>
    BY <1>12 DEF UndoCreatePV, UndoCreatePVPoll
  <2> QED BY <1>t, <2>1
<1>13. CASE UndoCheck(h) \/ UndoCheckUpdate(h)
  BY <1>t, <1>13 DEF UndoCheck, UndoCheckUpdate
<1>14. CASE Finish(h) \/ Crash(h)
  BY <1>t, <1>14 DEF Finish, Crash
<1> QED BY <1>1, <1>2, <1>3, <1>4, <1>5, <1>6, <1>7, <1>8, <1>9, <1>10, <1>11,
           <1>12, <1>13, <1>14 DEF Pipeline

LEMMA DoneStep ==
    ASSUME TypeOK, UndoMatchesStep, MutualExclusion', DoneInv, [Next]_vars
    PROVE  DoneInv'
<1>t. pods \in [Dirs -> {"absent", "pending", "succeeded", "failed", "going"}]
  BY DEF TypeOK
<1>p. UndoMatchesStep' /\ undo' \in [Hosts -> 0 .. 5]
  BY UndoStep, TypeStep DEF TypeOK
<1>h. \A g \in Hosts : PastPods(g)' => Holding(g)'
  BY <1>p DEF PastPods, Holding, UndoMatchesStep
<1>1. ASSUME NEW h \in Hosts, Pipeline(h) \/ Crash(h) PROVE DoneInv'
  <2>1. \A d \in Dirs : pods'[d] = "succeeded" => d \in marked' \/ d \notin disk'
    BY <1>1, PodControl DEF DoneInv
  <2>2. ASSUME NEW g \in Hosts, PastPods(g)' PROVE PodsDone(g)'
    <3>1. PodsDone(g) /\ made'[g] = made[g] /\ UNCHANGED <<marked, disk>>
      BY <1>1, <2>2, PodControl DEF DoneInv, PodsDone, TypeOK
    <3>2. \A d \in Dirs : pods'[d] \in {pods[d], "going"}
      BY <1>1, <1>h, <2>2, PodControl DEF MutualExclusion
    <3> QED BY <3>1, <3>2 DEF PodsDone, TypeOK
  <2> QED BY <2>1, <2>2 DEF DoneInv
<1>2. ASSUME UNCHANGED <<undo, made>>,
             \A g \in Hosts : PastPods(g)' => PastPods(g),
             \A d \in Dirs : \/ pods'[d] \in {pods[d], "pending", "failed", "going"}
                             \/ pods'[d] = "succeeded" /\ (d \in marked' \/ d \notin disk')
                             \/ pods[d] = "going" /\ pods'[d] = "absent",
             \A d \in Dirs : pods[d] \in {"absent", "going"} => pods'[d] \in {"absent", "going"},
             marked \subseteq marked', disk' \subseteq disk
      PROVE  DoneInv'
  BY <1>2, <1>t DEF DoneInv, PodsDone, TypeOK
<1>3. ASSUME NEW h \in Hosts, NEW wait \in BOOLEAN, Start(h, wait)
      PROVE  DoneInv'
  <2>1. \A g \in Hosts : PastPods(g)' => PastPods(g)
    BY <1>3 DEF Start, Goto, PastPods, TypeOK
  <2> QED BY <1>2, <1>3, <2>1 DEF Start, workVars, nodeVars
<1>4. ASSUME NEW d \in Dirs, ChangePod(d) PROVE DoneInv'
  <2>1. \A g \in Hosts : PastPods(g)' => PastPods(g)
    BY <1>4 DEF ChangePod, PodRuns, EvictPod, PodGoes, PastPods
  <2>2. /\ UNCHANGED <<undo, made, disk>> /\ marked \subseteq marked'
        /\ \A e \in Dirs : e # d => pods'[e] = pods[e]
    BY <1>4, <1>t DEF ChangePod, PodRuns, EvictPod, PodGoes, workVars
  <2>3. \/ pods'[d] \in {"failed", "going"} /\ pods[d] \notin {"absent", "going"}
        \/ /\ pods'[d] = "succeeded" /\ pods[d] = "pending"
           /\ d \in marked' \/ d \notin disk'
        \/ pods[d] = "going" /\ pods'[d] = "absent"
    BY <1>4, <1>t DEF ChangePod, PodRuns, EvictPod, PodGoes
  <2> QED BY <1>2, <2>1, <2>2, <2>3
<1>5. CASE \/ \E h \in Hosts : Stop(h) \/ TimerFires(h)
           \/ \E d \in Dirs : RecordDir(d) \/ Clean(d)
           \/ \E n \in Names : Terminate(n)
           \/ LeaseExpires \/ Bind \/ UNCHANGED vars
  <2>1. /\ UNCHANGED <<pc, undo, made, pods, marked>> /\ disk' \subseteq disk
    BY <1>5 DEF Stop, TimerFires, RecordDir, Clean, Terminate, LeaseExpires, Bind,
                vars, nodeVars, workVars
  <2> QED BY <1>2, <2>1 DEF PastPods
<1> QED BY <1>1, <1>3, <1>4, <1>5 DEF Next, Environment

-----------------------------------------------------------------------------
(* The initial states.                                                     *)

LEMMA InitStore ==
    ASSUME Init
    PROVE  /\ store[Main].kind = "hostpath" /\ ~store[Main].deleting
           /\ store[Tmp].kind = "none" /\ ~store[Tmp].deleting
           /\ mounted \subseteq store[Main].dirs
           /\ "newdir" \notin Faults => store[Main].dirs = Dirs
           /\ late = {} /\ suspect = {} /\ disk = Dirs
           /\ \A d \in Dirs : pods[d] = "absent"
           /\ \A h \in Hosts : /\ pc[h] = "idle" /\ undo[h] = 0
                               /\ ~failed[h] /\ ~waitBound[h] /\ ~timedOut[h]
                               /\ ~stopping[h] /\ made[h] = {}
<1>1. PICK D \in IF May("newdir") THEN SUBSET Dirs ELSE {Dirs}, b \in BOOLEAN :
         /\ store = [n \in Names |->
                       IF n = Main
                       THEN [NoPV EXCEPT !.kind = "hostpath", !.dirs = D,
                                         !.bound = b]
                       ELSE NoPV]
         /\ mounted = IF b THEN D ELSE {}
  BY DEF Init
<1>2. Main \in Names /\ Tmp \in Names /\ Main # Tmp
  BY DEF Names, Main, Tmp
<1>3. /\ store[Main].kind = "hostpath" /\ ~store[Main].deleting
      /\ store[Main].dirs = D /\ store[Tmp] = NoPV
  BY <1>1, <1>2 DEF NoPV
<1>4. mounted \subseteq D /\ ("newdir" \notin Faults => D = Dirs)
  BY <1>1 DEF May
<1>5. /\ late = {} /\ suspect = {} /\ disk = Dirs
      /\ \A d \in Dirs : pods[d] = "absent"
      /\ \A h \in Hosts : /\ pc[h] = "idle" /\ undo[h] = 0
                          /\ ~failed[h] /\ ~waitBound[h] /\ ~timedOut[h]
                          /\ ~stopping[h] /\ made[h] = {}
  BY DEF Init
<1>6. store[Tmp].kind = "none" /\ ~store[Tmp].deleting
  BY <1>3 DEF NoPV
<1> QED BY <1>3, <1>4, <1>5, <1>6

LEMMA VolumeInit ==
    Init => /\ TmpInv /\ ReplacedInv /\ TakenInv /\ RestartInv /\ AwayInv
            /\ CleanInv /\ LeftInv
            /\ "newdir" \notin Faults => WholeInv
<1> SUFFICES ASSUME Init
             PROVE  /\ TmpInv /\ ReplacedInv /\ TakenInv /\ RestartInv
                    /\ AwayInv /\ CleanInv /\ LeftInv
                    /\ "newdir" \notin Faults => WholeInv
  OBVIOUS
<1>1. TmpInv /\ ReplacedInv
  BY InitStore DEF TmpInv, HasTmp, ReplacedInv, HasReplaced
<1>2. TakenInv /\ RestartInv
  BY InitStore DEF TakenInv, DirsTakenOver, RestartInv
<1>3. AwayInv /\ CleanInv /\ LeftInv
  BY InitStore DEF AwayInv, HasTmp, CleanInv, LeftInv
<1>4. "newdir" \notin Faults => WholeInv
  BY InitStore DEF WholeInv, Names
<1> QED BY <1>1, <1>2, <1>3, <1>4

-----------------------------------------------------------------------------
(* The theorems.                                                           *)

\* What holds whatever fails, crashes or expires: the tmp PV stands while a
\* replica has one, and one replica has it, though the lock may have run out
\* on it; the CSI PV a run has put in the place of the old one stands until
\* the run is over; and every directory in use is listed (stepCreateTmpPV,
\* stepDeleteOldPV, stepCreateCSIPV).
VolumeInv == TmpInv /\ ReplacedInv /\ TakenInv

THEOREM TmpExcludes == Spec => [](TypeOK /\ UndoMatchesStep /\ VolumeInv)
<1>1. Init => TypeOK /\ UndoMatchesStep /\ VolumeInv
  BY TypeInit, UndoInit, VolumeInit DEF VolumeInv
<1>2. TypeOK /\ UndoMatchesStep /\ VolumeInv /\ [Next]_vars
         => (TypeOK /\ UndoMatchesStep /\ VolumeInv)'
  <2> SUFFICES ASSUME TypeOK, UndoMatchesStep, VolumeInv, [Next]_vars
               PROVE  (TypeOK /\ UndoMatchesStep /\ VolumeInv)'
    OBVIOUS
  <2>1. TypeOK' /\ UndoMatchesStep'
    BY TypeStep, UndoStep
  <2>2. VolumeInv'
    BY TmpStep, ReplacedStep, TakenStep DEF VolumeInv
  <2> QED BY <2>1, <2>2
<1> QED BY <1>1, <1>2, PTL DEF Spec

\* A CSI PV that takes the place of the old one lists every directory in use,
\* but for those recorded between the copy of the old PV and its deletion,
\* whatever fails, crashes or expires (stepDeleteOldPV, stepCreateCSIPV).
THEOREM TakenOver == Spec => []DirsTakenOver
<1>1. VolumeInv => DirsTakenOver
  BY DEF VolumeInv, TakenInv
<1> QED BY <1>1, TmpExcludes, PTL

\* Where no pod lands on a new node, whoever lists any directory of the
\* volume lists them all.
LEMMA WholeKept ==
    ASSUME "newdir" \notin Faults
    PROVE  Spec => []WholeInv
<1>1. Init => WholeInv
  BY VolumeInit
<1>2. TypeOK /\ UndoMatchesStep /\ WholeInv /\ [Next]_vars => WholeInv'
  BY WholeStep
<1> QED BY <1>1, <1>2, TypeCorrect, PTL DEF Spec

\* As long as the lock excludes, whoever lists the volume lists what is marked,
\* though directories are added.
LEMMA MarkKept ==
    ASSUME "overrun" \notin Faults
    PROVE  Spec => []MarkInv
<1>1. Init => MarkInv
  BY InitStore DEF Init, MarkInv, HasTmp, Marks
<1>2. TypeOK /\ LockInv /\ VolumeInv /\ MarkInv /\ [Next]_vars => MarkInv'
  BY MarkStep DEF LockInv, VolumeInv
<1> QED BY <1>1, <1>2, LockInvariant, TmpExcludes, PTL DEF Spec

\* From the creation of the tmp PV to the end of a run without error every
\* directory with the CSI mark is listed by some PV, so the cleaner does not
\* even suspect it: pods may land on new nodes, or a run may outlive its lock
\* and another one begin, but not both (stepCreateTmpPV .. stepCreateCSIPV and
\* the undo of CreateTmpPV).
THEOREM MarkedListed ==
    ASSUME "newdir" \notin Faults \/ "overrun" \notin Faults
    PROVE  Spec => []MarkedDirsListed
<1>1. VolumeInv => \A h \in Hosts : undo[h] >= 3 /\ ~failed[h] =>
         \/ HasTmp(h) /\ store[Tmp].kind = "csi"
         \/ store[Main].kind = "csi"
  BY DEF VolumeInv, TmpInv, ReplacedInv, HasTmp, HasReplaced
<1>2. CASE "newdir" \notin Faults
  <2>1. TypeOK /\ VolumeInv /\ WholeInv => MarkedDirsListed
    <3> SUFFICES ASSUME TypeOK, VolumeInv, WholeInv, NEW h \in Hosts,
                        undo[h] >= 3, ~failed[h], NEW d \in marked
                 PROVE  Listed(d)
      BY DEF MarkedDirsListed
    <3>1. d \in Dirs
      BY DEF TypeOK
    <3> QED BY <1>1, <3>1, StoreType DEF WholeInv, Listed
  <2>2. Spec => []WholeInv
    BY <1>2, WholeKept
  <2> QED BY <2>1, <2>2, TmpExcludes, PTL
<1>3. CASE "overrun" \notin Faults
  <2>1. TypeOK /\ VolumeInv /\ MarkInv => MarkedDirsListed
    <3> SUFFICES ASSUME TypeOK, VolumeInv, MarkInv, NEW h \in Hosts,
                        undo[h] >= 3, ~failed[h], NEW d \in marked
                 PROVE  Listed(d)
      BY DEF MarkedDirsListed
    <3>1. d \in Marks
      BY DEF Marks
    <3> QED BY <1>1, <3>1, StoreType DEF MarkInv, Listed
  <2>2. Spec => []MarkInv
    BY <1>3, MarkKept
  <2> QED BY <2>1, <2>2, TmpExcludes, PTL
<1> QED BY <1>2, <1>3

\* A run that ends without error has put the CSI PV in the place of the old
\* one, with every directory in use, and, if it waited for the new PV, has
\* left no pod on the old mount, though replicas crash, are stopped, run out
\* of time or lose the lock (stepWaitCSIPVBound, stepRestartPods).
THEOREM SuccessReplaces ==
    ASSUME "refused" \notin Faults, "newdir" \notin Faults
    PROVE  Spec => []SuccessMeansReplaced
<1>1. Init => RestartInv
  BY VolumeInit
<1>2. TypeOK /\ UndoMatchesStep /\ VolumeInv /\ RestartInv /\ [Next]_vars
         => RestartInv'
  BY RestartStep DEF VolumeInv
<1>3. VolumeInv /\ WholeInv /\ RestartInv => SuccessMeansReplaced
  BY DEF SuccessMeansReplaced, VolumeInv, ReplacedInv, HasReplaced, TakenInv,
         DirsTakenOver, WholeInv, RestartInv
<1> QED BY <1>1, <1>2, <1>3, TmpExcludes, WholeKept, PTL DEF Spec

\* The cleaner of the CSI plugin never deletes a directory of the volume: the
\* tmp PV lists it while the old PV is away, also when replicas crash, change
\* pods fail and the lock runs out.  Left out are the troubles that end a run
\* with the old PV away; and where pods land on new nodes, whose directories
\* the tmp PV does not list, a crash and an expired lock
\* (stepCreateTmpPV, stepDeleteOldPV).
THEOREM QuotaKept ==
    ASSUME Faults \cap HalfwayFaults = {},
           "newdir" \notin Faults \/ Faults \cap {"crash", "overrun"} = {}
    PROVE  Spec => []QuotaDirsKept
<1>1. Init => AwayInv /\ CleanInv
  BY VolumeInit
<1>2. TypeOK /\ UndoMatchesStep /\ VolumeInv /\ AwayInv /\ [Next]_vars
         => AwayInv'
  BY AwayStep DEF VolumeInv
<1>3. Spec => []AwayInv
  BY <1>1, <1>2, TmpExcludes, PTL DEF Spec
<1>4. Spec => []MarksListed
  <2>1. CASE "newdir" \notin Faults
    <3>1. TypeOK /\ WholeInv /\ AwayInv => MarksListed
      BY AllListed
    <3>2. Spec => []WholeInv
      BY <2>1, WholeKept
    <3> QED BY <1>3, <3>1, <3>2, TmpExcludes, PTL
  <2>2. CASE Faults \cap {"crash", "overrun"} = {}
    <3>1. Init => HeldInv
      BY InitStore DEF HeldInv, Away
    <3>2. TypeOK /\ UndoMatchesStep /\ VolumeInv /\ AwayInv /\ HeldInv
             /\ [Next]_vars => HeldInv'
      BY <2>2, HeldStep DEF VolumeInv
    <3>3. TypeOK /\ MarkInv /\ HeldInv => MarksListed
      BY HeldListed
    <3>4. Spec => []MarkInv
      BY <2>2, MarkKept
    <3> QED BY <1>3, <3>1, <3>2, <3>3, <3>4, TmpExcludes, PTL DEF Spec
  <2> QED BY <2>1, <2>2
<1>5. MarksListed /\ CleanInv /\ [Next]_vars => CleanInv'
  BY CleanStep
<1>6. CleanInv => QuotaDirsKept
  BY DEF CleanInv, QuotaDirsKept
<1> QED BY <1>1, <1>4, <1>5, <1>6, PTL DEF Spec

\* When no replica works on the volume, the tmp PV and the change pods of
\* every run are gone, though runs fail, are stopped or run out of time, as
\* long as the deletions of the undo go through and no replica dies before
\* its undo (undoCreateTmpPV, undoCreateChangePod).
THEOREM UndoLeaves ==
    ASSUME Faults \cap {"crash", "refused", "lost"} = {}
    PROVE  Spec => []UndoLeavesNothing
<1>1. Init => LeftInv
  BY VolumeInit
<1>2. TypeOK /\ UndoMatchesStep /\ LeftInv /\ [Next]_vars => LeftInv'
  BY LeftStep
<1>3. UndoMatchesStep /\ LeftInv => UndoLeavesNothing
  BY DEF UndoLeavesNothing, UndoMatchesStep, LeftInv
<1> QED BY <1>1, <1>2, <1>3, TypeCorrect, PTL DEF Spec

\* If no run outlives its lease, a run that goes on to replace the PV has every
\* directory marked that it made a pod for, unless one of these pods has
\* vanished: whatever is refused, lost, evicted or crashes, it counts no pod as
\* done that still runs or that another run has made (WaitPodQuit).
THEOREM MarkedFirst ==
    ASSUME "overrun" \notin Faults
    PROVE  Spec => []MarkedBeforeReplaced
<1>1. Init => DoneInv
  <2>1. Init => \A h \in Hosts : pc[h] = "idle" /\ undo[h] = 0
    BY DEF Init
  <2>2. Init => \A d \in Dirs : pods[d] = "absent"
    BY DEF Init
  <2> QED BY <2>1, <2>2 DEF DoneInv, PastPods
<1>2. TypeOK /\ UndoMatchesStep /\ MutualExclusion' /\ DoneInv /\ [Next]_vars => DoneInv'
  BY DoneStep
<1>3. DoneInv => MarkedBeforeReplaced
  BY DEF DoneInv, PastPods, PodsDone, MarkedBeforeReplaced
<1> QED BY <1>1, <1>2, <1>3, TypeCorrect, LockExcludes, PTL DEF Spec

-----------------------------------------------------------------------------
(* The replicas implement the guarded volume.                              *)

LEMMA HolderNow ==
    ASSUME MutualExclusion
    PROVE  /\ \A h \in Hosts : Holding(h) => Holder = h
           /\ (\A h \in Hosts : ~Holding(h)) => Holder = NoHost
  BY DEF MutualExclusion, Holder

LEMMA HolderNext ==
    ASSUME MutualExclusion'
    PROVE  /\ \A h \in Hosts : Holding(h)' => Holder' = h
           /\ (\A h \in Hosts : ~Holding(h)') => Holder' = NoHost
  BY DEF MutualExclusion, Holder

LEMMA SameSource == SameVolume(Main) => Source' = Source
  BY DEF SameVolume, Source

\* How the steps of a run change who holds the volume.
LEMMA HoldControl ==
    ASSUME TypeOK, UndoMatchesStep, NEW h \in Hosts, Pipeline(h) \/ Crash(h)
    PROVE  \/ \A g \in Hosts : Holding(g)' <=> Holding(g)
           \/ /\ pc[h] = "CheckUpdate" /\ current[h] /\ SameVolume(Main)
              /\ Holding(h)' /\ \A g \in Hosts : g # h => (Holding(g)' <=> Holding(g))
           \/ /\ Holding(h) /\ SameVolume(Main)
              /\ ~Holding(h)' /\ \A g \in Hosts : g # h => (Holding(g)' <=> Holding(g))
<1> USE DEF Goto, Fail, Advance, NextUndo, Undoing, Enters, Forget,
            StepStarts, UndoMatchesStep, Holding
<1>t. pc \in [Hosts -> Locations] /\ undo \in [Hosts -> 0 .. 5]
  BY DEF TypeOK
<1>1. CASE Abort(h) \/ StepCheck(h)
  BY <1>t, <1>1 DEF Abort, StepCheck
<1>2. CASE StepCheckUpdate(h)
  <2>1. SameVolume(Main)
    BY <1>2, LockWritesSame, StoreType
  <2> QED BY <1>t, <1>2, <2>1 DEF StepCheckUpdate
<1>3. CASE StepChangePod(h) \/ CreateChangePod(h) \/ WaitPodQuit(h)
  BY <1>t, <1>3 DEF StepChangePod, CreateChangePod, WaitPodQuit
<1>4. CASE StepCreateTmpPV(h) \/ StepDeleteOldPV(h)
  BY <1>t, <1>4 DEF StepCreateTmpPV, StepDeleteOldPV
<1>5. CASE CreateTmpPV(h)
  <2>1. /\ pc[h] = "TmpPVCreate"
        /\ Advance(h, "DeleteOld", 3) \/ (Fail(h) /\ UNCHANGED undo)
    BY <1>5 DEF CreateTmpPV
  <2> QED BY <1>t, <2>1
<1>6. CASE DeleteOldPV(h) \/ DeleteOldPVPoll(h)
  BY <1>t, <1>6 DEF DeleteOldPV, DeleteOldPVPoll
<1>7. CASE StepCreateCSIPV(h)
  <2>1. /\ pc[h] = "CSIPV"
        /\ Advance(h, "WaitBound", 5) \/ (Fail(h) /\ UNCHANGED undo)
    BY <1>7 DEF StepCreateCSIPV
  <2> QED BY <1>t, <2>1
<1>8. CASE StepWaitCSIPVBound(h) \/ WaitPVBound(h) \/ StepRestartPods(h)
  BY <1>8 DEF StepWaitCSIPVBound, WaitPVBound, StepRestartPods
<1>9. CASE UndoDeleteOldPV(h) \/ UndoChangePod(h) \/ UndoChangePodPoll(h)
  BY <1>t, <1>9 DEF UndoDeleteOldPV, UndoChangePod, UndoChangePodPoll, PodsUndone
<1>10. CASE UndoCreatePV(h) \/ UndoCreatePVPoll(h)
  <2>1. undo[h] \in {3, 5} /\ (UNCHANGED undo \/ NextUndo(h))
    BY <1>10 DEF UndoCreatePV, UndoCreatePVPoll
  <2> QED BY <1>t, <2>1
<1>11. CASE UndoNothing(h)
  <2>1. SameVolume(Main)
    BY <1>11, NoWriteSame, StoreType DEF UndoNothing
  <2> QED BY <1>t, <1>11, <2>1 DEF UndoNothing
<1>12. CASE UndoCheck(h) \/ UndoCheckUpdate(h)
  <2>1. SameVolume(Main)
    BY <1>12, LockWritesSame, StoreType
  <2> QED BY <1>t, <1>12, <2>1 DEF UndoCheck, UndoCheckUpdate
<1>13. CASE Finish(h) \/ Crash(h)
  <2>1. SameVolume(Main)
    BY <1>13 DEF Finish, Crash, SameVolume
  <2> QED BY <1>t, <1>13, <2>1 DEF Finish, Crash
<1> QED BY <1>1, <1>2, <1>3, <1>4, <1>5, <1>6, <1>7, <1>8, <1>9, <1>10, <1>11,
           <1>12, <1>13 DEF Pipeline

LEMMA GuardedStep ==
    ASSUME "overrun" \notin Faults, TypeOK, LockInv, [Next]_vars
    PROVE  [Guarded!Next]_(Guarded!vars)
<1>i. UndoMatchesStep /\ MutualExclusion /\ LockInv' /\ MutualExclusion'
  BY LockStep DEF LockInv
<1>s. ASSUME Source' = Source, \A g \in Hosts : Holding(g)' <=> Holding(g)
      PROVE  UNCHANGED Guarded!vars
  <2>1. Holder' = Holder
    <3>1. CASE \E g \in Hosts : Holding(g)
      BY <1>i, <1>s, <3>1, HolderNow, HolderNext
    <3>2. CASE ~\E g \in Hosts : Holding(g)
      BY <1>i, <1>s, <3>2, HolderNow, HolderNext
    <3> QED BY <3>1, <3>2
  <2> QED BY <1>s, <2>1 DEF Guarded!vars
<1>e. ASSUME UNCHANGED undo PROVE \A g \in Hosts : Holding(g)' <=> Holding(g)
  BY <1>e DEF Holding
<1>1. ASSUME NEW h \in Hosts, Pipeline(h) \/ Crash(h)
      PROVE  [Guarded!Next]_(Guarded!vars)
  <2>1. CASE \A g \in Hosts : Holding(g)' <=> Holding(g)
    <3>1. CASE SameVolume(Main)
      BY <1>s, <2>1, <3>1, SameSource
    <3>2. CASE Deletes(h) /\ Dropped(Main)
      <4>1. Holding(h)
        BY <1>i, <3>2 DEF Deletes, UndoMatchesStep, Holding, TypeOK
      <4>2. Holder = h /\ Holder' = h /\ h # NoHost
        BY <1>i, <2>1, <4>1, HolderNow, HolderNext, NoHostAssumption
      <4>3. Source' = "gone"
        BY <3>2 DEF Dropped, Removed, Source
      <4> QED BY <4>2, <4>3 DEF Guarded!Next, Guarded!Remove, Guarded!vars
    <3>3. CASE pc[h] = "CSIPV" /\ Created(Main, snap[h])
      <4>1. Holding(h)
        BY <1>i, <3>3 DEF UndoMatchesStep, Holding
      <4>2. Holder = h /\ Holder' = h /\ h # NoHost
        BY <1>i, <2>1, <4>1, HolderNow, HolderNext, NoHostAssumption
      <4>3. Source = "gone" /\ Source' = "csi"
        BY <3>3 DEF Created, Source
      <4> QED BY <4>2, <4>3 DEF Guarded!Next, Guarded!Replace
    <3> QED BY <1>1, <1>i, <3>1, <3>2, <3>3, MainWrites
  <2>2. CASE /\ pc[h] = "CheckUpdate" /\ current[h] /\ SameVolume(Main)
             /\ Holding(h)'
    <3>1. store[Main].kind = "hostpath" /\ ~LockedByOther(store[Main], h)
      BY <2>2 DEF LockInv, CheckedStillFree
    <3>2. ASSUME NEW g \in Hosts, Holding(g) PROVE FALSE
      <4>1. g = h
        BY <3>1, <3>2 DEF LockInv, LockNamesHolder, LockedByOther
      <4> QED BY <1>i, <2>2, <3>2, <4>1 DEF UndoMatchesStep, Holding
    <3>3. Holder = NoHost /\ Holder' = h
      BY <1>i, <2>2, <3>2, HolderNow, HolderNext
    <3>4. Source # "csi" /\ Source' = Source
      BY <2>2, <3>1, SameSource DEF Source
    <3> QED BY <3>3, <3>4 DEF Guarded!Next, Guarded!Acquire
  <2>3. CASE /\ Holding(h) /\ SameVolume(Main) /\ ~Holding(h)'
             /\ \A g \in Hosts : g # h => (Holding(g)' <=> Holding(g))
    <3>1. \A g \in Hosts : ~Holding(g)'
      BY <1>i, <2>3 DEF MutualExclusion
    <3>2. Holder = h /\ Holder' = NoHost /\ h # NoHost
      BY <1>i, <2>3, <3>1, HolderNow, HolderNext, NoHostAssumption
    <3> QED BY <2>3, <3>2, SameSource DEF Guarded!Next, Guarded!Release
  <2> QED BY <1>1, <1>i, <2>1, <2>2, <2>3, HoldControl
<1>2. ASSUME NEW h \in Hosts, NEW wait \in BOOLEAN, Start(h, wait)
      PROVE  UNCHANGED Guarded!vars
  BY <1>2, <1>s, <1>e, NoWriteSame, SameSource, StoreType DEF Start
<1>3. ASSUME NEW d \in Dirs, RecordDir(d) PROVE UNCHANGED Guarded!vars
  <2> DEFINE pv == [store[Main] EXCEPT !.dirs = @ \cup {d}]
  <2>1. pv.kind = store[Main].kind /\ pv.deleting = store[Main].deleting
    BY StoreType DEF PVs
  <2>2. WritePV(Main, pv)
    BY <1>3 DEF RecordDir
  <2> HIDE DEF pv
  <2>3. Source' = Source
    BY <2>1, <2>2, WriteOther, StoreType DEF Source
  <2> QED BY <1>3, <1>s, <1>e, <2>3 DEF RecordDir
<1>4. ASSUME NEW n \in Names, Terminate(n) PROVE UNCHANGED Guarded!vars
  <2>1. Source' = Source
    <3>1. CASE n = Main
      BY <1>4, <3>1, TerminateEffect DEF Removed, Source
    <3>2. CASE n # Main
      BY <1>4, <3>2, TerminateEffect, SameSource, StoreType
    <3> QED BY <3>1, <3>2
  <2> QED BY <1>4, <1>s, <1>e, <2>1, TerminateEffect
<1>5. CASE Aside
  BY <1>5, <1>s, <1>e, SameSource, StoreType DEF Aside
<1> QED BY <1>1, <1>2, <1>3, <1>4, <1>5, NextCases

\* As long as no run outlives its lease, the replicas together do what the
\* abstract volume allows: its source changes only while one replica holds
\* it, it never becomes a hostpath again, and a CSI volume appears only in
\* the place of one that is gone, with requests refused, answers lost,
\* replicas stopped and crashed (Run, stepCheck .. stepCreateCSIPV).
THEOREM RefinesGuardedVolume ==
    ASSUME "overrun" \notin Faults
    PROVE  Spec => ImplementsGuardedVolume
<1>1. Init => Guarded!Init
  <2> SUFFICES ASSUME Init PROVE Guarded!Init
    OBVIOUS
  <2>1. Source = "hostpath" /\ \A h \in Hosts : ~Holding(h)
    BY InitStore DEF Source, Holding
  <2> QED BY <2>1 DEF Guarded!Init, Holder
<1>2. TypeOK /\ LockInv /\ [Next]_vars => [Guarded!Next]_(Guarded!vars)
  BY GuardedStep
<1> QED BY <1>1, <1>2, LockInvariant, PTL
        DEF Spec, ImplementsGuardedVolume, Guarded!Spec
=============================================================================
