------------------------ MODULE UpdatePipelineProofs ------------------------
(***************************************************************************)
(* Theorems about UpdatePipeline, for every set of replicas, directories   *)
(* and faults.                                                             *)
(***************************************************************************)
EXTENDS UpdatePipeline, TLAPS

-----------------------------------------------------------------------------
(* The PV records the actions write are PVs.                               *)

LEMMA PVTypes ==
    /\ NoPV \in PVs
    /\ \A pv \in PVs :
         /\ CSIFrom(pv) \in PVs
         /\ [pv EXCEPT !.deleting = TRUE] \in PVs
         /\ [pv EXCEPT !.bound = TRUE] \in PVs
         /\ [pv EXCEPT !.started = "expired"] \in PVs
         /\ [pv EXCEPT !.owner = NoHost, !.started = "none"] \in PVs
         /\ \A h \in Hosts : [pv EXCEPT !.owner = h, !.started = "live"] \in PVs
         /\ \A d \in Dirs : [pv EXCEPT !.dirs = @ \cup {d}] \in PVs
  BY DEF PVs, NoPV, CSIFrom

LEMMA WriteType ==
    ASSUME TypeOK, NEW n \in Names, NEW pv \in PVs, WritePV(n, pv)
    PROVE  /\ store' \in [Names -> PVs]
           /\ current' \in [Hosts -> BOOLEAN]
  BY DEF TypeOK, WritePV

LEMMA NoWriteType ==
    ASSUME TypeOK, NoWrite
    PROVE  /\ store' \in [Names -> PVs]
           /\ current' \in [Hosts -> BOOLEAN]
  BY DEF TypeOK, NoWrite

\* The requests of the pipeline leave the API server well typed.
LEMMA RequestTypes ==
    ASSUME TypeOK, NEW n \in Names, NEW pv \in PVs, NEW ok \in BOOLEAN,
           \/ AcceptDelete(n) \/ ClearFinalizers(n)
           \/ CreateCSIHostPathPV(n, pv, ok)
    PROVE  /\ store' \in [Names -> PVs]
           /\ current' \in [Hosts -> BOOLEAN]
<1>1. store[n] \in PVs
  BY DEF TypeOK
<1>2. CASE AcceptDelete(n)
  BY <1>1, <1>2, PVTypes, WriteType DEF AcceptDelete
<1>3. CASE ClearFinalizers(n)
  <2>1. (IF store[n].deleting THEN NoPV ELSE store[n]) \in PVs
    BY <1>1, PVTypes
  <2> QED BY <1>3, <2>1, WriteType, NoWriteType DEF ClearFinalizers
<1>4. CASE CreateCSIHostPathPV(n, pv, ok)
  <2>1. CSIFrom(pv) \in PVs
    BY PVTypes
  <2> QED BY <1>4, <2>1, WriteType, NoWriteType DEF CreateCSIHostPathPV
<1> QED BY <1>2, <1>3, <1>4

-----------------------------------------------------------------------------
(* Type correctness.                                                       *)

LEMMA TypeInit == Init => TypeOK
<1> SUFFICES ASSUME Init PROVE TypeOK
  OBVIOUS
<1>1. PICK D \in SUBSET Dirs, b \in BOOLEAN :
         /\ store = [n \in Names |->
                       IF n = Main
                       THEN [NoPV EXCEPT !.kind = "hostpath", !.dirs = D,
                                         !.bound = b]
                       ELSE NoPV]
         /\ mounted = IF b THEN D ELSE {}
  BY DEF Init
<1>2. store \in [Names -> PVs] /\ mounted \subseteq Dirs
  BY <1>1 DEF PVs, NoPV
<1>3. pc \in [Hosts -> Locations]
  BY DEF Init, Locations
<1>4. undo \in [Hosts -> 0 .. 5]
  BY DEF Init
<1>5. /\ failed \in [Hosts -> BOOLEAN] /\ current \in [Hosts -> BOOLEAN]
      /\ waitBound \in [Hosts -> BOOLEAN] /\ timedOut \in [Hosts -> BOOLEAN]
      /\ stopping \in [Hosts -> BOOLEAN]
  BY DEF Init
<1>6. /\ snap \in [Hosts -> PVs]
      /\ todo \in [Hosts -> SUBSET Dirs] /\ made \in [Hosts -> SUBSET Dirs]
  BY PVTypes DEF Init
<1>7. /\ pods \in [Dirs -> {"absent", "pending", "succeeded", "failed", "going"}]
      /\ marked \subseteq Dirs /\ disk \subseteq Dirs /\ suspect \subseteq Dirs
      /\ late \subseteq Dirs /\ crashes \in Nat
  BY DEF Init
<1> QED BY <1>2, <1>3, <1>4, <1>5, <1>6, <1>7 DEF TypeOK

\* The control operators of Run keep pc, undo and failed well typed.
LEMMA FailType ==
    ASSUME TypeOK, NEW h \in Hosts, Fail(h)
    PROVE  pc' \in [Hosts -> Locations] /\ failed' \in [Hosts -> BOOLEAN]
<1>1. "Undo" \in Locations
  BY DEF Locations
<1> QED BY <1>1 DEF TypeOK, Fail, Goto

LEMMA GotoType ==
    ASSUME TypeOK, NEW h \in Hosts, NEW l \in Locations, Goto(h, l)
    PROVE  pc' \in [Hosts -> Locations]
  BY DEF TypeOK, Goto

LEMMA AdvanceType ==
    ASSUME TypeOK, NEW h \in Hosts, NEW l \in Locations, NEW k \in 0 .. 5,
           Advance(h, l, k)
    PROVE  /\ pc' \in [Hosts -> Locations] /\ undo' \in [Hosts -> 0 .. 5]
           /\ failed' \in [Hosts -> BOOLEAN]
<1>1. pc' \in [Hosts -> Locations]
  BY GotoType DEF Advance
<1>2. undo' \in [Hosts -> 0 .. 5]
  BY DEF Advance, TypeOK
<1>3. failed' \in [Hosts -> BOOLEAN]
  BY DEF Advance, TypeOK
<1> QED BY <1>1, <1>2, <1>3

LEMMA NextUndoType ==
    ASSUME TypeOK, NEW h \in Hosts, undo[h] # 0, NextUndo(h)
    PROVE  /\ pc' \in [Hosts -> Locations] /\ undo' \in [Hosts -> 0 .. 5]
           /\ failed' \in [Hosts -> BOOLEAN]
<1>1. pc' \in [Hosts -> Locations]
  BY GotoType DEF NextUndo, Locations
<1>2. undo' \in [Hosts -> 0 .. 5]
  <2>1. undo[h] \in 0 .. 5 /\ undo \in [Hosts -> 0 .. 5]
    BY DEF TypeOK
  <2>2. undo[h] - 1 \in 0 .. 5
    BY <2>1
  <2> QED BY <2>1, <2>2 DEF NextUndo
<1>3. failed' \in [Hosts -> BOOLEAN]
  BY DEF NextUndo, TypeOK
<1> QED BY <1>1, <1>2, <1>3

\* The forward actions of the pipeline.
LEMMA TypeForward ==
    ASSUME TypeOK, NEW h \in Hosts
    PROVE  /\ Abort(h) \/ StepCheck(h) \/ StepCheckUpdate(h) => TypeOK'
           /\ StepChangePod(h) \/ CreateChangePod(h) \/ WaitPodQuit(h) => TypeOK'
           /\ StepCreateTmpPV(h) \/ CreateTmpPV(h) => TypeOK'
           /\ StepDeleteOldPV(h) \/ DeleteOldPV(h) \/ DeleteOldPVPoll(h) => TypeOK'
           /\ StepCreateCSIPV(h) \/ StepWaitCSIPVBound(h) => TypeOK'
           /\ WaitPVBound(h) \/ StepRestartPods(h) => TypeOK'
<1> USE DEF nodeVars, workVars, runVars
<1>a. Locations = {"Check", "ChangePod", "TmpPV", "DeleteOld", "CSIPV",
                   "WaitBound", "RestartPods",
                   "idle", "CheckUpdate", "ChangePodCreate", "ChangePodWait",
                   "TmpPVCreate", "DeleteCall", "DeletePoll", "BoundPoll",
                   "Undo", "UndoPoll", "UndoUpdate"}
  BY DEF Locations, StepStarts
<1>n. Main \in Names /\ Tmp \in Names
  BY DEF Names
<1>s. store[Main] \in PVs /\ store[Main].dirs \in SUBSET Dirs /\ snap[h] \in PVs
  BY <1>n DEF TypeOK, PVs
<1>1. ASSUME Abort(h) PROVE TypeOK'
  BY <1>1, <1>a, <1>n, <1>s, NoWriteType, FailType DEF TypeOK, Abort
<1>2. ASSUME StepCheck(h) PROVE TypeOK'
  BY <1>2, <1>a, <1>n, <1>s, NoWriteType, FailType, GotoType DEF TypeOK, StepCheck
<1>3. ASSUME StepCheckUpdate(h) PROVE TypeOK'
  <2>1. [store[Main] EXCEPT !.owner = h, !.started = "live"] \in PVs
    BY <1>s, PVTypes
  <2> QED BY <1>3, <1>a, <1>n, <2>1, NoWriteType, WriteType, FailType, AdvanceType
          DEF TypeOK, StepCheckUpdate
<1>4. ASSUME StepChangePod(h) PROVE TypeOK'
  BY <1>4, <1>a, <1>n, <1>s, NoWriteType, FailType, AdvanceType DEF TypeOK, StepChangePod
<1>5. ASSUME CreateChangePod(h) PROVE TypeOK'
  BY <1>5, <1>a, <1>n, <1>s, NoWriteType, FailType, GotoType DEF TypeOK, CreateChangePod
<1>6. ASSUME WaitPodQuit(h) PROVE TypeOK'
  BY <1>6, <1>a, <1>n, <1>s, NoWriteType, FailType, AdvanceType DEF TypeOK, WaitPodQuit
<1>7. ASSUME StepCreateTmpPV(h) PROVE TypeOK'
  BY <1>7, <1>a, <1>n, <1>s, NoWriteType, FailType, GotoType DEF TypeOK, StepCreateTmpPV
<1>8. ASSUME CreateTmpPV(h) PROVE TypeOK'
  <2>1. \E ok \in BOOLEAN : CreateCSIHostPathPV(Tmp, snap[h], ok)
    BY <1>8 DEF CreateTmpPV
  <2>2. store' \in [Names -> PVs] /\ current' \in [Hosts -> BOOLEAN]
    BY <2>1, <1>n, <1>s, RequestTypes
  <2>3. Advance(h, "DeleteOld", 3) \/ (Fail(h) /\ UNCHANGED undo)
    BY <1>8 DEF CreateTmpPV
  <2>4. /\ pc' \in [Hosts -> Locations] /\ undo' \in [Hosts -> 0 .. 5]
        /\ failed' \in [Hosts -> BOOLEAN]
    BY <2>3, <1>a, FailType, AdvanceType DEF TypeOK
  <2> QED BY <1>8, <2>2, <2>4 DEF TypeOK, CreateTmpPV
<1>9. ASSUME StepDeleteOldPV(h) PROVE TypeOK'
  BY <1>9, <1>a, <1>n, <1>s, NoWriteType, FailType, GotoType DEF TypeOK, StepDeleteOldPV
<1>10. ASSUME DeleteOldPV(h) PROVE TypeOK'
  BY <1>10, <1>a, <1>n, <1>s, NoWriteType, RequestTypes, FailType, GotoType
     DEF TypeOK, DeleteOldPV
<1>11. ASSUME DeleteOldPVPoll(h) PROVE TypeOK'
  BY <1>11, <1>a, <1>n, <1>s, NoWriteType, RequestTypes, FailType, AdvanceType
     DEF TypeOK, DeleteOldPVPoll
<1>12. ASSUME StepCreateCSIPV(h) PROVE TypeOK'
  <2>1. \E ok \in BOOLEAN : CreateCSIHostPathPV(Main, snap[h], ok)
    BY <1>12 DEF StepCreateCSIPV
  <2>2. store' \in [Names -> PVs] /\ current' \in [Hosts -> BOOLEAN]
    BY <2>1, <1>n, <1>s, RequestTypes
  <2>3. Advance(h, "WaitBound", 5) \/ (Fail(h) /\ UNCHANGED undo)
    BY <1>12 DEF StepCreateCSIPV
  <2>4. /\ pc' \in [Hosts -> Locations] /\ undo' \in [Hosts -> 0 .. 5]
        /\ failed' \in [Hosts -> BOOLEAN]
    BY <2>3, <1>a, FailType, AdvanceType DEF TypeOK
  <2> QED BY <1>12, <2>2, <2>4 DEF TypeOK, StepCreateCSIPV
<1>13. ASSUME StepWaitCSIPVBound(h) PROVE TypeOK'
  BY <1>13, <1>a, <1>n, <1>s, NoWriteType, GotoType DEF TypeOK, StepWaitCSIPVBound
<1>14. ASSUME WaitPVBound(h) PROVE TypeOK'
  BY <1>14, <1>a, <1>n, <1>s, NoWriteType, FailType, GotoType DEF TypeOK, WaitPVBound
<1>15. ASSUME StepRestartPods(h) PROVE TypeOK'
  BY <1>15, <1>a, <1>n, <1>s, NoWriteType, GotoType DEF TypeOK, StepRestartPods
<1> QED BY <1>1, <1>2, <1>3, <1>4, <1>5, <1>6, <1>7, <1>8, <1>9, <1>10, <1>11, <1>12, <1>13, <1>14, <1>15

\* The undo actions, the end of a run, its start and its crash.
LEMMA TypeUndo ==
    ASSUME TypeOK, UndoMatchesStep, NEW h \in Hosts
    PROVE  /\ UndoNothing(h) \/ UndoCreatePV(h) \/ UndoCreatePVPoll(h) => TypeOK'
           /\ UndoDeleteOldPV(h) => TypeOK'
           /\ UndoChangePod(h) \/ UndoChangePodPoll(h) => TypeOK'
           /\ UndoCheck(h) \/ UndoCheckUpdate(h) => TypeOK'
           /\ Finish(h) \/ Crash(h) => TypeOK'
           /\ \A wait \in BOOLEAN : Start(h, wait) => TypeOK'
<1> USE DEF nodeVars, workVars, runVars
<1>a. {"idle", "Check", "Undo", "UndoPoll", "UndoUpdate"} \subseteq Locations
  BY DEF Locations, StepStarts
<1>n. Main \in Names /\ UndoPV(h) \in Names
  BY DEF Names, UndoPV
<1>s. store[Main] \in PVs
  BY <1>n DEF TypeOK
<1>1. ASSUME UndoNothing(h) PROVE TypeOK'
  BY <1>1, NoWriteType, NextUndoType DEF TypeOK, UndoNothing, Undoing
<1>2. ASSUME UndoCreatePV(h) PROVE TypeOK'
  <2>1. undo[h] # 0
    BY <1>2 DEF UndoCreatePV, Undoing
  <2> QED BY <1>2, <2>1, <1>a, <1>n, NoWriteType, RequestTypes, GotoType,
             NextUndoType, PVTypes DEF TypeOK, UndoCreatePV
<1>3. ASSUME UndoCreatePVPoll(h) PROVE TypeOK'
  <2>1. undo[h] # 0
    BY <1>3 DEF UndoCreatePVPoll, UndoMatchesStep
  <2> QED BY <1>3, <2>1, <1>n, NoWriteType, RequestTypes, NextUndoType, PVTypes
          DEF TypeOK, UndoCreatePVPoll
<1>4. ASSUME UndoDeleteOldPV(h) PROVE TypeOK'
  BY <1>4, NoWriteType, NextUndoType
     DEF TypeOK, UndoDeleteOldPV, CreateVersioned, Undoing
<1>5. ASSUME UndoChangePod(h) \/ UndoChangePodPoll(h) PROVE TypeOK'
  <2>1. undo[h] # 0
    BY <1>5 DEF UndoChangePod, UndoChangePodPoll, Undoing
  <2>2. /\ pc' \in [Hosts -> Locations] /\ undo' \in [Hosts -> 0 .. 5]
        /\ failed' \in [Hosts -> BOOLEAN]
    <3>1. \/ NextUndo(h)
          \/ \E l \in {"Undo", "UndoPoll"} : Goto(h, l) /\ UNCHANGED <<undo, failed>>
      BY <1>5 DEF UndoChangePod, UndoChangePodPoll, PodsUndone
    <3> QED BY <1>a, <2>1, <3>1, NextUndoType, GotoType DEF TypeOK
  <2>3. /\ pods' \in [Dirs -> {"absent", "pending", "succeeded", "failed", "going"}]
        /\ made' \in [Hosts -> SUBSET Dirs] /\ todo' \in [Hosts -> SUBSET Dirs]
    BY <1>5 DEF TypeOK, UndoChangePod, UndoChangePodPoll, PodsUndone, DeleteChangePod
  <2> QED BY <1>5, <2>2, <2>3, NoWriteType
     DEF TypeOK, UndoChangePod, UndoChangePodPoll
<1>6. ASSUME UndoCheck(h) PROVE TypeOK'
  <2>1. undo[h] # 0
    BY <1>6 DEF UndoCheck, Undoing
  <2>2. /\ pc' \in [Hosts -> Locations] /\ undo' \in [Hosts -> 0 .. 5]
        /\ failed' \in [Hosts -> BOOLEAN]
    BY <1>6, <1>a, <2>1, NextUndoType, GotoType DEF TypeOK, UndoCheck
  <2>3. store' \in [Names -> PVs] /\ current' \in [Hosts -> BOOLEAN]
    BY <1>6, NoWriteType DEF TypeOK, UndoCheck
  <2> QED BY <1>6, <2>2, <2>3 DEF TypeOK, UndoCheck
<1>7. ASSUME UndoCheckUpdate(h) PROVE TypeOK'
  <2>2. undo[h] # 0
    BY <1>7 DEF UndoCheckUpdate, UndoMatchesStep
  <2>1. [store[Main] EXCEPT !.owner = NoHost, !.started = "none"] \in PVs
    BY <1>s, PVTypes
  <2> QED BY <1>7, <1>n, <2>1, <2>2, NoWriteType, WriteType, NextUndoType
          DEF TypeOK, UndoCheckUpdate
<1>f. ASSUME Forget(h)
      PROVE  /\ store' \in [Names -> PVs] /\ current' \in [Hosts -> BOOLEAN]
             /\ pc' \in [Hosts -> Locations] /\ undo' \in [Hosts -> 0 .. 5]
             /\ failed' \in [Hosts -> BOOLEAN] /\ snap' \in [Hosts -> PVs]
             /\ todo' \in [Hosts -> SUBSET Dirs]
             /\ made' \in [Hosts -> SUBSET Dirs]
             /\ waitBound' \in [Hosts -> BOOLEAN]
             /\ timedOut' \in [Hosts -> BOOLEAN]
  <2>1. pc' \in [Hosts -> Locations]
    BY <1>f, <1>a, GotoType DEF Forget
  <2>2. undo' \in [Hosts -> 0 .. 5]
    BY <1>f DEF Forget, TypeOK
  <2> QED BY <1>f, <2>1, <2>2, PVTypes DEF Forget, TypeOK
<1>8. ASSUME Finish(h) PROVE TypeOK'
  BY <1>8, <1>f DEF TypeOK, Finish, Forget
<1>9. ASSUME Crash(h) PROVE TypeOK'
  <2>1. crashes' \in Nat /\ stopping' \in [Hosts -> BOOLEAN]
    BY <1>9 DEF Crash, TypeOK
  <2> QED BY <1>9, <2>1, <1>f DEF TypeOK, Crash, Forget
<1>10. ASSUME NEW wait \in BOOLEAN, Start(h, wait) PROVE TypeOK'
  BY <1>10, <1>a, NoWriteType, GotoType DEF TypeOK, Start
<1> QED BY <1>1, <1>2, <1>3, <1>4, <1>5, <1>6, <1>7, <1>8, <1>9, <1>10

\* The surroundings.
LEMMA TypeEnvironment == TypeOK /\ UndoMatchesStep /\ Environment => TypeOK'
<1> SUFFICES ASSUME TypeOK, UndoMatchesStep, Environment PROVE TypeOK'
  OBVIOUS
<1> USE DEF nodeVars, workVars, runVars
<1>n. Main \in Names
  BY DEF Names
<1>s. store[Main] \in PVs
  BY <1>n DEF TypeOK
<1>1. ASSUME NEW h \in Hosts, Crash(h) PROVE TypeOK'
  BY <1>1, TypeUndo
<1>2. ASSUME NEW h \in Hosts, Stop(h) PROVE TypeOK'
  BY <1>2, NoWriteType DEF TypeOK, Stop
<1>3. ASSUME NEW h \in Hosts, TimerFires(h) PROVE TypeOK'
  BY <1>3, NoWriteType DEF TypeOK, TimerFires
<1>4. ASSUME NEW d \in Dirs, ChangePod(d) PROVE TypeOK'
  BY <1>4, NoWriteType DEF TypeOK, ChangePod, PodRuns, EvictPod, PodGoes
<1>5. ASSUME NEW d \in Dirs, RecordDir(d) PROVE TypeOK'
  <2>1. [store[Main] EXCEPT !.dirs = @ \cup {d}] \in PVs
    BY <1>s, PVTypes
  <2> QED BY <1>5, <1>n, <2>1, WriteType DEF TypeOK, RecordDir
<1>6. ASSUME NEW d \in Dirs, Clean(d) PROVE TypeOK'
  BY <1>6, NoWriteType DEF TypeOK, Clean
<1>7. ASSUME NEW n \in Names, Terminate(n) PROVE TypeOK'
  BY <1>7, PVTypes, WriteType DEF TypeOK, Terminate
<1>8. ASSUME LeaseExpires PROVE TypeOK'
  <2>1. [store[Main] EXCEPT !.started = "expired"] \in PVs
    BY <1>s, PVTypes
  <2>2. store' = [store EXCEPT ![Main] = [store[Main] EXCEPT !.started = "expired"]]
    BY <1>8 DEF LeaseExpires
  <2>3. store' \in [Names -> PVs]
    BY <2>1, <2>2 DEF TypeOK
  <2> QED BY <1>8, <2>3 DEF TypeOK, LeaseExpires
<1>9. ASSUME Bind PROVE TypeOK'
  <2>1. [store[Main] EXCEPT !.bound = TRUE] \in PVs
    BY <1>s, PVTypes
  <2> QED BY <1>9, <1>n, <2>1, WriteType DEF TypeOK, Bind
<1> QED BY <1>1, <1>2, <1>3, <1>4, <1>5, <1>6, <1>7, <1>8, <1>9 DEF Environment

-----------------------------------------------------------------------------
(* The undo list follows the place in the run.                             *)

\* No replica comes to hold the lock, and none comes to be about to take it.
ControlQuiet ==
    \A g \in Hosts : /\ undo'[g] >= 1 => undo[g] >= 1
                     /\ pc'[g] = "CheckUpdate" => pc[g] = "CheckUpdate"

\* The steps after Check.
LEMMA ControlForward ==
    ASSUME TypeOK, UndoMatchesStep, NEW h \in Hosts,
           \/ Abort(h) \/ StepChangePod(h) \/ CreateChangePod(h)
           \/ WaitPodQuit(h) \/ StepCreateTmpPV(h) \/ CreateTmpPV(h)
           \/ StepDeleteOldPV(h) \/ DeleteOldPV(h) \/ DeleteOldPVPoll(h)
           \/ StepCreateCSIPV(h) \/ StepWaitCSIPVBound(h)
           \/ WaitPVBound(h) \/ StepRestartPods(h)
    PROVE  UndoMatchesStep' /\ ControlQuiet
<1> USE DEF Goto, Fail, Advance, Enters, StepStarts, UndoMatchesStep, ControlQuiet
<1>1. pc \in [Hosts -> Locations] /\ undo \in [Hosts -> 0 .. 5]
  BY DEF TypeOK
<1>2. CASE Abort(h)
  BY <1>1, <1>2 DEF Abort
<1>3. CASE StepChangePod(h)
  BY <1>1, <1>3 DEF StepChangePod
<1>4. CASE CreateChangePod(h)
  BY <1>1, <1>4 DEF CreateChangePod
<1>5. CASE WaitPodQuit(h)
  BY <1>1, <1>5 DEF WaitPodQuit
<1>6. CASE StepCreateTmpPV(h)
  BY <1>1, <1>6 DEF StepCreateTmpPV
<1>7. CASE CreateTmpPV(h)
  <2>1. /\ pc[h] = "TmpPVCreate"
        /\ Advance(h, "DeleteOld", 3) \/ (Fail(h) /\ UNCHANGED undo)
    BY <1>7 DEF CreateTmpPV
  <2> QED BY <1>1, <2>1
<1>8. CASE StepDeleteOldPV(h)
  BY <1>1, <1>8 DEF StepDeleteOldPV
<1>9. CASE DeleteOldPV(h)
  BY <1>1, <1>9 DEF DeleteOldPV
<1>10. CASE DeleteOldPVPoll(h)
  BY <1>1, <1>10 DEF DeleteOldPVPoll
<1>11. CASE StepCreateCSIPV(h)
  <2>1. /\ pc[h] = "CSIPV"
        /\ Advance(h, "WaitBound", 5) \/ (Fail(h) /\ UNCHANGED undo)
    BY <1>11 DEF StepCreateCSIPV
  <2> QED BY <1>1, <2>1
<1>12. CASE StepWaitCSIPVBound(h)
  BY <1>1, <1>12 DEF StepWaitCSIPVBound
<1>13. CASE WaitPVBound(h)
  BY <1>1, <1>13 DEF WaitPVBound
<1>14. CASE StepRestartPods(h)
  BY <1>1, <1>14 DEF StepRestartPods
<1> QED BY <1>2, <1>3, <1>4, <1>5, <1>6, <1>7, <1>8, <1>9, <1>10, <1>11, <1>12, <1>13, <1>14

\* The undo actions and the ends of a run.
LEMMA ControlUndo ==
    ASSUME TypeOK, UndoMatchesStep, NEW h \in Hosts,
           \/ UndoNothing(h) \/ UndoCreatePV(h) \/ UndoCreatePVPoll(h)
           \/ UndoDeleteOldPV(h) \/ UndoChangePod(h) \/ UndoChangePodPoll(h)
           \/ UndoCheck(h) \/ UndoCheckUpdate(h) \/ Finish(h) \/ Crash(h)
    PROVE  UndoMatchesStep' /\ ControlQuiet
<1> USE DEF Goto, Fail, Advance, NextUndo, Undoing, Forget,
           StepStarts, UndoMatchesStep, ControlQuiet
<1>1. pc \in [Hosts -> Locations] /\ undo \in [Hosts -> 0 .. 5]
  BY DEF TypeOK
<1>2. CASE UndoNothing(h)
  BY <1>1, <1>2 DEF UndoNothing
<1>3. CASE UndoCreatePV(h)
  BY <1>1, <1>3 DEF UndoCreatePV
<1>4. CASE UndoCreatePVPoll(h)
  BY <1>1, <1>4 DEF UndoCreatePVPoll
<1>5. CASE UndoDeleteOldPV(h)
  BY <1>1, <1>5 DEF UndoDeleteOldPV
<1>6. CASE UndoChangePod(h) \/ UndoChangePodPoll(h)
  BY <1>1, <1>6 DEF UndoChangePod, UndoChangePodPoll, PodsUndone
<1>7. CASE UndoCheck(h)
  BY <1>1, <1>7 DEF UndoCheck
<1>8. CASE UndoCheckUpdate(h)
  BY <1>1, <1>8 DEF UndoCheckUpdate
<1>9. CASE Finish(h)
  BY <1>1, <1>9 DEF Finish
<1>10. CASE Crash(h)
  BY <1>1, <1>10 DEF Crash
<1> QED BY <1>2, <1>3, <1>4, <1>5, <1>6, <1>7, <1>8, <1>9, <1>10

LEMMA UndoStep ==
    ASSUME TypeOK, UndoMatchesStep, [Next]_vars
    PROVE  UndoMatchesStep'
<1>t. pc \in [Hosts -> Locations] /\ undo \in [Hosts -> 0 .. 5]
  BY DEF TypeOK
<1>s. UNCHANGED <<pc, undo>> => UndoMatchesStep'
  BY DEF UndoMatchesStep
<1>1. ASSUME NEW h \in Hosts, Pipeline(h) PROVE UndoMatchesStep'
  <2>1. CASE StepCheck(h)
    BY <2>1, <1>t DEF StepCheck, Enters, Fail, Goto, UndoMatchesStep
  <2>2. CASE StepCheckUpdate(h)
    BY <2>2, <1>t DEF StepCheckUpdate, Fail, Advance, Goto, UndoMatchesStep
  <2> QED BY <1>1, <2>1, <2>2, ControlForward, ControlUndo DEF Pipeline
<1>2. ASSUME NEW h \in Hosts, NEW wait \in BOOLEAN, Start(h, wait)
      PROVE  UndoMatchesStep'
  BY <1>2, <1>t DEF Start, Goto, UndoMatchesStep
<1>3. ASSUME NEW h \in Hosts, Crash(h) PROVE UndoMatchesStep'
  BY <1>3, ControlUndo
<1>4. ASSUME NEW h \in Hosts, Stop(h) \/ TimerFires(h) PROVE UndoMatchesStep'
  BY <1>4, <1>s DEF Stop, TimerFires
<1>5. ASSUME NEW d \in Dirs, ChangePod(d) \/ RecordDir(d) \/ Clean(d)
      PROVE  UndoMatchesStep'
  BY <1>5, <1>s DEF ChangePod, PodRuns, EvictPod, PodGoes, RecordDir, Clean
<1>6. ASSUME NEW n \in Names, Terminate(n) PROVE UndoMatchesStep'
  BY <1>6, <1>s DEF Terminate
<1>7. ASSUME LeaseExpires \/ Bind \/ UNCHANGED vars PROVE UndoMatchesStep'
  BY <1>7, <1>s DEF LeaseExpires, Bind, vars
<1> QED BY <1>1, <1>2, <1>3, <1>4, <1>5, <1>6, <1>7 DEF Next, Environment

LEMMA TypeStep ==
    ASSUME TypeOK, UndoMatchesStep, [Next]_vars
    PROVE  TypeOK'
<1>1. ASSUME NEW h \in Hosts, Pipeline(h) PROVE TypeOK'
  BY <1>1, TypeForward, TypeUndo DEF Pipeline
<1>2. ASSUME NEW h \in Hosts, NEW wait \in BOOLEAN, Start(h, wait)
      PROVE  TypeOK'
  BY <1>2, TypeUndo
<1>3. CASE UNCHANGED vars
  BY <1>3 DEF vars, TypeOK
<1> QED BY <1>1, <1>2, <1>3, TypeEnvironment DEF Next

LEMMA UndoInit == Init => UndoMatchesStep
  BY DEF Init, UndoMatchesStep

-----------------------------------------------------------------------------
(* The lock.                                                               *)

\* A step makes no PV a hostpath, leaves the lock on a hostpath PV alone, and
\* leaves no copy current if it writes.
StoreQuiet ==
    /\ store'[Main].kind = "hostpath"
          => /\ store[Main].kind = "hostpath"
             /\ store'[Main].owner = store[Main].owner
             /\ store'[Main].started = store[Main].started
    /\ \A g \in Hosts :
          current'[g] => current[g] /\ store'[Main] = store[Main]

LEMMA NoWriteQuiet == NoWrite => StoreQuiet
  BY DEF NoWrite, StoreQuiet

LEMMA WriteQuiet ==
    ASSUME TypeOK, NEW n \in Names, NEW pv, WritePV(n, pv),
           \/ n = Tmp
           \/ pv.kind # "hostpath"
           \/ /\ pv.kind = store[Main].kind /\ pv.owner = store[Main].owner
              /\ pv.started = store[Main].started
    PROVE  StoreQuiet
<1>1. Main # Tmp /\ store \in [Names -> PVs] /\ Names = {Main, Tmp}
  BY DEF TypeOK, Names, Main, Tmp
<1>2. CASE n = Tmp
  BY <1>1, <1>2 DEF WritePV, StoreQuiet
<1>3. CASE n = Main
  BY <1>1, <1>3 DEF WritePV, StoreQuiet
<1> QED BY <1>1, <1>2, <1>3

LEMMA RequestQuiet ==
    ASSUME TypeOK, NEW n \in Names, NEW pv \in PVs, NEW ok \in BOOLEAN,
           \/ AcceptDelete(n) \/ ClearFinalizers(n)
           \/ CreateCSIHostPathPV(n, pv, ok)
    PROVE  StoreQuiet
<1>1. /\ store[n] \in PVs /\ NoPV.kind # "hostpath" /\ (n = Main \/ n = Tmp)
      /\ CSIFrom(pv).kind # "hostpath"
  BY DEF TypeOK, NoPV, Names, CSIFrom, PVs
<1>2. CASE AcceptDelete(n)
  <2> DEFINE gone == [store[n] EXCEPT !.deleting = TRUE]
  <2>1. /\ gone.kind = store[n].kind /\ gone.owner = store[n].owner
        /\ gone.started = store[n].started
    BY <1>1 DEF PVs
  <2>2. WritePV(n, NoPV) \/ WritePV(n, gone)
    BY <1>2 DEF AcceptDelete
  <2> HIDE DEF gone
  <2> QED BY <1>1, <2>1, <2>2, WriteQuiet
<1>3. CASE ClearFinalizers(n)
  <2>1. WritePV(n, NoPV) \/ WritePV(n, store[n]) \/ NoWrite
    BY <1>3 DEF ClearFinalizers
  <2> QED BY <1>1, <2>1, WriteQuiet, NoWriteQuiet
<1>4. CASE CreateCSIHostPathPV(n, pv, ok)
  <2>1. WritePV(n, CSIFrom(pv)) \/ NoWrite
    BY <1>4 DEF CreateCSIHostPathPV
  <2> QED BY <1>1, <2>1, WriteQuiet, NoWriteQuiet
<1> QED BY <1>2, <1>3, <1>4

\* A quiet step keeps the lock invariant.
LEMMA Quiet ==
    ASSUME TypeOK, LockInv, StoreQuiet, ControlQuiet
    PROVE  CheckedStillFree' /\ LockNamesHolder' /\ MutualExclusion'
<1>1. CheckedStillFree'
  BY DEF LockInv, StoreQuiet, ControlQuiet, CheckedStillFree, LockedByOther
<1>2. LockNamesHolder'
  BY DEF LockInv, StoreQuiet, ControlQuiet, LockNamesHolder, Holding
<1>3. MutualExclusion'
  BY DEF LockInv, ControlQuiet, MutualExclusion, Holding
<1> QED BY <1>1, <1>2, <1>3

\* The steps after Check leave the lock alone.
LEMMA LockForward ==
    ASSUME TypeOK, NEW h \in Hosts,
           \/ Abort(h) \/ StepChangePod(h) \/ CreateChangePod(h)
           \/ WaitPodQuit(h) \/ StepCreateTmpPV(h) \/ CreateTmpPV(h)
           \/ StepDeleteOldPV(h) \/ DeleteOldPV(h) \/ DeleteOldPVPoll(h)
           \/ StepCreateCSIPV(h) \/ StepWaitCSIPVBound(h) \/ WaitPVBound(h)
           \/ StepRestartPods(h)
    PROVE  StoreQuiet
<1>1. CASE \/ Abort(h) \/ StepChangePod(h) \/ CreateChangePod(h)
           \/ WaitPodQuit(h) \/ StepCreateTmpPV(h) \/ StepDeleteOldPV(h)
           \/ StepWaitCSIPVBound(h) \/ WaitPVBound(h) \/ StepRestartPods(h)
  BY <1>1, NoWriteQuiet
     DEF Abort, StepChangePod, CreateChangePod, WaitPodQuit, StepCreateTmpPV,
         StepDeleteOldPV, StepWaitCSIPVBound, WaitPVBound, StepRestartPods
<1>2. CASE CreateTmpPV(h) \/ StepCreateCSIPV(h)
  <2>1. \E n \in Names, ok \in BOOLEAN : CreateCSIHostPathPV(n, snap[h], ok)
    BY <1>2 DEF CreateTmpPV, StepCreateCSIPV, Names
  <2> QED BY <2>1, RequestQuiet DEF TypeOK
<1>3. CASE DeleteOldPV(h) \/ DeleteOldPVPoll(h)
  <2>1. NoWrite \/ AcceptDelete(Main) \/ ClearFinalizers(Main)
    BY <1>3 DEF DeleteOldPV, DeleteOldPVPoll
  <2> QED BY <2>1, NoWriteQuiet, RequestQuiet, PVTypes DEF Names
<1> QED BY <1>1, <1>2, <1>3

\* The undo actions but that of Check leave the lock alone.
LEMMA LockUndo ==
    ASSUME TypeOK, NEW h \in Hosts,
           \/ UndoNothing(h) \/ UndoCreatePV(h) \/ UndoCreatePVPoll(h)
           \/ UndoDeleteOldPV(h) \/ UndoChangePod(h) \/ UndoChangePodPoll(h)
           \/ Finish(h) \/ Crash(h)
    PROVE  StoreQuiet
<1>1. CASE \/ UndoNothing(h) \/ UndoDeleteOldPV(h) \/ UndoChangePod(h)
           \/ UndoChangePodPoll(h)
  BY <1>1, NoWriteQuiet
     DEF UndoNothing, UndoDeleteOldPV, CreateVersioned, UndoChangePod,
         UndoChangePodPoll
<1>2. CASE UndoCreatePV(h) \/ UndoCreatePVPoll(h)
  <2>1. \E n \in Names : NoWrite \/ AcceptDelete(n) \/ ClearFinalizers(n)
    BY <1>2 DEF UndoCreatePV, UndoCreatePVPoll, UndoPV, Names
  <2> QED BY <2>1, NoWriteQuiet, RequestQuiet, PVTypes
<1>3. CASE Finish(h) \/ Crash(h)
  BY <1>3 DEF Finish, Crash, Forget, StoreQuiet, TypeOK
<1> QED BY <1>1, <1>2, <1>3

\* Without the fault "overrun" every step keeps the lock invariant.
LEMMA LockStep ==
    ASSUME "overrun" \notin Faults, TypeOK, LockInv, [Next]_vars
    PROVE  LockInv'
<1> USE DEF nodeVars, workVars, runVars
<1>t. /\ pc \in [Hosts -> Locations] /\ undo \in [Hosts -> 0 .. 5]
      /\ current \in [Hosts -> BOOLEAN] /\ store \in [Names -> PVs]
      /\ Main \in Names /\ Main # Tmp
  BY DEF TypeOK, Names, Main, Tmp
<1>u. UndoMatchesStep'
  BY UndoStep DEF LockInv
<1>q. ASSUME ControlQuiet, StoreQuiet PROVE LockInv'
  BY <1>q, <1>u, Quiet DEF LockInv
<1>s. ASSUME UNCHANGED <<pc, undo>> PROVE ControlQuiet
  BY <1>s DEF ControlQuiet
<1>1. ASSUME NEW h \in Hosts, StepCheck(h) PROVE LockInv'
  <2>1. UndoMatchesStep'
    BY <1>u
  <2>2. CASE Goto(h, "Undo") /\ NoWrite
    <3>1. undo' = undo /\ \A g \in Hosts : pc'[g] = "CheckUpdate" => pc[g] = "CheckUpdate"
      BY <1>1, <2>2, <1>t DEF StepCheck, Goto
    <3> QED BY <3>1, <2>1, <2>2, <1>q, NoWriteQuiet DEF ControlQuiet
  <2>3. CASE /\ store[Main].kind = "hostpath"
             /\ ~LockedByOther(store[Main], h)
             /\ Goto(h, "CheckUpdate")
             /\ current' = [current EXCEPT ![h] = TRUE]
             /\ UNCHANGED <<store, failed>>
    <3>1. UNCHANGED <<store, undo>>
      BY <1>1, <2>3 DEF StepCheck
    <3>2. CheckedStillFree'
      BY <2>3, <3>1, <1>t
         DEF LockInv, CheckedStillFree, Goto, LockedByOther
    <3>3. LockNamesHolder' /\ MutualExclusion'
      BY <3>1 DEF LockInv, LockNamesHolder, MutualExclusion, Holding
    <3> QED BY <2>1, <3>2, <3>3 DEF LockInv
  <2> QED BY <1>1, <2>2, <2>3 DEF StepCheck, Fail
<1>2. ASSUME NEW h \in Hosts, StepCheckUpdate(h) PROVE LockInv'
  <2>1. UndoMatchesStep'
    BY <1>u
  <2> DEFINE locked == [store[Main] EXCEPT !.owner = h, !.started = "live"]
  <2>l. /\ locked.owner = h /\ locked.started = "live"
        /\ locked.kind = store[Main].kind
    BY <1>t DEF PVs
  <2>2. CASE current[h] /\ WritePV(Main, locked) /\ Advance(h, "ChangePod", 1)
    <3>1. \A g \in Hosts : Holding(g) => g = h
      <4>1. store[Main].kind = "hostpath" /\ ~LockedByOther(store[Main], h)
        BY <1>2, <2>2 DEF StepCheckUpdate, LockInv, CheckedStillFree
      <4> QED BY <4>1 DEF LockInv, LockNamesHolder, LockedByOther
    <3>2. \A g \in Hosts : Holding(g)' => g = h
      BY <3>1, <2>2, <1>t DEF Advance, Holding
    <3>3. store'[Main] = locked /\ \A g \in Hosts : ~current'[g]
      BY <2>2, <1>t DEF WritePV
    <3>4. LockNamesHolder' /\ MutualExclusion'
      BY <3>2, <3>3, <2>l DEF LockNamesHolder, MutualExclusion
    <3> QED BY <2>1, <3>3, <3>4 DEF LockInv, CheckedStillFree
  <2>3. CASE NoWrite /\ Fail(h) /\ UNCHANGED undo
    <3>1. ControlQuiet
      BY <2>3, <1>t DEF Fail, Goto, ControlQuiet
    <3> QED BY <2>1, <2>3, <3>1, <1>q, NoWriteQuiet
  <2>4. CASE current[h] /\ WritePV(Main, locked) /\ Fail(h) /\ UNCHANGED undo
    <3>1. \A g \in Hosts : Holding(g) => g = h
      <4>1. store[Main].kind = "hostpath" /\ ~LockedByOther(store[Main], h)
        BY <1>2, <2>4 DEF StepCheckUpdate, LockInv, CheckedStillFree
      <4> QED BY <4>1 DEF LockInv, LockNamesHolder, LockedByOther
    <3>2. store'[Main] = locked /\ \A g \in Hosts : ~current'[g]
      BY <2>4, <1>t DEF WritePV
    <3>3. \A g \in Hosts : Holding(g)' <=> Holding(g)
      BY <2>4 DEF Holding
    <3>4. LockNamesHolder' /\ MutualExclusion'
      BY <3>1, <3>2, <3>3, <2>l DEF LockInv, LockNamesHolder, MutualExclusion
    <3> QED BY <2>1, <3>2, <3>4 DEF LockInv, CheckedStillFree
  <2> HIDE DEF locked
  <2> QED BY <1>2, <2>2, <2>3, <2>4 DEF StepCheckUpdate, locked
<1>3. ASSUME NEW h \in Hosts, UndoCheckUpdate(h) PROVE LockInv'
  <2>1. UndoMatchesStep' /\ ControlQuiet
    BY <1>3, ControlUndo DEF LockInv
  <2>2. CASE NoWrite
    BY <2>1, <2>2, <1>q, NoWriteQuiet
  <2> DEFINE free == [store[Main] EXCEPT !.owner = NoHost, !.started = "none"]
  <2>3. CASE WritePV(Main, free)
    <3>1. Holding(h) /\ undo' = [undo EXCEPT ![h] = undo[h] - 1] /\ undo[h] = 1
      BY <1>3, <1>t
         DEF UndoCheckUpdate, NextUndo, LockInv, UndoMatchesStep, Holding
    <3>2. \A g \in Hosts : ~Holding(g)'
      BY <3>1, <1>t DEF Holding, LockInv, MutualExclusion
    <3>3. \A g \in Hosts : ~current'[g]
      BY <2>3, <1>t DEF WritePV
    <3> QED BY <2>1, <3>2, <3>3
            DEF LockInv, LockNamesHolder, MutualExclusion, CheckedStillFree
  <2> QED BY <1>3, <2>2, <2>3 DEF UndoCheckUpdate
<1>4. ASSUME LeaseExpires PROVE LockInv'
  <2>1. /\ ~Holding(store[Main].owner) /\ store[Main].kind = "hostpath"
        /\ UNCHANGED <<pc, undo, current>>
    BY <1>4 DEF LeaseExpires, May
  <2>2. \A g \in Hosts : ~Holding(g)
    BY <2>1 DEF LockInv, LockNamesHolder
  <2>3. /\ store'[Main].kind = store[Main].kind
        /\ store'[Main].owner = store[Main].owner
        /\ store'[Main].started = "expired"
    BY <1>4, <1>t DEF LeaseExpires, PVs
  <2>4. \A g \in Hosts : ~Holding(g)'
    BY <2>1, <2>2 DEF Holding
  <2>5. CheckedStillFree'
    BY <2>1, <2>3 DEF LockInv, CheckedStillFree, LockedByOther
  <2> QED BY <1>u, <2>1, <2>4, <2>5
          DEF LockInv, LockNamesHolder, MutualExclusion
<1>5. ASSUME NEW h \in Hosts, NEW wait \in BOOLEAN, Start(h, wait)
      PROVE  LockInv'
  <2>1. ControlQuiet
    BY <1>5, <1>t DEF Start, Goto, ControlQuiet
  <2> QED BY <1>5, <2>1, <1>q, NoWriteQuiet DEF Start
<1>6. ASSUME NEW h \in Hosts, Stop(h) \/ TimerFires(h) PROVE LockInv'
  BY <1>6, <1>q, <1>s, NoWriteQuiet DEF Stop, TimerFires
<1>7. ASSUME NEW d \in Dirs, ChangePod(d) \/ Clean(d) PROVE LockInv'
  BY <1>7, <1>q, <1>s, NoWriteQuiet DEF ChangePod, PodRuns, EvictPod, PodGoes, Clean
<1>8. ASSUME NEW d \in Dirs, RecordDir(d) PROVE LockInv'
  <2> DEFINE pv == [store[Main] EXCEPT !.dirs = @ \cup {d}]
  <2>1. /\ pv.kind = store[Main].kind /\ pv.owner = store[Main].owner
        /\ pv.started = store[Main].started
    BY <1>t DEF PVs
  <2>2. WritePV(Main, pv) /\ UNCHANGED <<pc, undo>>
    BY <1>8 DEF RecordDir
  <2> HIDE DEF pv
  <2> QED BY <2>1, <2>2, <1>q, <1>s, <1>t, WriteQuiet
<1>9. ASSUME NEW n \in Names, Terminate(n) PROVE LockInv'
  <2>1. StoreQuiet
    BY <1>9, WriteQuiet DEF Terminate, NoPV
  <2> QED BY <1>9, <2>1, <1>q, <1>s DEF Terminate
<1>10. ASSUME Bind PROVE LockInv'
  <2> DEFINE pv == [store[Main] EXCEPT !.bound = TRUE]
  <2>1. /\ pv.kind = store[Main].kind /\ pv.owner = store[Main].owner
        /\ pv.started = store[Main].started
    BY <1>t DEF PVs
  <2>2. WritePV(Main, pv) /\ UNCHANGED <<pc, undo>>
    BY <1>10 DEF Bind
  <2> HIDE DEF pv
  <2> QED BY <2>1, <2>2, <1>q, <1>s, <1>t, WriteQuiet
<1>11. ASSUME NEW h \in Hosts, Pipeline(h) PROVE LockInv'
  <2>1. CASE \/ Abort(h) \/ StepChangePod(h) \/ CreateChangePod(h)
             \/ WaitPodQuit(h) \/ StepCreateTmpPV(h) \/ CreateTmpPV(h)
             \/ StepDeleteOldPV(h) \/ DeleteOldPV(h) \/ DeleteOldPVPoll(h)
             \/ StepCreateCSIPV(h) \/ StepWaitCSIPVBound(h) \/ WaitPVBound(h)
             \/ StepRestartPods(h)
    BY <2>1, <1>q, ControlForward, LockForward DEF LockInv
  <2>2. CASE \/ UndoNothing(h) \/ UndoCreatePV(h) \/ UndoCreatePVPoll(h)
             \/ UndoDeleteOldPV(h) \/ UndoChangePod(h)
             \/ UndoChangePodPoll(h) \/ Finish(h)
    BY <2>2, <1>q, ControlUndo, LockUndo DEF LockInv
  <2>3. CASE UndoCheck(h)
    <3>1. UndoMatchesStep' /\ ControlQuiet
      BY <2>3, ControlUndo DEF LockInv
    <3>2. CASE NoWrite
      BY <3>1, <3>2, <1>q, NoWriteQuiet
    <3>3. CASE /\ Goto(h, "UndoUpdate") /\ UNCHANGED <<store, undo>>
               /\ current' = [current EXCEPT ![h] = TRUE]
      <4>1. CheckedStillFree'
        BY <3>3, <1>t DEF Goto, LockInv, CheckedStillFree
      <4> QED BY <3>1, <3>3, <4>1
              DEF LockInv, LockNamesHolder, MutualExclusion, Holding
    <3> QED BY <2>3, <3>2, <3>3 DEF UndoCheck
  <2> QED BY <1>11, <1>1, <1>2, <1>3, <2>1, <2>2, <2>3 DEF Pipeline
<1>12. ASSUME NEW h \in Hosts, Crash(h) PROVE LockInv'
  BY <1>12, <1>q, ControlUndo, LockUndo DEF LockInv
<1>13. ASSUME UNCHANGED vars PROVE LockInv'
  BY <1>13, <1>q, <1>s, NoWriteQuiet DEF vars, NoWrite
<1> QED BY <1>4, <1>5, <1>6, <1>7, <1>8, <1>9, <1>10, <1>11, <1>12, <1>13
        DEF Next, Environment

LEMMA LockInit == Init => LockInv
<1> SUFFICES ASSUME Init PROVE LockInv
  OBVIOUS
<1>1. \A h \in Hosts : pc[h] = "idle" /\ undo[h] = 0
  BY DEF Init
<1>2. \A h \in Hosts : ~Holding(h)
  BY <1>1 DEF Holding
<1> QED BY <1>1, <1>2, UndoInit
        DEF LockInv, CheckedStillFree, LockNamesHolder, MutualExclusion

-----------------------------------------------------------------------------
(* The theorems.                                                           *)

\* Every variable of the pipeline stays in its range, and the undo actions
\* registered are always the prefix the place in the run calls for, whatever
\* fails, crashes or expires (Run and the seven steps).
THEOREM TypeCorrect == Spec => [](TypeOK /\ UndoMatchesStep)
<1>1. Init => TypeOK /\ UndoMatchesStep
  BY TypeInit, UndoInit
<1>2. TypeOK /\ UndoMatchesStep /\ [Next]_vars => (TypeOK /\ UndoMatchesStep)'
  BY TypeStep, UndoStep
<1> QED BY <1>1, <1>2, PTL DEF Spec

\* The inductive invariant of the lock (stepCheck and its undo).
THEOREM LockInvariant ==
    ASSUME "overrun" \notin Faults
    PROVE  Spec => [](TypeOK /\ LockInv)
<1>1. Init => TypeOK /\ LockInv
  BY TypeInit, LockInit
<1>2. TypeOK /\ LockInv /\ [Next]_vars => (TypeOK /\ LockInv)'
  <2> SUFFICES ASSUME TypeOK, LockInv, [Next]_vars
               PROVE  (TypeOK /\ LockInv)'
    OBVIOUS
  <2>1. TypeOK'
    BY TypeStep DEF LockInv
  <2>2. LockInv'
    BY LockStep
  <2> QED BY <2>1, <2>2
<1> QED BY <1>1, <1>2, PTL DEF Spec

\* As long as no run outlives its lease, at most one replica works on the
\* volume: the two annotations, written with Get and Update, are a lock, for
\* any number of replicas and with requests refused, answers lost, replicas
\* stopped and crashed (stepCheck).
THEOREM LockExcludes ==
    ASSUME "overrun" \notin Faults
    PROVE  Spec => []MutualExclusion
<1>1. TypeOK /\ LockInv => MutualExclusion
  BY DEF LockInv
<1> QED BY <1>1, LockInvariant, PTL

=============================================================================
