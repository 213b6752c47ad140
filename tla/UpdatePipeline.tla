--------------------------- MODULE UpdatePipeline ---------------------------
(***************************************************************************)
(* The upgrade of ONE hostpath PV to a CSI hostpath PV, as the replicas of *)
(* the hppvtocsipv service run it: every replica (a Host) runs its own     *)
(* UpdatePipeline of seven steps against the same API server, with a lock  *)
(* kept in two annotations of the PV and a list of undo actions that runs  *)
(* backwards when the pipeline ends.                                       *)
(*                                                                         *)
(* Source: src/pkg/hppvtocsipv/hostpthpvupdate.go (pipeline, steps, Run)   *)
(* and the helpers it calls in the vendored kubectl-plugins package.  Each *)
(* request to the API server is one action; the code between two requests  *)
(* belongs to the action before it.                                        *)
(***************************************************************************)
EXTENDS Naturals, FiniteSets

CONSTANTS
    Hosts,       \* the replicas of the service, by os.Hostname()
    NoHost,      \* the absent owner annotation
    Dirs,        \* quota directories, one per node that mounted the volume
    Faults,      \* the kinds of trouble the environment may make, see below
    MaxCrashes   \* bound: how many replicas crash in a behaviour

(***************************************************************************)
(* "refused"  a request fails and has no effect                            *)
(* "lost"     a write takes effect and its answer is an error              *)
(* "crash"    a replica dies and is started again                          *)
(* "stop"     a replica is told to stop (PVUpdateManager.Stop)             *)
(* "late"     the pipeline's own timer (TimeOut) fires before the end      *)
(* "podfail"  a change pod fails, or is not done within 120 seconds        *)
(* "evicted"  somebody else deletes a change pod, or its node is gone      *)
(* "unbound"  the new PV is not bound within 40 seconds                    *)
(* "overrun"  the lock expires (2 * TimeOut) while its owner still works   *)
(* "newdir"   a pod lands on a new node and its directory is recorded      *)
(* "stale"    the queued event says unbound though the PV is now bound     *)
(***************************************************************************)
FaultKinds == {"refused", "lost", "crash", "stop", "late", "podfail",
               "evicted", "unbound", "overrun", "newdir", "stale"}

ASSUME NoHostAssumption == NoHost \notin Hosts
ASSUME FaultsAssumption == Faults \subseteq FaultKinds
ASSUME CrashAssumption == MaxCrashes \in Nat

Main == "pv"     \* upl.pvName
Tmp  == "tmp"    \* <md5 of the name>-csihostpathpv-tmp
Names == {Main, Tmp}

(***************************************************************************)
(* A persistent volume: its source (kind "none": no such object), the two  *)
(* lock annotations, the directories its mount annotation lists, its phase *)
(* and whether it only waits for its finalizers.  The start time is kept   *)
(* as what isTimeOut tells apart.                                          *)
(***************************************************************************)
PVs == [kind : {"none", "hostpath", "csi"}, owner : Hosts \cup {NoHost},
        started : {"none", "live", "expired"}, dirs : SUBSET Dirs,
        bound : BOOLEAN, deleting : BOOLEAN]

NoPV == [kind |-> "none", owner |-> NoHost, started |-> "none",
         dirs |-> {}, bound |-> FALSE, deleting |-> FALSE]

StepStarts == {"Check", "ChangePod", "TmpPV", "DeleteOld", "CSIPV",
               "WaitBound", "RestartPods"}
Locations == StepStarts \cup
             {"idle", "CheckUpdate", "ChangePodCreate", "ChangePodWait",
              "TmpPVCreate", "DeleteCall", "DeletePoll", "BoundPoll",
              "Undo", "UndoPoll", "UndoUpdate"}

VARIABLES
    store,      \* [Names -> PVs]: the API server
    pods,       \* [Dirs -> phase]: the change pods in kube-system
    marked,     \* directories that carry the CSI mark on disk
    disk,       \* directories that still exist on disk
    suspect,    \* marked directories the cleaner's last round found unlisted
    mounted,    \* directories some workload pod uses through the old mount
    late,       \* directories recorded while some run stood between its copy
                \*   of the old PV and the deletion (history)
    pc,         \* where each replica's pipeline stands
    undo,       \* how many undo actions are registered: always a prefix of
                \*   1 Check, 2 ChangePod, 3 TmpPV, 4 DeleteOld, 5 CSIPV
    failed,     \* ret # nil
    current,    \* the resourceVersion the replica read of Main is still valid
    snap,       \* the PV object the replica last read for a later step
    todo,       \* change pods still to create; in undo, the one being deleted
    made,       \* change pods created: the list `pods` undo 2 deletes
    waitBound,  \* needWaitBound
    timedOut,   \* timeOutCh is closed
    stopping,   \* stopCh is closed
    crashes     \* crashes so far

nodeVars == <<pods, marked, disk, suspect, mounted, late>>
runVars  == <<waitBound, timedOut, stopping, crashes>>
workVars == <<todo, made>>
vars == <<store, pods, marked, disk, suspect, mounted, late, pc, undo, failed,
          current, snap, todo, made, waitBound, timedOut, stopping, crashes>>

May(f) == f \in Faults
Outcomes == {"ok"} \cup ({"refused", "lost"} \cap Faults)

Init ==
    /\ \E D \in IF May("newdir") THEN SUBSET Dirs ELSE {Dirs}, b \in BOOLEAN :
          /\ store = [n \in Names |->
                        IF n = Main
                        THEN [NoPV EXCEPT !.kind = "hostpath", !.dirs = D,
                                          !.bound = b]
                        ELSE NoPV]
          /\ mounted = IF b THEN D ELSE {}
    /\ pods = [d \in Dirs |-> "absent"]
    /\ marked = {} /\ disk = Dirs /\ suspect = {} /\ late = {}
    /\ pc = [h \in Hosts |-> "idle"]
    /\ undo = [h \in Hosts |-> 0]
    /\ failed = [h \in Hosts |-> FALSE]
    /\ current = [h \in Hosts |-> FALSE]
    /\ snap = [h \in Hosts |-> NoPV]
    /\ todo = [h \in Hosts |-> {}]
    /\ made = [h \in Hosts |-> {}]
    /\ waitBound = [h \in Hosts |-> FALSE]
    /\ timedOut = [h \in Hosts |-> FALSE]
    /\ stopping = [h \in Hosts |-> FALSE]
    /\ crashes = 0

-----------------------------------------------------------------------------
(* The API server: a write makes every copy read before it out of date.    *)

WritePV(n, pv) ==
    /\ store' = [store EXCEPT ![n] = pv]
    /\ current' = IF n = Main THEN [g \in Hosts |-> FALSE] ELSE current

NoWrite == UNCHANGED <<store, current>>

\* A Delete call that the server accepts: the object goes at once, or stays
\* until its finalizers are cleared.
AcceptDelete(n) ==
    \/ WritePV(n, NoPV)
    \/ WritePV(n, [store[n] EXCEPT !.deleting = TRUE])

\* One turn of DeletePv's loop that still finds the object: Update with no
\* finalizers, whose error is ignored.
ClearFinalizers(n) ==
    \/ WritePV(n, IF store[n].deleting THEN NoPV ELSE store[n])
    \/ ("refused" \in Faults /\ NoWrite)

\* Mutant: the annotations, and with them the directories, are not copied.
CSIFromBare(pv) == [pv EXCEPT !.kind = "csi", !.bound = FALSE,
                              !.deleting = FALSE, !.dirs = {}]

\* The object CreateCSIHostPathPV posts: annotations (the lock included)
\* copied from pv, no claim yet.
CSIFrom(pv) == [pv EXCEPT !.kind = "csi", !.bound = FALSE, !.deleting = FALSE]

\* CreateCSIHostPathPV, five tries: ok is whether it returned nil.  A write
\* whose answer is lost makes the next try fail with AlreadyExists.
CreateCSIHostPathPV(n, pv, ok) ==
    \/ /\ ok /\ store[n].kind = "none"
       /\ WritePV(n, CSIFrom(pv))
    \/ /\ ~ok
       /\ store[n].kind # "none" \/ May("refused")
       /\ NoWrite
    \/ /\ ~ok /\ May("lost") /\ store[n].kind = "none"
       /\ WritePV(n, CSIFrom(pv))

-----------------------------------------------------------------------------
(* Control of Run.                                                         *)

Goto(h, l) == pc' = [pc EXCEPT ![h] = l]

\* The step returned err: ret = err, the deferred undo starts.
Fail(h) ==
    /\ Goto(h, "Undo")
    /\ failed' = [failed EXCEPT ![h] = TRUE]

\* The step returned true: the next step, with the k-th undo registered.
Advance(h, l, k) ==
    /\ Goto(h, l)
    /\ undo' = [undo EXCEPT ![h] = k]
    /\ UNCHANGED failed

\* Every step is preceded by a look at timeOutCh and stopCh.
Enters(h, l) == pc[h] = l /\ ~timedOut[h] /\ ~stopping[h]

Abort(h) ==
    /\ pc[h] \in StepStarts
    /\ timedOut[h] \/ stopping[h]
    /\ Fail(h)
    /\ NoWrite
    /\ UNCHANGED <<nodeVars, undo, snap, workVars, runVars>>

\* The manager takes a queued event of the PV and runs a new pipeline; once
\* stopCh is closed it still may (its select picks either channel).  Whether
\* and how often it does is a matter of PVUpdateManager: here nothing promises
\* that a run begins, least of all that a second one follows the first.
Start(h, wait) ==
    /\ pc[h] = "idle"
    /\ store[Main].kind = "hostpath"
    /\ wait = store[Main].bound \/ (May("stale") /\ ~wait)
    /\ Goto(h, "Check")
    /\ failed' = [failed EXCEPT ![h] = FALSE]
    /\ waitBound' = [waitBound EXCEPT ![h] = wait]
    /\ timedOut' = [timedOut EXCEPT ![h] = FALSE]
    /\ NoWrite
    /\ UNCHANGED <<nodeVars, undo, snap, workVars, stopping, crashes>>

\* A Get of Main that a step begins with, and its two common error returns.
GetFails(h) == store[Main].kind # "hostpath" \/ May("refused")

-----------------------------------------------------------------------------
(* Step Check: take the lock.                                              *)

\* Mutant: the result of isTimeOut is taken the wrong way round.
LockedByOtherInverted(pv, h) == pv.owner # h /\ pv.started = "expired"

LockedByOther(pv, h) == pv.owner # h /\ pv.started = "live"

StepCheck(h) ==
    /\ Enters(h, "Check")
    /\ \/ GetFails(h) /\ Fail(h) /\ NoWrite
       \/ /\ store[Main].kind = "hostpath"
          /\ LockedByOther(store[Main], h)   \* c = false: stop, no error
          /\ Goto(h, "Undo")
          /\ UNCHANGED failed /\ NoWrite
       \/ /\ store[Main].kind = "hostpath"
          /\ ~LockedByOther(store[Main], h)
          /\ Goto(h, "CheckUpdate")
          /\ current' = [current EXCEPT ![h] = TRUE]
          /\ UNCHANGED <<store, failed>>
    /\ UNCHANGED <<nodeVars, undo, snap, workVars, runVars>>

\* Mutant: the lock is written without regard to the resourceVersion.
StepCheckUpdateBlind(h) ==
    /\ pc[h] = "CheckUpdate" /\ store[Main].kind # "none"
    /\ WritePV(Main, [store[Main] EXCEPT !.owner = h, !.started = "live"])
    /\ Advance(h, "ChangePod", 1)
    /\ UNCHANGED <<nodeVars, snap, workVars, runVars>>

\* Mutant: an old start time is left in place.
StepCheckUpdateKeepsTime(h) ==
    /\ pc[h] = "CheckUpdate"
    /\ IF current[h]
       THEN /\ WritePV(Main, [store[Main] EXCEPT !.owner = h,
                         !.started = IF @ = "none" THEN "live" ELSE @])
            /\ Advance(h, "ChangePod", 1)
       ELSE NoWrite /\ Fail(h) /\ UNCHANGED undo
    /\ UNCHANGED <<nodeVars, snap, workVars, runVars>>

\* The Update that writes the lock: the server refuses it when the object
\* was written, or replaced, since the Get.
StepCheckUpdate(h) ==
    /\ pc[h] = "CheckUpdate"
    /\ LET locked == [store[Main] EXCEPT !.owner = h, !.started = "live"]
       IN  \/ /\ current[h]
              /\ WritePV(Main, locked)
              /\ Advance(h, "ChangePod", 1)
           \/ /\ ~current[h] \/ May("refused")
              /\ NoWrite /\ Fail(h) /\ UNCHANGED undo
           \/ /\ current[h] /\ May("lost")
              /\ WritePV(Main, locked)
              /\ Fail(h) /\ UNCHANGED undo
    /\ UNCHANGED <<nodeVars, snap, workVars, runVars>>

-----------------------------------------------------------------------------
(* Step CreateChangePod: one pod per node writes the CSI mark into the     *)
(* directories of the volume there.                                        *)

StepChangePod(h) ==
    /\ Enters(h, "ChangePod")
    /\ \/ GetFails(h) /\ Fail(h) /\ UNCHANGED <<undo, todo>>
       \/ /\ store[Main].kind = "hostpath"
          /\ todo' = [todo EXCEPT ![h] = store[Main].dirs]
          /\ Advance(h, "ChangePodCreate", 2)
    /\ NoWrite
    /\ UNCHANGED <<nodeVars, snap, made, runVars>>

\* CreatePodsToChangeQuotaPathType: the first error ends the loop, and the
\* pod whose Create failed has no name in the list of undo 2.
CreateChangePod(h) ==
    /\ pc[h] = "ChangePodCreate"
    /\ IF todo[h] = {}
       THEN /\ Goto(h, "ChangePodWait")
            /\ UNCHANGED <<failed, pods, workVars>>
       ELSE \E d \in todo[h] :
              \/ /\ pods[d] = "absent"
                 /\ pods' = [pods EXCEPT ![d] = "pending"]
                 /\ todo' = [todo EXCEPT ![h] = @ \ {d}]
                 /\ made' = [made EXCEPT ![h] = @ \cup {d}]
                 /\ UNCHANGED <<pc, failed>>
              \/ /\ pods[d] # "absent" \/ May("refused")
                 /\ Fail(h) /\ UNCHANGED <<pods, workVars>>
              \/ /\ pods[d] = "absent" /\ May("lost")
                 /\ pods' = [pods EXCEPT ![d] = "pending"]
                 /\ Fail(h) /\ UNCHANGED workVars
    /\ NoWrite
    /\ UNCHANGED <<marked, disk, suspect, mounted, late, undo, snap, runVars>>

\* Mutant: the tmp PV is left out of the steps.
WaitPodQuitSkipsTmp(h) ==
    /\ pc[h] = "ChangePodWait"
    /\ \A d \in made[h] : pods[d] = "succeeded"
    /\ Advance(h, "DeleteOld", 3)
    /\ NoWrite
    /\ UNCHANGED <<nodeVars, snap, workVars, runVars>>

\* Mutant: only success ends the wait.
WaitPodQuitSucceeded(h) ==
    /\ pc[h] = "ChangePodWait"
    /\ \A d \in made[h] : pods[d] = "succeeded"
    /\ Advance(h, "TmpPV", 2)
    /\ NoWrite
    /\ UNCHANGED <<nodeVars, snap, workVars, runVars>>

\* Mutant: a pod that still runs does not hold up the wait.
WaitPodQuitEager(h) ==
    /\ pc[h] = "ChangePodWait"
    /\ \A d \in made[h] : pods[d] # "failed"
    /\ Advance(h, "TmpPV", 2)
    /\ NoWrite
    /\ UNCHANGED <<nodeVars, snap, workVars, runVars>>

\* WaitPodQuit: one round over the pods.  A pod that is gone ends the wait
\* with success; "podfail" covers the end of the 120 rounds.
WaitPodQuit(h) ==
    /\ pc[h] = "ChangePodWait"
    /\ \/ /\ \/ \A d \in made[h] : pods[d] = "succeeded"
             \/ \E d \in made[h] : pods[d] = "absent"
          /\ Advance(h, "TmpPV", 2)
       \/ /\ \/ \E d \in made[h] : pods[d] = "failed"
             \/ \E d \in made[h] : pods[d] \in {"pending", "going"} /\ May("podfail")
             \/ made[h] # {} /\ May("refused")
          /\ Fail(h) /\ UNCHANGED undo
    /\ NoWrite
    /\ UNCHANGED <<nodeVars, snap, workVars, runVars>>

-----------------------------------------------------------------------------
(* Step CreateTmpPV: a second PV that lists the same directories, so that  *)
(* they stay listed while the old PV is replaced.                          *)

StepCreateTmpPV(h) ==
    /\ Enters(h, "TmpPV")
    /\ \/ GetFails(h) /\ Fail(h) /\ UNCHANGED snap
       \/ /\ store[Main].kind = "hostpath"
          /\ snap' = [snap EXCEPT ![h] = store[Main]]
          /\ Goto(h, "TmpPVCreate") /\ UNCHANGED failed
    /\ NoWrite
    /\ UNCHANGED <<nodeVars, undo, workVars, runVars>>

CreateTmpPV(h) ==
    /\ pc[h] = "TmpPVCreate"
    /\ \/ /\ CreateCSIHostPathPV(Tmp, snap[h], TRUE)
          /\ Advance(h, "DeleteOld", 3)
       \/ /\ CreateCSIHostPathPV(Tmp, snap[h], FALSE)
          /\ Fail(h) /\ UNCHANGED undo
    /\ UNCHANGED <<nodeVars, snap, workVars, runVars>>

-----------------------------------------------------------------------------
(* Step DeleteOldPV.                                                       *)

\* Mutant: the copy CreateTmpPV took serves here, too.
StepDeleteOldPVReuses(h) ==
    /\ Enters(h, "DeleteOld")
    /\ \/ GetFails(h) /\ Fail(h)
       \/ /\ store[Main].kind = "hostpath"
          /\ Goto(h, "DeleteCall") /\ UNCHANGED failed
    /\ NoWrite
    /\ UNCHANGED <<nodeVars, snap, undo, workVars, runVars>>

StepDeleteOldPV(h) ==
    /\ Enters(h, "DeleteOld")
    /\ \/ GetFails(h) /\ Fail(h) /\ UNCHANGED snap
       \/ /\ store[Main].kind = "hostpath"
          /\ snap' = [snap EXCEPT ![h] = store[Main]]
          /\ Goto(h, "DeleteCall") /\ UNCHANGED failed
    /\ NoWrite
    /\ UNCHANGED <<nodeVars, undo, workVars, runVars>>

\* DeletePv, the Delete request: an error here registers no undo.
DeleteOldPV(h) ==
    /\ pc[h] = "DeleteCall"
    /\ \/ /\ store[Main].kind # "none"
          /\ AcceptDelete(Main)
          /\ Goto(h, "DeletePoll") /\ UNCHANGED failed
       \/ /\ store[Main].kind = "none" \/ May("refused")
          /\ NoWrite /\ Fail(h)
       \/ /\ store[Main].kind # "none" /\ May("lost")
          /\ AcceptDelete(Main) /\ Fail(h)
    /\ UNCHANGED <<nodeVars, undo, snap, workVars, runVars>>

\* DeletePv, its loop: it has no bound and ends with the object gone, or
\* with a Get error, which registers no undo although the Delete was taken.
DeleteOldPVPoll(h) ==
    /\ pc[h] = "DeletePoll"
    /\ \/ /\ store[Main].kind = "none"
          /\ Advance(h, "CSIPV", 4) /\ NoWrite
       \/ /\ May("refused")
          /\ Fail(h) /\ UNCHANGED undo /\ NoWrite
       \/ /\ store[Main].kind # "none"
          /\ ClearFinalizers(Main)
          /\ UNCHANGED <<pc, undo, failed>>
    /\ UNCHANGED <<nodeVars, snap, workVars, runVars>>

-----------------------------------------------------------------------------
(* Steps CreateCSIPV, WaitCSIPVBound and RestartPods.                      *)

StepCreateCSIPV(h) ==
    /\ Enters(h, "CSIPV")
    /\ \/ /\ CreateCSIHostPathPV(Main, snap[h], TRUE)
          /\ Advance(h, "WaitBound", 5)
       \/ /\ CreateCSIHostPathPV(Main, snap[h], FALSE)
          /\ Fail(h) /\ UNCHANGED undo
    /\ UNCHANGED <<nodeVars, snap, workVars, runVars>>

\* Mutant: nobody waits for the new PV to be bound.
StepWaitCSIPVBoundNever(h) ==
    /\ Enters(h, "WaitBound")
    /\ Goto(h, "RestartPods")
    /\ NoWrite
    /\ UNCHANGED <<nodeVars, undo, failed, snap, workVars, runVars>>

StepWaitCSIPVBound(h) ==
    /\ Enters(h, "WaitBound")
    /\ Goto(h, IF waitBound[h] THEN "BoundPoll" ELSE "RestartPods")
    /\ NoWrite
    /\ UNCHANGED <<nodeVars, undo, failed, snap, workVars, runVars>>

\* WaitPVBound, one of its 40 rounds.
WaitPVBound(h) ==
    /\ pc[h] = "BoundPoll"
    /\ \/ /\ store[Main].bound
          /\ Goto(h, "RestartPods") /\ UNCHANGED failed
       \/ /\ store[Main].kind = "none" \/ May("refused")
             \/ (May("unbound") /\ ~store[Main].bound)
          /\ Fail(h)
    /\ NoWrite
    /\ UNCHANGED <<nodeVars, undo, snap, workVars, runVars>>

\* The pods are found through the claim of the PV as it is now, and both
\* errors, of the search and of the deletion, are dropped.
StepRestartPods(h) ==
    /\ Enters(h, "RestartPods")
    /\ mounted' \in IF ~store[Main].bound THEN {mounted}
                    ELSE IF May("refused") THEN SUBSET mounted ELSE {{}}
    /\ Goto(h, "Undo")
    /\ NoWrite
    /\ UNCHANGED <<pods, marked, disk, suspect, late, undo, failed, snap,
                   workVars, runVars>>

-----------------------------------------------------------------------------
(* The deferred undo of Run: the registered actions backwards, each error  *)
(* only collected.  Those of Check, DeleteOld and CSIPV do nothing after a *)
(* successful run.                                                         *)

Undoing(h, k) == pc[h] = "Undo" /\ undo[h] = k

\* The undo action at hand is over, with or without an error.
NextUndo(h) ==
    /\ undo' = [undo EXCEPT ![h] = @ - 1]
    /\ Goto(h, "Undo")
    /\ UNCHANGED failed

\* Mutant: the undo loop goes one too far.
UndoNothingOneMore(h) ==
    /\ \E k \in {0, 1, 4, 5} : Undoing(h, k)
    /\ ~failed[h]
    /\ NextUndo(h) /\ NoWrite
    /\ UNCHANGED <<nodeVars, snap, workVars, runVars>>

\* Mutant: the undo of CreateTmpPV, too, returns at once after success.
UndoNothingTmp(h) ==
    /\ \E k \in {1, 3, 4, 5} : Undoing(h, k)
    /\ ~failed[h]
    /\ NextUndo(h) /\ NoWrite
    /\ UNCHANGED <<nodeVars, snap, workVars, runVars>>

UndoNothing(h) ==
    /\ \E k \in {1, 4, 5} : Undoing(h, k)
    /\ ~failed[h]
    /\ NextUndo(h) /\ NoWrite
    /\ UNCHANGED <<nodeVars, snap, workVars, runVars>>

\* DeletePv in the undo actions of CSIPV (Main) and TmpPV (Tmp).
UndoPV(h) == IF undo[h] = 5 THEN Main ELSE Tmp

\* Mutant: the undo of CreateCSIPV does not look at exitOk.
UndoCreatePVAlways(h) ==
    /\ Undoing(h, 5) \/ Undoing(h, 3)
    /\ IF store[UndoPV(h)].kind # "none"
       THEN /\ AcceptDelete(UndoPV(h))
            /\ Goto(h, "UndoPoll") /\ UNCHANGED <<undo, failed>>
       ELSE NoWrite /\ NextUndo(h)
    /\ UNCHANGED <<nodeVars, snap, workVars, runVars>>

UndoCreatePV(h) ==
    /\ (Undoing(h, 5) /\ failed[h]) \/ Undoing(h, 3)
    /\ LET n == UndoPV(h)
       IN  \/ /\ store[n].kind # "none"
              /\ AcceptDelete(n)
              /\ Goto(h, "UndoPoll") /\ UNCHANGED <<undo, failed>>
           \/ /\ store[n].kind = "none" \/ May("refused")
              /\ NoWrite /\ NextUndo(h)
           \/ /\ store[n].kind # "none" /\ May("lost")
              /\ AcceptDelete(n) /\ NextUndo(h)
    /\ UNCHANGED <<nodeVars, snap, workVars, runVars>>

UndoCreatePVPoll(h) ==
    /\ pc[h] = "UndoPoll" /\ undo[h] # 2
    /\ LET n == UndoPV(h)
       IN  \/ /\ store[n].kind = "none" \/ May("refused")
              /\ NoWrite /\ NextUndo(h)
           \/ /\ store[n].kind # "none"
              /\ ClearFinalizers(n)
              /\ UNCHANGED <<pc, undo, failed>>
    /\ UNCHANGED <<nodeVars, snap, workVars, runVars>>

\* What the server makes of Create(pv) for an object that still carries the
\* resourceVersion of an earlier Get: an error, and no object.
CreateVersioned(pv) == NoWrite

UndoDeleteOldPV(h) ==
    /\ Undoing(h, 4) /\ failed[h]
    /\ CreateVersioned(snap[h])
    /\ NextUndo(h)
    /\ UNCHANGED <<nodeVars, snap, workVars, runVars>>

\* The undo of CreateChangePod is over, with whatever pods are left.
PodsUndone(h) ==
    /\ NextUndo(h)
    /\ made' = [made EXCEPT ![h] = {}]
    /\ todo' = [todo EXCEPT ![h] = {}]

\* A Delete call for a change pod: the pod stays until its kubelet has ended
\* it.  One that is not found is no error.
DeleteChangePod(d) ==
    pods' = IF pods[d] = "absent" THEN pods ELSE [pods EXCEPT ![d] = "going"]

\* WaitPodsDeleted: one pod after the other is deleted, up to the first error.
UndoChangePod(h) ==
    /\ Undoing(h, 2)
    /\ \/ \E d \in made[h] :
            /\ DeleteChangePod(d)
            /\ \/ /\ todo' = [todo EXCEPT ![h] = {d}]
                  /\ Goto(h, "UndoPoll") /\ UNCHANGED <<undo, failed, made>>
               \/ May("lost") /\ PodsUndone(h)
       \/ /\ made[h] = {} \/ May("refused")
          /\ PodsUndone(h) /\ UNCHANGED pods
    /\ NoWrite
    /\ UNCHANGED <<marked, disk, suspect, mounted, late, snap, runVars>>

\* The Get of the deleted pod, repeated without bound until it is not found.
UndoChangePodPoll(h) ==
    /\ pc[h] = "UndoPoll" /\ undo[h] = 2
    /\ \/ /\ \A d \in todo[h] : pods[d] = "absent"
          /\ made' = [made EXCEPT ![h] = @ \ todo[h]]
          /\ Goto(h, "Undo") /\ UNCHANGED <<undo, failed, todo>>
       \/ May("refused") /\ PodsUndone(h)
    /\ NoWrite
    /\ UNCHANGED <<nodeVars, snap, runVars>>

\* The undo of Check reads the PV and takes the annotations off, whoever
\* they name; neither the Get nor the Update is tried again.
UndoCheck(h) ==
    /\ Undoing(h, 1) /\ failed[h]
    /\ \/ /\ store[Main].kind = "none" \/ May("refused")
          /\ NextUndo(h) /\ NoWrite
       \/ /\ store[Main].kind # "none"
          /\ Goto(h, "UndoUpdate")
          /\ current' = [current EXCEPT ![h] = TRUE]
          /\ UNCHANGED <<store, undo, failed>>
    /\ UNCHANGED <<nodeVars, snap, workVars, runVars>>

UndoCheckUpdate(h) ==
    /\ pc[h] = "UndoUpdate"
    /\ \/ /\ current[h]
          /\ WritePV(Main, [store[Main] EXCEPT !.owner = NoHost,
                                               !.started = "none"])
       \/ /\ ~current[h] \/ May("refused")
          /\ NoWrite
    /\ NextUndo(h)
    /\ UNCHANGED <<nodeVars, snap, workVars, runVars>>

\* upl.ret <- ret; the local state of the run is gone.
Forget(h) ==
    /\ Goto(h, "idle")
    /\ undo' = [undo EXCEPT ![h] = 0]
    /\ failed' = [failed EXCEPT ![h] = FALSE]
    /\ snap' = [snap EXCEPT ![h] = NoPV]
    /\ todo' = [todo EXCEPT ![h] = {}]
    /\ made' = [made EXCEPT ![h] = {}]
    /\ waitBound' = [waitBound EXCEPT ![h] = FALSE]
    /\ timedOut' = [timedOut EXCEPT ![h] = FALSE]
    /\ current' = [current EXCEPT ![h] = FALSE]
    /\ UNCHANGED <<store, nodeVars>>

Finish(h) ==
    /\ Undoing(h, 0)
    /\ Forget(h)
    /\ UNCHANGED <<stopping, crashes>>

-----------------------------------------------------------------------------
(* The surroundings of the replicas.                                       *)

\* The lock is held from the Update that writes it to its own undo.
Holding(h) == undo[h] >= 1

Crash(h) ==
    /\ May("crash") /\ crashes < MaxCrashes
    /\ pc[h] # "idle" \/ stopping[h]
    /\ crashes' = crashes + 1
    /\ stopping' = [stopping EXCEPT ![h] = FALSE]
    /\ Forget(h)

\* PVUpdateManager.Stop closes stopCh.
Stop(h) ==
    /\ May("stop") /\ ~stopping[h]
    /\ stopping' = [stopping EXCEPT ![h] = TRUE]
    /\ NoWrite
    /\ UNCHANGED <<nodeVars, pc, undo, failed, snap, workVars, waitBound,
                   timedOut, crashes>>

TimerFires(h) ==
    /\ May("late") /\ ~timedOut[h]
    /\ pc[h] \notin {"idle", "Undo", "UndoPoll", "UndoUpdate"}
    /\ timedOut' = [timedOut EXCEPT ![h] = TRUE]
    /\ NoWrite
    /\ UNCHANGED <<nodeVars, pc, undo, failed, snap, workVars, waitBound,
                   stopping, crashes>>

\* isTimeOut: more than 2 * TimeOut since the start time.  Without the fault
\* "overrun" no run, undo included, takes that long.
LeaseExpires ==
    /\ store[Main].kind = "hostpath" /\ store[Main].started = "live"
    /\ May("overrun") \/ ~Holding(store[Main].owner)
    /\ store' = [store EXCEPT ![Main].started = "expired"]
    /\ UNCHANGED <<nodeVars, pc, undo, failed, current, snap, workVars,
                   runVars>>

\* A change pod runs on its node: it ends with the mark written, or fails
\* with the mark written or not.
PodRuns(d) ==
    /\ pods[d] = "pending"
    /\ \/ /\ pods' = [pods EXCEPT ![d] = "succeeded"]
          /\ marked' = marked \cup ({d} \cap disk)
       \/ /\ May("podfail")
          /\ pods' = [pods EXCEPT ![d] = "failed"]
          /\ marked' \in {marked, marked \cup ({d} \cap disk)}
    /\ NoWrite
    /\ UNCHANGED <<disk, suspect, mounted, late, pc, undo, failed, snap,
                   workVars, runVars>>

\* A change pod is deleted by somebody else: by an administrator, or by the
\* control plane when its node is gone.
EvictPod(d) ==
    /\ May("evicted") /\ pods[d] \notin {"absent", "going"}
    /\ pods' = [pods EXCEPT ![d] = "going"]
    /\ NoWrite
    /\ UNCHANGED <<marked, disk, suspect, mounted, late, pc, undo, failed, snap,
                   workVars, runVars>>

\* A deleted pod is ended, with the mark written or not, and goes.
PodGoes(d) ==
    /\ pods[d] = "going"
    /\ pods' = [pods EXCEPT ![d] = "absent"]
    /\ marked' \in {marked, marked \cup ({d} \cap disk)}
    /\ NoWrite
    /\ UNCHANGED <<disk, suspect, mounted, late, pc, undo, failed, snap,
                   workVars, runVars>>

\* The volume controller binds Main and its claim.
Bind ==
    /\ store[Main].kind # "none" /\ ~store[Main].bound
    /\ ~store[Main].deleting
    /\ WritePV(Main, [store[Main] EXCEPT !.bound = TRUE])
    /\ UNCHANGED <<nodeVars, pc, undo, failed, snap, workVars, runVars>>

\* The volume controller takes its own finalizer off a deleted PV.
Terminate(n) ==
    /\ store[n].deleting
    /\ WritePV(n, NoPV)
    /\ UNCHANGED <<nodeVars, pc, undo, failed, snap, workVars, runVars>>

\* A workload pod lands on a new node: a directory is made and recorded.
RecordDir(d) ==
    /\ May("newdir")
    /\ store[Main].kind = "hostpath" /\ ~store[Main].deleting
    /\ d \notin store[Main].dirs /\ d \in disk
    /\ WritePV(Main, [store[Main] EXCEPT !.dirs = @ \cup {d}])
    /\ mounted' = mounted \cup {d}
    /\ late' = IF \E h \in Hosts : pc[h] = "DeleteCall" THEN late \cup {d} ELSE late
    /\ UNCHANGED <<pods, marked, disk, suspect, pc, undo, failed, snap,
                   workVars, runVars>>

Listed(d) == \E n \in Names : d \in store[n].dirs

\* One round of cleanOrphanQuotaPath on the node of d: a marked directory
\* no PV lists is deleted when the round before did not find it listed.
Clean(d) ==
    /\ d \in marked \cap disk
    /\ IF Listed(d)
       THEN suspect' = suspect \ {d} /\ UNCHANGED disk
       ELSE /\ suspect' = suspect \cup {d}
            /\ disk' = IF d \in suspect THEN disk \ {d} ELSE disk
    /\ NoWrite
    /\ UNCHANGED <<pods, marked, mounted, late, pc, undo, failed, snap,
                   workVars, runVars>>

Pipeline(h) ==
    \/ Abort(h)
    \/ StepCheck(h) \/ StepCheckUpdate(h)
    \/ StepChangePod(h) \/ CreateChangePod(h) \/ WaitPodQuit(h)
    \/ StepCreateTmpPV(h) \/ CreateTmpPV(h)
    \/ StepDeleteOldPV(h) \/ DeleteOldPV(h) \/ DeleteOldPVPoll(h)
    \/ StepCreateCSIPV(h)
    \/ StepWaitCSIPVBound(h) \/ WaitPVBound(h)
    \/ StepRestartPods(h)
    \/ UndoNothing(h) \/ UndoCreatePV(h) \/ UndoCreatePVPoll(h)
    \/ UndoDeleteOldPV(h) \/ UndoChangePod(h) \/ UndoChangePodPoll(h)
    \/ UndoCheck(h) \/ UndoCheckUpdate(h)
    \/ Finish(h)

\* What becomes of a change pod on its node.
ChangePod(d) == PodRuns(d) \/ EvictPod(d) \/ PodGoes(d)

Environment ==
    \/ \E h \in Hosts : Crash(h) \/ Stop(h) \/ TimerFires(h)
    \/ \E d \in Dirs : ChangePod(d) \/ RecordDir(d) \/ Clean(d)
    \/ \E n \in Names : Terminate(n)
    \/ LeaseExpires \/ Bind

Next ==
    \/ \E h \in Hosts : Pipeline(h)
    \/ \E h \in Hosts, wait \in BOOLEAN : Start(h, wait)
    \/ Environment

Spec == Init /\ [][Next]_vars

-----------------------------------------------------------------------------
(* Fairness: a run that has begun goes on until it ends, the kubelets run  *)
(* and end the change pods, and the volume controller binds and finalizes. *)
(* Nothing makes a run begin.                                              *)

Progress ==
    /\ \A h \in Hosts : WF_vars(Pipeline(h))
    /\ \A d \in Dirs : WF_vars(PodRuns(d) \/ PodGoes(d))
    /\ \A n \in Names : WF_vars(Terminate(n))
    /\ WF_vars(Bind)

FairSpec == Spec /\ Progress

-----------------------------------------------------------------------------
(* Properties.                                                             *)

\* Every variable stays in its range.
TypeOK ==
    /\ store \in [Names -> PVs]
    /\ pods \in [Dirs -> {"absent", "pending", "succeeded", "failed", "going"}]
    /\ marked \subseteq Dirs /\ disk \subseteq Dirs
    /\ suspect \subseteq Dirs /\ mounted \subseteq Dirs /\ late \subseteq Dirs
    /\ pc \in [Hosts -> Locations]
    /\ undo \in [Hosts -> 0 .. 5]
    /\ failed \in [Hosts -> BOOLEAN]
    /\ current \in [Hosts -> BOOLEAN]
    /\ snap \in [Hosts -> PVs]
    /\ todo \in [Hosts -> SUBSET Dirs]
    /\ made \in [Hosts -> SUBSET Dirs]
    /\ waitBound \in [Hosts -> BOOLEAN]
    /\ timedOut \in [Hosts -> BOOLEAN]
    /\ stopping \in [Hosts -> BOOLEAN]
    /\ crashes \in Nat

\* At most one replica works on the volume: the lock in the annotations,
\* taken with Get and Update and given up by time, excludes the others as
\* long as no run outlives its lease (stepCheck).
MutualExclusion ==
    \A g, h \in Hosts : Holding(g) /\ Holding(h) => g = h

\* While a replica works on the hostpath PV, the lock on it names that
\* replica and is not out of date: no other undo has taken it off.
LockNamesHolder ==
    \A h \in Hosts :
       Holding(h) /\ store[Main].kind = "hostpath"
          => store[Main].owner = h /\ store[Main].started = "live"

\* The undo actions registered are the prefix the place in the run calls for.
UndoMatchesStep ==
    \A h \in Hosts :
       /\ pc[h] \in {"idle", "Check", "CheckUpdate"} => undo[h] = 0
       /\ pc[h] \in {"ChangePod", "UndoUpdate"} => undo[h] = 1
       /\ pc[h] \in {"ChangePodCreate", "ChangePodWait", "TmpPV",
                     "TmpPVCreate"} => undo[h] = 2
       /\ pc[h] \in {"DeleteOld", "DeleteCall", "DeletePoll"} => undo[h] = 3
       /\ pc[h] = "CSIPV" => undo[h] = 4
       /\ pc[h] \in {"WaitBound", "BoundPoll", "RestartPods"} => undo[h] = 5
       /\ pc[h] = "UndoPoll" => undo[h] \in {2, 3, 5}

\* A replica about to write the lock, and whose copy of the PV is current,
\* looks at a hostpath PV that no other replica has locked.
CheckedStillFree ==
    \A h \in Hosts :
       pc[h] = "CheckUpdate" /\ current[h]
          => /\ store[Main].kind = "hostpath"
             /\ ~LockedByOther(store[Main], h)

\* The inductive invariant behind MutualExclusion: what the lock says, what
\* a replica between Get and Update knows, and who holds what.
LockInv ==
    /\ UndoMatchesStep
    /\ CheckedStillFree
    /\ LockNamesHolder
    /\ MutualExclusion

\* From the creation of the tmp PV to the end of a run without error every
\* directory that carries the CSI mark is listed by some PV, so the cleaner
\* of the CSI plugin never suspects it (stepCreateTmpPV .. stepCreateCSIPV).
MarkedDirsListed ==
    \A h \in Hosts :
       undo[h] >= 3 /\ ~failed[h] => \A d \in marked : Listed(d)

\* A run goes on to replace the PV only when its change pods have marked every
\* directory that is still there, or when one of them has vanished, which
\* WaitPodQuit takes for success: no pod that still runs, and none that was
\* started by a run before, is taken for one that is done.
MarkedBeforeReplaced ==
    \A h \in Hosts :
       undo[h] >= 3 => \/ made[h] \cap disk \subseteq marked
                       \/ \E d \in made[h] : pods[d] \in {"absent", "going"}

\* A CSI PV that takes the place of the old one lists every directory in use,
\* also those recorded while the upgrade was under way, but for the moment
\* between the copy of the old PV and its deletion (stepDeleteOldPV).
DirsTakenOver ==
    store[Main].kind = "csi" => mounted \subseteq store[Main].dirs \cup late

\* The cleaner of the CSI plugin never deletes a directory of the volume.
QuotaDirsKept == disk = Dirs

\* When no replica works on the volume, nothing of the upgrade is left
\* behind: the tmp PV and the change pods of every run, failed or not, are
\* gone, so that a later run can create them again.
UndoLeavesNothing ==
    (\A h \in Hosts : pc[h] = "idle")
       => store[Tmp].kind = "none" /\ \A d \in Dirs : pods[d] = "absent"

\* A run that ends without error has put the CSI PV in the place of the old
\* one, listing the directories in use; if it waited for the new PV to be
\* bound, no pod is left on the old mount.
SuccessMeansReplaced ==
    \A h \in Hosts :
       pc[h] = "Undo" /\ undo[h] = 5 /\ ~failed[h]
          => /\ store[Main].kind = "csi" /\ mounted \subseteq store[Main].dirs
             /\ waitBound[h] => mounted = {}

\* Every run comes to its end and sends its result to the manager.
EveryRunEnds == \A h \in Hosts : pc[h] # "idle" ~> pc[h] = "idle"

\* If some replica begins a run and no run fails, the hostpath PV becomes a
\* CSI PV and stays one: the replicas do not pass it over all of them, each
\* because of the lock of another.
UpgradedUnlessFailing ==
    [](\A h \in Hosts : ~failed[h]) /\ <>(\E h \in Hosts : pc[h] # "idle")
        => <>[](store[Main].kind = "csi")

\* The abstract volume: a deleted object counts as gone, and the holder is
\* the replica between its lock and its last undo.
Source == IF store[Main].deleting \/ store[Main].kind = "none"
          THEN "gone" ELSE store[Main].kind
Holder == IF \E h \in Hosts : Holding(h)
          THEN CHOOSE h \in Hosts : Holding(h) ELSE NoHost

Guarded == INSTANCE GuardedVolume WITH source <- Source, holder <- Holder

\* The replicas together implement the guarded volume.
ImplementsGuardedVolume == Guarded!Spec

=============================================================================
