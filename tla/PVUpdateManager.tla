--------------------------- MODULE PVUpdateManager ---------------------------
(***************************************************************************)
(* The PVUpdateManager of one replica: the informer's handler turns events *)
(* of hostpath PVs into entries of a bounded channel, each name at most    *)
(* once, and one loop takes them out and runs an upgrade pipeline for      *)
(* each.  The pipeline itself is UpdatePipeline; here it only takes the    *)
(* lock, removes and replaces the PV, fails on the way or finds the PV     *)
(* locked, with the events its writes cause.  Another replica does the     *)
(* same to the same PVs.  The process may die anywhere; its successor      *)
(* begins with a new list of the PVs and with what is left of the lock.    *)
(* A lock names this pod and its pipeline ("self"), this pod with no       *)
(* pipeline behind it ("left"), the pipeline of another pod ("other"), or  *)
(* another pod with no pipeline, or none any more, behind it ("dead").     *)
(*                                                                         *)
(* Source: src/pkg/hppvtocsipv/hostpthpvupdate.go, from PVUpdateManager.   *)
(***************************************************************************)
EXTENDS Naturals, Sequences, FiniteSets

CONSTANTS
    PVNames,       \* the hostpath PVs of the cluster at the start
    NoPV,          \* nil
    ChanSize,      \* capacity of syncPVChan (100 in the code)
    MaxFailures,   \* bound: pipelines of this replica that fail
    MaxTouches,    \* bound: other updates of the PVs
    MaxDeaths,     \* bound: processes that die, of this and other replicas
    Others,        \* what another replica does: subset of {"upgrade", "fail"}
    MayStop        \* whether Stop is called

ASSUME NamesAssumption == IsFiniteSet(PVNames)
ASSUME NoPVAssumption == NoPV \notin PVNames
ASSUME SizeAssumption == ChanSize \in Nat \ {0}
ASSUME BoundAssumption ==
    MaxFailures \in Nat /\ MaxTouches \in Nat /\ MaxDeaths \in Nat
ASSUME OthersAssumption == Others \subseteq {"upgrade", "fail"}
ASSUME StopAssumption == MayStop \in BOOLEAN

VARIABLES
    source,    \* [PVNames -> source of the PV at the API server, or "none"]
    lock,      \* [PVNames -> who the lock annotations name]
    events,    \* notifications the informer has not handed over yet
    waiting,   \* syncPVMap
    sending,   \* the PV the handler is about to put into the channel
    queue,     \* syncPVChan
    loop,      \* where the loop of Start stands
    pv,        \* the PV of the running pipeline
    running,   \* pvum.running
    stopped,   \* stopCh is closed
    failures, touches, deaths,   \* counters of the bounds
    tried      \* PVs this process started a pipeline for

clusterVars == <<source, lock, touches, deaths>>
vars == <<source, lock, events, waiting, sending, queue, loop, pv, running,
          stopped, failures, touches, deaths, tried>>

Events == [pv : PVNames, source : {"hostpath", "csi"}]
Event(p, s) == [pv |-> p, source |-> s]

\* The notification of a write of p.  A stopped informer hands over no more,
\* and between two processes there is none.
Notify(p, s) ==
    events' = IF stopped \/ loop = "down" THEN events
              ELSE Append(events, Event(p, s))

Present == {p \in PVNames : source[p] # "none"}

\* The informer's first list: every PV there is, in any order.
Listing ==
    {e \in [1 .. Cardinality(Present) -> {Event(p, source[p]) : p \in Present}] :
        \A p \in Present : \E i \in DOMAIN e : e[i].pv = p}

Init ==
    /\ source = [p \in PVNames |-> "hostpath"]
    /\ lock = [p \in PVNames |-> "free"]
    /\ events \in Listing
    /\ waiting = {} /\ sending = NoPV /\ queue = <<>>
    /\ loop = "sync" /\ pv = NoPV
    /\ running = TRUE /\ stopped = FALSE
    /\ failures = 0 /\ touches = 0 /\ deaths = 0 /\ tried = {}

-----------------------------------------------------------------------------
(* The event handler (AddFunc, UpdateFunc): one goroutine.                 *)

\* An event of a PV that is no hostpath, or whose name is in syncPVMap, is
\* dropped; else the name goes into the map and the handler turns to the
\* channel.  Only the loop takes names out, so test and entry are one step.
Handle ==
    /\ sending = NoPV /\ events # <<>>
    /\ events' = Tail(events)
    /\ LET e == Head(events)
       IN  IF e.source = "hostpath" /\ e.pv \notin waiting
           THEN waiting' = waiting \cup {e.pv} /\ sending' = e.pv
           ELSE UNCHANGED <<waiting, sending>>
    /\ UNCHANGED <<clusterVars, queue, loop, pv, running, stopped, failures,
                   tried>>

\* Mutant: a full channel makes the handler drop the PV.
SendOrDrop ==
    /\ sending # NoPV
    /\ queue' = IF Len(queue) < ChanSize THEN Append(queue, sending) ELSE queue
    /\ sending' = NoPV
    /\ UNCHANGED <<clusterVars, events, waiting, loop, pv, running, stopped,
                   failures, tried>>

\* syncPVChan <- newPV blocks the handler while the channel is full.
Send ==
    /\ sending # NoPV /\ Len(queue) < ChanSize
    /\ queue' = Append(queue, sending)
    /\ sending' = NoPV
    /\ UNCHANGED <<clusterVars, events, waiting, loop, pv, running, stopped,
                   failures, tried>>

-----------------------------------------------------------------------------
(* The loop of Start.                                                      *)

\* WaitForCacheSync returns and the loop's goroutine begins.  The cache is
\* full when the first list is stored, whatever the handler has done with it.
Synced ==
    /\ loop = "sync"
    /\ loop' = "select"
    /\ UNCHANGED <<clusterVars, events, waiting, sending, queue, pv, running,
                   stopped, failures, tried>>

\* Mutant: nothing checks for nil when stopCh is closed.
TakeNil ==
    /\ loop = "select" /\ (queue # <<>> \/ stopped)
    /\ pv' = IF queue = <<>> THEN NoPV ELSE Head(queue)
    /\ queue' = IF queue = <<>> THEN queue ELSE Tail(queue)
    /\ loop' = "run" /\ tried' = tried \cup {pv'}
    /\ UNCHANGED <<clusterVars, events, waiting, sending, running, stopped,
                   failures>>

\* select: a PV is taken, also when stopCh is closed.
Take ==
    /\ loop = "select" /\ queue # <<>>
    /\ pv' = Head(queue) /\ queue' = Tail(queue)
    /\ loop' = "run" /\ tried' = tried \cup {pv'}
    /\ UNCHANGED <<clusterVars, events, waiting, sending, running, stopped,
                   failures>>

\* Mutant: the break leaves the select only, not the loop.
QuitSelect ==
    /\ loop = "select" /\ stopped
    /\ running' = FALSE
    /\ UNCHANGED <<clusterVars, events, waiting, sending, queue, loop, pv,
                   stopped, failures, tried>>

\* select: stopCh is closed; pv stays nil and the loop ends.
Quit ==
    /\ loop = "select" /\ stopped
    /\ loop' = "done" /\ running' = FALSE
    /\ UNCHANGED <<clusterVars, events, waiting, sending, queue, pv, stopped,
                   failures, tried>>

\* Who the annotations name is no obstacle: nobody, or the pod of this
\* replica, whose name a restarted container keeps.
LockIsOurs(p) == lock[p] \in {"free", "self", "left"}

\* A step of the pipeline fails, is refused because of the PV it finds, or
\* is not begun because of the stop.
Fails(because) ==
    /\ because \/ stopped \/ failures < MaxFailures
    /\ failures' = IF because \/ stopped THEN failures ELSE failures + 1
    /\ loop' = "failed"

\* The pipeline takes the lock.  When the answer of the Update is lost it
\* fails with no undo registered, and the lock stays.
Lock ==
    /\ loop = "run" /\ ~stopped
    /\ source[pv] = "hostpath" /\ LockIsOurs(pv)
    /\ \/ /\ lock' = [lock EXCEPT ![pv] = "self"]
          /\ loop' = "locked" /\ UNCHANGED failures
       \/ /\ lock' = [lock EXCEPT ![pv] = "left"]
          /\ Fails(FALSE)
    /\ Notify(pv, "hostpath")
    /\ UNCHANGED <<source, touches, deaths, waiting, sending, queue, pv,
                   running, stopped, tried>>

\* The pipeline ends without having changed anything: the PV is locked by
\* another pod (ret = nil), or the pipeline is stopped, the PV is no hostpath,
\* or a request of stepCheck is refused.
GiveUp ==
    /\ loop = "run"
    /\ \/ Fails(source[pv] # "hostpath")
       \/ /\ ~stopped /\ source[pv] = "hostpath" /\ ~LockIsOurs(pv)
          /\ loop' = "succeeded" /\ UNCHANGED failures
    /\ UNCHANGED <<clusterVars, events, waiting, sending, queue, pv, running,
                   stopped, tried>>

\* The pipeline fails before the deletion.  Its undo takes off the lock,
\* whosever it is; a PV without annotations is written back as it is.  Or the
\* undo fails too, and the lock stays where it is with no pipeline behind it.
UndoLock ==
    /\ loop = "locked" /\ Fails(source[pv] # "hostpath")
    /\ \/ /\ lock' = [lock EXCEPT ![pv] = "free"]
          /\ IF lock[pv] = "free" THEN UNCHANGED events ELSE Notify(pv, source[pv])
       \/ /\ lock' = [lock EXCEPT ![pv] = IF @ = "self" THEN "left" ELSE @]
          /\ UNCHANGED events
    /\ UNCHANGED <<source, touches, deaths, waiting, sending, queue, pv,
                   running, stopped, tried>>

\* The pipeline deletes the PV.  The handlers have no DeleteFunc.
Remove ==
    /\ loop = "locked" /\ source[pv] = "hostpath"
    /\ source' = [source EXCEPT ![pv] = "none"]
    /\ lock' = [lock EXCEPT ![pv] = "free"]
    /\ loop' = "removed"
    /\ UNCHANGED <<events, touches, deaths, waiting, sending, queue, pv,
                   running, stopped, failures, tried>>

\* The pipeline fails before the new PV is there.  The undo creates the old
\* one with the resourceVersion of its Get and is refused.
Lose ==
    /\ loop = "removed" /\ Fails(source[pv] # "none")
    /\ UNCHANGED <<clusterVars, events, waiting, sending, queue, pv, running,
                   stopped, tried>>

\* The pipeline creates the new PV.
Replace ==
    /\ loop = "removed" /\ source[pv] = "none"
    /\ source' = [source EXCEPT ![pv] = "csi"]
    /\ Notify(pv, "csi")
    /\ loop' = "replaced"
    /\ UNCHANGED <<lock, touches, deaths, waiting, sending, queue, pv, running,
                   stopped, failures, tried>>

\* The new PV is not bound in time, or the pipeline is stopped before it has
\* restarted the pods: the undo deletes the new PV, and again cannot create
\* the old one.
UndoReplace ==
    /\ loop = "replaced" /\ Fails(source[pv] = "none")
    /\ source' = [source EXCEPT ![pv] = "none"]
    /\ lock' = [lock EXCEPT ![pv] = "free"]
    /\ UNCHANGED <<events, touches, deaths, waiting, sending, queue, pv,
                   running, stopped, tried>>

\* The claim is bound again, and its pods are restarted.
Succeed ==
    /\ loop = "replaced"
    /\ loop' = "succeeded"
    /\ UNCHANGED <<clusterVars, events, waiting, sending, queue, pv, running,
                   stopped, failures, tried>>

\* Mutant: pvSyncDone is called after success only.
DoneOnSuccess ==
    /\ loop \in {"succeeded", "failed"}
    /\ waiting' = IF loop = "failed" THEN waiting ELSE waiting \ {pv}
    /\ loop' = IF loop = "failed" THEN "select" ELSE "pause"
    /\ pv' = NoPV
    /\ UNCHANGED <<clusterVars, events, sending, queue, running, stopped,
                   failures, tried>>

\* err := <-pipeline.Done(); pvSyncDone; the pause follows a nil error only.
Done ==
    /\ loop \in {"succeeded", "failed"}
    /\ waiting' = waiting \ {pv}
    /\ loop' = IF loop = "failed" THEN "select" ELSE "pause"
    /\ pv' = NoPV
    /\ UNCHANGED <<clusterVars, events, sending, queue, running, stopped,
                   failures, tried>>

\* time.Sleep(updateInterval), which nothing interrupts.
Wake ==
    /\ loop = "pause"
    /\ loop' = "select"
    /\ UNCHANGED <<clusterVars, events, waiting, sending, queue, pv, running,
                   stopped, failures, tried>>

\* Stop: closes stopCh, once.  main installs the signal handler only after
\* Start has returned.
Stop ==
    /\ MayStop /\ running /\ loop # "sync"
    /\ stopped' = TRUE /\ running' = FALSE
    /\ UNCHANGED <<clusterVars, events, waiting, sending, queue, loop, pv,
                   failures, tried>>

-----------------------------------------------------------------------------
(* The process.                                                            *)

\* What the lock annotations are worth when the process has ended: its pod
\* comes back under the same name when only the container is started again
\* ("left"), and never when the pod is replaced ("dead").
Orphaned(mark) ==
    [p \in PVNames |->
        IF lock[p] = "self" \/ (lock[p] = "left" /\ mark = "dead")
        THEN mark ELSE lock[p]]

\* The process ends, and with it the handler, the channel, the map and the
\* pipeline.
Ends(mark) ==
    /\ lock' = Orphaned(mark)
    /\ events' = <<>> /\ waiting' = {} /\ sending' = NoPV /\ queue' = <<>>
    /\ loop' = "down" /\ pv' = NoPV
    /\ running' = FALSE /\ stopped' = FALSE
    /\ UNCHANGED <<source, touches, failures, tried>>

Die ==
    /\ loop # "down" /\ deaths < MaxDeaths
    /\ deaths' = deaths + 1
    /\ \E mark \in {"left", "dead"} : Ends(mark)

\* Mutant: the informer begins with a watch, not with a list.
BeginsUnlisted ==
    /\ loop = "down"
    /\ loop' = "sync" /\ running' = TRUE
    /\ tried' = {}
    /\ UNCHANGED <<clusterVars, events, waiting, sending, queue, pv, stopped,
                   failures>>

\* The next process: a manager of its own, and a new informer.
Begins ==
    /\ loop = "down"
    /\ loop' = "sync" /\ running' = TRUE
    /\ events' \in Listing
    /\ tried' = {}
    /\ UNCHANGED <<clusterVars, waiting, sending, queue, pv, stopped, failures>>

-----------------------------------------------------------------------------
(* The rest of the cluster.                                                *)

ownVars == <<waiting, sending, queue, loop, pv, running, stopped, failures,
             tried>>

\* Someone else updates a hostpath PV.
Touch(p) ==
    /\ touches < MaxTouches /\ source[p] = "hostpath"
    /\ touches' = touches + 1
    /\ Notify(p, "hostpath")
    /\ UNCHANGED <<source, lock, deaths, ownVars>>

\* Another replica's pipeline takes the lock, and ends in one of three ways,
\* or fails with its undo; or its process dies, and no later one has its name.
OtherLocks(p) ==
    /\ "upgrade" \in Others /\ touches < MaxTouches
    /\ source[p] = "hostpath" /\ lock[p] = "free"
    /\ touches' = touches + 1
    /\ lock' = [lock EXCEPT ![p] = "other"]
    /\ Notify(p, "hostpath")
    /\ UNCHANGED <<source, deaths, ownVars>>

OtherEnds(p) ==
    /\ lock[p] = "other"
    /\ \/ /\ lock' = [lock EXCEPT ![p] = "free"]
          /\ \E s \in {"csi"} \cup {t \in {"hostpath", "none"} : "fail" \in Others} :
                /\ source' = [source EXCEPT ![p] = s]
                /\ IF s = "none" THEN UNCHANGED events ELSE Notify(p, s)
       \/ /\ "fail" \in Others
          /\ lock' = [lock EXCEPT ![p] = "dead"]
          /\ UNCHANGED <<source, events>>
    /\ UNCHANGED <<touches, deaths, ownVars>>

OtherDies(p) ==
    /\ lock[p] = "other" /\ deaths < MaxDeaths
    /\ deaths' = deaths + 1
    /\ lock' = [lock EXCEPT ![p] = "dead"]
    /\ UNCHANGED <<source, touches, events, ownVars>>

\* 2 * TimeOut after it was written, a lock with no pipeline behind it holds
\* nobody off any more.  Nothing writes the PV then.
LeaseExpires(p) ==
    /\ lock[p] \in {"left", "dead"}
    /\ lock' = [lock EXCEPT ![p] = "free"]
    /\ UNCHANGED <<source, touches, deaths, events, ownVars>>

Pipeline ==
    Lock \/ GiveUp \/ UndoLock \/ Remove \/ Lose \/ Replace \/ UndoReplace \/ Succeed

Loop == Synced \/ Take \/ Quit \/ Pipeline \/ Done \/ Wake

Manager == Handle \/ Send \/ Loop

Cluster(p) == Touch(p) \/ OtherLocks(p) \/ OtherEnds(p) \/ LeaseExpires(p)

Next ==
    \/ Manager \/ Stop \/ Die \/ Begins
    \/ \E p \in PVNames : Cluster(p) \/ OtherDies(p)

Spec == Init /\ [][Next]_vars

\* The goroutines run, a process that ended is started again, and the other
\* replica's pipelines end.
ManagerFairness ==
    /\ WF_vars(Handle) /\ WF_vars(Send) /\ WF_vars(Loop)
    /\ \A p \in PVNames : WF_vars(OtherEnds(p))

FairSpec == Spec /\ ManagerFairness /\ WF_vars(Begins)

-----------------------------------------------------------------------------
(* Properties.                                                             *)

Upgrading == {"run", "locked", "removed", "replaced", "succeeded", "failed"}

\* Every variable stays in its range, only hostpath PVs are locked, and the
\* loop has a PV exactly while a pipeline is out.
TypeOK ==
    /\ source \in [PVNames -> {"none", "hostpath", "csi"}]
    /\ lock \in [PVNames -> {"free", "self", "other", "left", "dead"}]
    /\ \A p \in PVNames : source[p] # "hostpath" => lock[p] = "free"
    /\ events \in Seq(Events)
    /\ waiting \subseteq PVNames
    /\ sending \in PVNames \cup {NoPV}
    /\ queue \in Seq(PVNames)
    /\ loop \in {"down", "sync", "select", "pause", "done"} \cup Upgrading
    /\ pv \in PVNames \cup {NoPV}
    /\ pv # NoPV <=> loop \in Upgrading
    /\ running \in BOOLEAN /\ stopped \in BOOLEAN
    /\ failures \in Nat /\ touches \in Nat /\ deaths \in Nat
    /\ tried \subseteq PVNames

Queued == {queue[i] : i \in 1 .. Len(queue)}

\* A name is in syncPVMap exactly while there is work for it: in the hand of
\* the handler, in the channel, or in the pipeline; and it is in one of the
\* three places, once.  Else a PV would be upgraded twice, or its events
\* dropped for ever.
WaitingMatchesWork ==
    /\ waiting = Queued \cup ({sending, pv} \ {NoPV})
    /\ \A i, j \in 1 .. Len(queue) : queue[i] = queue[j] => i = j
    /\ sending # NoPV => sending \notin Queued /\ sending # pv
    /\ pv \notin Queued

\* However small the channel, whatever the other pipelines do and whoever
\* dies, this replica comes to every hostpath PV, in each life anew, unless
\* it is stopped.
EveryPVTried ==
    \A p \in PVNames :
        source[p] = "hostpath" ~> (p \in tried \/ source[p] # "hostpath" \/ stopped)

\* Every name that enters syncPVMap leaves it again, unless the replica is
\* stopped: a pipeline that fails, a lock left by a failed undo or by another
\* pod, or a full channel keep no PV's later events off for ever.
EveryEntryServed ==
    \A p \in PVNames : p \in waiting ~> (p \notin waiting \/ stopped)

\* After Stop the loop ends, if its process does not end first.
StopEndsLoop == stopped ~> loop \in {"done", "down"}

\* The handler, the channel and the loop together are a line that takes every
\* PV, each at most once, and serves it in order: the blocked handler is only
\* its last place, and syncPVMap the exact record of who is in it.
Line == INSTANCE UpgradeLine WITH
    Names <- PVNames, Nobody <- NoPV, current <- pv,
    line <- queue \o (IF sending = NoPV THEN <<>> ELSE <<sending>>)

ImplementsUpgradeLine == Line!Spec

=============================================================================
