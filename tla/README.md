# The admission controllers in TLA+

A verification project kept beside the code of this repository: what the four
webhook services and the upgrade of hostpath volumes do, as TLA+ modules that TLC
checks on small instances and theorems that TLAPS proves for every instance.

Paths in this file are relative to `src/`. `KP` stands for
`vendor/github.com/Rhealb/kubectl-plugins/hostpathpv/pkg/cmd`.

## 1. Inventory

The repository builds four services. Each is an HTTPS server that the API server
of a Kubernetes cluster calls on some requests (an admission webhook), and each is
deployed with three replicas (`deploy/*.yaml`). The replicas do not talk to each
other: all they share is the API server.

| component | source | state it keeps | operations |
|---|---|---|---|
| upgrade pipeline | `pkg/hppvtocsipv/hostpthpvupdate.go:26-282`, helpers in `KP` | undo list, saved PV, timer; shared: PVs, change pods in `kube-system`, two lock annotations | seven steps, an undo for five of them, `Run` |
| upgrade manager | `hostpthpvupdate.go:284-424` | `running`, `stopCh`, `syncPVChan` (100 places), `syncPVMap` | informer handlers, the loop, `Start`, `Stop` |
| registration | `pkg/common/config.go`, each `main.go` | the webhook configuration at the API server | `Get`, `Delete`, `Create`, each error fatal |
| nshostpathprivilege | `pkg/nshostpathprivilege/server.go` | namespace informer's cache | `getNamespace`, `admit` for CREATE and UPDATE of pods |
| podpriority, start-up | `pkg/podpriority/main.go` | five priority classes at the API server | `createPriorityClass` |
| podpriority, review | `pkg/podpriority/server.go` | caches of claims and volumes | `admit` for CREATE of pods |
| hostpathpvresource | `pkg/hostpathpvresource/server.go` | caches of claims and volumes | `admit` for CREATE of pods |
| hppvtocsipv, review | `pkg/hppvtocsipv/server.go` | none | `admit` for CREATE of PVs |
| hppvtocsipv, process | `pkg/hppvtocsipv/main.go` | the goroutines of registration, manager and server; signal channel | start, SIGTERM, fatal errors |
| cleaner of the CSI plugin | `vendor/github.com/Rhealb/csi-plugin/.../syncworker.go` | the orphans of its last round | deletes marked directories that no PV lists |
| certificates, metrics, patches, flags | `pkg/common/certs.go`, `pkg/utils/metrics`, jsonpatch | none that a decision depends on | |

How they interact:

- The manager of each hppvtocsipv replica watches all PVs and starts a pipeline for
  one hostpath PV at a time. Pipelines of different replicas meet at the PV: a
  replica writes its host name and a start time into two annotations (`Get`, then
  `Update` with the resourceVersion that was read), and others leave the PV alone
  until the entry is older than `2 * TimeOut`.
- A pipeline marks the quota directories on the nodes as directories of the CSI
  plugin (change pods), creates a tmp PV that lists them, deletes the hostpath PV,
  creates a CSI PV of the same name, waits for its claim and restarts the pods. The
  cleaner of the CSI plugin deletes marked directories that no PV lists in two
  rounds, which is what the tmp PV is for.
- The four parts of a hppvtocsipv process share its life: a fatal error of the
  registration, a SIGTERM before the handler is installed or a SIGKILL ends a pipeline
  wherever it stands, and the next process begins with a list of the PVs and the lock
  annotations it finds. PVs that a user creates pass its webhook, which turns them
  into CSI PVs if it is registered and answers; what passes unchanged is the
  manager's again.
- While the PV is away the claim is lost, and podpriority and hostpathpvresource,
  which look at the claim of every new pod, deny the pods the upgrade restarts.
- Every replica of a webhook deletes and re-creates the one configuration of that
  webhook when it starts. Two of the webhooks fail closed (`failurePolicy: Fail`)
  and review pods, those of their own deployment included unless the namespace is
  labelled (`pkg/nshostpathprivilege/Makefile:52`,
  `pkg/hostpathpvresource/Makefile:48`).

What is hard about it: two replicas on one volume; a run that is stopped, times out
or loses an answer at any request, and its undo; a crash with objects of fixed names
left behind; a lock that expires under its owner; events dropped while a name is
under way; caches that lag behind the API server and behind each other; replicas
that race for the same object at start, with every lost race fatal. `PROJECT.json`
lists each such place with its line under `hazards`, and the properties aimed at it.

What makes each part correct:

- pipeline: one replica at a time; no directory lost; a success replaced the volume;
  the volume is replaced only after its directories are marked; a failure leaves
  nothing behind; every run ends; a volume whose runs do not fail is upgraded.
- manager: a PV is under way exactly once, and served in turn; every PV is tried, in
  each life of the process; no name stays in the map; the loop stops.
- hppvtocsipv as a whole: no hostpath PV is unknown to a manager that runs; each is
  tried, whatever ends the process; both webhook and manager come up in the end.
- registration: never all done with no configuration; a configuration and all
  replicas in the end; no routed request unanswered, none unreviewed afterwards.
- nshostpathprivilege: a verdict is what one version of the namespace says.
- podpriority and hostpathpvresource: classes exist before one is handed out; class
  and scheduler suit the volumes; pods are created in the end where their volumes are.

## 2. Modules

| module | models | extends it |
|---|---|---|
| `GuardedVolume` | abstract: what an upgrade may do to a volume | implemented by `UpdatePipeline` |
| `UpdatePipeline` | replicas, pipelines, API server, change pods, volume controller, cleaner | `MCUpdatePipeline`, `UpdatePipelineProofs`, and that `UpdatePipelineVolumeProofs` |
| `UpgradeLine` | abstract: a line in which each PV stands once and is served in turn | implemented by `PVUpdateManager` |
| `PVUpdateManager` | one replica's informer handlers, queue and loop, its deaths and successors; another replica as environment | `MCPVUpdateManager`, `PVUpdateManagerProofs`, `UpgradeSystem` |
| `UpgradeSystem` | a hppvtocsipv process: `main`, signals, registration, manager and the review of PVs, beside its peers and users | `MCUpgradeSystem`, `UpgradeSystemProofs` (with `PVUpdateManagerProofs`) |
| `WebhookRegistration` | replicas of one of the four webhooks, its configuration, the kubelet | `MCWebhookRegistration`, `WebhookRegistrationProofs`; an instance in `UpgradeSystem` |
| `NsHostPathPrivilege` | namespace, its lagging cache, reviews of pods | `MCNsHostPathPrivilege`, `NsHostPathPrivilegeProofs` |
| `PriorityClasses` | podpriority's replicas at start-up | `MCPriorityClasses`, `PriorityClassesProofs` |
| `PodVolumeReview` | podpriority's and hostpathpvresource's reviews, claim and volume, four caches | `MCPodVolumeReview`, `PodVolumeReviewProofs` |

How state and actions correspond to the code:

- One request to the API server is one action, and the code up to the next request
  belongs to it: that is the grain at which replicas interleave. In
  `UpdatePipeline` a location `X` is a step before its first request, and
  `XCreate`, `XCall`, `XPoll` ... are the requests and loops inside it.
- `undo[h]` is the length of the undo list. Undo actions are registered in a fixed
  order, so the list is always a prefix, and the number is enough.
- A resourceVersion is kept as what the code can tell: `current[h]` says whether the
  copy replica h read is still the last one. A start time is kept as what `isTimeOut`
  tells: none, live, expired.
- Errors are part of each action. The constant `Faults` says which kinds of trouble
  the environment may make (refused request, lost answer, crash, stop, timer, failed
  or evicted pods, PV not bound, lease overrun, new directory, stale event), and each
  run names the kinds its question is about.
- A change pod that is deleted, by the undo or by somebody else, is "going" until its
  kubelet has ended it: the undo's `Delete` and the `Get` it repeats are actions of
  their own, and `WaitPodQuit` may meet a pod that has vanished.
- `PVUpdateManager` keeps the pipeline as the writes others see (lock, deletion, new
  PV, their undo) and its outcome, with the events the writes cause; `sending` is the
  PV with which the handler is blocked in the channel. `lock` says what the two
  annotations are worth to this replica: nobody's, its running pipeline's, a running
  pipeline's of another pod, "left" under this pod's name with no pipeline behind it
  (taken again at once) or "dead" under another's (the PV is passed over until the lease
  is out). Locks are left behind by a process that dies, by an undo that fails and by an
  `Update` whose answer is lost. `Die` ends the process anywhere and `Begins` is the
  next `Start`, with a new list.
- `UpgradeSystem` takes the manager's variables from `PVUpdateManager` and the
  webhook's from an instance of `WebhookRegistration`, and joins them where the code
  does: `StartMain` launches both, `Listen` needs a `Start` that has returned, and
  `SelfFollows` ends the manager with any step of the registration, the kubelet or a
  signal that ends the process. `Stored` is what `admit` makes of a PV, and `CreatePV`
  lets the review happen, not happen for want of a configuration, or go unanswered.
- `WebhookRegistration` keeps which request of a registration is next for each
  replica, whether its server listens, and the configuration; `Rule` and `Admits` are
  the rule each webhook registers and the first checks of its `admit`. An error before
  the registration (`ConfigTLS`) is `StartFails`.
- `NsHostPathPrivilege` keeps all versions of the namespace in a log and the cache as
  an index into it; a review remembers which versions were current in its window
  (`from`, `since`: history for the properties only). A review that fails in `Serve`
  or gets no answer is a denial, by `failurePolicy: Fail`.
- `PodVolumeReview` keeps logs of the claims and of the volume that is upgraded, and for
  each replica how far each of its two caches has come. A pod has no claim, that of the
  upgraded volume, or that and a second one in either order; `Finds` is the loop over
  them, which stops at the first error and at the first hostpath volume. Denied pods are asked for again by their
  controller. A review without a usable answer passes podpriority (Ignore) and denies
  the pod at hostpathpvresource (Fail).
- `PriorityClasses` keeps for each replica which classes were deleted since it started.

Definitions marked as mutants stand before the definition they change. They are
plausible bugs, and each property is known to fail under one of them.

## 3. Runs

Twelve runs, nine that pass and three that show a disagreement. Each property of a
passing run is also violated when one definition of the model is replaced by its
mutant (`PROJECT.json`, `mutants`).

`UpdatePipeline`:

| run | instance | shows |
|---|---|---|
| `pipeline_lock` | 2 replicas, 1 directory; refused requests, lost answers, new directory, evicted change pods, 1 crash | `MutualExclusion`; `LockInv`, which the proof uses; `DirsTakenOver`: the new PV lists every directory but those recorded between the last `Get` of the old one and its deletion; `MarkedBeforeReplaced`: the PV is replaced only when the change pods have marked the directories, or one of them has vanished; every behaviour is one of `GuardedVolume` |
| `pipeline_kept` | 2 replicas, 2 directories; failed change pods, stale events, a lease that expires under its owner, 1 crash | marked directories stay listed from the tmp PV on; the cleaner deletes none; a success replaced the volume |
| `pipeline_runs` | 2 replicas, 1 directory, fairness; timer, stop, failed and evicted pods, PV not bound | every run ends and leaves nothing behind; if a run begins and none fails the volume is upgraded |
| `pipeline_stopped` | 1 replica, 1 directory; stop | violated: `QuotaDirsKept` |
| `pipeline_refused` | 1 replica, 1 directory; refused requests | violated: `QuotaDirsKept` |

Two replicas are enough for the lock, since a third meets the same annotation; two
directories are needed where one may be done and the other not (`pipeline_kept`;
`UndoLeavesNothing` is proved for any number of them). The kinds of faults
are split over the runs because all of them together are beyond TLC. Some pairs of a
fault and a property are left out because the code does not give the property then:

- Stop, an error after the deletion and a PV that is not bound lose the directories
  (`pipeline_stopped`, `pipeline_refused`), so `pipeline_kept` has none of them.
- New directories are not in `pipeline_kept`, either: after a crash the next run
  starts on a PV that is being deleted, and a directory recorded there is marked and
  then listed by no PV; and one recorded between the `Get` and the `Delete` of the
  old PV is missing in the new one, which `SuccessMeansReplaced` excludes.
- Crashes are not in `pipeline_runs`: a crash leaves the change pods and the tmp PV,
  whose names are fixed, and every later run fails on them.

`PVUpdateManager`, one replica and another as environment:

| run | instance | shows |
|---|---|---|
| `manager_queue` | 2 PVs, channel of 1, 1 failure, 1 touch, 1 death of this or the other replica, the other replica upgrades or fails, Stop; fairness | `syncPVMap` is exactly the work under way; handler, channel and loop are an `UpgradeLine`; every PV is tried, in each life of the process; every name that enters `syncPVMap` leaves it again (`EveryEntryServed`), so that a later write of a PV that failed or was passed over is not dropped; the loop ends after Stop |

With a channel of one place two PVs are enough for the handler to block: the first
PV, touched or unlocked again, comes back while the second fills the channel. Events
of one's own writes, of the other replica's and touches by third parties all occur,
and a death meets every location of the loop and each kind of lock left behind. The
one failure may be a refused request, a lost answer of the lock's `Update`, or an undo
that fails as well.

`UpgradeSystem`, the replica whose manager is modelled and a peer:

| run | instance | shows |
|---|---|---|
| `upgrade_system` | 2 replicas, 1 PV that is deleted and created again once, 1 death or termination; fairness | while the manager runs, it knows of every hostpath PV that is there (`NothingForgotten`); each is tried (`EveryVolumeTried`); the next process finds neither events nor waiting names of the last one (`SystemTypeOK`); both replicas register and serve in the end (`Settles`) |

One PV shows the cases that matter: created while no configuration is there, while
`main` waits for its cache, by a review nobody answers, with the ignore annotation, and
under the name whose pipeline runs, which is the one exception (`overtaken`). Failed
requests and other upgraders are left out here, since `registration` and
`manager_queue` have them; the fatal races of two registrations are in.

`WebhookRegistration`:

| run | instance | shows |
|---|---|---|
| `registration` | 3 replicas of nshp; 3 crashes, 1 refused request; fairness | never all done without configuration; no routed request meets a nil answer; none passes unreviewed once all have registered; all serve in the end |

Three crashes take all three pods away at once, which is when `failurePolicy: Fail`
matters for the pods of the deployment. nshp stands for the webhooks that fail
closed; the proofs cover all four. Deadlock is checked here: reviews never end.

`NsHostPathPrivilege`, one pod:

| run | instance | shows |
|---|---|---|
| `namespace_reviews` | 4 changes of the namespace, 1 lookup or review that fails; fairness | grants and denials are backed by one version in the window; a pod its namespace goes on to allow is created |
| `namespace_updates` | 1 change | violated: updates of a running pod are not affected |

Reviews of different pods share only the cache, so one pod with every kind of need
is enough; four changes include deletion and re-creation under the same name.

`PriorityClasses`:

| run | instance | shows |
|---|---|---|
| `classes` | 3 replicas, 3 classes, the second possibly with a foreign value; 1 crash, 1 refused request, 1 deletion; fairness | who serves has every class, also those deleted before it started; where no value is foreign at the start, all serve in the end |

With a foreign value no replica ever serves, since the value of a class cannot be
changed, which is why `AllServe` has its condition.

`PodVolumeReview`, one pod of ten kinds (`SomeSpecs`), one replica of each service:

| run | instance | shows |
|---|---|---|
| `review_pods` | two claims; the volume goes at most once and may come back, 1 pod deleted, 1 review unanswered; fairness | class and scheduler suit the volumes; if the volume is there for good, pods are created in the end |

The kinds are an application's pods with every list of claims, critical or not, one with
a class of its own and one of the system's. One replacement has every kind of pair of an old claim and a new volume. Replicas have
caches of their own and share nothing, and a request that reaches another replica meets
a cache that is older or younger, which one lagging cache shows too; the proof covers
any number of replicas, replacements and pods.

Deadlock is not checked in runs whose system may come to rest: all PVs upgraded, all
pods created, the bounds used up.

## 4. Fairness

- `UpdatePipeline`: weak fairness of the steps of a run (they are sequential code),
  of the kubelets that run and end the change pods, and of the volume controller. None
  for the beginning of a run (the manager's `select` may take `stopCh`, and a PV that
  was given up is not queued again), for the lease, or for faults.
- `PVUpdateManager`: weak fairness of the goroutines (handler, send, loop), of the
  start of the next process, which is the kubelet's, and of the end of the other
  replica's pipelines, which `EveryRunEnds` justifies. The lease of a lock that was left
  is not under fairness: no property needs it to run out.
- `UpgradeSystem`: the same for the manager; for the processes that of
  `WebhookRegistration`, and SIGKILL follows SIGTERM. None for users, signals, deaths.
- `WebhookRegistration`, `PriorityClasses`: weak fairness of each replica's own
  progress, of the kubelet that starts containers again and of the deployment.
- `NsHostPathPrivilege`, `PodVolumeReview`: weak fairness of the informers, of the
  handlers and of the controller that asks again for a denied pod; in
  `PodVolumeReview` also of the controller of claims. None for the volume's return:
  an upgrade may lose it, and `PodsCreated` binds only where it is there for good.

Weak fairness is enough everywhere: none of these steps needs one that is enabled
only now and then.

## 5. Proofs

All theorems hold for any values of the constants that satisfy the named assumptions.
These assumptions are about bounds and names; the ones that matter are in the list.

- `UpdatePipelineProofs`. `TypeCorrect`: types together with `UndoMatchesStep`,
  which types need: the place an undo goes to is computed from `undo`.
  `LockInvariant` and `LockExcludes`: mutual exclusion for any number of replicas,
  if `"overrun" \notin Faults`, that is if no run outlives its lease. The inductive
  invariant is `LockInv`. `MutualExclusion` is not inductive alone: a replica between
  `Get` and `Update` must know that nobody holds the PV as long as its copy is
  current (`CheckedStillFree`), and that is kept because every write makes other
  copies out of date and the holder's entry is still there (`LockNamesHolder`), which
  needs the undo that clears entries to run only for a holder (`UndoMatchesStep`).
- `UpdatePipelineVolumeProofs`: what becomes of the volume. The lock carries little of
  it: it may expire under a run. What keeps two runs apart from step CreateTmpPV on is
  the tmp PV with its fixed name, which is the first part of the inductive invariant.
  - `TmpExcludes`, for every kind of trouble. `TmpInv`: whoever has a tmp PV finds it
    there, and one replica has it. `ReplacedInv`: the CSI PV a run has put in place
    stands until the run is over, for no other run stands where it deletes. `TakenInv`:
    the PV, and every copy of it a new PV is going to be made from, list each directory
    in use. `TakenOver` (`DirsTakenOver`) follows, for every kind of trouble.
  - `MarkedListed`, unless directories are added *and* runs outlive their lease. Where
    none are added, whoever lists any directory lists all (`WholeInv`). Where some are,
    what is marked is listed by the PV and by all copies (`MarkInv`), and there the lock
    is needed: nobody marks while another one carries a copy.
  - `SuccessReplaces`, without refused requests and new directories (`RestartInv`: who
    waited has found the PV bound and restarts every pod).
  - `QuotaKept`, without the troubles that end a run with the old PV away (refused
    request, lost answer, stop, timer, PV not bound) and, where directories are added,
    without crash and overrun. `AwayInv`: while the old PV is away the tmp PV stands,
    and the run that has it is about to create the new one. After a crash it stands for
    good; without one, the run is still there (`HeldInv`), and the copy it carries
    lists the marks. So the cleaner does not even suspect a directory (`CleanInv`).
  - `MarkedFirst` (`MarkedBeforeReplaced`), if no run outlives its lease: a run past its
    wait has found each of its change pods done or one of them vanished (`DoneInv`), and
    no other run makes them anew while it holds the lock. (Of overruns TLC finds those
    harmful that meet an evicted pod, which the second run then starts again.)
  - `UndoLeaves`, without crashes, refused requests and lost answers: tmp PV, change
    pods and what a run remembers of them go together (`LeftInv`).
  - `RefinesGuardedVolume`, if no run outlives its lease: each step takes the volume,
    gives it up, drops or creates the PV as its only holder, or leaves lock and PV alone.
    It rests on `LockInv`: the request that takes the lock succeeds only with a current
    copy, and then nobody holds the volume (`CheckedStillFree`, `LockNamesHolder`).

  Every kind of trouble a theorem leaves out is needed: with any one of them, or with
  the pairs that are named, TLC finds the property violated with two replicas and two
  directories. The ways to lose directories the runs show, `pipeline_stopped` and
  `pipeline_refused`, are among them.
- `PVUpdateManagerProofs`. `TypeCorrect`, inductive by itself. `QueueIsExact`:
  `syncPVMap` is the work under way, in one place each. `QueueIsLine`: the refinement of `UpgradeLine`, for any number of
  PVs and any channel. It rests on `QueueIsExact`: that a name is in one place makes a
  send a stutter and a new name a legal join. Lemmas say which names a queue has after an append or without
  its head, and that a step outside the queue disturbs none of it.
- `WebhookRegistrationProofs`. `RegisteredWhenDone` (inductive with the types: the
  only step that takes the configuration away makes its replica owe a `Create`),
  `RequestsAnswered`, for each webhook, and the action property
  `GuardedWhenRegistered`, which follows from the first.
- `UpgradeSystemProofs`, for any number of PVs and replicas. A step of the system is a
  step of the manager, the end of its process, or leaves the manager alone; the lemmas
  about the first two are those of `PVUpdateManagerProofs`.
  `LifeCorrect` (`SystemTypeOK`) adds that a step of the replicas either keeps Self's pod
  and its place among the servers or ends its process. `QueueStaysExact` and
  `SystemKeepsLine` carry the map and the abstract line into the whole process.
  `Remembered` (`NothingForgotten`): the first list announces every hostpath PV; an event
  that is handed over leaves its name in the map, or was dropped because it is there; a
  name leaves the map with its pipeline, and by then the PV was tried, or overtaken when
  a user has replaced it meanwhile. That last fact, `PipelineKnown`, is what the property
  lacks to be inductive. `RegisteredBesideManager`: `DoneMeansRegistered` when signals
  and SIGKILL end processes in the middle of the registration.
- `NsHostPathPrivilegeProofs`. `GrantsBacked`, `DenialsBacked`. The invariant adds
  `WindowInv`: the cache is not older than when the request came, and the window lies
  within the log. Appending to the log keeps what its versions say.
- `PriorityClassesProofs`. `ClassesExist`. The invariant says what a replica has
  behind it at every class, not only when it serves, but for what was deleted since.
- `PodVolumeReviewProofs`. `ClassesSuit`, `SchedulersSuit`. The invariant adds
  `SourcesInv` (an upgraded volume is hostpath, CSI or away in every version) and
  extends both properties to pods under review. `FoundIsRight` is the lemma about the
  loop: whichever volume stops it, and also if none does, it is right about the pod.

Every invariant, refinement and action property a passing run checks is proved; only
model-checked is what is under fairness (`EveryRunEnds`, `UpgradedUnlessFailing`,
`EveryPVTried`, `EveryEntryServed`, `StopEndsLoop`, `Settles`, `EveryVolumeTried`, `AllowedPodsCreated`,
`AllServe`, `PodsCreated`).
TLAPS has no rules for liveness under fairness and `ENABLED` here. No module declares
a recursive operator.

## 6. What the violated runs say

Each checks a statement of a doc or a comment against what the code does;
`PROJECT.json` quotes the lines.

1. The undo of the deletion posts the PV with the resourceVersion it was read with,
   which the API server refuses: a run that fails after it loses the PV, and then its
   directories (`pipeline_stopped`).
2. A `Get` that fails after the `Delete` of the old PV was accepted makes the step fail
   as if nothing had been deleted: the undo deletes the tmp PV while the old PV goes, and
   the directories are lost the same way (`pipeline_refused`).
3. Removing the annotation of a namespace blocks updates of running pods
   (`namespace_updates`).

Known limits of the code that no run has to itself, each a hazard in `PROJECT.json`:

- After a crash the fixed names of tmp PV and change pods stop every later run.
- A PV whose pipeline failed is taken up again only when somebody writes it later: the
  failure is logged, the informer does not resync, and the events of the pipeline's own
  writes are dropped while its name is in the map. Nothing promises a retry.
- A PV that another replica held and gave up may be passed over by everyone, and so may
  one whose lock names a pod that was replaced: the successor's pipeline ends with nil.
- An undo of the lock that fails, or an `Update` whose answer is lost, leaves the lock
  on the PV until it expires.
- `WaitPodQuit` takes a change pod that has vanished for done, and with it all others.
- While a volume that the upgrade lost is away, the pods that name it are denied.
- A PV created under the name of the one whose pipeline still runs is not taken up.
- `isCriticalPod` (`pkg/podpriority/server.go:77`) takes any text for true, "false"
  too; `pkg/podpriority/main.go:76` describes the class as
  `critical-pod=true`. `PodVolumeReview` has the code's reading.
- The handle of a CSI PV made by the webhook is the hash of the request
  (`pkg/hppvtocsipv/server.go:57`), the same for two identical manifests; no module
  tells handles apart.
- While replicas register, requests pass unreviewed; `GuardedWhenDone` says when this
  ends.
- A claim with `volumeBindingMode: WaitForFirstConsumer` waits for its pod, and the
  webhooks deny the pod until the claim is bound. The claims of `PodVolumeReview` are
  bound at once.

## 7. Not modelled

- Decoding, encoding and patches: data conversion. A field that the vendored types do
  not know is lost by the round trip; no module tells fields apart.
- Certificates, flags, metrics and health check: no state the decisions use. The
  health check always answers OK, since every `main` switches its timeout off. The
  flags of hppvtocsipv are taken as set to register and to update.
- Images, Makefiles, deployments, scripts: configuration, from which the models take
  the number of replicas and the namespace labels.
- Vendored libraries beyond the functions the services call.
- The claims of `volumeBindingMode: WaitForFirstConsumer` (see above).

## 8. Plan

Done, in this order: the pipeline with its abstract specification (the most that can
go wrong, on data that is lost for good), the manager, the registration, the namespace
review, the start-up of podpriority, the review of pods; then the deaths of the manager
and its abstract line, and the hppvtocsipv process as a whole.

Then the proofs: the lock, the queue, the registration and the reviews; what becomes of
the volume; the process as a whole.

Next: that what `PVUpdateManager` assumes of a pipeline (lock, deletion, new PV or
failure, in this order, and nothing after the end) is what `UpdatePipeline` does, as a
refinement for one replica; and lemmas that state what the reviews' decision operators
return, case by case.
