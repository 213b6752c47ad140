--------------------------- MODULE PodVolumeReview ---------------------------
(***************************************************************************)
(* The two webhooks that judge a new pod by the volumes behind its claims: *)
(* podpriority gives it a priority class, hostpathpvresource a scheduler.  *)
(* Each replica of each service looks claims and volumes up in two         *)
(* informer caches of its own, which lag behind the API server and behind  *)
(* each other, while the upgrade takes a volume away and brings it back    *)
(* with another source.  A denied pod is created again by its controller.  *)
(*                                                                         *)
(* There are two claims: "data", whose volume the upgrade may handle, and  *)
(* "logs", whose volume is of another kind and always there.               *)
(*                                                                         *)
(* Source: src/pkg/podpriority/server.go,                                  *)
(* src/pkg/hostpathpvresource/server.go and GetPodVolumePV of the vendored *)
(* extender-scheduler.                                                     *)
(***************************************************************************)
EXTENDS Naturals, Sequences, FiniteSets

CONSTANTS
    Pods,              \* the pods
    PodSpecs,          \* what they may ask for, some of Specs
    PriorityServers,   \* the replicas of podpriority
    SchedulerServers,  \* the replicas of hostpathpvresource
    MaxVolumes,        \* bound: times the volume is taken away
    MaxRestarts,       \* bound: pods deleted after they were created
    MaxUnreached       \* bound: reviews that get no usable answer

ASSUME ServersAssumption == PriorityServers \cap SchedulerServers = {}
ASSUME BoundsAssumption ==
    MaxVolumes \in Nat /\ MaxRestarts \in Nat /\ MaxUnreached \in Nat

Servers == PriorityServers \cup SchedulerServers
Reviews == {"priority", "scheduler"}

Claims == {"data", "logs"}

\* What the webhooks read in a pod: its namespace, the text of its critical
\* annotation, whether it names a class of its own, and the claims among its
\* volumes in their order; the volumes that are no claims are passed over.
Specs == [namespace : {"app", "kube-system"}, critical : {"", "false"},
          named : BOOLEAN,
          claims : {<<>>, <<"data">>, <<"data", "logs">>, <<"logs", "data">>}]

ASSUME SpecsAssumption == PodSpecs \subseteq Specs

VolumeKinds == {"none", "hostpath", "csi", "plain"}
ClaimPhases == {"pending", "bound", "lost"}
PodTypes == {"default", "hostpathpv", "normal-critical", "hostpathpv-critical",
             "systempod"}

VARIABLES
    claims,      \* the phases of the claims so far, the last are current
    volumes,     \* the sources of data's volume so far, the last is current
    seen,        \* [Servers -> how far each of its two caches has come]
    spec,        \* [Pods -> Specs]
    stage,       \* [Pods -> absent, asked or created]
    left,        \* [Pods -> the reviews its request still has ahead]
    class,       \* [Pods -> its priority class]
    scheduler,   \* [Pods -> its scheduler]
    restarts, unreached

podVars == <<stage, left, class, scheduler>>
vars == <<claims, volumes, seen, spec, podVars, restarts, unreached>>

Phases == claims[Len(claims)]
Volume == volumes[Len(volumes)]

Init ==
    /\ claims = <<[c \in Claims |-> "pending"]>>
    /\ volumes \in {<<"hostpath">>, <<"plain">>}
    /\ seen = [s \in Servers |-> [claim |-> 1, volume |-> 1]]
    /\ spec \in [Pods -> PodSpecs]
    /\ stage = [p \in Pods |-> "absent"]
    /\ left = [p \in Pods |-> {}]
    /\ class = [p \in Pods |-> "none"]
    /\ scheduler = [p \in Pods |-> "any"]
    /\ restarts = 0 /\ unreached = 0

-----------------------------------------------------------------------------
(* The cluster.                                                            *)

BecomesPhase(claim, phase) ==
    claims' = Append(claims, [Phases EXCEPT ![claim] = phase])

\* The controller of volumes binds a claim without a wait for a pod, and
\* finds data lost while its volume is away.
SyncClaim ==
    /\ \/ Phases["logs"] = "pending" /\ BecomesPhase("logs", "bound")
       \/ Phases["data"] # "bound" /\ Volume # "none" /\ BecomesPhase("data", "bound")
       \/ Phases["data"] = "bound" /\ Volume = "none" /\ BecomesPhase("data", "lost")
    /\ UNCHANGED <<volumes, seen, spec, podVars, restarts, unreached>>

\* The upgrade deletes the volume.
DeleteVolume ==
    /\ Volume \in {"hostpath", "csi"}
    /\ Len(volumes) <= 2 * MaxVolumes
    /\ volumes' = Append(volumes, "none")
    /\ UNCHANGED <<claims, seen, spec, podVars, restarts, unreached>>

\* The upgrade creates a CSI volume under the same name.  It may fail to, and
\* so may the undo of its deletion: then somebody creates the volume again, of
\* either source, or nobody does.
RestoreVolume ==
    /\ Volume = "none"
    /\ \E kind \in {"hostpath", "csi"} : volumes' = Append(volumes, kind)
    /\ UNCHANGED <<claims, seen, spec, podVars, restarts, unreached>>

\* An informer of a replica takes over the next version.
UpdateCache(s) ==
    /\ \/ seen[s].claim < Len(claims) /\ seen' = [seen EXCEPT ![s].claim = @ + 1]
       \/ seen[s].volume < Len(volumes) /\ seen' = [seen EXCEPT ![s].volume = @ + 1]
    /\ UNCHANGED <<claims, volumes, spec, podVars, restarts, unreached>>

\* The pod's controller asks for the pod, until it is there.
Ask(p) ==
    /\ stage[p] = "absent"
    /\ stage' = [stage EXCEPT ![p] = "asked"]
    /\ left' = [left EXCEPT ![p] = Reviews]
    /\ class' = [class EXCEPT ![p] = IF spec[p].named THEN "own" ELSE "none"]
    /\ UNCHANGED <<claims, volumes, seen, spec, scheduler, restarts, unreached>>

Persist(p) ==
    /\ stage[p] = "asked" /\ left[p] = {}
    /\ stage' = [stage EXCEPT ![p] = "created"]
    /\ UNCHANGED <<claims, volumes, seen, spec, left, class, scheduler, restarts,
                   unreached>>

\* There is no pod, and what its request said is forgotten.
Gone(p) ==
    /\ stage' = [stage EXCEPT ![p] = "absent"]
    /\ left' = [left EXCEPT ![p] = {}]
    /\ class' = [class EXCEPT ![p] = "none"]
    /\ scheduler' = [scheduler EXCEPT ![p] = "any"]

\* The upgrade restarts the pods of the volume, and nodes lose pods.
DeletePod(p) ==
    /\ stage[p] = "created" /\ restarts < MaxRestarts
    /\ restarts' = restarts + 1
    /\ Gone(p)
    /\ UNCHANGED <<claims, volumes, seen, spec, unreached>>

-----------------------------------------------------------------------------
(* The webhooks.                                                           *)

\* Mutant: CSI volumes are forgotten.
IsHostPathPVOnly(kind) == kind = "hostpath"

IsCommonHostPathPV(kind) == kind \in {"hostpath", "csi"}

\* Mutant: only the source of a hostpath volume is looked at.
VolumeOfHostPath(s, claim) ==
    LET volume == IF claim = "data" THEN volumes[seen[s].volume] ELSE "plain"
    IN  IF claims[seen[s].claim][claim] = "bound" /\ volume = "hostpath"
        THEN volume ELSE "error"

\* GetPodVolumePV from the caches of replica s.
VolumeOf(s, claim) ==
    LET volume == IF claim = "data" THEN volumes[seen[s].volume] ELSE "plain"
    IN  IF claims[seen[s].claim][claim] = "bound" /\ volume # "none"
        THEN volume ELSE "error"

\* Mutant: a claim without a volume is passed over.
EndsSearchFound(found) == IsCommonHostPathPV(found)

\* The loops over a pod's volumes stop at an error and at a hostpath volume.
EndsSearch(found) == found = "error" \/ IsCommonHostPathPV(found)

\* What the loop of replica s says of pod p: the first volume that stops it,
\* or that there is none.
Finds(s, p, found) ==
    LET volume == [i \in DOMAIN spec[p].claims |-> VolumeOf(s, spec[p].claims[i])]
    IN  \/ \E i \in DOMAIN volume :
               /\ found = volume[i] /\ EndsSearch(found)
               /\ \A j \in 1 .. i - 1 : ~EndsSearch(volume[j])
        \/ /\ found = "unused"
           /\ \A i \in DOMAIN volume : ~EndsSearch(volume[i])

Findings == VolumeKinds \cup {"error", "unused"}

\* Any text makes the annotation count.
isCriticalPod(p) == spec[p].critical # ""

isSystemPod(p) == spec[p].namespace = "kube-system"

\* Mutant: a type GetPriorityClassNameByPodType does not know.
TypeStrUnknown(critical, hostpath) ==
    IF critical THEN "critical" ELSE IF hostpath THEN "hostpathpv" ELSE "default"

\* The type of a pod that is in no system namespace.
getPodTypeStr(critical, hostpath) ==
    IF hostpath THEN IF critical THEN "hostpathpv-critical" ELSE "hostpathpv"
                ELSE IF critical THEN "normal-critical" ELSE "default"

Passes(p, review) ==
    /\ left' = [left EXCEPT ![p] = @ \ {review}]
    /\ UNCHANGED stage

\* podpriority's admit: it leaves a pod with a class alone, and looks at the
\* volumes of the pods that are in no system namespace.
Prioritize(p, s) ==
    /\ stage[p] = "asked" /\ "priority" \in left[p]
    /\ \/ spec[p].named /\ Passes(p, "priority") /\ UNCHANGED <<class, scheduler>>
       \/ /\ ~spec[p].named /\ isSystemPod(p)
          /\ Passes(p, "priority") /\ UNCHANGED scheduler
          /\ class' = [class EXCEPT ![p] = "systempod"]
       \/ /\ ~spec[p].named /\ ~isSystemPod(p)
          /\ \E found \in Findings \ {"error"} :
                /\ Finds(s, p, found)
                /\ Passes(p, "priority") /\ UNCHANGED scheduler
                /\ class' = [class EXCEPT ![p] =
                       getPodTypeStr(isCriticalPod(p), IsCommonHostPathPV(found))]
       \/ ~spec[p].named /\ ~isSystemPod(p) /\ Finds(s, p, "error") /\ Gone(p)
    /\ UNCHANGED <<claims, volumes, seen, spec, restarts, unreached>>

\* No replica answers, or Serve answers with an error status: the failure
\* policy of podpriority is Ignore, that of hostpathpvresource Fail.
Unreached(p) ==
    /\ stage[p] = "asked"
    /\ unreached < MaxUnreached /\ unreached' = unreached + 1
    /\ \/ /\ "priority" \in left[p] /\ Passes(p, "priority")
          /\ UNCHANGED <<class, scheduler>>
       \/ "scheduler" \in left[p] /\ Gone(p)
    /\ UNCHANGED <<claims, volumes, seen, spec, restarts>>

\* hostpathpvresource's admit.
Schedule(p, s) ==
    /\ stage[p] = "asked" /\ "scheduler" \in left[p]
    /\ \/ Finds(s, p, "error") /\ Gone(p)
       \/ \E found \in Findings \ {"error"} :
             /\ Finds(s, p, found)
             /\ Passes(p, "scheduler") /\ UNCHANGED class
             /\ scheduler' = IF IsCommonHostPathPV(found)
                             THEN [scheduler EXCEPT ![p] = "enndata"]
                             ELSE scheduler
    /\ UNCHANGED <<claims, volumes, seen, spec, restarts, unreached>>

Review(p) ==
    \/ \E s \in PriorityServers : Prioritize(p, s)
    \/ \E s \in SchedulerServers : Schedule(p, s)

Next ==
    \/ SyncClaim \/ DeleteVolume \/ RestoreVolume
    \/ \E s \in Servers : UpdateCache(s)
    \/ \E p \in Pods : \/ Ask(p) \/ Review(p) \/ Unreached(p)
                       \/ Persist(p) \/ DeletePod(p)

Spec == Init /\ [][Next]_vars

\* The controller of volumes and the informers run, and who wants a pod asks
\* for it until it exists.  Nobody has to bring a volume back.
FairSpec ==
    /\ Spec
    /\ WF_vars(SyncClaim)
    /\ \A s \in Servers : WF_vars(UpdateCache(s))
    /\ \A p \in Pods : WF_vars(Ask(p)) /\ WF_vars(Review(p)) /\ WF_vars(Persist(p))

-----------------------------------------------------------------------------
(* Properties.                                                             *)

\* Every variable stays in its range.
TypeOK ==
    /\ claims \in Seq([Claims -> ClaimPhases]) /\ Len(claims) > 0
    /\ volumes \in Seq(VolumeKinds) /\ Len(volumes) > 0
    /\ seen \in [Servers -> [claim : 1 .. Len(claims), volume : 1 .. Len(volumes)]]
    /\ spec \in [Pods -> Specs]
    /\ stage \in [Pods -> {"absent", "asked", "created"}]
    /\ left \in [Pods -> SUBSET Reviews]
    /\ class \in [Pods -> PodTypes \cup {"own", "none"}]
    /\ scheduler \in [Pods -> {"any", "enndata"}]
    /\ restarts \in Nat /\ unreached \in Nat

\* One of the pod's volumes is, and stays through its upgrade, a hostpath
\* volume of either source.
UsesHostPath(p) ==
    \E i \in DOMAIN spec[p].claims : spec[p].claims[i] = "data" /\ volumes[1] = "hostpath"

\* A pod of an application that podpriority classified has a hostpathpv class
\* if and only if it uses a hostpath volume, wherever the upgrade and the two
\* caches of the replica stood.
ClassSuitsVolume ==
    \A p \in Pods :
        stage[p] = "created" /\ spec[p].namespace = "app" /\ class[p] \in PodTypes
        => (class[p] \in {"hostpathpv", "hostpathpv-critical"} <=> UsesHostPath(p))

\* A pod goes to the scheduler of hostpath volumes if and only if it uses one.
SchedulerSuitsVolume ==
    \A p \in Pods :
        stage[p] = "created" => (scheduler[p] = "enndata" <=> UsesHostPath(p))

\* If the volume is there for good from some time on, the pods that are asked
\* for are created for good, however long claims were unbound or the volume
\* away, and however the caches lag.  (While a volume that the upgrade lost is
\* away, every pod that names it is denied.)
PodsCreated ==
    <>[](Volume # "none") => <>[](\A p \in Pods : stage[p] = "created")

=============================================================================
