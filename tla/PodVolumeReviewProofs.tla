------------------------ MODULE PodVolumeReviewProofs ------------------------
(***************************************************************************)
(* What podpriority and hostpathpvresource say of a pod suits its volume,  *)
(* for any number of pods and of replicas, however often the volume goes   *)
(* and comes back, and however far the caches lag.                         *)
(***************************************************************************)
EXTENDS PodVolumeReview, TLAPS

\* A volume that is upgraded is always a hostpath volume of either source or
\* away; another one stays what it is.
SourcesInv ==
    \A i \in 1 .. Len(volumes) :
        IF volumes[1] = "hostpath" THEN volumes[i] \in {"none", "hostpath", "csi"}
                                   ELSE volumes[i] = "plain"

\* A class podpriority gave suits the volume, before the pod is created too.
ClassInv ==
    \A p \in Pods :
        spec[p].namespace = "app" /\ class[p] \in PodTypes
        => (class[p] \in {"hostpathpv", "hostpathpv-critical"} <=> UsesHostPath(p))

\* So does the scheduler, once hostpathpvresource has judged the request; and
\* no pod is created before that.
SchedulerInv ==
    \A p \in Pods :
        /\ scheduler[p] = "enndata" => UsesHostPath(p)
        /\ stage[p] # "absent" /\ "scheduler" \notin left[p] /\ UsesHostPath(p)
           => scheduler[p] = "enndata"
        /\ stage[p] = "created" => left[p] = {}

ReviewInv == TypeOK /\ SourcesInv /\ ClassInv /\ SchedulerInv

-----------------------------------------------------------------------------
(* The steps of the cluster.                                               *)

ClusterStep ==
    SyncClaim \/ DeleteVolume \/ RestoreVolume
    \/ \E s \in Servers : UpdateCache(s)

LEMMA ClusterTyped == TypeOK /\ ClusterStep => TypeOK'
  <1> SUFFICES ASSUME TypeOK, ClusterStep
               PROVE  TypeOK'
    OBVIOUS
  <1>1. CASE SyncClaim
    <2>n. Phases \in [Claims -> ClaimPhases]
      BY DEF TypeOK, Phases
    <2>1. PICK c \in [Claims -> ClaimPhases] : claims' = Append(claims, c)
      <3>1. PICK claim \in Claims, phase \in ClaimPhases : BecomesPhase(claim, phase)
        BY <1>1 DEF SyncClaim, ClaimPhases, Claims
      <3> QED
        BY <2>n, <3>1 DEF BecomesPhase
    <2>2. claims' \in Seq([Claims -> ClaimPhases]) /\ Len(claims') = Len(claims) + 1
      BY <2>1 DEF TypeOK
    <2>3. UNCHANGED <<volumes, seen, spec, podVars, restarts, unreached>>
      BY <1>1 DEF SyncClaim
    <2>4. seen' \in [Servers -> [claim : 1 .. Len(claims'), volume : 1 .. Len(volumes')]]
      BY <2>2, <2>3 DEF TypeOK
    <2> QED
      BY <2>2, <2>3, <2>4 DEF TypeOK, podVars
  <1>2. CASE DeleteVolume \/ RestoreVolume
    <2>1. PICK v \in VolumeKinds : volumes' = Append(volumes, v)
      BY <1>2 DEF DeleteVolume, RestoreVolume, VolumeKinds
    <2>2. volumes' \in Seq(VolumeKinds) /\ Len(volumes') = Len(volumes) + 1
      BY <2>1 DEF TypeOK
    <2>3. UNCHANGED <<claims, seen, spec, podVars, restarts, unreached>>
      BY <1>2 DEF DeleteVolume, RestoreVolume
    <2>4. seen' \in [Servers -> [claim : 1 .. Len(claims'), volume : 1 .. Len(volumes')]]
      BY <2>2, <2>3 DEF TypeOK
    <2> QED
      BY <2>2, <2>3, <2>4 DEF TypeOK, podVars
  <1>3. ASSUME NEW s \in Servers, UpdateCache(s)
        PROVE  TypeOK'
    <2>1. UNCHANGED <<claims, volumes, spec, podVars, restarts, unreached>>
      BY <1>3 DEF UpdateCache
    <2> DEFINE Reach == [claim : 1 .. Len(claims), volume : 1 .. Len(volumes)]
    <2>n. Len(claims) \in Nat /\ Len(volumes) \in Nat /\ seen \in [Servers -> Reach]
      BY DEF TypeOK
    <2>r. seen[s] \in Reach
      BY <2>n
    <2>e. PICK r \in Reach : seen' = [seen EXCEPT ![s] = r]
      <3>1. CASE seen[s].claim < Len(claims)
                 /\ seen' = [seen EXCEPT ![s].claim = @ + 1]
        <4>1. [seen[s] EXCEPT !.claim = seen[s].claim + 1] \in Reach
          BY <2>n, <2>r, <3>1
        <4>2. seen' = [seen EXCEPT ![s] = [seen[s] EXCEPT !.claim = seen[s].claim + 1]]
          BY <3>1
        <4> QED
          BY <4>1, <4>2
      <3>2. CASE seen[s].volume < Len(volumes)
                 /\ seen' = [seen EXCEPT ![s].volume = @ + 1]
        <4>1. [seen[s] EXCEPT !.volume = seen[s].volume + 1] \in Reach
          BY <2>n, <2>r, <3>2
        <4>2. seen' = [seen EXCEPT ![s] = [seen[s] EXCEPT !.volume = seen[s].volume + 1]]
          BY <3>2
        <4> QED
          BY <4>1, <4>2
      <3> QED
        BY <1>3, <3>1, <3>2 DEF UpdateCache
    <2>2. seen' \in [Servers -> Reach]
      BY <2>n, <2>e
    <2> QED
      BY <2>1, <2>2 DEF TypeOK, podVars
  <1> QED
    BY <1>1, <1>2, <1>3 DEF ClusterStep

\* The sources so far stay, and a volume goes and comes back as one that the
\* upgrade handles.
LEMMA ClusterKeepsSources ==
    ASSUME TypeOK, SourcesInv, ClusterStep
    PROVE  SourcesInv' /\ volumes'[1] = volumes[1]
  <1>1. CASE UNCHANGED volumes
    BY <1>1 DEF SourcesInv
  <1>2. CASE DeleteVolume \/ RestoreVolume
    <2>1. PICK v \in {"none", "hostpath", "csi"} : volumes' = Append(volumes, v)
      BY <1>2 DEF DeleteVolume, RestoreVolume
    <2>2. volumes[1] = "hostpath"
      BY <1>2 DEF DeleteVolume, RestoreVolume, Volume, SourcesInv, TypeOK
    <2>3. /\ Len(volumes') = Len(volumes) + 1
          /\ \A i \in 1 .. Len(volumes) : volumes'[i] = volumes[i]
          /\ volumes'[Len(volumes) + 1] = v
      BY <2>1 DEF TypeOK
    <2>n. Len(volumes) \in Nat /\ Len(volumes) > 0
      BY DEF TypeOK
    <2>4. volumes'[1] = "hostpath"
      BY <2>2, <2>3, <2>n
    <2>5. ASSUME NEW i \in 1 .. Len(volumes')
          PROVE  volumes'[i] \in {"none", "hostpath", "csi"}
      <3>1. CASE i \in 1 .. Len(volumes)
        BY <2>2, <2>3, <3>1 DEF SourcesInv
      <3>2. CASE i = Len(volumes) + 1
        BY <2>3, <3>2
      <3> QED
        BY <2>3, <2>n, <3>1, <3>2
    <2> QED
      BY <2>2, <2>4, <2>5 DEF SourcesInv
  <1> QED
    BY <1>1, <1>2 DEF ClusterStep, SyncClaim, UpdateCache

LEMMA ClusterKeeps == ReviewInv /\ ClusterStep => ReviewInv'
  <1> SUFFICES ASSUME ReviewInv, ClusterStep
               PROVE  ReviewInv'
    OBVIOUS
  <1>1. TypeOK' /\ SourcesInv' /\ volumes'[1] = volumes[1]
    BY ClusterTyped, ClusterKeepsSources DEF ReviewInv
  <1>2. UNCHANGED <<stage, left, class, scheduler, spec>>
    BY DEF ClusterStep, SyncClaim, DeleteVolume, RestoreVolume,
           UpdateCache, podVars
  <1>3. \A p \in Pods : UsesHostPath(p)' <=> UsesHostPath(p)
    BY <1>1, <1>2 DEF UsesHostPath
  <1> QED
    BY <1>1, <1>2, <1>3 DEF ReviewInv, ClassInv, SchedulerInv

-----------------------------------------------------------------------------
(* The steps of a pod's request.                                           *)

\* What a replica finds behind one claim, when it finds it, is right about the
\* one thing that counts.
LEMMA VolumeIsRight ==
    ASSUME TypeOK, SourcesInv, NEW s \in Servers, NEW claim \in Claims,
           VolumeOf(s, claim) # "error"
    PROVE  IsCommonHostPathPV(VolumeOf(s, claim))
           <=> claim = "data" /\ volumes[1] = "hostpath"
  <1> DEFINE i == seen[s].volume
  <1>1. i \in 1 .. Len(volumes)
    BY DEF TypeOK
  <1>2. CASE claim = "data"
    <2>1. VolumeOf(s, claim) = volumes[i] /\ volumes[i] # "none"
      BY <1>2 DEF VolumeOf
    <2> QED
      BY <1>1, <1>2, <2>1 DEF SourcesInv, IsCommonHostPathPV
  <1>3. CASE claim # "data"
    BY <1>3 DEF VolumeOf, IsCommonHostPathPV
  <1> QED
    BY <1>2, <1>3

\* So is what its loop says of a pod: the volume that stops it speaks for the
\* pod, and if none does there is no hostpath volume.
LEMMA FoundIsRight ==
    ASSUME TypeOK, SourcesInv, NEW p \in Pods, NEW s \in Servers,
           NEW found \in Findings \ {"error"}, Finds(s, p, found)
    PROVE  IsCommonHostPathPV(found) <=> UsesHostPath(p)
  <1> DEFINE n == DOMAIN spec[p].claims
             volume == [i \in n |-> VolumeOf(s, spec[p].claims[i])]
  <1>1. \A i \in n : spec[p].claims[i] \in Claims
    <2>1. spec[p].claims \in {<<>>, <<"data">>, <<"data", "logs">>, <<"logs", "data">>}
      BY DEF TypeOK, Specs
    <2>2. CASE spec[p].claims = <<>>
      BY <2>2
    <2>3. CASE spec[p].claims = <<"data">>
      BY <2>3 DEF Claims
    <2>4. CASE spec[p].claims = <<"data", "logs">>
      BY <2>4 DEF Claims
    <2>5. CASE spec[p].claims = <<"logs", "data">>
      BY <2>5 DEF Claims
    <2> QED
      BY <2>1, <2>2, <2>3, <2>4, <2>5
  <1>2. \A i \in n : volume[i] # "error" =>
            (IsCommonHostPathPV(volume[i])
             <=> spec[p].claims[i] = "data" /\ volumes[1] = "hostpath")
    BY <1>1, VolumeIsRight
  <1>3. CASE \E i \in n : found = volume[i] /\ EndsSearch(found)
    <2>1. PICK i \in n : found = volume[i] /\ EndsSearch(found)
      BY <1>3
    <2>2. IsCommonHostPathPV(found)
      BY <2>1 DEF EndsSearch
    <2> QED
      BY <1>2, <2>1, <2>2 DEF UsesHostPath
  <1>4. CASE found = "unused" /\ \A i \in n : ~EndsSearch(volume[i])
    <2>1. ~IsCommonHostPathPV(found)
      BY <1>4 DEF IsCommonHostPathPV
    <2>2. \A i \in n : volume[i] # "error" /\ ~IsCommonHostPathPV(volume[i])
      BY <1>4 DEF EndsSearch
    <2> QED
      BY <1>2, <2>1, <2>2 DEF UsesHostPath
  <1> QED
    BY <1>3, <1>4 DEF Finds

PodStep(p) == Ask(p) \/ Review(p) \/ Unreached(p) \/ Persist(p) \/ DeletePod(p)

\* What any step of the request of pod p does.
LEMMA PodStepFrame ==
    ASSUME TypeOK, NEW p \in Pods, PodStep(p)
    PROVE  /\ UNCHANGED <<claims, volumes, seen, spec>>
           /\ restarts' \in Nat /\ unreached' \in Nat
  BY DEF PodStep, Ask, Review, Prioritize, Schedule, Unreached, Persist,
         DeletePod, TypeOK

\* The four variables of the pods, after p's entries have become a, b, c, d.
Becomes(p, a, b, c, d) ==
    /\ stage' = [stage EXCEPT ![p] = a]
    /\ left' = [left EXCEPT ![p] = b]
    /\ class' = [class EXCEPT ![p] = c]
    /\ scheduler' = [scheduler EXCEPT ![p] = d]

\* It is enough to look at the entries of p.
LEMMA EntriesKeep ==
    ASSUME ReviewInv, NEW p \in Pods, UNCHANGED <<claims, volumes, seen, spec>>,
           restarts' \in Nat, unreached' \in Nat,
           NEW a \in {"absent", "asked", "created"}, NEW b \in SUBSET Reviews,
           NEW c \in PodTypes \cup {"own", "none"}, NEW d \in {"any", "enndata"},
           Becomes(p, a, b, c, d),
           spec[p].namespace = "app" /\ c \in PodTypes
           => (c \in {"hostpathpv", "hostpathpv-critical"} <=> UsesHostPath(p)),
           d = "enndata" => UsesHostPath(p),
           a # "absent" /\ "scheduler" \notin b /\ UsesHostPath(p) => d = "enndata",
           a = "created" => b = {}
    PROVE  ReviewInv'
  <1>1. TypeOK'
    BY DEF ReviewInv, TypeOK, Becomes
  <1>2. SourcesInv'
    BY DEF ReviewInv, SourcesInv
  <1>3. \A q \in Pods : UsesHostPath(q)' <=> UsesHostPath(q)
    BY DEF UsesHostPath
  <1>4. /\ stage'[p] = a /\ left'[p] = b /\ class'[p] = c /\ scheduler'[p] = d
        /\ \A q \in Pods \ {p} : /\ stage'[q] = stage[q] /\ left'[q] = left[q]
                                 /\ class'[q] = class[q]
                                 /\ scheduler'[q] = scheduler[q]
    BY DEF ReviewInv, TypeOK, Becomes
  <1>5. ClassInv'
    BY <1>3, <1>4 DEF ReviewInv, ClassInv
  <1>6. SchedulerInv'
    BY <1>3, <1>4 DEF ReviewInv, SchedulerInv
  <1> QED
    BY <1>1, <1>2, <1>5, <1>6 DEF ReviewInv

LEMMA GoneKeeps ==
    ASSUME ReviewInv, NEW p \in Pods, Gone(p),
           UNCHANGED <<claims, volumes, seen, spec>>,
           restarts' \in Nat, unreached' \in Nat
    PROVE  ReviewInv'
  <1>1. Becomes(p, "absent", {}, "none", "any")
    BY DEF Gone, Becomes
  <1> QED
    BY <1>1, EntriesKeep DEF PodTypes

LEMMA PodKeeps ==
    ASSUME ReviewInv, NEW p \in Pods, PodStep(p)
    PROVE  ReviewInv'
  <1>f. /\ UNCHANGED <<claims, volumes, seen, spec>>
        /\ restarts' \in Nat /\ unreached' \in Nat
    BY PodStepFrame DEF ReviewInv
  <1>t. /\ stage[p] \in {"absent", "asked", "created"}
        /\ left[p] \in SUBSET Reviews
        /\ class[p] \in PodTypes \cup {"own", "none"}
        /\ scheduler[p] \in {"any", "enndata"}
        /\ TypeOK /\ SourcesInv /\ ClassInv /\ SchedulerInv
    BY DEF ReviewInv, TypeOK
  <1>e. \A a, b, c, d : Becomes(p, a, b, c, d) <=>
            /\ stage' = [stage EXCEPT ![p] = a] /\ left' = [left EXCEPT ![p] = b]
            /\ class' = [class EXCEPT ![p] = c]
            /\ scheduler' = [scheduler EXCEPT ![p] = d]
    BY DEF Becomes
  <1>i. /\ stage = [stage EXCEPT ![p] = stage[p]]
        /\ left = [left EXCEPT ![p] = left[p]]
        /\ class = [class EXCEPT ![p] = class[p]]
        /\ scheduler = [scheduler EXCEPT ![p] = scheduler[p]]
    BY <1>t DEF TypeOK
  <1>c. /\ spec[p].namespace = "app" /\ class[p] \in PodTypes
           => (class[p] \in {"hostpathpv", "hostpathpv-critical"} <=> UsesHostPath(p))
        /\ scheduler[p] = "enndata" => UsesHostPath(p)
        /\ stage[p] # "absent" /\ "scheduler" \notin left[p] /\ UsesHostPath(p)
           => scheduler[p] = "enndata"
    BY <1>t DEF ClassInv, SchedulerInv
  <1>1. CASE Ask(p)
    <2>1. PICK c \in {"own", "none"} : Becomes(p, "asked", Reviews, c, scheduler[p])
      BY <1>1, <1>i DEF Ask, Becomes
    <2>2. c \notin PodTypes /\ "scheduler" \in Reviews
      BY <2>1 DEF PodTypes, Reviews
    <2> QED
      BY <1>f, <1>t, <1>c, <2>1, <2>2, EntriesKeep
  <1>2. CASE Persist(p)
    <2>1. /\ Becomes(p, "created", left[p], class[p], scheduler[p])
          /\ left[p] = {} /\ stage[p] # "absent"
      BY <1>2, <1>i DEF Persist, Becomes
    <2> QED
      BY <1>f, <1>t, <1>c, <2>1, EntriesKeep
  <1>3. CASE DeletePod(p) \/ Gone(p)
    BY <1>3, <1>f, GoneKeeps DEF DeletePod
  <1>4. CASE Passes(p, "priority") /\ UNCHANGED <<class, scheduler>> /\ stage[p] = "asked"
    <2>1. Becomes(p, "asked", left[p] \ {"priority"}, class[p], scheduler[p])
      BY <1>4, <1>i DEF Passes, Becomes
    <2> QED
      BY <1>4, <1>f, <1>t, <1>c, <2>1, EntriesKeep
  <1>5. ASSUME NEW type \in PodTypes, stage[p] = "asked", Passes(p, "priority"),
               class' = [class EXCEPT ![p] = type], UNCHANGED scheduler,
               spec[p].namespace = "app"
               => (type \in {"hostpathpv", "hostpathpv-critical"} <=> UsesHostPath(p))
        PROVE  ReviewInv'
    <2>1. Becomes(p, "asked", left[p] \ {"priority"}, type, scheduler[p])
      BY <1>5, <1>i DEF Passes, Becomes
    <2>2. \/ "scheduler" \in left[p] \ {"priority"}
          \/ UsesHostPath(p) => scheduler[p] = "enndata"
      BY <1>5, <1>c
    <2> QED
      BY <1>5, <1>f, <1>t, <1>c, <2>1, <2>2, EntriesKeep
  <1>6. ASSUME NEW s \in PriorityServers, Prioritize(p, s)
        PROVE  ReviewInv'
    <2>1. CASE isSystemPod(p) /\ Passes(p, "priority") /\ UNCHANGED scheduler
               /\ class' = [class EXCEPT ![p] = "systempod"]
      <3>1. spec[p].namespace # "app" /\ "systempod" \in PodTypes
        BY <2>1 DEF isSystemPod, PodTypes
      <3> QED
        BY <1>5, <1>6, <2>1, <3>1 DEF Prioritize
    <2>2. ASSUME NEW found \in Findings \ {"error"}, Finds(s, p, found),
                 Passes(p, "priority"), UNCHANGED scheduler,
                 class' = [class EXCEPT ![p] =
                    getPodTypeStr(isCriticalPod(p), IsCommonHostPathPV(found))]
          PROVE  ReviewInv'
      <3> DEFINE type == getPodTypeStr(isCriticalPod(p), IsCommonHostPathPV(found))
      <3>1. IsCommonHostPathPV(found) <=> UsesHostPath(p)
        BY <1>t, <2>2, FoundIsRight DEF Servers
      <3>2. /\ type \in PodTypes
            /\ type \in {"hostpathpv", "hostpathpv-critical"} <=> UsesHostPath(p)
        BY <3>1 DEF getPodTypeStr, PodTypes
      <3>3. stage[p] = "asked" /\ class' = [class EXCEPT ![p] = type]
        BY <1>6, <2>2 DEF Prioritize
      <3> HIDE DEF type
      <3> QED
        BY <1>5, <2>2, <3>2, <3>3
    <2> QED
      BY <1>3, <1>4, <1>6, <2>1, <2>2 DEF Prioritize
  <1>7. ASSUME NEW s \in SchedulerServers, Schedule(p, s)
        PROVE  ReviewInv'
    <2>1. ASSUME NEW found \in Findings \ {"error"}, Finds(s, p, found),
                 Passes(p, "scheduler"), UNCHANGED class,
                 scheduler' = IF IsCommonHostPathPV(found)
                              THEN [scheduler EXCEPT ![p] = "enndata"] ELSE scheduler
          PROVE  ReviewInv'
      <3>1. PICK d \in {"any", "enndata"} :
                /\ Becomes(p, "asked", left[p] \ {"scheduler"}, class[p], d)
                /\ d = IF IsCommonHostPathPV(found) THEN "enndata" ELSE scheduler[p]
        BY <1>7, <1>i, <1>t, <2>1 DEF Schedule, Passes, Becomes
      <3>2. IsCommonHostPathPV(found) <=> UsesHostPath(p)
        BY <1>t, <2>1, FoundIsRight DEF Servers
      <3>3. d = "enndata" <=> UsesHostPath(p)
        BY <1>c, <1>t, <3>1, <3>2
      <3> QED
        BY <1>f, <1>t, <1>c, <3>1, <3>3, EntriesKeep
    <2> QED
      BY <1>3, <1>7, <2>1 DEF Schedule
  <1> QED
    BY <1>1, <1>2, <1>3, <1>4, <1>6, <1>7 DEF PodStep, Review, Unreached

-----------------------------------------------------------------------------
LEMMA ReviewInit == Init => ReviewInv
  <1> SUFFICES ASSUME Init
               PROVE  ReviewInv
    OBVIOUS
  <1>1. /\ Len(claims) = 1 /\ claims \in Seq([Claims -> ClaimPhases])
        /\ volumes \in Seq(VolumeKinds) /\ Len(volumes) = 1
        /\ volumes[1] \in {"hostpath", "plain"}
    <2>1. PICK c \in [Claims -> ClaimPhases] : claims = <<c>>
      BY DEF Init, ClaimPhases
    <2>2. PICK v \in {"hostpath", "plain"} : volumes = <<v>>
      BY DEF Init
    <2>3. v \in VolumeKinds
      BY DEF VolumeKinds
    <2>4. Len(claims) = 1 /\ claims \in Seq([Claims -> ClaimPhases])
      BY <2>1
    <2>5. Len(volumes) = 1 /\ volumes \in Seq(VolumeKinds) /\ volumes[1] = v
      BY <2>2, <2>3
    <2> QED
      BY <2>4, <2>5
  <1>2. TypeOK
    BY <1>1, SpecsAssumption DEF Init, TypeOK
  <1>3. SourcesInv
    BY <1>1 DEF SourcesInv
  <1>4. ClassInv /\ SchedulerInv
    BY DEF Init, ClassInv, SchedulerInv, PodTypes
  <1> QED
    BY <1>2, <1>3, <1>4 DEF ReviewInv

LEMMA ReviewStep == ReviewInv /\ [Next]_vars => ReviewInv'
  <1> SUFFICES ASSUME ReviewInv, [Next]_vars
               PROVE  ReviewInv'
    OBVIOUS
  <1>1. CASE ClusterStep
    BY <1>1, ClusterKeeps
  <1>2. ASSUME NEW p \in Pods, PodStep(p)
        PROVE  ReviewInv'
    BY <1>2, PodKeeps
  <1>3. CASE UNCHANGED vars
    BY <1>3 DEF vars, podVars, ReviewInv, TypeOK, SourcesInv, ClassInv,
                SchedulerInv, UsesHostPath
  <1> QED
    BY <1>1, <1>2, <1>3 DEF Next, ClusterStep, PodStep

LEMMA ReviewAlways == Spec => []ReviewInv
  BY ReviewInit, ReviewStep, PTL DEF Spec

\* Every variable stays in its range.
THEOREM TypeCorrect == Spec => []TypeOK
  <1>1. ReviewInv => TypeOK
    BY DEF ReviewInv
  <1> QED
    BY <1>1, ReviewAlways, PTL

\* A class podpriority gave to an application's pod suits the pod's volume.
THEOREM ClassesSuit == Spec => []ClassSuitsVolume
  <1>1. ReviewInv => ClassSuitsVolume
    BY DEF ReviewInv, ClassInv, ClassSuitsVolume
  <1> QED
    BY <1>1, ReviewAlways, PTL

\* A pod is at the scheduler of hostpath volumes if and only if it uses one.
THEOREM SchedulersSuit == Spec => []SchedulerSuitsVolume
  <1>1. ReviewInv => SchedulerSuitsVolume
    BY DEF ReviewInv, SchedulerInv, SchedulerSuitsVolume
  <1> QED
    BY <1>1, ReviewAlways, PTL

=============================================================================
