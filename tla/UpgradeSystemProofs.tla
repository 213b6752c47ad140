------------------------- MODULE UpgradeSystemProofs -------------------------
(***************************************************************************)
(* Theorems about UpgradeSystem, for any PVs, replicas and bounds.  The    *)
(* manager's own steps, and the end of its process, keep what the lemmas   *)
(* of PVUpdateManagerProofs say; here they meet the signals, the fatal     *)
(* errors of the registration and the users.                               *)
(***************************************************************************)
EXTENDS UpgradeSystem, PVUpdateManagerProofs

Pods == {"absent", "down", "up"}
Standings == {"start", "get", "delete", "create", "done"}

\* What the replicas are, as far as the rest of the system depends on it.
ReplicasType ==
    /\ config \in BOOLEAN /\ refusals \in Nat
    /\ pod \in [Replicas -> Pods]
    /\ reg \in [Replicas -> Standings]
    /\ serving \subseteq Replicas

-----------------------------------------------------------------------------
(* The replicas.                                                           *)

\* A step of the replicas' registrations, or the end of one of them, either
\* leaves the pod of Self and its place among the servers alone, or its
\* process is no more.
SelfKeptOrGone ==
    \/ pod'[Self] = pod[Self] /\ (Self \in serving' => Self \in serving)
    \/ pod'[Self] \in {"absent", "down"} /\ Self \notin serving'

LEMMA DiesEffect ==
    ASSUME ReplicasType, NEW r \in Replicas, NEW p \in {"absent", "down"},
           R!Dies(r, p)
    PROVE  /\ pod' \in [Replicas -> Pods] /\ reg' \in [Replicas -> Standings]
           /\ serving' \subseteq Replicas
           /\ SelfKeptOrGone /\ reg'[r] = "start"
  BY SelfAssumption DEF ReplicasType, R!Dies, Pods, Standings, SelfKeptOrGone

LEMMA GoesEffect ==
    ASSUME ReplicasType, NEW r \in Replicas, NEW step \in Standings,
           R!Goes(r, step)
    PROVE  /\ pod' \in [Replicas -> Pods] /\ reg' \in [Replicas -> Standings]
           /\ serving' \subseteq Replicas
           /\ SelfKeptOrGone /\ reg'[r] = step
  BY SelfAssumption DEF ReplicasType, R!Goes, Pods, Standings, SelfKeptOrGone

LEMMA RegistrationEffect ==
    ASSUME ReplicasType, NEW r \in Replicas,
           R!Get(r) \/ R!Delete(r) \/ R!Create(r)
    PROVE  ReplicasType' /\ SelfKeptOrGone
<1>1. refusals' \in Nat
  <2>1. R!Answered \/ R!Refused
    BY Zenon DEF R!Get, R!Delete, R!Create
  <2> QED BY <2>1 DEF R!Answered, R!Refused, ReplicasType
<1>2. config' \in BOOLEAN
  <2>1. config' = config \/ config' = TRUE \/ config' = FALSE
    BY Zenon DEF R!Get, R!Delete, R!Create
  <2> QED BY <2>1, Zenon DEF ReplicasType
<1>3. \/ R!Dies(r, "down")
      \/ \E step \in {"delete", "create", "done"} : R!Goes(r, step)
  BY Zenon DEF R!Get, R!Delete, R!Create
<1>4. /\ pod' \in [Replicas -> Pods] /\ reg' \in [Replicas -> Standings]
      /\ serving' \subseteq Replicas /\ SelfKeptOrGone
  BY <1>3, DiesEffect, GoesEffect DEF Standings
<1> QED BY <1>1, <1>2, <1>4 DEF ReplicasType

-----------------------------------------------------------------------------
(* The life of the process.                                                *)

LifeInv ==
    /\ loop = "down" <=> pod[Self] # "up"
    /\ Self \in serving => loop \notin {"down", "sync"}
    /\ stopped => leaving
    /\ leaving \in BOOLEAN /\ creations \in Nat /\ overtaken \subseteq PVNames

SystemInv == TypeOK /\ WaitingMatchesWork /\ ReplicasType /\ LifeInv

\* The manager neither ends nor begins its process, and does not stop itself.
LEMMA ManagerLives ==
    ASSUME Manager
    PROVE  /\ (loop' = "down") <=> (loop = "down")
           /\ loop' = "sync" => loop = "sync"
           /\ UNCHANGED <<deaths, touches, stopped>>
<1>1. CASE Handle \/ Send
  BY <1>1 DEF Handle, Send, clusterVars
<1>2. CASE Synced \/ Take \/ Quit \/ Done \/ Wake
  BY <1>2 DEF Synced, Take, Quit, Done, Wake, clusterVars
<1>3. CASE Pipeline
  BY <1>3 DEF Pipeline, Lock, GiveUp, UndoLock, Remove, Lose, Replace,
              UndoReplace, Succeed, Fails, clusterVars
<1> QED BY <1>1, <1>2, <1>3 DEF Manager, Loop

\* A step that leaves the process where it was.
LEMMA LifeUntouched ==
    ASSUME LifeInv, UNCHANGED <<webhookVars, leaving, userVars, stopped>>,
           (loop' = "down") <=> (loop = "down"),
           loop' = "sync" => loop = "sync"
    PROVE  LifeInv'
  BY DEF LifeInv, webhookVars, userVars

LEMMA ReplicasUntouched ==
    ASSUME ReplicasType, UNCHANGED webhookVars
    PROVE  ReplicasType'
  BY DEF ReplicasType, webhookVars

\* What holds of the process when a step of the replicas has taken Self along
\* or passed it by.
LEMMA SelfFollowsStep ==
    ASSUME SystemInv, ReplicasType', SelfKeptOrGone, SelfFollows,
           deaths' \in Nat, UNCHANGED userVars
    PROVE  SystemInv'
<1>t. /\ TypeOK /\ WaitingMatchesWork /\ LifeInv
      /\ pod[Self] \in Pods /\ pod'[Self] \in Pods
  BY SelfAssumption DEF SystemInv, ReplicasType
<1>1. CASE pod[Self] = pod'[Self]
  <2>1. UNCHANGED <<source, lock, touches, managerVars, leaving>>
    BY <1>1 DEF SelfFollows
  <2>2. TypeOK'
    BY <2>1, <1>t DEF TypeOK, managerVars, Upgrading
  <2>3. WaitingMatchesWork'
    BY <2>1, <1>t, WorkUntouched DEF managerVars
  <2>4. LifeInv'
    <3>1. UNCHANGED <<loop, stopped, leaving, creations, overtaken>>
      BY <2>1 DEF managerVars, userVars
    <3>2. Self \in serving' => loop \notin {"down", "sync"}
      BY <1>1, <1>t DEF SelfKeptOrGone, LifeInv
    <3> QED BY <3>1, <3>2, <1>1, <1>t DEF LifeInv
  <2> QED BY <2>2, <2>3, <2>4 DEF SystemInv
<1>2. CASE pod[Self] # pod'[Self]
  <2>1. pod'[Self] # "up" /\ Self \notin serving'
    BY <1>2 DEF SelfKeptOrGone
  <2>2. PICK mark \in {"left", "dead"} : Ends(mark)
    BY <1>2 DEF SelfFollows
  <2>3. TypeOK'
    BY <2>2, <1>t, EndsType
  <2>4. WaitingMatchesWork'
    BY <2>2, EndsQueue
  <2>5. LifeInv'
    <3>1. loop' = "down" /\ stopped' = FALSE
      BY <2>2 DEF Ends
    <3>2. leaving' \in BOOLEAN
      BY <1>2, <1>t, Zenon DEF SelfFollows, LifeInv
    <3>3. UNCHANGED <<creations, overtaken>>
      BY DEF userVars
    <3> QED BY <2>1, <3>1, <3>2, <3>3, <1>t DEF LifeInv
  <2> QED BY <2>3, <2>4, <2>5 DEF SystemInv
<1> QED BY <1>1, <1>2

LEMMA SystemInitInv == SystemInit => SystemInv
<1> SUFFICES ASSUME SystemInit PROVE SystemInv
  OBVIOUS
<1> USE SelfAssumption DEF SystemInit
<1>1. TypeOK
  <2>1. running \in BOOLEAN /\ stopped \in BOOLEAN
    BY Zenon
  <2>2. deaths \in Nat
    BY DEF R!Init
  <2> QED BY <2>1, <2>2 DEF TypeOK, Upgrading
<1>2. WaitingMatchesWork
  BY DEF WaitingMatchesWork, Queued
<1>3. ReplicasType
  BY DEF R!Init, ReplicasType, Pods, Standings
<1>4. LifeInv
  BY DEF R!Init, LifeInv
<1> QED BY <1>1, <1>2, <1>3, <1>4 DEF SystemInv

LEMMA SystemStep == SystemInv /\ [SystemNext]_systemVars => SystemInv'
<1> SUFFICES ASSUME SystemInv, [SystemNext]_systemVars PROVE SystemInv'
  OBVIOUS
<1>t. TypeOK /\ WaitingMatchesWork /\ ReplicasType /\ LifeInv
  BY DEF SystemInv
<1>m. ASSUME [Next]_vars PROVE TypeOK' /\ WaitingMatchesWork'
  BY <1>m, <1>t, TypeStep, QueueStep
<1>1. CASE ManagerStep
  <2>1. Manager /\ UNCHANGED <<webhookVars, leaving, userVars>>
    BY <1>1 DEF ManagerStep
  <2>2. TypeOK' /\ WaitingMatchesWork'
    BY <2>1, <1>m DEF Next
  <2> QED BY <2>1, <2>2, <1>t, ManagerLives, LifeUntouched, ReplicasUntouched
          DEF SystemInv
<1>2. CASE StartMain
  <2>1. TypeOK' /\ WaitingMatchesWork'
    BY <1>2, <1>m DEF StartMain, Next
  <2>2. ReplicasType'
    BY <1>2, <1>t, SelfAssumption
       DEF StartMain, R!Launch, ReplicasType, Pods, Standings
  <2>3. LifeInv'
    <3>1. /\ loop' = "sync" /\ loop = "down" /\ pod'[Self] = "up"
          /\ UNCHANGED <<serving, stopped, leaving, creations, overtaken>>
      BY <1>2, <1>t, SelfAssumption
         DEF StartMain, R!Launch, Begins, ReplicasType, userVars
    <3> QED BY <3>1, <1>t DEF LifeInv
  <2> QED BY <2>1, <2>2, <2>3 DEF SystemInv
<1>3. CASE Listen
  <2>1. TypeOK' /\ WaitingMatchesWork'
    BY <1>3, <1>m DEF Listen
  <2>2. ReplicasType'
    BY <1>3, <1>t, SelfAssumption DEF Listen, R!Listen, ReplicasType
  <2>3. LifeInv'
    BY <1>3, <1>t DEF Listen, R!Listen, LifeInv, vars, userVars
  <2> QED BY <2>1, <2>2, <2>3 DEF SystemInv
<1>4. CASE Terminate
  <2>1. CASE R!Dies(Self, "absent") /\ SelfFollows /\ deaths' = deaths + 1
    <3>1. ReplicasType' /\ SelfKeptOrGone
      BY <1>4, <2>1, <1>t, SelfAssumption, DiesEffect
         DEF Terminate, ReplicasType
    <3>2. deaths' \in Nat /\ UNCHANGED userVars
      BY <1>4, <2>1, <1>t DEF Terminate, TypeOK
    <3> QED BY <2>1, <3>1, <3>2, SelfFollowsStep
  <2>2. CASE /\ leaving' = TRUE /\ (Stop \/ UNCHANGED vars)
             /\ UNCHANGED <<pod, reg, serving>>
    <3>1. TypeOK' /\ WaitingMatchesWork'
      BY <2>2, <1>m DEF Next
    <3>2. UNCHANGED webhookVars /\ UNCHANGED <<loop, userVars>>
      BY <1>4, <2>2 DEF Terminate, webhookVars, Stop, vars
    <3>3. ReplicasType'
      BY <3>2, <1>t, ReplicasUntouched
    <3>4. LifeInv'
      BY <2>2, <3>2, <1>t DEF LifeInv, webhookVars, userVars
    <3> QED BY <3>1, <3>3, <3>4 DEF SystemInv
  <2> QED BY <1>4, <2>1, <2>2 DEF Terminate
<1>5. CASE Kill
  <2>1. R!Dies(Self, "absent") /\ SelfFollows
    BY <1>5 DEF Kill
  <2>2. ReplicasType' /\ SelfKeptOrGone
    BY <1>5, <2>1, <1>t, SelfAssumption, DiesEffect DEF Kill, ReplicasType
  <2>3. deaths' \in Nat /\ UNCHANGED userVars
    BY <1>5, <1>t DEF Kill, TypeOK
  <2> QED BY <2>1, <2>2, <2>3, SelfFollowsStep
<1>6. ASSUME NEW r \in Replicas, Register(r)
      PROVE  SystemInv'
  <2>1. ReplicasType' /\ SelfKeptOrGone
    BY <1>6, <1>t, RegistrationEffect DEF Register
  <2>2. SelfFollows /\ deaths' \in Nat /\ UNCHANGED userVars
    BY <1>6, <1>t DEF Register, TypeOK
  <2> QED BY <2>1, <2>2, SelfFollowsStep
<1>7. ASSUME NEW r \in Replicas, Crash(r)
      PROVE  SystemInv'
  <2>1. PICK p \in {"down", "absent"} : R!Dies(r, p)
    BY <1>7 DEF Crash, R!Crash
  <2>2. ReplicasType' /\ SelfKeptOrGone
    BY <1>7, <2>1, <1>t, DiesEffect DEF Crash, R!Crash, ReplicasType
  <2>3. SelfFollows /\ deaths' \in Nat /\ UNCHANGED userVars
    BY <1>7, <1>t DEF Crash, R!Crash, TypeOK
  <2> QED BY <2>2, <2>3, SelfFollowsStep
<1>8. ASSUME NEW r \in Replicas, Redeploy(r) \/ (r \in Peers /\ PeerStep(r))
      PROVE  SystemInv'
  <2>1. UNCHANGED <<vars, leaving, userVars>>
    BY <1>8 DEF Redeploy, PeerStep
  <2>2. TypeOK' /\ WaitingMatchesWork'
    BY <2>1, <1>m
  <2>3. /\ ReplicasType'
        /\ (pod'[Self] = "up") <=> (pod[Self] = "up")
        /\ Self \in serving' <=> Self \in serving
    BY <1>8, <1>t, SelfAssumption
       DEF Redeploy, PeerStep, R!CreatePod, R!Launch, R!Listen, ReplicasType,
           Pods, Standings, Peers
  <2>4. LifeInv'
    BY <2>1, <2>3, <1>t DEF LifeInv, vars, userVars
  <2> QED BY <2>2, <2>3, <2>4 DEF SystemInv
<1>9. ASSUME NEW p \in PVNames, ClusterStep(p)
      PROVE  SystemInv'
  <2>1. TypeOK' /\ WaitingMatchesWork'
    BY <1>9, <1>m DEF ClusterStep, Next, Cluster
  <2>2. UNCHANGED <<webhookVars, leaving, userVars, loop, stopped>>
    BY <1>9 DEF ClusterStep, Touch, LeaseExpires, ownVars
  <2> QED BY <2>1, <2>2, <1>t, LifeUntouched, ReplicasUntouched DEF SystemInv
<1>10. ASSUME NEW p \in PVNames, CreatePV(p)
       PROVE  SystemInv'
  <2>1. /\ UNCHANGED <<lock, touches, deaths, waiting, sending, queue, loop, pv,
                       running, stopped, failures, webhookVars, leaving>>
        /\ tried' = tried \ {p} /\ creations' = creations + 1
        /\ overtaken' \subseteq overtaken \cup {p}
    BY <1>10 DEF CreatePV, webhookVars
  <2>2. PICK s \in {"hostpath", "csi"} :
           source' = [source EXCEPT ![p] = s] /\ Notify(p, source'[p])
    BY <1>10 DEF CreatePV, Stored
  <2>3. source'[p] = s /\ events' \in Seq(Events)
    BY <2>2, <1>t, NotifyType DEF TypeOK
  <2>4. \A q \in PVNames : source'[q] # "hostpath" => lock'[q] = "free"
    BY <1>10, <2>1, <2>2, <1>t DEF CreatePV, TypeOK
  <2>5. TypeOK'
    BY <2>1, <2>2, <2>3, <2>4, <1>t DEF TypeOK, Upgrading
  <2>6. WaitingMatchesWork'
    BY <2>1, <1>t, WorkUntouched
  <2>7. LifeInv'
    BY <2>1, <1>t DEF LifeInv, webhookVars
  <2> QED BY <2>1, <2>5, <2>6, <2>7, <1>t, ReplicasUntouched DEF SystemInv
<1>11. ASSUME NEW p \in PVNames, DeletePV(p)
       PROVE  SystemInv'
  <2>1. /\ UNCHANGED <<touches, deaths, managerVars, webhookVars, leaving>>
        /\ UNCHANGED userVars
        /\ source' = [source EXCEPT ![p] = "none"]
        /\ lock' = [lock EXCEPT ![p] = "free"]
    BY <1>11 DEF DeletePV
  <2>2. TypeOK'
    BY <2>1, <1>t DEF TypeOK, managerVars, Upgrading
  <2>3. WaitingMatchesWork'
    BY <2>1, <1>t, WorkUntouched DEF managerVars
  <2>4. UNCHANGED <<loop, stopped>>
    BY <2>1 DEF managerVars
  <2> QED BY <2>1, <2>2, <2>3, <2>4, <1>t, LifeUntouched, ReplicasUntouched
          DEF SystemInv
<1>12. CASE UNCHANGED systemVars
  <2>1. UNCHANGED <<vars, webhookVars, leaving, userVars>>
    BY <1>12 DEF systemVars
  <2>2. TypeOK' /\ WaitingMatchesWork'
    BY <2>1, <1>m
  <2>3. UNCHANGED <<loop, stopped>>
    BY <2>1 DEF vars
  <2> QED BY <2>1, <2>2, <2>3, <1>t, LifeUntouched, ReplicasUntouched
          DEF SystemInv
<1>p. \A r \in Peers : r \in Replicas
  BY DEF Peers
<1> QED BY <1>1, <1>2, <1>3, <1>4, <1>5, <1>6, <1>7, <1>8, <1>9, <1>10, <1>11,
           <1>12, <1>p DEF SystemNext

LEMMA SystemInvariant == SystemSpec => []SystemInv
  BY SystemInitInv, SystemStep, PTL DEF SystemSpec

\* Between two processes there is nothing that a handler, a channel or a map
\* could hold.
Empty == loop = "down" => events = <<>> /\ waiting = {}

LEMMA SelfFollowsEmpty ==
    ASSUME Empty, SelfFollows
    PROVE  Empty'
<1>1. CASE pod[Self] = pod'[Self]
  BY <1>1 DEF SelfFollows, managerVars, Empty
<1>2. CASE pod[Self] # pod'[Self]
  BY <1>2 DEF SelfFollows, Ends, Empty
<1> QED BY <1>1, <1>2

LEMMA EmptyStep ==
    ASSUME SystemInv, Empty, [SystemNext]_systemVars
    PROVE  Empty'
<1>t. TypeOK /\ WaitingMatchesWork
  BY DEF SystemInv
<1>1. CASE ManagerStep
  <2>1. ASSUME loop' = "down" PROVE FALSE
    <3>1. loop = "down" /\ events = <<>> /\ waiting = {}
      BY <1>1, <2>1, ManagerLives DEF ManagerStep, Empty
    <3>2. sending = NoPV
      BY <3>1, <1>t DEF WaitingMatchesWork
    <3>3. ~Handle /\ ~Send
      BY <3>1, <3>2 DEF Handle, Send
    <3>4. ~Loop
      BY <3>1 DEF Loop, Synced, Take, Quit, Done, Wake, Pipeline, Lock, GiveUp,
                  UndoLock, Remove, Lose, Replace, UndoReplace, Succeed
    <3> QED BY <1>1, <3>3, <3>4 DEF ManagerStep, Manager
  <2> QED BY <2>1 DEF Empty
<1>2. CASE StartMain
  BY <1>2 DEF StartMain, Begins, Empty
<1>3. CASE Terminate
  <2>1. SelfFollows \/ UNCHANGED <<loop, events, waiting>>
    BY <1>3 DEF Terminate, Stop, vars
  <2> QED BY <2>1, SelfFollowsEmpty DEF Empty
<1>4. CASE Kill \/ \E r \in Replicas : Register(r) \/ Crash(r)
  BY <1>4, SelfFollowsEmpty DEF Kill, Register, Crash
\* Nobody notifies a process that is not there.
<1>5. ASSUME NEW p \in PVNames, ClusterStep(p) \/ CreatePV(p) \/ DeletePV(p)
      PROVE  Empty'
  <2>1. UNCHANGED <<loop, waiting>>
    BY <1>5 DEF ClusterStep, Touch, LeaseExpires, ownVars, CreatePV, DeletePV,
                managerVars
  <2>2. events' = events \/ \E s : Notify(p, s)
    BY <1>5 DEF ClusterStep, Touch, LeaseExpires, CreatePV, DeletePV, managerVars
  <2>3. loop = "down" => events' = events
    BY <2>2 DEF Notify
  <2> QED BY <2>1, <2>3 DEF Empty
<1>6. \/ Listen \/ UNCHANGED systemVars
      \/ \E r \in Replicas : Redeploy(r)
      \/ \E r \in Peers : PeerStep(r)
      => UNCHANGED vars
  BY DEF Listen, Redeploy, PeerStep, systemVars
<1>7. CASE UNCHANGED vars
  BY <1>7 DEF vars, Empty
<1> QED BY <1>1, <1>2, <1>3, <1>4, <1>5, <1>6, <1>7 DEF SystemNext

\* The manager lives exactly as long as its process, whichever of the signals,
\* the fatal errors of the registration and the crashes ends it; a server that
\* listens has a manager with a full cache behind it, only a process that is
\* told to terminate is stopped, and the next one finds nothing of the last
\* one's (main).
THEOREM LifeCorrect == SystemSpec => []SystemTypeOK
<1>1. SystemInit => Empty
  BY DEF SystemInit, Empty
<1>2. SystemInv /\ Empty /\ [SystemNext]_systemVars => Empty'
  BY EmptyStep
<1>3. SystemInv /\ Empty => SystemTypeOK
  BY DEF SystemInv, LifeInv, Empty, SystemTypeOK
<1> QED BY <1>1, <1>2, <1>3, SystemInvariant, PTL DEF SystemSpec

\* syncPVMap stays the exact record of the PVs the manager is at, also when
\* users delete and create PVs under its hands (the handlers of Start).
THEOREM QueueStaysExact == SystemSpec => []WaitingMatchesWork
<1>1. SystemInv => WaitingMatchesWork
  BY DEF SystemInv
<1> QED BY <1>1, SystemInvariant, PTL

-----------------------------------------------------------------------------
(* The line, among those who end the process.                              *)

LEMMA SelfFollowsLine ==
    ASSUME SelfFollows
    PROVE  [Line!Next]_(Line!vars)
<1>1. CASE pod[Self] = pod'[Self]
  <2>1. UNCHANGED <<sending, queue, pv>>
    BY <1>1 DEF SelfFollows, managerVars
  <2> QED BY <2>1, LineUntouched DEF Standing
<1>2. CASE pod[Self] # pod'[Self]
  BY <1>2, EndsLine DEF SelfFollows
<1> QED BY <1>1, <1>2

LEMMA SystemLineStep ==
    ASSUME SystemInv, [SystemNext]_systemVars
    PROVE  [Line!Next]_(Line!vars)
<1>t. TypeOK /\ WaitingMatchesWork
  BY DEF SystemInv
<1>1. ASSUME [Next]_vars
      PROVE  [Line!Next]_(Line!vars)
  BY <1>1, <1>t, LineStep
<1>2. CASE \/ ManagerStep \/ StartMain \/ Listen \/ UNCHANGED systemVars
           \/ \E r \in Replicas : Redeploy(r)
           \/ \E r \in Peers : PeerStep(r)
           \/ \E p \in PVNames : ClusterStep(p)
  <2>1. Manager \/ Begins \/ UNCHANGED vars \/ \E p \in PVNames : Cluster(p)
    BY <1>2 DEF ManagerStep, StartMain, Listen, Redeploy, PeerStep, ClusterStep,
                Cluster, systemVars
  <2> QED BY <1>1, <2>1 DEF Next
<1>3. CASE \/ Kill \/ \E r \in Replicas : Register(r) \/ Crash(r)
  BY <1>3, SelfFollowsLine DEF Kill, Register, Crash
<1>4. CASE Terminate
  <2>1. SelfFollows \/ Stop \/ UNCHANGED vars
    BY <1>4 DEF Terminate
  <2> QED BY <1>1, <2>1, SelfFollowsLine DEF Next
<1>5. ASSUME NEW p \in PVNames, CreatePV(p) \/ DeletePV(p)
      PROVE  [Line!Next]_(Line!vars)
  <2>1. UNCHANGED <<sending, queue, pv>>
    BY <1>5 DEF CreatePV, DeletePV, managerVars
  <2> QED BY <2>1, LineUntouched DEF Standing
<1> QED BY <1>2, <1>3, <1>4, <1>5 DEF SystemNext

\* In the process with its server, its registration and its signals the
\* manager is still the line UpgradeLine describes: whatever users do to the
\* PVs, none stands in it twice, and nothing but the end of the process breaks
\* it up (Start, main).
THEOREM SystemKeepsLine == SystemSpec => ImplementsUpgradeLine
<1>1. SystemInit => Line!Init
  <2> SUFFICES ASSUME SystemInit PROVE Line!Init
    OBVIOUS
  <2>1. queue = <<>> /\ sending = NoPV /\ pv = NoPV
    BY DEF SystemInit
  <2> QED BY <2>1 DEF Line!Init
<1>2. SystemInv /\ [SystemNext]_systemVars => [Line!Next]_(Line!vars)
  BY SystemLineStep
<1> QED BY <1>1, <1>2, SystemInvariant, PTL
        DEF SystemSpec, ImplementsUpgradeLine, Line!Spec

-----------------------------------------------------------------------------
(* What the manager knows.                                                 *)

Known(p) == p \in waiting \cup tried \cup overtaken \/ Announced(p)

\* The name of the running pipeline leaves the map when the pipeline ends; by
\* then it was tried in this life, if the PV of that name is the one taken.
PipelineKnown == pv # NoPV => pv \in tried \cup overtaken

KnownInv == NothingForgotten /\ PipelineKnown

LEMMA AnnouncedAppend ==
    ASSUME events \in Seq(Events), NEW e \in Events, events' = Append(events, e),
           NEW p, Announced(p)
    PROVE  Announced(p)'
<1>1. PICK i \in 1 .. Len(events) : events[i] = Event(p, "hostpath")
  BY DEF Announced
<1>2. i \in 1 .. Len(events') /\ events'[i] = events[i]
  BY <1>1
<1> QED BY <1>1, <1>2 DEF Announced

LEMMA AnnouncedLast ==
    ASSUME events \in Seq(Events), NEW p \in PVNames,
           events' = Append(events, Event(p, "hostpath"))
    PROVE  Announced(p)'
<1>1. Event(p, "hostpath") \in Events
  BY DEF Event, Events
<1>2. Len(events') \in 1 .. Len(events') /\ events'[Len(events')] = Event(p, "hostpath")
  BY <1>1
<1> QED BY <1>2 DEF Announced

\* Whatever is notified, what was announced stays so.
LEMMA NotifyKeeps ==
    ASSUME events \in Seq(Events), NEW p \in PVNames,
           NEW s \in {"hostpath", "csi"}, Notify(p, s), NEW q, Announced(q)
    PROVE  Announced(q)'
<1>1. Event(p, s) \in Events
  BY DEF Event, Events
<1>2. CASE events' = events
  BY <1>2 DEF Announced
<1>3. CASE events' = Append(events, Event(p, s))
  BY <1>1, <1>3, AnnouncedAppend
<1> QED BY <1>2, <1>3 DEF Notify

LEMMA AnnouncedTail ==
    ASSUME events \in Seq(Events), events # <<>>, events' = Tail(events),
           NEW p, Announced(p), Head(events) # Event(p, "hostpath")
    PROVE  Announced(p)'
<1>1. PICK i \in 1 .. Len(events) : events[i] = Event(p, "hostpath")
  BY DEF Announced
<1>2. /\ i # 1 /\ i - 1 \in 1 .. Len(events')
      /\ events'[i - 1] = Event(p, "hostpath")
  BY <1>1
<1> QED BY <1>2 DEF Announced

\* The first list announces every hostpath PV there is.
LEMMA ListingAnnounces ==
    ASSUME TypeOK, events' \in Listing, NEW p \in PVNames,
           source[p] = "hostpath"
    PROVE  Announced(p)'
<1>1. Present \subseteq PVNames /\ IsFiniteSet(Present) /\ p \in Present
  BY NamesAssumption, FS_Subset DEF Present
<1>2. Cardinality(Present) \in Nat
  BY <1>1, FS_CardinalityType
<1> DEFINE n == Cardinality(Present)
<1>3. events' \in [1 .. n -> {Event(q, source[q]) : q \in Present}]
  BY DEF Listing
<1>4. PICK i \in DOMAIN events' : events'[i].pv = p
  BY <1>1 DEF Listing
<1>5. i \in 1 .. n
  BY <1>3, <1>4
<1>6. PICK q \in Present : events'[i] = Event(q, source[q])
  BY <1>3, <1>5
<1>7. q = p
  BY <1>4, <1>6 DEF Event
<1>8. events' \in Seq(Events) /\ Len(events') = n
  <2>1. events' \in Seq(Events)
    BY ListingType DEF TypeOK
  <2>2. DOMAIN events' = 1 .. n /\ DOMAIN events' = 1 .. Len(events')
    BY <1>3, <2>1
  <2> HIDE DEF n
  <2>3. n \in Nat /\ Len(events') \in Nat
    BY <1>2, <2>1 DEF n
  <2> QED BY <2>1, <2>2, <2>3
<1> QED BY <1>5, <1>6, <1>7, <1>8 DEF Announced

\* A step after which no PV is a hostpath that was none, and what was known
\* still is.
LEMMA KnowledgeKept ==
    ASSUME NothingForgotten,
           loop' # "down" => loop # "down",
           stopped => stopped',
           \A p \in PVNames : source'[p] = "hostpath" => source[p] = "hostpath",
           \A p \in PVNames : Known(p) => Known(p)'
    PROVE  NothingForgotten'
  BY Zenon DEF NothingForgotten, Known

\* A step that leaves what the manager knows in place.
LEMMA KnowledgeUntouched ==
    ASSUME KnownInv,
           loop' # "down" => loop # "down",
           UNCHANGED <<stopped, waiting, tried, overtaken, pv>>,
           \A p \in PVNames : source'[p] = "hostpath" => source[p] = "hostpath",
           \A p \in PVNames : Announced(p) => Announced(p)'
    PROVE  KnownInv'
<1>1. \A p \in PVNames : Known(p) => Known(p)'
  BY DEF Known
<1>2. NothingForgotten'
  BY <1>1, KnowledgeKept DEF KnownInv
<1>3. PipelineKnown'
  BY DEF KnownInv, PipelineKnown
<1> QED BY <1>2, <1>3 DEF KnownInv

\* A process that has ended knows nothing and owes nothing.
LEMMA EndsKnown ==
    ASSUME NEW mark, Ends(mark)
    PROVE  KnownInv'
<1>1. loop' = "down" /\ pv' = NoPV
  BY DEF Ends
<1> QED BY <1>1 DEF KnownInv, NothingForgotten, PipelineKnown

LEMMA SelfFollowsKnown ==
    ASSUME KnownInv, SelfFollows, UNCHANGED userVars
    PROVE  KnownInv'
<1>1. CASE pod[Self] = pod'[Self]
  <2>1. UNCHANGED <<source, events, loop, stopped, waiting, tried, overtaken, pv>>
    BY <1>1 DEF SelfFollows, managerVars, userVars
  <2>2. \A p \in PVNames : Announced(p) => Announced(p)'
    BY <2>1 DEF Announced
  <2> QED BY <2>1, <2>2, KnowledgeUntouched
<1>2. CASE pod[Self] # pod'[Self]
  BY <1>2, EndsKnown DEF SelfFollows
<1> QED BY <1>1, <1>2

\* Each step of the manager hands on what it knows: from the events to the
\* map, from the map to the PVs tried.
LEMMA ManagerKnown ==
    ASSUME SystemInv, KnownInv, ManagerStep
    PROVE  KnownInv'
<1>t. TypeOK /\ UNCHANGED overtaken
  BY DEF SystemInv, ManagerStep, userVars
<1>l. loop' # "down" => loop # "down"
  BY ManagerLives DEF ManagerStep
<1>s. UNCHANGED stopped
  BY ManagerLives DEF ManagerStep
<1>1. CASE Handle
  <2>1. /\ UNCHANGED <<source, tried, pv>> /\ waiting \subseteq waiting'
        /\ events # <<>> /\ events' = Tail(events)
    BY <1>1 DEF Handle, clusterVars
  <2>2. ASSUME NEW p \in PVNames, Announced(p)
        PROVE  p \in waiting' \/ Announced(p)'
    <3>1. CASE Head(events) = Event(p, "hostpath")
      BY <1>1, <3>1 DEF Handle, Event
    <3>2. CASE Head(events) # Event(p, "hostpath")
      BY <2>1, <2>2, <3>2, <1>t, AnnouncedTail DEF TypeOK
    <3> QED BY <3>1, <3>2
  <2>3. \A p \in PVNames : Known(p) => Known(p)'
    BY <2>1, <2>2, <1>t DEF Known
  <2>4. NothingForgotten'
    BY <2>1, <2>3, <1>l, <1>s, KnowledgeKept DEF KnownInv
  <2>5. PipelineKnown'
    BY <2>1, <1>t DEF KnownInv, PipelineKnown
  <2> QED BY <2>4, <2>5 DEF KnownInv
<1>2. CASE Take
  <2>1. /\ UNCHANGED <<source, events, waiting>>
        /\ tried' = tried \cup {pv'}
    BY <1>2 DEF Take, clusterVars
  <2>2. \A p \in PVNames : Known(p) => Known(p)'
    BY <2>1, <1>t DEF Known, Announced
  <2>3. NothingForgotten'
    BY <2>1, <2>2, <1>l, <1>s, KnowledgeKept DEF KnownInv
  <2>4. PipelineKnown'
    BY <2>1 DEF PipelineKnown
  <2> QED BY <2>3, <2>4 DEF KnownInv
<1>3. CASE Done
  <2>1. /\ UNCHANGED <<source, events, tried>> /\ pv # NoPV /\ pv' = NoPV
        /\ waiting' = waiting \ {pv}
    BY <1>3, <1>t DEF Done, clusterVars, TypeOK, Upgrading
  <2>2. pv \in tried \cup overtaken
    BY <2>1 DEF KnownInv, PipelineKnown
  <2>3. \A p \in PVNames : Known(p) => Known(p)'
    BY <2>1, <2>2, <1>t DEF Known, Announced
  <2>4. NothingForgotten'
    BY <2>1, <2>3, <1>l, <1>s, KnowledgeKept DEF KnownInv
  <2>5. PipelineKnown'
    BY <2>1 DEF PipelineKnown
  <2> QED BY <2>4, <2>5 DEF KnownInv
<1>4. CASE Send \/ Synced \/ Quit \/ Wake \/ GiveUp \/ Lose \/ Succeed
  <2>1. UNCHANGED <<source, events, waiting, tried, pv>>
    BY <1>4 DEF Send, Synced, Quit, Wake, GiveUp, Lose, Succeed, clusterVars
  <2>2. \A p \in PVNames : Announced(p) => Announced(p)'
    BY <2>1 DEF Announced
  <2> QED BY <2>1, <2>2, <1>t, <1>l, <1>s, KnowledgeUntouched
\* The steps of a pipeline make no hostpath PV; what they write is notified.
<1>5. CASE Lock \/ UndoLock \/ Remove \/ Replace \/ UndoReplace
  <2>1. UNCHANGED <<waiting, tried, pv>> /\ pv \in PVNames
    BY <1>5, <1>t DEF Lock, UndoLock, Remove, Replace, UndoReplace, TypeOK,
                      Upgrading
  <2>2. \A p \in PVNames : source'[p] = "hostpath" => source[p] = "hostpath"
    BY <1>5, <2>1, <1>t DEF Lock, UndoLock, Remove, Replace, UndoReplace, TypeOK
  <2>3. events' = events \/ \E s \in {"hostpath", "csi"} : Notify(pv, s)
    <3>1. CASE Lock
      BY <3>1 DEF Lock
    <3>2. CASE Replace
      BY <3>2 DEF Replace
    <3>3. CASE Remove \/ UndoReplace
      BY <3>3 DEF Remove, UndoReplace
    <3>4. CASE UndoLock
      <4>1. lock[pv] # "free" => source[pv] = "hostpath"
        BY <2>1, <1>t DEF TypeOK
      <4> QED BY <3>4, <4>1 DEF UndoLock
    <3> QED BY <1>5, <3>1, <3>2, <3>3, <3>4
  <2>4. ASSUME NEW p \in PVNames, Announced(p) PROVE Announced(p)'
    <3>1. CASE events' = events
      BY <2>4, <3>1 DEF Announced
    <3>2. CASE \E s \in {"hostpath", "csi"} : Notify(pv, s)
      BY <2>1, <2>4, <3>2, <1>t, NotifyKeeps DEF TypeOK
    <3> QED BY <2>3, <3>1, <3>2
  <2> QED BY <2>1, <2>2, <2>4, <1>t, <1>l, <1>s, KnowledgeUntouched
<1> QED BY <1>1, <1>2, <1>3, <1>4, <1>5
        DEF ManagerStep, Manager, Loop, Pipeline

\* A PV that is stored as hostpath is announced to the manager that runs, and
\* if the handler may drop the event then because it is overtaken.
LEMMA CreateKnown ==
    ASSUME SystemInv, KnownInv, NEW p \in PVNames, CreatePV(p)
    PROVE  KnownInv'
<1>t. TypeOK
  BY DEF SystemInv
<1>1. /\ UNCHANGED <<waiting, loop, pv, stopped>>
      /\ tried' = tried \ {p}
      /\ overtaken' = IF p = pv THEN overtaken \cup {p} ELSE overtaken \ {p}
  BY DEF CreatePV
<1>2. PICK s \in {"hostpath", "csi"} :
         source' = [source EXCEPT ![p] = s] /\ Notify(p, source'[p])
  BY DEF CreatePV, Stored
<1>3. source'[p] = s /\ Notify(p, s)
  BY <1>2, <1>t DEF TypeOK
<1>4. PipelineKnown'
  BY <1>1 DEF KnownInv, PipelineKnown
<1>5. NothingForgotten'
  <2> SUFFICES ASSUME loop' # "down", ~stopped',
                      NEW q \in PVNames, source'[q] = "hostpath"
               PROVE  Known(q)'
    BY Zenon DEF NothingForgotten, Known
  <2>1. loop # "down" /\ ~stopped
    BY <1>1
  <2>2. CASE q = p
    <3>1. s = "hostpath"
      BY <2>2, <1>3
    <3>2. events' = Append(events, Event(p, "hostpath"))
      BY <1>3, <2>1, <3>1 DEF Notify
    <3> QED BY <2>2, <3>2, <1>t, AnnouncedLast DEF Known, TypeOK
  <2>3. CASE q # p
    <3>1. source[q] = "hostpath"
      BY <2>3, <1>2, <1>t DEF TypeOK
    <3>2. Known(q)
      BY <2>1, <3>1, Zenon DEF KnownInv, NothingForgotten, Known
    <3>3. Announced(q) => Announced(q)'
      BY <1>3, <1>t, NotifyKeeps DEF TypeOK
    <3> QED BY <2>3, <3>2, <3>3, <1>1 DEF Known
  <2> QED BY <2>2, <2>3
<1> QED BY <1>4, <1>5 DEF KnownInv

LEMMA KnownStep ==
    ASSUME SystemInv, KnownInv, [SystemNext]_systemVars
    PROVE  KnownInv'
<1>t. TypeOK /\ LifeInv
  BY DEF SystemInv
<1>1. CASE ManagerStep
  BY <1>1, ManagerKnown
<1>2. CASE StartMain
  <2>1. /\ events' \in Listing /\ UNCHANGED <<source, pv>> /\ loop = "down"
    BY <1>2 DEF StartMain, Begins, clusterVars
  <2>2. pv' = NoPV
    BY <2>1, <1>t DEF TypeOK, Upgrading
  <2>3. \A p \in PVNames : source'[p] = "hostpath" => Announced(p)'
    BY <2>1, <1>t, ListingAnnounces
  <2> QED BY <2>2, <2>3, Zenon DEF KnownInv, NothingForgotten, PipelineKnown
<1>3. CASE Terminate
  <2>1. CASE SelfFollows
    BY <1>3, <2>1, SelfFollowsKnown DEF Terminate
  <2>2. CASE Stop \/ UNCHANGED vars
    <3>1. UNCHANGED <<source, events, waiting, loop, pv, tried, overtaken>>
      BY <1>3, <2>2 DEF Terminate, Stop, vars, clusterVars, userVars
    <3>2. stopped => stopped'
      BY <2>2, Zenon DEF Stop, vars
    <3>3. \A p \in PVNames : Known(p) => Known(p)'
      BY <3>1 DEF Known, Announced
    <3>4. NothingForgotten'
      BY <3>1, <3>2, <3>3, KnowledgeKept DEF KnownInv
    <3>5. PipelineKnown'
      BY <3>1 DEF KnownInv, PipelineKnown
    <3> QED BY <3>4, <3>5 DEF KnownInv
  <2> QED BY <1>3, <2>1, <2>2 DEF Terminate
<1>4. CASE Kill
  BY <1>4, SelfFollowsKnown DEF Kill
<1>5. ASSUME NEW r \in Replicas, Register(r) \/ Crash(r)
      PROVE  KnownInv'
  BY <1>5, SelfFollowsKnown DEF Register, Crash
<1>6. ASSUME NEW p \in PVNames, ClusterStep(p)
      PROVE  KnownInv'
  <2>1. UNCHANGED <<source, waiting, loop, stopped, pv, tried, overtaken>>
    BY <1>6 DEF ClusterStep, Touch, LeaseExpires, ownVars, userVars
  <2>2. events' = events \/ Notify(p, "hostpath")
    BY <1>6 DEF ClusterStep, Touch, LeaseExpires
  <2>3. ASSUME NEW q \in PVNames, Announced(q) PROVE Announced(q)'
    <3>1. CASE events' = events
      BY <2>3, <3>1 DEF Announced
    <3>2. CASE Notify(p, "hostpath")
      BY <2>3, <3>2, <1>t, NotifyKeeps DEF TypeOK
    <3> QED BY <2>2, <3>1, <3>2
  <2> QED BY <2>1, <2>3, KnowledgeUntouched
<1>7. ASSUME NEW p \in PVNames, CreatePV(p)
      PROVE  KnownInv'
  BY <1>7, CreateKnown
<1>8. ASSUME NEW p \in PVNames, DeletePV(p)
      PROVE  KnownInv'
  <2>1. UNCHANGED <<events, waiting, loop, stopped, pv, tried, overtaken>>
    BY <1>8 DEF DeletePV, managerVars, userVars
  <2>2. \A q \in PVNames : source'[q] = "hostpath" => source[q] = "hostpath"
    BY <1>8, <1>t DEF DeletePV, TypeOK
  <2>3. \A q \in PVNames : Announced(q) => Announced(q)'
    BY <2>1 DEF Announced
  <2> QED BY <2>1, <2>2, <2>3, KnowledgeUntouched
<1>9. CASE UNCHANGED <<vars, userVars>>
  <2>1. UNCHANGED <<source, events, waiting, loop, stopped, pv, tried, overtaken>>
    BY <1>9 DEF vars, userVars
  <2>2. \A q \in PVNames : Announced(q) => Announced(q)'
    BY <2>1 DEF Announced
  <2> QED BY <2>1, <2>2, KnowledgeUntouched
<1>10. \/ Listen \/ UNCHANGED systemVars
       \/ \E r \in Replicas : Redeploy(r)
       \/ \E r \in Peers : PeerStep(r)
       => UNCHANGED <<vars, userVars>>
  BY DEF Listen, Redeploy, PeerStep, systemVars
<1> QED BY <1>1, <1>2, <1>3, <1>4, <1>5, <1>6, <1>7, <1>8, <1>9, <1>10
        DEF SystemNext

\* While the manager runs, no hostpath PV is unknown to it: not one that was
\* there before the process, not one that came while no webhook answered or
\* while main waited for its cache, however often the process died, its
\* registration lost a race or a user put another PV in the place of one.
\* Only a PV created while the pipeline of its predecessor runs may be passed
\* over (the handlers and the loop of Start).
THEOREM Remembered == SystemSpec => []NothingForgotten
<1>1. SystemInit => KnownInv
  BY DEF SystemInit, KnownInv, NothingForgotten, PipelineKnown
<1>2. SystemInv /\ KnownInv /\ [SystemNext]_systemVars => KnownInv'
  BY KnownStep
<1>3. KnownInv => NothingForgotten
  BY DEF KnownInv
<1> QED BY <1>1, <1>2, <1>3, SystemInvariant, PTL DEF SystemSpec

-----------------------------------------------------------------------------
(* The registration.                                                       *)

\* The end of a process, at whatever point of its registration, is the end of
\* a replica that is not done any more.
LEMMA RegisteredStep ==
    ASSUME SystemInv, R!DoneMeansRegistered, [SystemNext]_systemVars
    PROVE  R!DoneMeansRegistered'
<1>t. ReplicasType
  BY DEF SystemInv
<1>1. ASSUME NEW r \in Replicas, reg'[r] # "done"
      PROVE  R!DoneMeansRegistered'
  BY <1>1 DEF R!DoneMeansRegistered
<1>2. ASSUME NEW r \in Replicas, R!Dies(r, "down") \/ R!Dies(r, "absent")
      PROVE  R!DoneMeansRegistered'
  BY <1>1, <1>2, <1>t, DiesEffect
<1>3. ASSUME NEW r \in Replicas, R!Launch(r)
      PROVE  R!DoneMeansRegistered'
  BY <1>1, <1>3, <1>t DEF R!Launch, ReplicasType
<1>4. ASSUME UNCHANGED <<config, reg>>
      PROVE  R!DoneMeansRegistered'
  BY <1>4 DEF R!DoneMeansRegistered
<1>5. ASSUME NEW r \in Replicas, Register(r)
      PROVE  R!DoneMeansRegistered'
  <2>1. CASE R!Get(r) \/ R!Delete(r)
    <3>1. \/ R!Dies(r, "down")
          \/ \E step \in {"delete", "create"} : R!Goes(r, step)
      BY <2>1, Zenon DEF R!Get, R!Delete
    <3>2. ASSUME NEW step \in {"delete", "create"}, R!Goes(r, step)
          PROVE  R!DoneMeansRegistered'
      BY <1>1, <3>2, <1>t DEF R!Goes, ReplicasType
    <3> QED BY <1>2, <3>1, <3>2
  <2>2. CASE R!Create(r)
    <3>1. config' = TRUE \/ R!Dies(r, "down")
      BY <2>2, Zenon DEF R!Create
    <3>2. CASE config' = TRUE
      BY <3>2 DEF R!DoneMeansRegistered
    <3> QED BY <1>2, <3>1, <3>2
  <2> QED BY <1>5, <2>1, <2>2 DEF Register
<1>6. ASSUME NEW r \in Replicas, Crash(r)
      PROVE  R!DoneMeansRegistered'
  BY <1>2, <1>6 DEF Crash, R!Crash
<1>7. CASE Terminate \/ Kill
  BY <1>2, <1>4, <1>7, SelfAssumption DEF Terminate, Kill
<1>8. CASE StartMain
  BY <1>3, <1>8, SelfAssumption DEF StartMain
<1>9. ASSUME NEW r \in Replicas, r \in Peers, PeerStep(r)
      PROVE  R!DoneMeansRegistered'
  BY <1>3, <1>4, <1>9 DEF PeerStep, R!Listen
<1>10. CASE Listen \/ ManagerStep \/ \E r \in Replicas : Redeploy(r)
  BY <1>4, <1>10 DEF Listen, R!Listen, ManagerStep, Redeploy, R!CreatePod,
                     webhookVars
<1>11. ASSUME NEW p \in PVNames, ClusterStep(p) \/ CreatePV(p) \/ DeletePV(p)
       PROVE  R!DoneMeansRegistered'
  BY <1>4, <1>11 DEF ClusterStep, CreatePV, DeletePV, webhookVars
<1>12. CASE UNCHANGED systemVars
  BY <1>4, <1>12 DEF systemVars, webhookVars
<1>p. \A r \in Peers : r \in Replicas
  BY DEF Peers
<1> QED BY <1>5, <1>6, <1>7, <1>8, <1>9, <1>10, <1>11, <1>12, <1>p
        DEF SystemNext

\* The replicas are never all done while the webhook is not registered, also
\* when signals and the grace period end their processes in the middle of it
\* (SelfPVMutatingWebHookRegistration beside main's signal handler).
THEOREM RegisteredBesideManager == SystemSpec => []R!DoneMeansRegistered
<1>1. SystemInit => R!DoneMeansRegistered
  BY SelfAssumption DEF SystemInit, R!Init, R!DoneMeansRegistered
<1>2. SystemInv /\ R!DoneMeansRegistered /\ [SystemNext]_systemVars
        => R!DoneMeansRegistered'
  BY RegisteredStep
<1> QED BY <1>1, <1>2, SystemInvariant, PTL DEF SystemSpec

=============================================================================
