---------------------------- MODULE UpgradeSystem ----------------------------
(***************************************************************************)
(* One replica of hppvtocsipv as a whole, beside its peers: main starts    *)
(* the registration of the webhook and the PVUpdateManager, installs the   *)
(* signal handler and only then listens; whatever ends the process ends    *)
(* all of them.  The webhook reviews the PVs that users create, and the    *)
(* manager takes up what no review has changed: the old PVs, those created *)
(* while nobody answered, and those it was told to ignore.                 *)
(*                                                                         *)
(* Source: src/pkg/hppvtocsipv/main.go and server.go.  The variables of    *)
(* the manager are those of PVUpdateManager, those of the webhook are      *)
(* shared with an instance of WebhookRegistration.                         *)
(***************************************************************************)
EXTENDS PVUpdateManager

CONSTANTS
    Replicas,      \* the replicas of hppvtocsipv
    Self,          \* the replica whose manager is modelled
    MaxRefusals,   \* bound: requests of the registrations that fail
    MaxCreations   \* bound: PVs that users delete and create again

ASSUME SelfAssumption == Self \in Replicas /\ IsFiniteSet(Replicas)
ASSUME SystemBoundAssumption == MaxRefusals \in Nat /\ MaxCreations \in Nat

VARIABLES
    config, pod, reg, serving, refusals,   \* see WebhookRegistration
    leaving,       \* the pod of Self is told to terminate
    creations,     \* counter of the bound
    overtaken      \* PVs created while a pipeline for the name was running

R == INSTANCE WebhookRegistration WITH
    Webhook <- "hppvtocsipv", MaxCrashes <- MaxDeaths, crashes <- deaths,
    review <- "none"

webhookVars == <<config, pod, reg, serving, refusals>>
managerVars == <<events, waiting, sending, queue, loop, pv, running, stopped,
                 failures, tried>>
userVars == <<creations, overtaken>>
systemVars == <<vars, webhookVars, leaving, userVars>>

Peers == Replicas \ {Self}

SystemInit ==
    /\ source = [p \in PVNames |-> "hostpath"]
    /\ lock = [p \in PVNames |-> "free"]
    /\ events = <<>> /\ waiting = {} /\ sending = NoPV /\ queue = <<>>
    /\ loop = "down" /\ pv = NoPV /\ running = FALSE /\ stopped = FALSE
    /\ failures = 0 /\ touches = 0 /\ tried = {}
    /\ R!Init
    /\ leaving = FALSE /\ creations = 0 /\ overtaken = {}

-----------------------------------------------------------------------------
(* main.                                                                   *)

\* Certificates and clients are there: the registration begins in its own
\* goroutine, and updateManager.Start in this one.
StartMain ==
    /\ R!Launch(Self)
    /\ Begins
    /\ UNCHANGED <<leaving, userVars>>

\* Mutant: Start runs the loop itself instead of in a goroutine.
ListenAfterLoop ==
    /\ R!Listen(Self)
    /\ loop = "done"
    /\ UNCHANGED <<vars, leaving, userVars>>

\* When Start has returned, main installs the signal handler and listens.
Listen ==
    /\ R!Listen(Self)
    /\ loop \notin {"down", "sync"}
    /\ UNCHANGED <<vars, leaving, userVars>>

-----------------------------------------------------------------------------
(* The ends of a process.                                                  *)

\* What a step of the replicas means for Self: when its process or its pod is
\* no more what it was, all that the process held is gone.
SelfFollows ==
    LET mark == IF pod'[Self] = "absent" THEN "dead" ELSE "left"
    IN  IF pod[Self] = pod'[Self]
        THEN UNCHANGED <<source, lock, touches, managerVars, leaving>>
        ELSE /\ Ends(mark)
             /\ leaving' = (leaving /\ pod'[Self] # "absent")

\* Mutant: the process outlives an error of its registration.
RegisterAlone(r) ==
    /\ R!Get(r) \/ R!Delete(r) \/ R!Create(r)
    /\ UNCHANGED <<vars, leaving, userVars>>

\* A step of a replica's registration; each of its errors is fatal.
Register(r) ==
    /\ R!Get(r) \/ R!Delete(r) \/ R!Create(r)
    /\ SelfFollows
    /\ UNCHANGED <<deaths, userVars>>

\* A container dies, or a pod is lost.
Crash(r) == R!Crash(r) /\ SelfFollows /\ UNCHANGED userVars

\* The kubelet sends SIGTERM.  Before signal.Notify it ends the process, and
\* the pod does not survive it.  After it the runtime offers the signal to the
\* unbuffered channel: it reaches Stop if the goroutine is at its receive, and
\* is dropped if not.
Terminate ==
    /\ pod[Self] = "up" /\ ~leaving /\ deaths < MaxDeaths
    /\ \/ /\ Self \notin serving /\ R!Dies(Self, "absent") /\ SelfFollows
          /\ deaths' = deaths + 1
       \/ /\ Self \in serving /\ leaving' = TRUE
          /\ Stop \/ UNCHANGED vars
          /\ UNCHANGED <<pod, reg, serving>>
    /\ UNCHANGED <<config, refusals, userVars>>

\* SIGKILL at the end of the grace period: main does not end by itself.
Kill ==
    /\ leaving
    /\ deaths' = deaths + 1
    /\ R!Dies(Self, "absent")
    /\ SelfFollows
    /\ UNCHANGED <<config, refusals, userVars>>

-----------------------------------------------------------------------------
(* The users.                                                              *)

\* What is stored of a hostpath PV for which the outcome of the review is o:
\* admit changes its source, unless the PV asks to be ignored.
Stored(o, ignored) ==
    IF o = "reviewed" /\ ~ignored THEN "csi" ELSE "hostpath"

\* A user creates a hostpath PV under a name that is free; its review may stay
\* unanswered, which the failurePolicy forgives.
CreatePV(p) ==
    /\ source[p] = "none" /\ creations < MaxCreations
    /\ creations' = creations + 1
    /\ \E o \in {R!Outcome("CREATE", FALSE), "unreviewed"}, ignored \in BOOLEAN :
          /\ source' = [source EXCEPT ![p] = Stored(o, ignored)]
          /\ Notify(p, source'[p])
    /\ tried' = tried \ {p}
    /\ overtaken' = IF p = pv THEN overtaken \cup {p} ELSE overtaken \ {p}
    /\ UNCHANGED <<lock, touches, deaths, waiting, sending, queue, loop, pv,
                   running, stopped, failures, config, pod, reg, serving,
                   refusals, leaving>>

\* A user deletes a PV, at any time.
DeletePV(p) ==
    /\ source[p] # "none" /\ creations < MaxCreations
    /\ source' = [source EXCEPT ![p] = "none"]
    /\ lock' = [lock EXCEPT ![p] = "free"]
    /\ UNCHANGED <<touches, deaths, managerVars, webhookVars, leaving, userVars>>

-----------------------------------------------------------------------------
ManagerStep ==
    /\ Manager
    /\ UNCHANGED <<webhookVars, leaving, userVars>>

ClusterStep(p) ==
    /\ Touch(p) \/ LeaseExpires(p)
    /\ UNCHANGED <<webhookVars, leaving, userVars>>

PeerStep(r) ==
    /\ R!Launch(r) \/ R!Listen(r)
    /\ UNCHANGED <<vars, leaving, userVars>>

Redeploy(r) ==
    /\ R!CreatePod(r)
    /\ UNCHANGED <<vars, leaving, userVars>>

SystemNext ==
    \/ ManagerStep \/ StartMain \/ Listen \/ Terminate \/ Kill
    \/ \E r \in Replicas : Register(r) \/ Crash(r) \/ Redeploy(r)
    \/ \E r \in Peers : PeerStep(r)
    \/ \E p \in PVNames : ClusterStep(p) \/ CreatePV(p) \/ DeletePV(p)

SystemSpec == SystemInit /\ [][SystemNext]_systemVars

\* Goroutines run, the kubelet ends what it has told to end and starts what
\* has ended, and the deployment replaces pods.
FairSystemSpec ==
    /\ SystemSpec
    /\ WF_systemVars(ManagerStep /\ Handle) /\ WF_systemVars(ManagerStep /\ Send)
    /\ WF_systemVars(ManagerStep /\ Loop)
    /\ WF_systemVars(StartMain \/ Listen \/ Kill)
    /\ \A r \in Replicas : WF_systemVars(Register(r) \/ Redeploy(r))
    /\ \A r \in Peers : WF_systemVars(PeerStep(r))

-----------------------------------------------------------------------------
(* Properties.                                                             *)

\* The manager lives exactly as long as the process, and what only a process
\* that has installed its handler can have is there only then.  The next
\* process finds nothing of the last one's.
SystemTypeOK ==
    /\ TypeOK
    /\ loop = "down" <=> pod[Self] # "up"
    /\ loop = "down" => events = <<>> /\ waiting = {}
    /\ Self \in serving => loop \notin {"down", "sync"}
    /\ stopped => leaving
    /\ leaving \in BOOLEAN /\ creations \in Nat /\ overtaken \subseteq PVNames

\* A hostpath PV announced to the handler but not yet handed over.
Announced(p) ==
    \E i \in 1 .. Len(events) : events[i] = Event(p, "hostpath")

\* While the manager runs, it has come to every hostpath PV or is going to:
\* no PV that the webhook let through, in a gap of the registrations, while
\* main waited for its cache or because its review went unanswered, is known
\* to nobody.  The exception is a PV created while the pipeline of its
\* predecessor runs: the handler drops its event.
NothingForgotten ==
    loop # "down" /\ ~stopped =>
        \A p \in PVNames :
            source[p] = "hostpath" =>
                p \in waiting \cup tried \cup overtaken \/ Announced(p)

\* And it comes to each, whatever the registration of the webhook, a signal
\* or a crash makes of the process.
EveryVolumeTried ==
    \A p \in PVNames :
        source[p] = "hostpath" ~>
            source[p] # "hostpath" \/ p \in tried \cup overtaken

\* The upgrade keeps nobody from registering and serving: in the end every
\* replica does, and stays so.
Settles == R!Settles

=============================================================================
