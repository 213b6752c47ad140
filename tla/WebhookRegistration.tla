------------------------- MODULE WebhookRegistration -------------------------
(***************************************************************************)
(* The replicas of one admission webhook register themselves with the API  *)
(* server and serve its reviews.  Every replica, when it starts, deletes   *)
(* the configuration it finds and creates it anew; a failure of either is  *)
(* glog.Fatal, and the kubelet starts the container again.  While there is *)
(* no configuration, requests pass unreviewed; while there is one and no   *)
(* replica serves, its failurePolicy decides, for the replicas' own pods   *)
(* too.                                                                    *)
(*                                                                         *)
(* Source: src/pkg/common/config.go, the main.go of each webhook, and the  *)
(* first checks of each admit and Serve.                                   *)
(***************************************************************************)
EXTENDS Naturals, FiniteSets

CONSTANTS
    Replicas,      \* the replicas of the deployment (3 in deploy/)
    Webhook,       \* which of the four webhooks this is
    MaxCrashes,    \* bound: containers and pods that die for other reasons
    MaxRefusals    \* bound: requests of a replica the API server fails

ASSUME ReplicasAssumption == Replicas # {} /\ IsFiniteSet(Replicas)
ASSUME WebhookAssumption ==
    Webhook \in {"nshp", "hppvr", "hppvtocsipv", "podpriority"}
ASSUME BoundsAssumption == MaxCrashes \in Nat /\ MaxRefusals \in Nat

VARIABLES
    config,       \* the webhook configuration exists
    pod,          \* [Replicas -> absent, down (not running), up]
    reg,          \* [Replicas -> where its registration stands]
    serving,      \* replicas whose server listens
    review,       \* what became of the last request the webhook is for
    crashes, refusals

vars == <<config, pod, reg, serving, review, crashes, refusals>>

-----------------------------------------------------------------------------
(* What each webhook registers and what its admit accepts.                 *)

NshpRule ==
    [policy |-> "Fail", selector |-> TRUE, resource |-> "pods",
     operations |-> {"CREATE", "UPDATE"}]

HppvrRule ==
    [policy |-> "Fail", selector |-> TRUE, resource |-> "pods",
     operations |-> {"CREATE"}]

PVRule ==
    [policy |-> "Ignore", selector |-> TRUE,
     resource |-> "persistentvolumes", operations |-> {"CREATE"}]

PodPriorityRule ==
    [policy |-> "Ignore", selector |-> FALSE, resource |-> "pods",
     operations |-> {"CREATE"}]

Rule ==
    CASE Webhook = "nshp" -> NshpRule
      [] Webhook = "hppvr" -> HppvrRule
      [] Webhook = "hppvtocsipv" -> PVRule
      [] Webhook = "podpriority" -> PodPriorityRule

\* Mutant: every admit expects creations only.
AdmitsCreations == {"CREATE"}

\* Operations for which admit does not return nil.
Admits ==
    CASE Webhook \in {"nshp", "hppvr"} -> {"CREATE", "UPDATE"}
      [] Webhook \in {"hppvtocsipv", "podpriority"} -> {"CREATE"}

\* make install labels the namespace of the replicas with the label the
\* selector passes over.
OwnNamespaceLabelled == Webhook \in {"nshp", "hppvr"}

-----------------------------------------------------------------------------
Init ==
    /\ config \in BOOLEAN   \* one may be left from an earlier deployment
    /\ pod = [r \in Replicas |-> "down"]
    /\ reg = [r \in Replicas |-> "start"]
    /\ serving = {} /\ review = "none"
    /\ crashes = 0 /\ refusals = 0

\* The API server refuses a request, or its answer is lost.
Refused == refusals < MaxRefusals /\ refusals' = refusals + 1
Answered == UNCHANGED refusals

\* Mutant: the registration's end leaves the server of the dead process.
DiesServing(r, p) ==
    /\ pod' = [pod EXCEPT ![r] = p]
    /\ reg' = [reg EXCEPT ![r] = "start"]
    /\ UNCHANGED serving

\* The process ends, and with it its server and its registration.
Dies(r, p) ==
    /\ pod' = [pod EXCEPT ![r] = p]
    /\ reg' = [reg EXCEPT ![r] = "start"]
    /\ serving' = serving \ {r}

Goes(r, step) ==
    /\ reg' = [reg EXCEPT ![r] = step]
    /\ UNCHANGED <<pod, serving>>

\* main reads the client CA of the API server first, and dies if it cannot.
StartFails(r) ==
    /\ pod[r] = "down" /\ Refused
    /\ UNCHANGED <<config, pod, reg, serving, review, crashes>>

\* main: certificates, clients and caches are ready; the registration runs in
\* a goroutine beside the server.
Launch(r) ==
    /\ pod[r] = "down"
    /\ pod' = [pod EXCEPT ![r] = "up"]
    /\ reg' = [reg EXCEPT ![r] = "get"]
    /\ UNCHANGED <<config, serving, review, crashes, refusals>>

Listen(r) ==
    /\ pod[r] = "up" /\ r \notin serving
    /\ serving' = serving \cup {r}
    /\ UNCHANGED <<config, pod, reg, review, crashes, refusals>>

\* Get: any error counts as not found.
Get(r) ==
    /\ reg[r] = "get"
    /\ \/ Answered /\ Goes(r, IF config THEN "delete" ELSE "create")
       \/ Refused /\ Goes(r, "create")
    /\ UNCHANGED <<config, review, crashes>>

\* Mutant: an error of Delete is passed over, and so is Create after it.
DeleteQuits(r) ==
    /\ reg[r] = "delete"
    /\ \/ Answered /\ config' = FALSE
          /\ Goes(r, IF config THEN "create" ELSE "done")
       \/ Refused /\ config' \in {config, FALSE} /\ Goes(r, "done")
    /\ UNCHANGED <<review, crashes>>

\* Delete: an error, also NotFound, is glog.Fatal.
Delete(r) ==
    /\ reg[r] = "delete"
    /\ \/ Answered /\ config /\ config' = FALSE /\ Goes(r, "create")
       \/ Answered /\ ~config /\ UNCHANGED config /\ Dies(r, "down")
       \/ Refused /\ config' \in {config, FALSE} /\ Dies(r, "down")
    /\ UNCHANGED <<review, crashes>>

\* Create: an error, also AlreadyExists, is glog.Fatal.
Create(r) ==
    /\ reg[r] = "create"
    /\ \/ Answered /\ ~config /\ config' = TRUE /\ Goes(r, "done")
       \/ Answered /\ config /\ UNCHANGED config /\ Dies(r, "down")
       \/ Refused /\ config' \in {config, TRUE} /\ Dies(r, "down")
    /\ UNCHANGED <<review, crashes>>

-----------------------------------------------------------------------------
(* The cluster.                                                            *)

\* A container dies, or its pod is lost with its node.
Crash(r) ==
    /\ pod[r] # "absent" /\ crashes < MaxCrashes
    /\ crashes' = crashes + 1
    /\ \E p \in {"down", "absent"} : pod[r] # p /\ Dies(r, p)
    /\ UNCHANGED <<config, review, refusals>>

\* Serve of a replica: it answers with what admit returns, and panics on nil.
Serve(operation) == IF operation \in Admits THEN "reviewed" ELSE "aborted"

\* Mutant: no failurePolicy, which v1beta1 takes for Ignore.
UnservedPasses == "unreviewed"

\* Nobody serves: failurePolicy decides.
Unserved == IF Rule.policy = "Fail" THEN "rejected" ELSE "unreviewed"

\* What becomes of a request for the resource: no configuration, or a rule
\* or selector that does not match, lets it pass.
Outcome(operation, exempt) ==
    IF ~config \/ operation \notin Rule.operations \/ exempt THEN "unreviewed"
    ELSE IF serving # {} THEN Serve(operation) ELSE Unserved

\* A user's request for which there is a rule.
Review ==
    /\ \E operation \in Rule.operations : review' = Outcome(operation, FALSE)
    /\ UNCHANGED <<config, pod, reg, serving, crashes, refusals>>

\* Mutant: the configuration has no namespaceSelector.
OwnPodPassesUnselected ==
    Rule.resource = "pods" =>
        Outcome("CREATE", FALSE) \in {"unreviewed", "reviewed"}

\* A replica's own pod is a pod like any other.
OwnPodPasses ==
    Rule.resource = "pods" =>
        Outcome("CREATE", Rule.selector /\ OwnNamespaceLabelled)
            \in {"unreviewed", "reviewed"}

CreatePod(r) ==
    /\ pod[r] = "absent" /\ OwnPodPasses
    /\ pod' = [pod EXCEPT ![r] = "down"]
    /\ UNCHANGED <<config, reg, serving, review, crashes, refusals>>

Replica(r) ==
    StartFails(r) \/ Launch(r) \/ Listen(r) \/ Get(r) \/ Delete(r) \/ Create(r)

Next ==
    \/ \E r \in Replicas : Replica(r) \/ Crash(r) \/ CreatePod(r)
    \/ Review

Spec == Init /\ [][Next]_vars

\* Replicas run, the kubelet starts containers again, and the deployment
\* creates lost pods again.
FairSpec ==
    /\ Spec
    /\ \A r \in Replicas :
          /\ WF_vars(Launch(r)) /\ WF_vars(Listen(r))
          /\ WF_vars(Get(r) \/ Delete(r) \/ Create(r))
          /\ WF_vars(CreatePod(r))

-----------------------------------------------------------------------------
(* Properties.                                                             *)

\* Every variable stays in its range, and what a process holds ends with it.
TypeOK ==
    /\ config \in BOOLEAN
    /\ pod \in [Replicas -> {"absent", "down", "up"}]
    /\ reg \in [Replicas -> {"start", "get", "delete", "create", "done"}]
    /\ serving \subseteq Replicas
    /\ review \in {"none", "reviewed", "unreviewed", "rejected", "aborted"}
    /\ crashes \in Nat /\ refusals \in Nat
    /\ \A r \in Replicas : pod[r] # "up" => reg[r] = "start" /\ r \notin serving

\* When the last replica to delete the configuration has got its turn with
\* Create, or died trying, some replica still owes one: the replicas are
\* never all content while the webhook is not registered.
DoneMeansRegistered == (\A r \in Replicas : reg[r] = "done") => config

\* Whatever a registered rule sends to a replica, its admit answers: Serve
\* dereferences the answer, and nil would be a panic.
NeverAborted == review # "aborted"

\* However the replicas' deletions and creations interleave, and whatever dies
\* in between, in the end all of them serve and the webhook is registered:
\* the races of the registrations cost a finite number of restarts, and
\* failurePolicy Fail never keeps the replicas' own pods out for good.
Settles ==
    <>[](config /\ serving = Replicas /\ \A r \in Replicas : reg[r] = "done")

\* Once every replica has registered, a webhook that fails closed reviews or
\* rejects every request; the gap in which requests pass unreviewed is there
\* only while some replica still owes its registration.
GuardedWhenDone ==
    [][Rule.policy = "Fail" /\ (\A r \in Replicas : reg[r] = "done") /\ review' # review
       => review' # "unreviewed"]_vars

=============================================================================
