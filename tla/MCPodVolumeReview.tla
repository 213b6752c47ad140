-------------------------- MODULE MCPodVolumeReview --------------------------
(* Instances of PodVolumeReview for TLC: the names the .cfg files give.    *)
EXTENDS PodVolumeReview

OnePod == {"web"}

\* An application's pods with every list of claims, critical or not; one with
\* a class of its own; and one of the system's.
SomeSpecs ==
    {s \in Specs :
        \/ s.namespace = "app" /\ ~s.named
        \/ s = [namespace |-> "app", critical |-> "", named |-> TRUE,
                claims |-> <<"logs", "data">>]
        \/ s = [namespace |-> "kube-system", critical |-> "", named |-> FALSE,
                claims |-> <<"logs", "data">>]}

OnePriorityServer == {"podpriority-0"}
OneSchedulerServer == {"hppvr-0"}

=============================================================================
