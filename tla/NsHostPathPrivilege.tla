------------------------- MODULE NsHostPathPrivilege -------------------------
(***************************************************************************)
(* The webhook nshostpathprivilege: it grants the creation and the update  *)
(* of a pod that uses host paths or privileged containers if the pod's     *)
(* namespace allows it by annotation.  The namespace comes from the cache  *)
(* of an informer, which lags behind the API server, or, when it is not    *)
(* there, from up to three requests.                                       *)
(*                                                                         *)
(* Source: src/pkg/nshostpathprivilege/server.go.                          *)
(***************************************************************************)
EXTENDS Naturals, Sequences, FiniteSets

CONSTANTS
    Pods,          \* the pods of one namespace
    MaxChanges,    \* bound: changes of the namespace
    MaxErrors      \* bound: lookups and reviews that fail

ASSUME ChangesAssumption == MaxChanges \in Nat
ASSUME ErrorsAssumption == MaxErrors \in Nat

\* The two annotations of a namespace, and what they allow in a pod.
Switches == {"hostpath", "privilege"}

\* What the API server stores under the name of the namespace at one time.
Versions == [exists : BOOLEAN, allows : SUBSET Switches]
NoNamespace == [exists |-> FALSE, allows |-> {}]

NumAttempts == 3

VARIABLES
    log,       \* the versions of the namespace so far, the last is current
    cached,    \* the version the informer's cache holds
    needs,     \* [Pods -> what the pod uses]
    running,   \* pods that exist
    step,      \* [Pods -> where the review of its request stands]
    operation, \* [Pods -> of its last request]
    attempts,  \* [Pods -> requests for the namespace that found nothing]
    \* Of the last request: the version cached and the one current when it
    \* came, whether something failed, and what became of it.
    from, since, failed, verdict,
    errors     \* counter of the bound

requestVars == <<from, since, failed>>
vars == <<log, cached, needs, running, step, operation, attempts, requestVars,
          verdict, errors>>

Current == log[Len(log)]
Cached == log[cached]

Init ==
    /\ log \in {<<v>> : v \in {w \in Versions : w.exists}}
    /\ cached = 1   \* main waits for the cache before it serves
    /\ needs \in [Pods -> SUBSET Switches]
    /\ running = {}
    /\ step = [p \in Pods |-> "idle"]
    /\ operation = [p \in Pods |-> "CREATE"]
    /\ attempts = [p \in Pods |-> 0]
    /\ from = [p \in Pods |-> 1] /\ since = [p \in Pods |-> 1]
    /\ failed = [p \in Pods |-> FALSE]
    /\ verdict = [p \in Pods |-> "none"]
    /\ errors = 0

-----------------------------------------------------------------------------
(* The cluster.                                                            *)

\* The namespace is annotated, or created; or deleted, once it has no pods.
ChangeNamespace ==
    /\ Len(log) <= MaxChanges
    /\ \E v \in {w \in Versions : w.exists} \cup {NoNamespace} :
          /\ v # Current
          /\ ~v.exists => running = {}
          /\ log' = Append(log, v)
    /\ UNCHANGED <<cached, needs, running, step, operation, attempts,
                   requestVars, verdict, errors>>

\* The informer takes over the next version.
UpdateCache ==
    /\ cached < Len(log)
    /\ cached' = cached + 1
    /\ UNCHANGED <<log, needs, running, step, operation, attempts, requestVars,
                   verdict, errors>>

\* A pod is created, or updated if it exists; the API server has made sure
\* that the namespace exists.
Ask(p) ==
    /\ step[p] = "idle" /\ Current.exists
    /\ step' = [step EXCEPT ![p] = "cache"]
    /\ operation' = [operation EXCEPT ![p] =
                        IF p \in running THEN "UPDATE" ELSE "CREATE"]
    /\ from' = [from EXCEPT ![p] = cached]
    /\ since' = [since EXCEPT ![p] = Len(log)]
    /\ failed' = [failed EXCEPT ![p] = FALSE]
    /\ verdict' = [verdict EXCEPT ![p] = "none"]
    /\ attempts' = [attempts EXCEPT ![p] = 0]
    /\ UNCHANGED <<log, cached, needs, running, errors>>

-----------------------------------------------------------------------------
(* admit.                                                                  *)

\* admit has its namespace v (NoNamespace for nil) and answers.
Answer(p, granted) ==
    /\ verdict' = [verdict EXCEPT ![p] = IF granted THEN "granted" ELSE "denied"]
    /\ running' = IF granted THEN running \cup {p} ELSE running
    /\ step' = [step EXCEPT ![p] = "idle"]

\* Mutant: the second switch is looked up in a namespace read anew.
ConcludeReadsAgain(p, v) ==
    Answer(p, /\ "hostpath" \in needs[p] => "hostpath" \in v.allows
              /\ "privilege" \in needs[p] => "privilege" \in Current.allows)

\* Mutant: both switches look at the first annotation.
ConcludeOneSwitch(p, v) ==
    Answer(p, needs[p] # {} => "hostpath" \in v.allows)

\* Every switch the pod uses must be allowed; nil allows nothing.
Conclude(p, v) == Answer(p, needs[p] \subseteq v.allows)

\* Mutant: only the cache is asked.
LookInCacheOnly(p) ==
    /\ step[p] = "cache"
    /\ Conclude(p, Cached)
    /\ UNCHANGED <<log, cached, needs, operation, attempts, requestVars, errors>>

\* getNamespace: the cache has the namespace, or it is to be requested.
LookInCache(p) ==
    /\ step[p] = "cache"
    /\ \/ Cached.exists /\ Conclude(p, Cached)
       \/ /\ ~Cached.exists
          /\ step' = [step EXCEPT ![p] = "direct"]
          /\ UNCHANGED <<running, verdict>>
    /\ UNCHANGED <<log, cached, needs, operation, attempts, requestVars, errors>>

\* Mutant: one request too many.
RequestOnceMore(p) ==
    /\ step[p] = "direct"
    /\ \/ /\ Current.exists
          /\ Conclude(p, Current)
          /\ UNCHANGED <<attempts, failed, errors>>
       \/ /\ ~Current.exists
          /\ attempts' = [attempts EXCEPT ![p] = @ + 1]
          /\ IF attempts'[p] <= NumAttempts
             THEN UNCHANGED <<step, running, verdict>>
             ELSE Conclude(p, NoNamespace)
          /\ UNCHANGED <<failed, errors>>
       \/ /\ errors < MaxErrors /\ errors' = errors + 1
          /\ failed' = [failed EXCEPT ![p] = TRUE]
          /\ Conclude(p, NoNamespace)
          /\ UNCHANGED attempts
    /\ UNCHANGED <<log, cached, needs, operation, from, since>>

\* getNamespace: one of the requests.  NotFound is repeated, up to three
\* times; any other error ends the lookup with nil.
Request(p) ==
    /\ step[p] = "direct"
    /\ \/ /\ Current.exists
          /\ Conclude(p, Current)
          /\ UNCHANGED <<attempts, failed, errors>>
       \/ /\ ~Current.exists
          /\ attempts' = [attempts EXCEPT ![p] = @ + 1]
          /\ IF attempts'[p] < NumAttempts
             THEN UNCHANGED <<step, running, verdict>>
             ELSE Conclude(p, NoNamespace)
          /\ UNCHANGED <<failed, errors>>
       \/ /\ errors < MaxErrors /\ errors' = errors + 1
          /\ failed' = [failed EXCEPT ![p] = TRUE]
          /\ Conclude(p, NoNamespace)
          /\ UNCHANGED attempts
    /\ UNCHANGED <<log, cached, needs, operation, from, since>>

\* Serve: the review is answered with an error status, or not at all because
\* the replica dies or takes too long.  failurePolicy Fail denies the request.
Unanswered(p) ==
    /\ step[p] # "idle" /\ errors < MaxErrors /\ errors' = errors + 1
    /\ failed' = [failed EXCEPT ![p] = TRUE]
    /\ Answer(p, FALSE)
    /\ UNCHANGED <<log, cached, needs, operation, attempts, from, since>>

Next ==
    \/ ChangeNamespace \/ UpdateCache
    \/ \E p \in Pods : Ask(p) \/ LookInCache(p) \/ Request(p) \/ Unanswered(p)

Spec == Init /\ [][Next]_vars

\* The informer and the handlers run, and whoever wants the pod asks again.
FairSpec ==
    /\ Spec
    /\ WF_vars(UpdateCache)
    /\ \A p \in Pods : WF_vars(Ask(p)) /\ WF_vars(LookInCache(p) \/ Request(p))

-----------------------------------------------------------------------------
(* Properties.                                                             *)

\* Every variable stays in its range; the cache is never ahead, and there are
\* no more than three requests for the namespace.
TypeOK ==
    /\ log \in Seq(Versions)
    /\ cached \in 1 .. Len(log)
    /\ needs \in [Pods -> SUBSET Switches]
    /\ running \subseteq Pods
    /\ step \in [Pods -> {"idle", "cache", "direct"}]
    /\ operation \in [Pods -> {"CREATE", "UPDATE"}]
    /\ attempts \in [Pods -> 0 .. NumAttempts]
    /\ \A p \in Pods : step[p] # "idle" => attempts[p] < NumAttempts
    /\ from \in [Pods -> Nat] /\ since \in [Pods -> Nat]
    /\ failed \in [Pods -> BOOLEAN]
    /\ verdict \in [Pods -> {"none", "granted", "denied"}]
    /\ errors \in Nat

\* A pod is granted only what one version of its namespace allows, all at
\* once, and a version no older than the cache was when the request came.
GrantBacked ==
    \A p \in Pods :
        verdict[p] = "granted" /\ needs[p] # {} =>
            \E i \in from[p] .. Len(log) : needs[p] \subseteq log[i].allows

\* A pod is denied only because such a version of the namespace did not
\* allow it, because the namespace did not exist at some time since the
\* request came, or because the lookup or the review failed: never because
\* the cache has not got the namespace yet.
DenialBacked ==
    \A p \in Pods :
        verdict[p] = "denied" =>
            \/ failed[p]
            \/ \E i \in from[p] .. Len(log) :
                  log[i].exists /\ ~(needs[p] \subseteq log[i].allows)
            \/ \E i \in since[p] .. Len(log) : ~log[i].exists

\* A pod its namespace goes on to allow is created in the end.
AllowedPodsCreated ==
    \A p \in Pods :
        <>[](Current.exists /\ needs[p] \subseteq Current.allows) => <>(p \in running)

\* An annotation that changes leaves the pods that exist unaffected: their
\* updates are granted.
ExistingPodsUnaffected ==
    \A p \in Pods : operation[p] = "UPDATE" => verdict[p] # "denied"

=============================================================================
