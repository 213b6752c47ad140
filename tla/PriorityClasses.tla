--------------------------- MODULE PriorityClasses ---------------------------
(***************************************************************************)
(* The replicas of podpriority start: each goes through the list of        *)
(* priority classes and creates those it does not find and updates those   *)
(* it finds, before it fills its caches and serves.  Any error on the way  *)
(* is glog.Fatal, and the kubelet starts the container again.              *)
(*                                                                         *)
(* Source: src/pkg/podpriority/main.go.                                    *)
(***************************************************************************)
EXTENDS Naturals, FiniteSets

CONSTANTS
    Replicas,      \* the replicas of the deployment (3 in deploy/)
    NumClasses,    \* length of PreCreatePriorityClassList (5 in the code)
    Foreign,       \* classes that may exist with a value of their own
    MaxCrashes,    \* bound: containers that die for other reasons
    MaxRefusals,   \* bound: requests of a replica the API server fails
    MaxDeletions   \* bound: classes an administrator deletes

ASSUME ReplicasAssumption == IsFiniteSet(Replicas)
ASSUME ClassesAssumption == NumClasses \in Nat \ {0}
ASSUME ForeignAssumption == Foreign \subseteq 1 .. NumClasses
ASSUME BoundsAssumption ==
    MaxCrashes \in Nat /\ MaxRefusals \in Nat /\ MaxDeletions \in Nat

Classes == 1 .. NumClasses

VARIABLES
    stored,    \* [Classes -> absent, with the value of the list, with another]
    deleted,   \* [Replicas -> classes deleted since the replica was started]
    pc,        \* [Replicas -> where the replica's main stands]
    class,     \* [Replicas -> the class it is at]
    crashes, refusals, deletions

vars == <<stored, deleted, pc, class, crashes, refusals, deletions>>

Init ==
    /\ stored \in {s \in [Classes -> {"absent", "listed", "other"}] :
                      \A c \in Classes : s[c] = "other" => c \in Foreign}
    /\ deleted = [r \in Replicas |-> {}]
    /\ pc = [r \in Replicas |-> "down"]
    /\ class = [r \in Replicas |-> 1]
    /\ crashes = 0 /\ refusals = 0 /\ deletions = 0

Goes(r, step) == pc' = [pc EXCEPT ![r] = step] /\ UNCHANGED class

\* glog.Fatal.
Fatal(r) == Goes(r, "down")

\* The API server fails a request, or its answer is lost.
Refused(r) == refusals < MaxRefusals /\ refusals' = refusals + 1 /\ Fatal(r)

-----------------------------------------------------------------------------
Launch(r) ==
    /\ pc[r] = "down"
    /\ pc' = [pc EXCEPT ![r] = "get"]
    /\ class' = [class EXCEPT ![r] = 1]
    /\ deleted' = [deleted EXCEPT ![r] = {}]
    /\ UNCHANGED <<stored, crashes, refusals, deletions>>

\* Mutant: the loop goes past the end of the list.
ContinuesTooFar(r) ==
    IF class[r] <= NumClasses
    THEN pc' = [pc EXCEPT ![r] = "get"] /\ class' = [class EXCEPT ![r] = @ + 1]
    ELSE Goes(r, "sync")

\* The loop goes on to the next class, or ends.
Continues(r) ==
    IF class[r] < NumClasses
    THEN pc' = [pc EXCEPT ![r] = "get"] /\ class' = [class EXCEPT ![r] = @ + 1]
    ELSE Goes(r, "sync")

\* Mutant: the class is created without a look.
GetClassNot(r) ==
    /\ pc[r] = "get"
    /\ Goes(r, "create")
    /\ UNCHANGED <<stored, deleted, crashes, refusals, deletions>>

\* Get: NotFound leads to Create, success to Update, anything else is fatal.
GetClass(r) ==
    /\ pc[r] = "get"
    /\ \/ /\ Goes(r, IF stored[class[r]] = "absent" THEN "create" ELSE "update")
          /\ UNCHANGED refusals
       \/ Refused(r)
    /\ UNCHANGED <<stored, deleted, crashes, deletions>>

\* Create: AlreadyExists is fatal like any other error.
CreateClass(r) ==
    /\ pc[r] = "create"
    /\ LET created == [stored EXCEPT ![class[r]] = "listed"]
           absent == stored[class[r]] = "absent"
       IN  \/ absent /\ stored' = created /\ Continues(r) /\ UNCHANGED refusals
           \/ ~absent /\ UNCHANGED <<stored, refusals>> /\ Fatal(r)
           \/ Refused(r) /\ stored' \in {stored, IF absent THEN created ELSE stored}
    /\ UNCHANGED <<deleted, crashes, deletions>>

\* Mutant: the error of Update is dropped.
UpdateClassLoose(r) ==
    /\ pc[r] = "update"
    /\ Continues(r)
    /\ UNCHANGED <<stored, deleted, crashes, refusals, deletions>>

\* Update: the API server lets the value of a class not be changed, and
\* finds nothing if the class has been deleted.  Either is fatal.
UpdateClass(r) ==
    /\ pc[r] = "update"
    /\ \/ /\ IF stored[class[r]] = "listed" THEN Continues(r) ELSE Fatal(r)
          /\ UNCHANGED refusals
       \/ Refused(r)
    /\ UNCHANGED <<stored, deleted, crashes, deletions>>

\* WaitForCacheSync returns, and the server starts.
Serve(r) ==
    /\ pc[r] = "sync" /\ Goes(r, "serve")
    /\ UNCHANGED <<stored, deleted, crashes, refusals, deletions>>

-----------------------------------------------------------------------------
Crash(r) ==
    /\ crashes < MaxCrashes /\ pc[r] # "down"
    /\ crashes' = crashes + 1
    /\ Fatal(r)
    /\ UNCHANGED <<stored, deleted, refusals, deletions>>

\* An administrator deletes a class.
DeleteClass(c) ==
    /\ deletions < MaxDeletions /\ stored[c] # "absent"
    /\ deletions' = deletions + 1
    /\ stored' = [stored EXCEPT ![c] = "absent"]
    /\ deleted' = [r \in Replicas |-> deleted[r] \cup {c}]
    /\ UNCHANGED <<pc, class, crashes, refusals>>

Replica(r) ==
    Launch(r) \/ GetClass(r) \/ CreateClass(r) \/ UpdateClass(r) \/ Serve(r)

Next ==
    \/ \E r \in Replicas : Replica(r) \/ Crash(r)
    \/ \E c \in Classes : DeleteClass(c)

Spec == Init /\ [][Next]_vars

\* The replicas run, and the kubelet starts them again.
FairSpec == Spec /\ \A r \in Replicas : WF_vars(Replica(r))

-----------------------------------------------------------------------------
(* Properties.                                                             *)

\* Every variable stays in its range.
TypeOK ==
    /\ stored \in [Classes -> {"absent", "listed", "other"}]
    /\ deleted \in [Replicas -> SUBSET Classes]
    /\ pc \in [Replicas -> {"down", "get", "create", "update", "sync", "serve"}]
    /\ class \in [Replicas -> Classes]
    /\ crashes \in Nat /\ refusals \in Nat /\ deletions \in Nat

\* A replica serves, and puts the names and values of the list into pods,
\* only when every class exists with the value of the list: also what an
\* administrator deleted is there again, unless it was deleted after this
\* replica was started.
ServedClassesExist ==
    \A r \in Replicas : pc[r] = "serve" =>
        \A c \in Classes \ deleted[r] : stored[c] = "listed"

\* However the replicas' requests interleave, the races they lose cost a
\* finite number of restarts: in the end all serve, unless some class was
\* there with another value, which no replica can change.
AllServe ==
    (\A c \in Classes : stored[c] # "other")
        => <>[](\A r \in Replicas : pc[r] = "serve")

=============================================================================
