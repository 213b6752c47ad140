------------------------ MODULE PriorityClassesProofs ------------------------
(***************************************************************************)
(* A replica of podpriority serves only when the classes exist, for any    *)
(* number of replicas and of classes.                                      *)
(***************************************************************************)
EXTENDS PriorityClasses, TLAPS

\* The classes a replica has behind it.
Passed(r) ==
    CASE pc[r] = "down" -> {}
      [] pc[r] \in {"get", "create", "update"} -> 1 .. class[r] - 1
      [] pc[r] \in {"sync", "serve"} -> Classes

\* What a replica has behind it exists, unless it was deleted meanwhile.
PassedExist ==
    \A r \in Replicas : \A c \in Passed(r) \ deleted[r] : stored[c] = "listed"

ClassInv == TypeOK /\ PassedExist

-----------------------------------------------------------------------------
LEMMA GoesTyped ==
    ASSUME TypeOK, NEW r \in Replicas, NEW step, Goes(r, step),
           step \in {"down", "get", "create", "update", "sync", "serve"}
    PROVE  /\ pc' \in [Replicas -> {"down", "get", "create", "update", "sync", "serve"}]
           /\ class' \in [Replicas -> Classes]
  BY DEF Goes, TypeOK

LEMMA ContinuesTyped ==
    ASSUME TypeOK, NEW r \in Replicas, Continues(r)
    PROVE  /\ pc' \in [Replicas -> {"down", "get", "create", "update", "sync", "serve"}]
           /\ class' \in [Replicas -> Classes]
  <1>1. CASE class[r] < NumClasses
    BY <1>1, ClassesAssumption DEF Continues, TypeOK, Classes
  <1>2. CASE Goes(r, "sync")
    BY <1>2, GoesTyped
  <1> QED
    BY <1>1, <1>2 DEF Continues

LEMMA TypeStep == TypeOK /\ [Next]_vars => TypeOK'
  <1> SUFFICES ASSUME TypeOK, [Next]_vars
               PROVE  TypeOK'
    OBVIOUS
  <1>n. \A r \in Replicas : class[r] \in Classes
    BY DEF TypeOK
  <1>1. ASSUME NEW r \in Replicas, Launch(r)
        PROVE  TypeOK'
    BY <1>1, ClassesAssumption DEF Launch, TypeOK, Classes
  <1>2. ASSUME NEW r \in Replicas, GetClass(r)
        PROVE  TypeOK'
    <2>1. Goes(r, "create") \/ Goes(r, "update") \/ Goes(r, "down")
      BY <1>2 DEF GetClass, Refused, Fatal
    <2>2. refusals' \in Nat
      BY <1>2 DEF GetClass, Refused, TypeOK
    <2> QED
      BY <1>2, <2>1, <2>2, GoesTyped DEF GetClass, TypeOK
  <1>3. ASSUME NEW r \in Replicas, CreateClass(r)
        PROVE  TypeOK'
    <2>1. Continues(r) \/ Goes(r, "down")
      BY <1>3 DEF CreateClass, Refused, Fatal
    <2>2. refusals' \in Nat
      BY <1>3 DEF CreateClass, Refused, TypeOK
    <2>3. stored' \in [Classes -> {"absent", "listed", "other"}]
      BY <1>3, <1>n DEF CreateClass, TypeOK
    <2> QED
      BY <1>3, <2>1, <2>2, <2>3, GoesTyped, ContinuesTyped DEF CreateClass, TypeOK
  <1>4. ASSUME NEW r \in Replicas, UpdateClass(r)
        PROVE  TypeOK'
    <2>1. Continues(r) \/ Goes(r, "down")
      BY <1>4 DEF UpdateClass, Refused, Fatal
    <2>2. refusals' \in Nat
      BY <1>4 DEF UpdateClass, Refused, TypeOK
    <2> QED
      BY <1>4, <2>1, <2>2, GoesTyped, ContinuesTyped DEF UpdateClass, TypeOK
  <1>5. ASSUME NEW r \in Replicas, Serve(r) \/ Crash(r)
        PROVE  TypeOK'
    <2>1. Goes(r, "serve") \/ Goes(r, "down")
      BY <1>5 DEF Serve, Crash, Fatal
    <2>2. crashes' \in Nat /\ UNCHANGED <<stored, deleted, refusals, deletions>>
      BY <1>5 DEF Serve, Crash, TypeOK
    <2> QED
      BY <2>1, <2>2, GoesTyped DEF TypeOK
  <1>6. ASSUME NEW c \in Classes, DeleteClass(c)
        PROVE  TypeOK'
    BY <1>6 DEF DeleteClass, TypeOK
  <1>7. CASE UNCHANGED vars
    BY <1>7 DEF vars, TypeOK
  <1> QED
    BY <1>1, <1>2, <1>3, <1>4, <1>5, <1>6, <1>7 DEF Next, Replica

LEMMA InitTypeOK == Init => TypeOK
  BY ClassesAssumption DEF Init, TypeOK, Classes

\* Every variable stays in its range.
THEOREM TypeCorrect == Spec => []TypeOK
  BY InitTypeOK, TypeStep, PTL DEF Spec

-----------------------------------------------------------------------------
LEMMA PassedSubset ==
    ASSUME ClassInv, NEW r \in Replicas
    PROVE  Passed(r) \subseteq Classes
  BY ClassesAssumption DEF ClassInv, TypeOK, Passed, Classes

\* The step of one replica r keeps the invariant if it takes no class from
\* the store and r has got behind it only what exists.
LEMMA ReplicaKeeps ==
    ASSUME ClassInv, NEW r \in Replicas,
           \A q \in Replicas \ {r} : deleted'[q] = deleted[q],
           \A c \in Classes : stored[c] = "listed" => stored'[c] = "listed",
           \A q \in Replicas \ {r} : pc'[q] = pc[q] /\ class'[q] = class[q],
           Passed(r)' \subseteq Classes,
           \A c \in Passed(r)' \ deleted'[r] : stored'[c] = "listed"
    PROVE  PassedExist'
  <1> SUFFICES ASSUME NEW q \in Replicas, NEW c \in Passed(q)' \ deleted'[q]
               PROVE  stored'[c] = "listed"
    BY DEF PassedExist
  <1>1. CASE q = r
    BY <1>1
  <1>2. CASE q # r
    <2>1. Passed(q)' = Passed(q)
      BY <1>2 DEF Passed
    <2>2. Passed(q) \subseteq Classes
      BY PassedSubset
    <2> QED
      BY <2>1, <2>2 DEF ClassInv, PassedExist
  <1> QED
    BY <1>1, <1>2

\* A replica that dies has nothing behind it.
LEMMA FatalKeeps ==
    ASSUME ClassInv, NEW r \in Replicas, Fatal(r), UNCHANGED deleted,
           \A c \in Classes : stored[c] = "listed" => stored'[c] = "listed"
    PROVE  PassedExist'
  <1>1. Passed(r)' = {}
    BY DEF Fatal, Goes, ClassInv, TypeOK, Passed
  <1>2. \A q \in Replicas \ {r} : pc'[q] = pc[q] /\ class'[q] = class[q]
    BY DEF Fatal, Goes, ClassInv, TypeOK
  <1> QED
    BY <1>1, <1>2, ReplicaKeeps

\* A replica goes on when the class it is at exists.
LEMMA ContinuesKeeps ==
    ASSUME ClassInv, NEW r \in Replicas, Continues(r), UNCHANGED deleted,
           pc[r] \in {"create", "update"}, stored'[class[r]] = "listed",
           \A c \in Classes : stored[c] = "listed" => stored'[c] = "listed"
    PROVE  PassedExist'
  <1> USE ClassesAssumption DEF ClassInv, TypeOK
  <1>1. \A q \in Replicas \ {r} : pc'[q] = pc[q] /\ class'[q] = class[q]
    BY DEF Continues, Goes
  <1>2. class[r] \in 1 .. NumClasses
    BY DEF Classes
  <1>3. Passed(r) = 1 .. class[r] - 1
    BY DEF Passed
  <1>4. Passed(r)' = 1 .. class[r]
    <2>1. CASE class[r] < NumClasses
      BY <1>2, <2>1 DEF Continues, Passed
    <2>2. CASE class[r] = NumClasses
      BY <1>2, <2>2 DEF Continues, Goes, Passed, Classes
    <2> QED
      BY <1>2, <2>1, <2>2
  <1>5. ASSUME NEW c \in 1 .. class[r], c \notin deleted[r]
        PROVE  stored'[c] = "listed"
    <2>1. CASE c = class[r]
      BY <2>1
    <2>2. CASE c \in 1 .. class[r] - 1
      BY <1>2, <1>3, <1>5, <2>2 DEF PassedExist, Classes
    <2> QED
      BY <1>2, <2>1, <2>2
  <1>6. 1 .. class[r] \subseteq Classes
    BY <1>2 DEF Classes
  <1> QED
    BY <1>1, <1>4, <1>5, <1>6, ReplicaKeeps

LEMMA ClassStep == ClassInv /\ [Next]_vars => PassedExist'
  <1> SUFFICES ASSUME ClassInv, [Next]_vars
               PROVE  PassedExist'
    OBVIOUS
  <1>t. TypeOK /\ PassedExist
    BY DEF ClassInv
  <1>n. \A r \in Replicas : class[r] \in 1 .. NumClasses
    BY <1>t DEF TypeOK, Classes
  <1>1. ASSUME NEW r \in Replicas, Launch(r)
        PROVE  PassedExist'
    <2>1. Passed(r)' = {}
      BY <1>1, <1>t DEF Launch, Passed, TypeOK
    <2>2. \A q \in Replicas \ {r} : /\ pc'[q] = pc[q] /\ class'[q] = class[q]
                                    /\ deleted'[q] = deleted[q]
      BY <1>1, <1>t DEF Launch, TypeOK
    <2> QED
      BY <1>1, <2>1, <2>2, ReplicaKeeps DEF Launch
  <1>2. ASSUME NEW r \in Replicas, GetClass(r)
        PROVE  PassedExist'
    <2>1. CASE Fatal(r)
      BY <1>2, <2>1, FatalKeeps DEF GetClass
    <2>2. CASE Goes(r, "create") \/ Goes(r, "update")
      <3>1. pc[r] = "get" /\ pc'[r] \in {"create", "update"} /\ class' = class
        BY <1>2, <2>2, <1>t DEF GetClass, Goes, TypeOK
      <3>3. Passed(r)' = Passed(r)
        BY <3>1 DEF Passed
      <3>4. Passed(r) \subseteq Classes
        BY PassedSubset
      <3>2. \A q \in Replicas \ {r} : pc'[q] = pc[q] /\ class'[q] = class[q]
        BY <2>2, <1>t DEF Goes, TypeOK
      <3> QED
        BY <1>2, <3>2, <3>3, <3>4, <1>t, ReplicaKeeps DEF GetClass, PassedExist
    <2> QED
      BY <1>2, <2>1, <2>2 DEF GetClass, Refused
  <1>3. ASSUME NEW r \in Replicas, CreateClass(r)
        PROVE  PassedExist'
    <2>1. /\ \A c \in Classes : stored[c] = "listed" => stored'[c] = "listed"
          /\ UNCHANGED deleted /\ pc[r] = "create"
      BY <1>3, <1>t DEF CreateClass, TypeOK
    <2>2. CASE Fatal(r)
      BY <2>1, <2>2, FatalKeeps
    <2>3. CASE /\ Continues(r)
               /\ stored' = [stored EXCEPT ![class[r]] = "listed"]
      <3>1. stored'[class[r]] = "listed"
        BY <2>3, <1>t, <1>n DEF TypeOK, Classes
      <3> QED
        BY <2>1, <2>3, <3>1, ContinuesKeeps
    <2> QED
      BY <1>3, <2>2, <2>3 DEF CreateClass, Refused
  <1>4. ASSUME NEW r \in Replicas, UpdateClass(r)
        PROVE  PassedExist'
    <2>1. CASE Fatal(r)
      BY <1>4, <2>1, FatalKeeps DEF UpdateClass
    <2>2. CASE Continues(r) /\ stored[class[r]] = "listed"
      BY <1>4, <2>2, ContinuesKeeps DEF UpdateClass
    <2> QED
      BY <1>4, <2>1, <2>2 DEF UpdateClass, Refused
  <1>5. ASSUME NEW r \in Replicas, Serve(r)
        PROVE  PassedExist'
    <2>1. Passed(r)' = Classes /\ Passed(r) = Classes
      BY <1>5, <1>t DEF Serve, Goes, Passed, TypeOK, Classes
    <2>2. \A q \in Replicas \ {r} : pc'[q] = pc[q] /\ class'[q] = class[q]
      BY <1>5, <1>t DEF Serve, Goes, TypeOK
    <2> QED
      BY <1>5, <2>1, <2>2, <1>t, ReplicaKeeps DEF Serve, PassedExist
  <1>6. ASSUME NEW r \in Replicas, Crash(r)
        PROVE  PassedExist'
    BY <1>6, FatalKeeps DEF Crash
  <1>7. ASSUME NEW d \in Classes, DeleteClass(d)
        PROVE  PassedExist'
    <2>1. UNCHANGED <<pc, class>>
      BY <1>7 DEF DeleteClass
    <2>2. \A r \in Replicas : Passed(r)' = Passed(r)
      BY <2>1 DEF Passed
    <2>3. \A r \in Replicas : Passed(r) \subseteq Classes
      BY PassedSubset
    <2> QED
      BY <1>7, <2>2, <2>3, <1>t DEF DeleteClass, PassedExist, TypeOK
  <1>8. CASE UNCHANGED vars
    BY <1>8, <1>t DEF vars, PassedExist, Passed
  <1> QED
    BY <1>1, <1>2, <1>3, <1>4, <1>5, <1>6, <1>7, <1>8 DEF Next, Replica

\* A replica serves only when every class exists with the value of the list.
THEOREM ClassesExist == Spec => []ServedClassesExist
  <1>1. Init => ClassInv
    BY InitTypeOK DEF Init, ClassInv, PassedExist, Passed
  <1>2. ClassInv /\ [Next]_vars => ClassInv'
    BY TypeStep, ClassStep DEF ClassInv
  <1>3. ClassInv => ServedClassesExist
    BY DEF ClassInv, PassedExist, Passed, ServedClassesExist
  <1> QED
    BY <1>1, <1>2, <1>3, PTL DEF Spec

=============================================================================
