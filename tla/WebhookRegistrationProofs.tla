---------------------- MODULE WebhookRegistrationProofs ----------------------
(***************************************************************************)
(* The safety of the registration for any number of replicas, crashes and  *)
(* refused requests, and for each of the four webhooks.                    *)
(***************************************************************************)
EXTENDS WebhookRegistration, TLAPS

\* The rules a webhook registers name only operations its admit answers, so
\* that an outcome is never the abort of a panic.
LEMMA RulesAreAdmitted ==
    Rule.operations \subseteq Admits
  <1>1. CASE Webhook = "nshp"
    BY <1>1 DEF Rule, Admits, NshpRule
  <1>2. CASE Webhook = "hppvr"
    BY <1>2 DEF Rule, Admits, HppvrRule
  <1>3. CASE Webhook = "hppvtocsipv"
    BY <1>3 DEF Rule, Admits, PVRule
  <1>4. CASE Webhook = "podpriority"
    BY <1>4 DEF Rule, Admits, PodPriorityRule
  <1> QED
    BY <1>1, <1>2, <1>3, <1>4, WebhookAssumption

LEMMA OutcomeRange ==
    ASSUME NEW operation \in Rule.operations
    PROVE  Outcome(operation, FALSE) \in
               {"reviewed", "unreviewed", "rejected"}
  <1>1. operation \in Admits
    BY RulesAreAdmitted
  <1>2. Serve(operation) = "reviewed"
    BY <1>1 DEF Serve
  <1> QED
    BY <1>2 DEF Outcome, Unserved

-----------------------------------------------------------------------------
\* A death keeps the types and sends the replica's registration to the start.
LEMMA DiesFacts ==
    ASSUME TypeOK, NEW r \in Replicas, NEW p \in {"absent", "down"}, Dies(r, p)
    PROVE  /\ pod' \in [Replicas -> {"absent", "down", "up"}]
           /\ reg' \in [Replicas -> {"start", "get", "delete", "create", "done"}]
           /\ serving' \subseteq Replicas
           /\ \A s \in Replicas :
                 pod'[s] # "up" => reg'[s] = "start" /\ s \notin serving'
           /\ reg'[r] = "start"
  BY DEF TypeOK, Dies

\* A step of the registration goroutine keeps them, too.
LEMMA GoesFacts ==
    ASSUME TypeOK, NEW r \in Replicas, reg[r] # "start",
           NEW step \in {"get", "delete", "create", "done"}, Goes(r, step)
    PROVE  /\ pod' \in [Replicas -> {"absent", "down", "up"}]
           /\ reg' \in [Replicas -> {"start", "get", "delete", "create", "done"}]
           /\ serving' \subseteq Replicas
           /\ \A s \in Replicas :
                 pod'[s] # "up" => reg'[s] = "start" /\ s \notin serving'
           /\ reg'[r] = step
  BY DEF TypeOK, Goes

\* TypeOK is inductive as it stands.
LEMMA TypeStep == TypeOK /\ [Next]_vars => TypeOK'
  <1> SUFFICES ASSUME TypeOK, [Next]_vars
               PROVE  TypeOK'
    OBVIOUS
  <1>1. ASSUME NEW r \in Replicas, Launch(r)
        PROVE  TypeOK'
    BY <1>1 DEF Launch, TypeOK
  <1>0. ASSUME NEW r \in Replicas, StartFails(r)
        PROVE  TypeOK'
    BY <1>0 DEF StartFails, Refused, TypeOK
  <1>2. ASSUME NEW r \in Replicas, Listen(r)
        PROVE  TypeOK'
    BY <1>2 DEF Listen, TypeOK
  <1>3. ASSUME NEW r \in Replicas, Get(r)
        PROVE  TypeOK'
    <2>1. refusals' \in Nat
      BY <1>3 DEF Get, TypeOK, Answered, Refused
    <2>2. CASE Goes(r, "delete")
      BY <1>3, <2>1, <2>2, GoesFacts DEF Get, TypeOK
    <2>3. CASE Goes(r, "create")
      BY <1>3, <2>1, <2>3, GoesFacts DEF Get, TypeOK
    <2> QED
      BY <1>3, <2>2, <2>3 DEF Get
  <1>4. ASSUME NEW r \in Replicas, Delete(r)
        PROVE  TypeOK'
    <2>0. refusals' \in Nat
      <3>1. Answered \/ Refused
        BY <1>4, Zenon DEF Delete
      <3> QED
        BY <3>1 DEF TypeOK, Answered, Refused
    <2>1. config' \in BOOLEAN
      <3>1. config' = FALSE \/ config' = config
        BY <1>4, Zenon DEF Delete
      <3> QED
        BY <3>1, Zenon DEF TypeOK
    <2>2. CASE Goes(r, "create")
      BY <1>4, <2>0, <2>1, <2>2, GoesFacts DEF Delete, TypeOK
    <2>3. CASE Dies(r, "down")
      BY <1>4, <2>0, <2>1, <2>3, DiesFacts DEF Delete, TypeOK
    <2> QED
      BY <1>4, <2>2, <2>3 DEF Delete
  <1>5. ASSUME NEW r \in Replicas, Create(r)
        PROVE  TypeOK'
    <2>0. refusals' \in Nat
      <3>1. Answered \/ Refused
        BY <1>5, Zenon DEF Create
      <3> QED
        BY <3>1 DEF TypeOK, Answered, Refused
    <2>1. config' \in BOOLEAN
      <3>1. config' = TRUE \/ config' = config
        BY <1>5, Zenon DEF Create
      <3> QED
        BY <3>1, Zenon DEF TypeOK
    <2>2. CASE Goes(r, "done")
      BY <1>5, <2>0, <2>1, <2>2, GoesFacts DEF Create, TypeOK
    <2>3. CASE Dies(r, "down")
      BY <1>5, <2>0, <2>1, <2>3, DiesFacts DEF Create, TypeOK
    <2> QED
      BY <1>5, <2>2, <2>3 DEF Create
  <1>6. ASSUME NEW r \in Replicas, Crash(r)
        PROVE  TypeOK'
    <2>1. PICK p \in {"down", "absent"} : Dies(r, p)
      BY <1>6 DEF Crash
    <2>2. crashes' \in Nat
      BY <1>6 DEF Crash, TypeOK
    <2> QED
      BY <1>6, <2>1, <2>2, DiesFacts DEF Crash, TypeOK
  <1>7. ASSUME NEW r \in Replicas, CreatePod(r)
        PROVE  TypeOK'
    BY <1>7 DEF CreatePod, TypeOK
  <1>8. CASE Review
    BY <1>8, OutcomeRange DEF Review, TypeOK
  <1>9. CASE UNCHANGED vars
    BY <1>9 DEF vars, TypeOK
  <1> QED
    BY <1>0, <1>1, <1>2, <1>3, <1>4, <1>5, <1>6, <1>7, <1>8, <1>9 DEF Next, Replica

\* Every variable stays in its range.
THEOREM TypeCorrect == Spec => []TypeOK
  <1>1. Init => TypeOK
    BY DEF Init, TypeOK
  <1> QED
    BY <1>1, TypeStep, PTL DEF Spec

-----------------------------------------------------------------------------
LEMMA DoneStep ==
    TypeOK /\ DoneMeansRegistered /\ [Next]_vars => DoneMeansRegistered'
  <1> SUFFICES ASSUME TypeOK, DoneMeansRegistered, [Next]_vars
               PROVE  DoneMeansRegistered'
    OBVIOUS
  <1>1. ASSUME NEW r \in Replicas, reg'[r] # "done"
        PROVE  DoneMeansRegistered'
    BY <1>1 DEF DoneMeansRegistered
  <1>2. ASSUME NEW r \in Replicas, Launch(r)
        PROVE  DoneMeansRegistered'
    BY <1>1, <1>2 DEF Launch, TypeOK
  <1>3. ASSUME NEW r \in Replicas, Get(r)
        PROVE  DoneMeansRegistered'
    BY <1>1, <1>3 DEF Get, Goes, TypeOK
  \* Who deletes owes a creation, or dies and starts again.
  <1>4. ASSUME NEW r \in Replicas, Delete(r)
        PROVE  DoneMeansRegistered'
    BY <1>1, <1>4 DEF Delete, Goes, Dies, TypeOK
  \* Who is done has created the configuration in the same step.
  <1>5. ASSUME NEW r \in Replicas, Create(r)
        PROVE  DoneMeansRegistered'
    <2>1. CASE config'
      BY <2>1 DEF DoneMeansRegistered
    <2>2. CASE Dies(r, "down")
      BY <1>1, <2>2, DiesFacts
    <2> QED
      BY <1>5, <2>1, <2>2 DEF Create
  <1>6. ASSUME NEW r \in Replicas, Crash(r)
        PROVE  DoneMeansRegistered'
    BY <1>1, <1>6, DiesFacts DEF Crash
  <1>7. CASE UNCHANGED <<config, reg>>
    BY <1>7 DEF DoneMeansRegistered
  <1>8. ASSUME NEW r \in Replicas, StartFails(r) \/ Listen(r) \/ CreatePod(r)
        PROVE  UNCHANGED <<config, reg>>
    BY <1>8 DEF StartFails, Listen, CreatePod
  <1>9. Review \/ UNCHANGED vars => UNCHANGED <<config, reg>>
    BY DEF Review, vars
  <1> QED
    BY <1>2, <1>3, <1>4, <1>5, <1>6, <1>7, <1>8, <1>9 DEF Next, Replica

\* The replicas are never all done while the webhook is not registered.
THEOREM RegisteredWhenDone == Spec => []DoneMeansRegistered
  <1>1. Init => DoneMeansRegistered
    BY ReplicasAssumption DEF Init, DoneMeansRegistered
  <1> QED
    BY <1>1, TypeCorrect, DoneStep, PTL DEF Spec

\* No request a rule routes makes Serve dereference a nil answer.
THEOREM RequestsAnswered == Spec => []NeverAborted
  <1>1. Init => NeverAborted
    BY DEF Init, NeverAborted
  <1>2. TypeOK /\ NeverAborted /\ [Next]_vars => NeverAborted'
    <2> SUFFICES ASSUME TypeOK, NeverAborted, [Next]_vars
                 PROVE  NeverAborted'
      OBVIOUS
    <2>1. CASE Review
      BY <2>1, OutcomeRange DEF Review, TypeOK, NeverAborted
    <2>2. CASE UNCHANGED review
      BY <2>2 DEF NeverAborted
    <2>3. ASSUME NEW r \in Replicas, Replica(r) \/ Crash(r) \/ CreatePod(r)
          PROVE  UNCHANGED review
      BY <2>3 DEF Replica, StartFails, Launch, Listen, Get, Delete, Create, Crash,
                  CreatePod
    <2> QED
      BY <2>1, <2>2, <2>3 DEF Next, vars
  <1> QED
    BY <1>1, <1>2, TypeCorrect, PTL DEF Spec

\* Where the configuration exists, a webhook that fails closed lets nothing
\* its rule names pass unreviewed.
LEMMA FailsClosed ==
    ASSUME config = TRUE, Rule.policy = "Fail", NEW operation \in Rule.operations
    PROVE  Outcome(operation, FALSE) # "unreviewed"
  <1>1. Serve(operation) = "reviewed"
    BY RulesAreAdmitted DEF Serve
  <1>2. Unserved = "rejected"
    BY DEF Unserved
  <1> QED
    BY <1>1, <1>2 DEF Outcome

\* Once every replica has registered, a webhook that fails closed reviews or
\* rejects every request.
THEOREM GuardedWhenRegistered == Spec => GuardedWhenDone
  <1>1. TypeOK /\ DoneMeansRegistered /\ [Next]_vars =>
           (Rule.policy = "Fail" /\ (\A r \in Replicas : reg[r] = "done") /\ review' # review
            => review' # "unreviewed")
    <2> SUFFICES ASSUME TypeOK, DoneMeansRegistered, [Next]_vars,
                        Rule.policy = "Fail", \A r \in Replicas : reg[r] = "done",
                        review' # review
                 PROVE  review' # "unreviewed"
      OBVIOUS
    <2>1. config = TRUE
      BY DEF DoneMeansRegistered, TypeOK
    <2>2. CASE Review
      BY <2>1, <2>2, FailsClosed DEF Review
    <2>3. ASSUME NEW r \in Replicas, Replica(r) \/ Crash(r) \/ CreatePod(r)
          PROVE  UNCHANGED review
      BY <2>3 DEF Replica, StartFails, Launch, Listen, Get, Delete, Create, Crash,
                  CreatePod
    <2> QED
      BY <2>2, <2>3 DEF Next, vars
  <1> QED
    BY <1>1, TypeCorrect, RegisteredWhenDone, PTL DEF Spec, GuardedWhenDone

=============================================================================
