---------------------- MODULE NsHostPathPrivilegeProofs ----------------------
(***************************************************************************)
(* The verdicts of nshostpathprivilege are backed by the namespace, for    *)
(* any number of pods and of changes of the namespace.                     *)
(***************************************************************************)
EXTENDS NsHostPathPrivilege, TLAPS

\* What a review began with is in the past.
WindowInv ==
    \A p \in Pods : /\ from[p] \in 1 .. cached
                    /\ since[p] \in 1 .. Len(log)

VerdictInv == TypeOK /\ WindowInv /\ GrantBacked /\ DenialBacked

-----------------------------------------------------------------------------
LEMMA VersionsFacts ==
    /\ NoNamespace \in Versions
    /\ \A v \in Versions : v.exists \in BOOLEAN /\ v.allows \subseteq Switches
    /\ ~NoNamespace.exists /\ NoNamespace.allows = {}
  BY DEF Versions, NoNamespace

LEMMA AppendKeeps ==
    ASSUME log \in Seq(Versions), NEW v \in Versions, log' = Append(log, v)
    PROVE  /\ log' \in Seq(Versions)
           /\ Len(log') = Len(log) + 1
           /\ \A i \in 1 .. Len(log) : log'[i] = log[i]
  OBVIOUS

LEMMA CurrentFacts ==
    ASSUME TypeOK
    PROVE  Current \in Versions /\ Cached \in Versions /\ Len(log) \in Nat
  BY DEF TypeOK, Current, Cached

\* An answer keeps the types of what it changes.
LEMMA AnswerTypes ==
    ASSUME TypeOK, NEW p \in Pods, NEW v \in Versions, Conclude(p, v)
    PROVE  /\ verdict' \in [Pods -> {"none", "granted", "denied"}]
           /\ running' \subseteq Pods
           /\ step' = [step EXCEPT ![p] = "idle"]
           /\ verdict'[p] = "granted" => needs[p] \subseteq v.allows
           /\ verdict'[p] = "denied" => ~(needs[p] \subseteq v.allows)
           /\ \A q \in Pods : q # p => verdict'[q] = verdict[q]
  BY DEF TypeOK, Conclude, Answer

-----------------------------------------------------------------------------
LEMMA TypeStep == TypeOK /\ [Next]_vars => TypeOK'
  <1> SUFFICES ASSUME TypeOK, [Next]_vars
               PROVE  TypeOK'
    OBVIOUS
  <1>1. CASE ChangeNamespace
    <2>1. PICK v \in Versions : log' = Append(log, v)
      BY <1>1, VersionsFacts DEF ChangeNamespace
    <2>2. log \in Seq(Versions)
      BY DEF TypeOK
    <2>3. log' \in Seq(Versions) /\ Len(log') = Len(log) + 1
      BY <2>1, <2>2, AppendKeeps
    <2> QED
      BY <1>1, <2>3 DEF ChangeNamespace, TypeOK, requestVars
  <1>2. CASE UpdateCache
    BY <1>2 DEF UpdateCache, TypeOK, requestVars
  <1>3. ASSUME NEW p \in Pods, Ask(p)
        PROVE  TypeOK'
    BY <1>3 DEF Ask, TypeOK, NumAttempts
  <1>4. ASSUME NEW p \in Pods, LookInCache(p)
        PROVE  TypeOK'
    <2>1. CASE Conclude(p, Cached)
      BY <1>4, <2>1, AnswerTypes, CurrentFacts
         DEF LookInCache, TypeOK, requestVars
    <2>2. CASE step' = [step EXCEPT ![p] = "direct"] /\ UNCHANGED <<running, verdict>>
      BY <1>4, <2>2 DEF LookInCache, TypeOK, requestVars
    <2> QED
      BY <1>4, <2>1, <2>2 DEF LookInCache
  <1>5. ASSUME NEW p \in Pods, Request(p)
        PROVE  TypeOK'
    <2> USE DEF NumAttempts
    <2>0. step[p] = "direct" /\ UNCHANGED <<log, cached, needs, operation, from, since>>
      BY <1>5 DEF Request
    <2>5. attempts[p] \in 0 .. NumAttempts /\ attempts[p] < NumAttempts
      BY <2>0 DEF TypeOK
    <2>1. CASE Conclude(p, Current) /\ UNCHANGED <<attempts, failed, errors>>
      <3>1. /\ verdict' \in [Pods -> {"none", "granted", "denied"}]
            /\ running' \subseteq Pods
            /\ step' = [step EXCEPT ![p] = "idle"]
        BY <2>1, AnswerTypes, CurrentFacts
      <3> QED
        <4>1. /\ attempts' = attempts /\ errors' = errors
              /\ log' = log /\ cached' = cached /\ needs' = needs
              /\ operation' = operation /\ from' = from /\ since' = since
          BY <2>0, <2>1
        <4>4. failed' \in [Pods -> BOOLEAN]
          BY <2>1, Zenon DEF TypeOK
        <4>2. \A q \in Pods : step'[q] # "idle" => attempts'[q] < NumAttempts
          BY <3>1, <4>1 DEF TypeOK
        <4>3. step' \in [Pods -> {"idle", "cache", "direct"}]
          BY <3>1 DEF TypeOK
        <4> QED
          BY <3>1, <4>1, <4>2, <4>3, <4>4 DEF TypeOK
    <2>2. CASE /\ attempts' = [attempts EXCEPT ![p] = @ + 1]
               /\ attempts'[p] < NumAttempts
               /\ UNCHANGED <<step, running, verdict, failed, errors>>
      <3>1. attempts' \in [Pods -> 0 .. NumAttempts]
        BY <2>2, <2>5 DEF TypeOK
      <3>2. \A q \in Pods : step'[q] # "idle" => attempts'[q] < NumAttempts
        BY <2>2, <2>5 DEF TypeOK
      <3>3. failed' \in [Pods -> BOOLEAN]
        BY <2>2, Zenon DEF TypeOK
      <3> QED
        BY <2>0, <2>2, <3>1, <3>2, <3>3 DEF TypeOK
    <2>3. CASE /\ attempts' = [attempts EXCEPT ![p] = @ + 1]
               /\ Conclude(p, NoNamespace)
               /\ UNCHANGED <<failed, errors>>
      <3>1. attempts' \in [Pods -> 0 .. NumAttempts]
        BY <2>3, <2>5 DEF TypeOK
      <3>2. \A q \in Pods : step'[q] # "idle" => q # p /\ attempts'[q] < NumAttempts
        BY <2>3, AnswerTypes, VersionsFacts DEF TypeOK
      <3> QED
        BY <2>0, <2>3, <3>1, <3>2, AnswerTypes, VersionsFacts DEF TypeOK
    <2>4. CASE /\ errors' = errors + 1
               /\ failed' = [failed EXCEPT ![p] = TRUE]
               /\ Conclude(p, NoNamespace)
               /\ UNCHANGED attempts
      <3>1. failed' \in [Pods -> BOOLEAN]
        BY <2>4 DEF TypeOK
      <3>2. /\ verdict' \in [Pods -> {"none", "granted", "denied"}]
            /\ running' \subseteq Pods
            /\ step' = [step EXCEPT ![p] = "idle"]
        BY <2>4, AnswerTypes, VersionsFacts
      <3> QED
        BY <2>0, <2>4, <3>1, <3>2 DEF TypeOK
    <2> QED
      BY <1>5, <2>1, <2>2, <2>3, <2>4 DEF Request
  <1>7. ASSUME NEW p \in Pods, Unanswered(p)
        PROVE  TypeOK'
    <2>1. errors' \in Nat /\ failed' \in [Pods -> BOOLEAN]
      BY <1>7 DEF Unanswered, TypeOK
    <2>2. /\ verdict' = [verdict EXCEPT ![p] = "denied"] /\ running' = running
          /\ step' = [step EXCEPT ![p] = "idle"]
      BY <1>7 DEF Unanswered, Answer
    <2> QED
      BY <1>7, <2>1, <2>2 DEF Unanswered, TypeOK
  <1>6. CASE UNCHANGED vars
    BY <1>6 DEF vars, requestVars, TypeOK
  <1> QED
    BY <1>1, <1>2, <1>3, <1>4, <1>5, <1>6, <1>7 DEF Next

LEMMA InitTypeOK == Init => TypeOK
  <1> SUFFICES ASSUME Init
               PROVE  TypeOK
    OBVIOUS
  <1>1. PICK v \in Versions : log = <<v>>
    BY DEF Init
  <1>2. log \in Seq(Versions) /\ Len(log) = 1
    BY <1>1
  <1> QED
    BY <1>2 DEF Init, TypeOK, NumAttempts

\* Every variable stays in its range.
THEOREM TypeCorrect == Spec => []TypeOK
  <1> QED
    BY InitTypeOK, TypeStep, PTL DEF Spec

-----------------------------------------------------------------------------
LEMMA WindowStep ==
    TypeOK /\ WindowInv /\ [Next]_vars => WindowInv'
  <1> SUFFICES ASSUME TypeOK, WindowInv, [Next]_vars
               PROVE  WindowInv'
    OBVIOUS
  <1> USE DEF WindowInv, requestVars
  <1>1. CASE ChangeNamespace
    <2>1. PICK v \in Versions : log' = Append(log, v)
      BY <1>1, VersionsFacts DEF ChangeNamespace
    <2>2. Len(log') = Len(log) + 1
      BY <2>1, AppendKeeps DEF TypeOK
    <2> QED
      BY <1>1, <2>2 DEF ChangeNamespace, TypeOK
  <1>2. CASE UpdateCache
    BY <1>2 DEF UpdateCache, TypeOK
  <1>3. ASSUME NEW p \in Pods, Ask(p)
        PROVE  WindowInv'
    BY <1>3 DEF Ask, TypeOK
  <1>4. ASSUME NEW p \in Pods, LookInCache(p) \/ Request(p) \/ Unanswered(p)
        PROVE  WindowInv'
    BY <1>4 DEF LookInCache, Request, Unanswered
  <1>5. CASE UNCHANGED vars
    BY <1>5 DEF vars
  <1> QED
    BY <1>1, <1>2, <1>3, <1>4, <1>5 DEF Next

\* What an answer needs to be backed: its namespace is a version of the
\* window, or there is none and that is true of the window or an error.
LEMMA ConcludeBacked ==
    ASSUME VerdictInv, NEW p \in Pods, NEW v \in Versions, Conclude(p, v),
           UNCHANGED <<log, needs, from, since>>,
           \A q \in Pods : q # p => failed'[q] = failed[q],
           \/ v.exists /\ \E i \in from[p] .. Len(log) : v = log[i]
           \/ /\ v = NoNamespace
              /\ failed'[p] \/ \E i \in since[p] .. Len(log) : ~log[i].exists
    PROVE  GrantBacked' /\ DenialBacked'
  <1>1. ASSUME NEW q \in Pods, q # p
        PROVE  verdict'[q] = verdict[q] /\ failed'[q] = failed[q]
    BY <1>1, AnswerTypes DEF VerdictInv
  <1>2. /\ verdict'[p] = "granted" => needs[p] \subseteq v.allows
        /\ verdict'[p] = "denied" => ~(needs[p] \subseteq v.allows)
    BY AnswerTypes DEF VerdictInv
  <1>3. GrantBacked'
    <2>1. ASSUME verdict'[p] = "granted", needs[p] # {}
          PROVE  \E i \in from[p] .. Len(log) : needs[p] \subseteq log[i].allows
      <3>1. v # NoNamespace
        BY <1>2, <2>1, VersionsFacts
      <3> QED
        BY <1>2, <2>1, <3>1
    <2> QED
      BY <1>1, <2>1 DEF GrantBacked, VerdictInv
  <1>4. DenialBacked'
    <2>1. ASSUME verdict'[p] = "denied"
          PROVE  \/ failed'[p]
                 \/ \E i \in from[p] .. Len(log) :
                       log[i].exists /\ ~(needs[p] \subseteq log[i].allows)
                 \/ \E i \in since[p] .. Len(log) : ~log[i].exists
      BY <1>2, <2>1
    <2> QED
      BY <1>1, <2>1 DEF DenialBacked, VerdictInv
  <1> QED
    BY <1>3, <1>4

LEMMA BackedStep ==
    VerdictInv /\ [Next]_vars => GrantBacked' /\ DenialBacked'
  <1> SUFFICES ASSUME VerdictInv, [Next]_vars
               PROVE  GrantBacked' /\ DenialBacked'
    OBVIOUS
  <1>t. TypeOK /\ WindowInv /\ GrantBacked /\ DenialBacked
    BY DEF VerdictInv
  <1>1. CASE ChangeNamespace
    <2>1. PICK v \in Versions : log' = Append(log, v)
      BY <1>1, VersionsFacts DEF ChangeNamespace
    <2>2. /\ Len(log') = Len(log) + 1
          /\ \A i \in 1 .. Len(log) : log'[i] = log[i]
      BY <2>1, AppendKeeps, <1>t DEF TypeOK
    <2>3. ASSUME NEW p \in Pods
          PROVE  /\ \A i \in from[p] .. Len(log) :
                       i \in from[p] .. Len(log') /\ log'[i] = log[i]
                 /\ \A i \in since[p] .. Len(log) :
                       i \in since[p] .. Len(log') /\ log'[i] = log[i]
      BY <2>2, <1>t DEF WindowInv, TypeOK
    <2>4. UNCHANGED <<needs, verdict, from, since, failed>>
      BY <1>1 DEF ChangeNamespace, requestVars
    <2>5. GrantBacked'
      BY <2>3, <2>4, <1>t DEF GrantBacked
    <2>6. DenialBacked'
      <3> SUFFICES ASSUME NEW p \in Pods, verdict[p] = "denied", ~failed[p]
                   PROVE  \/ \E i \in from[p] .. Len(log') :
                                /\ log'[i].exists
                                /\ ~(needs[p] \subseteq log'[i].allows)
                          \/ \E i \in since[p] .. Len(log') : ~log'[i].exists
        BY <2>4, Zenon DEF DenialBacked
      <3> QED
        BY <2>3, <1>t DEF DenialBacked
    <2> QED
      BY <2>5, <2>6
  <1>2. CASE UpdateCache
    BY <1>2, <1>t DEF UpdateCache, GrantBacked, DenialBacked, requestVars
  <1>3. ASSUME NEW p \in Pods, Ask(p)
        PROVE  GrantBacked' /\ DenialBacked'
    <2>1. /\ verdict'[p] = "none" /\ UNCHANGED <<log, needs>>
          /\ \A q \in Pods : q # p => /\ verdict'[q] = verdict[q]
                                      /\ failed'[q] = failed[q]
                                      /\ from'[q] = from[q]
                                      /\ since'[q] = since[q]
      BY <1>3, <1>t DEF Ask, TypeOK
    <2> QED
      BY <2>1, <1>t DEF GrantBacked, DenialBacked
  <1>4. ASSUME NEW p \in Pods, LookInCache(p)
        PROVE  GrantBacked' /\ DenialBacked'
    <2>1. UNCHANGED <<log, needs, from, since, failed>>
      BY <1>4 DEF LookInCache, requestVars
    <2>2. CASE Cached.exists /\ Conclude(p, Cached)
      <3>1. \E i \in from[p] .. Len(log) : Cached = log[i]
        BY <1>t DEF WindowInv, TypeOK, Cached
      <3> QED
        BY <2>1, <2>2, <3>1, <1>t, CurrentFacts, ConcludeBacked
    <2>3. CASE UNCHANGED verdict
      BY <2>1, <2>3, <1>t DEF GrantBacked, DenialBacked
    <2> QED
      BY <1>4, <2>2, <2>3 DEF LookInCache
  <1>5. ASSUME NEW p \in Pods, Request(p)
        PROVE  GrantBacked' /\ DenialBacked'
    <2>1. UNCHANGED <<log, needs, from, since>>
      BY <1>5 DEF Request
    <2>l. Len(log) \in from[p] .. Len(log) /\ Len(log) \in since[p] .. Len(log)
      BY <1>t DEF WindowInv, TypeOK
    <2>2. CASE Current.exists /\ Conclude(p, Current) /\ UNCHANGED failed
      <3>1. \E i \in from[p] .. Len(log) : Current = log[i]
        BY <2>l DEF Current
      <3> QED
        BY <2>1, <2>2, <3>1, <1>t, CurrentFacts, ConcludeBacked
    <2>3. CASE UNCHANGED <<verdict, failed>>
      BY <2>1, <2>3, <1>t DEF GrantBacked, DenialBacked
    <2>4. CASE ~Current.exists /\ Conclude(p, NoNamespace) /\ UNCHANGED failed
      <3>1. \E i \in since[p] .. Len(log) : ~log[i].exists
        BY <2>4, <2>l DEF Current
      <3> QED
        BY <2>1, <2>4, <3>1, <1>t, VersionsFacts, ConcludeBacked
    <2>5. CASE /\ failed' = [failed EXCEPT ![p] = TRUE]
               /\ Conclude(p, NoNamespace)
      <3>1. failed'[p] /\ \A q \in Pods : q # p => failed'[q] = failed[q]
        BY <2>5, <1>t DEF TypeOK
      <3> QED
        BY <2>1, <2>5, <3>1, <1>t, VersionsFacts, ConcludeBacked
    <2> QED
      BY <1>5, <2>2, <2>3, <2>4, <2>5 DEF Request
  <1>7. ASSUME NEW p \in Pods, Unanswered(p)
        PROVE  GrantBacked' /\ DenialBacked'
    <2>1. /\ verdict'[p] = "denied" /\ failed'[p]
          /\ UNCHANGED <<log, needs, from, since>>
          /\ \A q \in Pods : q # p => /\ verdict'[q] = verdict[q]
                                      /\ failed'[q] = failed[q]
      BY <1>7, <1>t DEF Unanswered, Answer, TypeOK
    <2> QED
      BY <2>1, <1>t DEF GrantBacked, DenialBacked
  <1>6. CASE UNCHANGED vars
    BY <1>6, <1>t DEF vars, requestVars, GrantBacked, DenialBacked
  <1> QED
    BY <1>1, <1>2, <1>3, <1>4, <1>5, <1>6, <1>7 DEF Next

LEMMA InvariantHolds == Spec => []VerdictInv
  <1>1. Init => VerdictInv
    <2> SUFFICES ASSUME Init
                 PROVE  VerdictInv
      OBVIOUS
    <2>1. TypeOK
      BY InitTypeOK
    <2>2. WindowInv
      BY <2>1 DEF Init, WindowInv, TypeOK
    <2>3. GrantBacked /\ DenialBacked
      BY DEF Init, GrantBacked, DenialBacked
    <2> QED
      BY <2>1, <2>2, <2>3 DEF VerdictInv
  <1>2. VerdictInv /\ [Next]_vars => VerdictInv'
    BY TypeStep, WindowStep, BackedStep DEF VerdictInv
  <1> QED
    BY <1>1, <1>2, PTL DEF Spec

\* Every grant is backed by one version of the namespace in its window.
THEOREM GrantsBacked == Spec => []GrantBacked
  <1>1. VerdictInv => GrantBacked
    BY DEF VerdictInv
  <1> QED
    BY <1>1, InvariantHolds, PTL

\* Every denial is backed, and never by a cache that has not caught up.
THEOREM DenialsBacked == Spec => []DenialBacked
  <1>1. VerdictInv => DenialBacked
    BY DEF VerdictInv
  <1> QED
    BY <1>1, InvariantHolds, PTL

=============================================================================
