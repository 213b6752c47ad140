------------------------ MODULE PVUpdateManagerProofs ------------------------
(* Theorems about PVUpdateManager, for any PVs and any channel size.       *)
EXTENDS PVUpdateManager, FiniteSetTheorems, TLAPS

ManagerInv == TypeOK /\ WaitingMatchesWork

\* The names in a channel after a send and after a receive.
LEMMA AppendQueued ==
    ASSUME NEW q \in Seq(PVNames), NEW p \in PVNames,
           \A i \in 1 .. Len(q) : q[i] # p,
           \A i, j \in 1 .. Len(q) : q[i] = q[j] => i = j
    PROVE  LET r == Append(q, p)
           IN  /\ r \in Seq(PVNames)
               /\ {r[i] : i \in 1 .. Len(r)} = {q[i] : i \in 1 .. Len(q)} \cup {p}
               /\ \A i, j \in 1 .. Len(r) : r[i] = r[j] => i = j
<1> DEFINE r == Append(q, p)
<1>1. /\ r \in Seq(PVNames) /\ Len(r) = Len(q) + 1 /\ Len(q) \in Nat
      /\ \A i \in 1 .. Len(q) : r[i] = q[i]
      /\ r[Len(q) + 1] = p
  OBVIOUS
<1>2. \A i \in 1 .. Len(r) : i \in 1 .. Len(q) \/ i = Len(q) + 1
  BY <1>1
<1>3. {r[i] : i \in 1 .. Len(r)} = {q[i] : i \in 1 .. Len(q)} \cup {p}
  <2>1. ASSUME NEW i \in 1 .. Len(r)
        PROVE  r[i] \in {q[k] : k \in 1 .. Len(q)} \cup {p}
    BY <2>1, <1>1, <1>2
  <2>2. ASSUME NEW i \in 1 .. Len(q) PROVE q[i] \in {r[k] : k \in 1 .. Len(r)}
    <3>1. i \in 1 .. Len(r) /\ r[i] = q[i]
      BY <1>1
    <3> QED BY <3>1
  <2>3. p \in {r[k] : k \in 1 .. Len(r)}
    <3>1. Len(q) + 1 \in 1 .. Len(r)
      BY <1>1
    <3> QED BY <3>1, <1>1
  <2> QED BY <2>1, <2>2, <2>3
<1>4. \A i, j \in 1 .. Len(r) : r[i] = r[j] => i = j
  BY <1>1, <1>2
<1> HIDE DEF r
<1> QED BY <1>1, <1>3, <1>4 DEF r

LEMMA TailQueued ==
    ASSUME NEW q \in Seq(PVNames), q # <<>>,
           \A i, j \in 1 .. Len(q) : q[i] = q[j] => i = j
    PROVE  /\ Tail(q) \in Seq(PVNames) /\ Head(q) \in PVNames
           /\ {q[i] : i \in 1 .. Len(q)}
                = {Tail(q)[i] : i \in 1 .. Len(Tail(q))} \cup {Head(q)}
           /\ Head(q) \notin {Tail(q)[i] : i \in 1 .. Len(Tail(q))}
           /\ \A i, j \in 1 .. Len(Tail(q)) : Tail(q)[i] = Tail(q)[j] => i = j
<1> DEFINE r == Tail(q)
<1>1. /\ r \in Seq(PVNames) /\ Len(r) = Len(q) - 1 /\ Len(q) \in Nat
      /\ Len(q) >= 1 /\ Head(q) = q[1] /\ Head(q) \in PVNames
      /\ \A i \in 1 .. Len(r) : r[i] = q[i + 1]
  OBVIOUS
<1>2. {q[i] : i \in 1 .. Len(q)} = {r[i] : i \in 1 .. Len(r)} \cup {Head(q)}
  <2>1. ASSUME NEW i \in 1 .. Len(q)
        PROVE  q[i] \in {r[k] : k \in 1 .. Len(r)} \cup {Head(q)}
    <3>1. CASE i = 1
      BY <3>1, <1>1
    <3>2. CASE i # 1
      <4>1. i - 1 \in 1 .. Len(r) /\ r[i - 1] = q[i]
        BY <3>2, <1>1
      <4> QED BY <4>1
    <3> QED BY <3>1, <3>2
  <2>2. ASSUME NEW i \in 1 .. Len(r) PROVE r[i] \in {q[k] : k \in 1 .. Len(q)}
    <3>1. i + 1 \in 1 .. Len(q) /\ r[i] = q[i + 1]
      BY <1>1
    <3> QED BY <3>1
  <2>3. Head(q) \in {q[k] : k \in 1 .. Len(q)}
    BY <1>1
  <2> QED BY <2>1, <2>2, <2>3
<1>3. Head(q) \notin {r[i] : i \in 1 .. Len(r)}
  <2> SUFFICES ASSUME NEW i \in 1 .. Len(r), r[i] = Head(q) PROVE FALSE
    OBVIOUS
  <2>1. i + 1 \in 1 .. Len(q) /\ q[i + 1] = q[1] /\ 1 \in 1 .. Len(q)
    BY <1>1
  <2>2. i + 1 = 1
    BY <2>1
  <2> QED BY <2>2
<1>4. \A i, j \in 1 .. Len(r) : r[i] = r[j] => i = j
  <2> SUFFICES ASSUME NEW i \in 1 .. Len(r), NEW j \in 1 .. Len(r), r[i] = r[j]
               PROVE  i = j
    OBVIOUS
  <2>1. i + 1 \in 1 .. Len(q) /\ j + 1 \in 1 .. Len(q) /\ q[i + 1] = q[j + 1]
    BY <1>1
  <2>2. i + 1 = j + 1
    BY <2>1
  <2> QED BY <2>2
<1> HIDE DEF r
<1> QED BY <1>1, <1>2, <1>3, <1>4 DEF r

LEMMA NotifyType ==
    ASSUME events \in Seq(Events), NEW p \in PVNames,
           NEW s \in {"hostpath", "csi"}, Notify(p, s)
    PROVE  events' \in Seq(Events)
<1>1. Event(p, s) \in Events
  BY DEF Event, Events
<1> QED BY <1>1 DEF Notify

\* The list an informer begins with is a list of events of PVs that exist.
LEMMA ListingType ==
    ASSUME source \in [PVNames -> {"none", "hostpath", "csi"}],
           NEW e \in Listing
    PROVE  e \in Seq(Events)
<1>1. Present \subseteq PVNames /\ IsFiniteSet(Present)
  BY NamesAssumption, FS_Subset DEF Present
<1>2. Cardinality(Present) \in Nat
  BY <1>1, FS_CardinalityType
<1>3. ASSUME NEW p \in Present PROVE Event(p, source[p]) \in Events
  BY <1>3 DEF Present, Event, Events
<1>4. {Event(p, source[p]) : p \in Present} \subseteq Events
  BY <1>3
<1>5. e \in [1 .. Cardinality(Present) -> Events]
  BY <1>4 DEF Listing
<1> QED BY <1>2, <1>5

LEMMA ManagerInit == Init => ManagerInv
<1> SUFFICES ASSUME Init PROVE ManagerInv
  OBVIOUS
<1>1. source \in [PVNames -> {"none", "hostpath", "csi"}] /\ events \in Listing
  BY DEF Init
<1>2. events \in Seq(Events)
  BY <1>1, ListingType
<1>3. queue = <<>> /\ waiting = {} /\ sending = NoPV /\ pv = NoPV
  BY DEF Init
<1>4. TypeOK
  <2>1. running \in BOOLEAN /\ stopped \in BOOLEAN
    BY Zenon DEF Init
  <2>2. /\ source \in [PVNames -> {"none", "hostpath", "csi"}]
        /\ lock \in [PVNames -> {"free", "self", "other", "left", "dead"}]
        /\ \A p \in PVNames : source[p] # "hostpath" => lock[p] = "free"
    BY DEF Init
  <2>3. queue \in Seq(PVNames) /\ waiting \subseteq PVNames /\ tried \subseteq PVNames
    BY DEF Init
  <2>4. /\ sending \in PVNames \cup {NoPV} /\ pv \in PVNames \cup {NoPV}
        /\ failures \in Nat /\ touches \in Nat /\ deaths \in Nat
        /\ loop = "sync" /\ pv = NoPV
    BY DEF Init
  <2> QED BY <1>2, <2>1, <2>2, <2>3, <2>4 DEF TypeOK, Upgrading
<1>5. WaitingMatchesWork
  BY <1>3 DEF WaitingMatchesWork, Queued
<1> QED BY <1>4, <1>5 DEF ManagerInv

-----------------------------------------------------------------------------
(* Types.                                                                  *)

\* The end of a process leaves the PVs and what others hold of them.
LEMMA EndsType ==
    ASSUME TypeOK, NEW mark \in {"left", "dead"}, Ends(mark), deaths' \in Nat
    PROVE  TypeOK'
<1>1. /\ lock' \in [PVNames -> {"free", "self", "other", "left", "dead"}]
      /\ \A p \in PVNames : source'[p] # "hostpath" => lock'[p] = "free"
  BY DEF Ends, Orphaned, TypeOK
<1>2. running' \in BOOLEAN /\ stopped' \in BOOLEAN
  BY Zenon DEF Ends
<1>3. /\ queue' \in Seq(PVNames) /\ events' \in Seq(Events)
      /\ waiting' \subseteq PVNames /\ sending' = NoPV
      /\ loop' = "down" /\ pv' = NoPV
      /\ UNCHANGED <<source, touches, failures, tried>>
  BY DEF Ends
<1> QED BY <1>1, <1>2, <1>3 DEF TypeOK, Upgrading

LEMMA TypeStep ==
    ASSUME TypeOK, [Next]_vars
    PROVE  TypeOK'
<1> USE DEF clusterVars, ownVars, Upgrading
<1>t. TypeOK
  OBVIOUS
<1>1. CASE Handle
  <2>1. Head(events) \in Events /\ Tail(events) \in Seq(Events)
    BY <1>1, <1>t DEF Handle, TypeOK
  <2>2. Head(events).pv \in PVNames
    BY <2>1 DEF Events
  <2> QED BY <1>1, <1>t, <2>1, <2>2 DEF Handle, TypeOK
<1>2. CASE Send
  <2>1. sending \in PVNames /\ queue' = Append(queue, sending)
    BY <1>2, <1>t DEF Send, TypeOK
  <2>2. queue' \in Seq(PVNames)
    BY <2>1, <1>t DEF TypeOK
  <2> QED BY <1>2, <1>t, <2>2 DEF Send, TypeOK
<1>3. CASE Take
  <2>1. Head(queue) \in PVNames /\ Tail(queue) \in Seq(PVNames)
    BY <1>3, <1>t DEF Take, TypeOK
  <2>2. pv' \in PVNames /\ pv' # NoPV /\ tried' \subseteq PVNames
    BY <1>3, <1>t, <2>1, NoPVAssumption DEF Take, TypeOK
  <2> QED BY <1>3, <1>t, <2>1, <2>2 DEF Take, TypeOK
<1>4. CASE Synced \/ Quit \/ Wake \/ Done \/ Stop
  BY <1>4, <1>t DEF Synced, Quit, Wake, Done, Stop, TypeOK
<1>5. CASE Pipeline
  <2>1. pv \in PVNames /\ pv # NoPV
    BY <1>5, <1>t DEF Pipeline, Lock, GiveUp, UndoLock, Remove, Lose, Replace,
                      UndoReplace, Succeed, TypeOK
  <2>2. CASE Lock
    <3>1. events' \in Seq(Events)
      BY <2>1, <2>2, <1>t, NotifyType DEF Lock, TypeOK
    <3> QED BY <2>1, <2>2, <3>1, <1>t DEF Lock, Fails, TypeOK
  <2>3. CASE UndoLock
    <3>1. CASE lock[pv] = "free"
      BY <2>1, <2>3, <3>1, <1>t DEF UndoLock, Fails, TypeOK
    <3>2. CASE lock[pv] # "free"
      <4>1. source[pv] = "hostpath" /\ (Notify(pv, "hostpath") \/ UNCHANGED events)
        BY <2>1, <2>3, <3>2, <1>t DEF UndoLock, TypeOK
      <4>2. events' \in Seq(Events)
        BY <2>1, <4>1, <1>t, NotifyType DEF TypeOK
      <4> QED BY <2>1, <2>3, <4>2, <1>t DEF UndoLock, Fails, TypeOK
    <3> QED BY <3>1, <3>2
  <2>4. CASE Remove
    BY <2>1, <2>4, <1>t DEF Remove, TypeOK
  <2>5. CASE Replace
    <3>1. events' \in Seq(Events)
      BY <2>1, <2>5, <1>t, NotifyType DEF Replace, TypeOK
    <3> QED BY <2>1, <2>5, <3>1, <1>t DEF Replace, TypeOK
  <2>6. CASE UndoReplace
    BY <2>1, <2>6, <1>t DEF UndoReplace, Fails, TypeOK
  <2>7. CASE GiveUp \/ Lose \/ Succeed
    BY <2>1, <2>7, <1>t DEF GiveUp, Lose, Succeed, Fails, TypeOK
  <2> QED BY <1>5, <2>2, <2>3, <2>4, <2>5, <2>6, <2>7 DEF Pipeline
<1>6. CASE Die
  <2>1. PICK mark \in {"left", "dead"} : Ends(mark)
    BY <1>6 DEF Die
  <2>2. deaths' \in Nat
    BY <1>6, <1>t DEF Die, TypeOK
  <2> QED BY <2>1, <2>2, <1>t, EndsType
<1>7. CASE Begins
  <2>1. events' \in Seq(Events)
    BY <1>7, <1>t, ListingType DEF Begins, TypeOK
  <2> QED BY <1>7, <2>1, <1>t DEF Begins, TypeOK
<1>8. ASSUME NEW p \in PVNames, Cluster(p) \/ OtherDies(p)
      PROVE  TypeOK'
  <2>1. CASE Touch(p)
    <3>1. events' \in Seq(Events)
      BY <2>1, <1>t, NotifyType DEF Touch, TypeOK
    <3> QED BY <2>1, <3>1, <1>t DEF Touch, TypeOK
  <2>2. CASE OtherLocks(p)
    <3>1. events' \in Seq(Events)
      BY <2>2, <1>t, NotifyType DEF OtherLocks, TypeOK
    <3> QED BY <2>2, <3>1, <1>t DEF OtherLocks, TypeOK
  <2>3. CASE OtherEnds(p)
    <3>1. CASE \E s \in {"none", "hostpath", "csi"} :
             /\ source' = [source EXCEPT ![p] = s]
             /\ lock' = [lock EXCEPT ![p] = "free"]
             /\ IF s = "none" THEN UNCHANGED events ELSE Notify(p, s)
      <4>1. events' \in Seq(Events)
        BY <3>1, <1>t, NotifyType DEF TypeOK
      <4> QED BY <2>3, <3>1, <4>1, <1>t DEF OtherEnds, TypeOK
    <3>2. CASE /\ lock' = [lock EXCEPT ![p] = "dead"]
               /\ UNCHANGED <<source, events>>
      BY <2>3, <3>2, <1>t DEF OtherEnds, TypeOK
    <3> QED BY <2>3, <3>1, <3>2 DEF OtherEnds
  <2>4. CASE OtherDies(p)
    BY <2>4, <1>t DEF OtherDies, TypeOK
  <2>5. CASE LeaseExpires(p)
    BY <2>5, <1>t DEF LeaseExpires, TypeOK
  <2> QED BY <1>8, <2>1, <2>2, <2>3, <2>4, <2>5 DEF Cluster
<1>9. CASE UNCHANGED vars
  BY <1>9, <1>t DEF vars, TypeOK
<1> QED BY <1>1, <1>2, <1>3, <1>4, <1>5, <1>6, <1>7, <1>8, <1>9
        DEF Next, Manager, Loop

-----------------------------------------------------------------------------
(* The queue.                                                              *)

\* A step that leaves the map, the handler, the channel and the pipeline's PV
\* alone.
LEMMA WorkUntouched ==
    ASSUME WaitingMatchesWork, UNCHANGED <<waiting, sending, queue, pv>>
    PROVE  WaitingMatchesWork'
  BY DEF WaitingMatchesWork, Queued

\* A process that ends takes all of it along.
LEMMA EndsQueue ==
    ASSUME NEW mark, Ends(mark)
    PROVE  WaitingMatchesWork'
<1>1. waiting' = {} /\ sending' = NoPV /\ queue' = <<>> /\ pv' = NoPV
  BY DEF Ends
<1> QED BY <1>1 DEF WaitingMatchesWork, Queued

LEMMA QueueStep ==
    ASSUME TypeOK, WaitingMatchesWork, [Next]_vars
    PROVE  WaitingMatchesWork'
<1>t. TypeOK /\ WaitingMatchesWork
  OBVIOUS
<1>1. CASE Handle
  <2>1. Head(events) \in Events
    BY <1>1, <1>t DEF Handle, TypeOK
  <2>p. Head(events).pv \in PVNames
    BY <2>1 DEF Events
  <2>2. UNCHANGED <<queue, pv>>
    BY <1>1 DEF Handle
  <2>3. CASE UNCHANGED <<waiting, sending>>
    BY <2>2, <2>3, <1>t, WorkUntouched
  <2>4. CASE /\ Head(events).pv \notin waiting /\ sending = NoPV
             /\ waiting' = waiting \cup {Head(events).pv}
             /\ sending' = Head(events).pv
    BY <2>p, <2>2, <2>4, <1>t, NoPVAssumption
       DEF WaitingMatchesWork, Queued, TypeOK
  <2> QED BY <1>1, <2>3, <2>4 DEF Handle
<1>2. CASE Send
  <2>1. /\ sending \in PVNames /\ \A i \in 1 .. Len(queue) : queue[i] # sending
        /\ queue' = Append(queue, sending) /\ sending' = NoPV
        /\ UNCHANGED <<waiting, pv>>
    BY <1>2, <1>t DEF Send, TypeOK, WaitingMatchesWork, Queued
  <2>2. /\ Queued' = Queued \cup {sending}
        /\ \A i, j \in 1 .. Len(queue') : queue'[i] = queue'[j] => i = j
    BY <2>1, <1>t, AppendQueued DEF TypeOK, WaitingMatchesWork, Queued
  <2> QED BY <2>1, <2>2, <1>t, NoPVAssumption DEF TypeOK, WaitingMatchesWork
<1>3. CASE Take
  <2>1. /\ queue # <<>> /\ pv = NoPV /\ pv' = Head(queue)
        /\ queue' = Tail(queue)
        /\ UNCHANGED <<waiting, sending>>
    BY <1>3, <1>t DEF Take, TypeOK, Upgrading
  <2>2. /\ pv' \in PVNames
        /\ Queued = Queued' \cup {pv'} /\ pv' \notin Queued'
        /\ \A i, j \in 1 .. Len(queue') : queue'[i] = queue'[j] => i = j
    <3>1. queue \in Seq(PVNames)
      BY <1>t DEF TypeOK
    <3>2. \A i, j \in 1 .. Len(queue) : queue[i] = queue[j] => i = j
      BY <1>t DEF WaitingMatchesWork
    <3>3. /\ Head(queue) \in PVNames
          /\ Queued = {Tail(queue)[i] : i \in 1 .. Len(Tail(queue))}
                        \cup {Head(queue)}
          /\ Head(queue) \notin {Tail(queue)[i] : i \in 1 .. Len(Tail(queue))}
          /\ \A i, j \in 1 .. Len(Tail(queue)) :
                Tail(queue)[i] = Tail(queue)[j] => i = j
      BY <2>1, <3>1, <3>2, TailQueued, Zenon DEF Queued
    <3>4. Queued' = {Tail(queue)[i] : i \in 1 .. Len(Tail(queue))}
      BY <2>1, Zenon DEF Queued
    <3> QED BY <2>1, <3>3, <3>4, Zenon
  <2> QED BY <2>1, <2>2, <1>t, NoPVAssumption DEF TypeOK, WaitingMatchesWork
<1>4. CASE Done
  <2>1. /\ pv \in PVNames /\ waiting' = waiting \ {pv} /\ pv' = NoPV
        /\ UNCHANGED <<sending, queue>>
    BY <1>4, <1>t DEF Done, TypeOK, Upgrading
  <2> QED BY <2>1, <1>t, NoPVAssumption DEF WaitingMatchesWork, Queued, TypeOK
<1>5. CASE Die
  BY <1>5, EndsQueue DEF Die
<1>6. CASE Synced \/ Quit \/ Pipeline \/ Wake \/ Stop \/ Begins
  <2>1. UNCHANGED <<waiting, sending, queue, pv>>
    BY <1>6 DEF Synced, Quit, Pipeline, Lock, GiveUp, UndoLock, Remove, Lose,
                Replace, UndoReplace, Succeed, Wake, Stop, Begins
  <2> QED BY <2>1, <1>t, WorkUntouched
<1>7. ASSUME NEW p \in PVNames, Cluster(p) \/ OtherDies(p)
      PROVE  WaitingMatchesWork'
  <2>1. UNCHANGED <<waiting, sending, queue, pv>>
    BY <1>7 DEF Cluster, Touch, OtherLocks, OtherEnds, OtherDies, LeaseExpires,
                ownVars
  <2> QED BY <2>1, <1>t, WorkUntouched
<1>8. CASE UNCHANGED vars
  BY <1>8, <1>t, WorkUntouched DEF vars
<1> QED BY <1>1, <1>2, <1>3, <1>4, <1>5, <1>6, <1>7, <1>8
        DEF Next, Manager, Loop

-----------------------------------------------------------------------------
LEMMA ManagerInvariant == Spec => []ManagerInv
<1>1. Init => ManagerInv
  BY ManagerInit
<1>2. ManagerInv /\ [Next]_vars => ManagerInv'
  BY TypeStep, QueueStep DEF ManagerInv
<1> QED BY <1>1, <1>2, PTL DEF Spec

\* Every variable of the manager stays in its range, only hostpath PVs are
\* locked, and the loop has a PV exactly while a pipeline is out, through any
\* number of restarts (PVUpdateManager.Start).
THEOREM TypeCorrect == Spec => []TypeOK
<1>1. ManagerInv => TypeOK
  BY DEF ManagerInv
<1> QED BY <1>1, ManagerInvariant, PTL

\* A name is in syncPVMap exactly while the handler, the channel or the
\* running pipeline has the PV, and only one of them, once: no PV is queued
\* twice and no name stays behind to make the handler drop events for ever
\* (the handlers and the loop of Start).
THEOREM QueueIsExact == Spec => []WaitingMatchesWork
<1>1. ManagerInv => WaitingMatchesWork
  BY DEF ManagerInv
<1> QED BY <1>1, ManagerInvariant, PTL

-----------------------------------------------------------------------------
(* The line.                                                               *)

\* Who stands in the line: the channel, and the handler's PV behind it.
Standing == queue \o (IF sending = NoPV THEN <<>> ELSE <<sending>>)

LEMMA StandingIsQueue ==
    ASSUME queue \in Seq(PVNames), sending = NoPV
    PROVE  Standing = queue
  BY DEF Standing

LEMMA StandingLast ==
    ASSUME NEW q \in Seq(PVNames), NEW p \in PVNames
    PROVE  q \o <<p>> = Append(q, p)
  OBVIOUS

LEMMA StandingFirst ==
    ASSUME NEW q \in Seq(PVNames), q # <<>>, NEW r \in Seq(PVNames)
    PROVE  q \o r # <<>> /\ Head(q \o r) = Head(q) /\ Tail(q \o r) = Tail(q) \o r
<1>1. /\ Len(q) \in Nat /\ Len(r) \in Nat /\ Len(q) >= 1
      /\ Len(q \o r) = Len(q) + Len(r) /\ q \o r \in Seq(PVNames)
      /\ Tail(q) \in Seq(PVNames) /\ Len(Tail(q)) = Len(q) - 1
      /\ \A i \in 1 .. Len(Tail(q)) : Tail(q)[i] = q[i + 1]
  OBVIOUS
<1>2. q \o r # <<>> /\ Head(q \o r) = q[1] /\ Head(q) = q[1]
  BY <1>1
<1>3. Tail(q \o r) = Tail(q) \o r
  <2>1. /\ Tail(q \o r) \in Seq(PVNames) /\ Len(Tail(q \o r)) = Len(q) + Len(r) - 1
        /\ \A i \in 1 .. Len(Tail(q \o r)) : Tail(q \o r)[i] = (q \o r)[i + 1]
    BY <1>1, <1>2
  <2>2. /\ Tail(q) \o r \in Seq(PVNames)
        /\ Len(Tail(q) \o r) = Len(q) + Len(r) - 1
    BY <1>1
  <2>3. ASSUME NEW i \in 1 .. Len(q) + Len(r) - 1
        PROVE  (q \o r)[i + 1] = (Tail(q) \o r)[i]
    <3>1. CASE i <= Len(q) - 1
      BY <1>1, <3>1
    <3>2. CASE i > Len(q) - 1
      BY <1>1, <3>2
    <3> QED BY <1>1, <3>1, <3>2
  <2> QED BY <2>1, <2>2, <2>3
<1> QED BY <1>2, <1>3

\* A step that leaves line and service alone is a stutter of the line.
LEMMA LineUntouched ==
    ASSUME Standing' = Standing, pv' = pv
    PROVE  UNCHANGED Line!vars
  BY DEF Standing, Line!vars

\* The end of the process breaks the line up.
LEMMA EndsLine ==
    ASSUME NEW mark, Ends(mark)
    PROVE  [Line!Next]_(Line!vars)
<1>1. sending' = NoPV /\ queue' = <<>> /\ pv' = NoPV
  BY DEF Ends
<1>2. Line!BreakUp
  BY <1>1 DEF Line!BreakUp
<1> QED BY <1>2 DEF Line!Next

LEMMA LineStep ==
    ASSUME TypeOK, WaitingMatchesWork, [Next]_vars
    PROVE  [Line!Next]_(Line!vars)
<1>t. /\ TypeOK /\ WaitingMatchesWork
      /\ queue \in Seq(PVNames) /\ sending \in PVNames \cup {NoPV}
  BY DEF TypeOK
<1>1. CASE Handle
  <2>0. Head(events) \in Events
    BY <1>1, <1>t DEF Handle, TypeOK
  <2>p. Head(events).pv \in PVNames
    BY <2>0 DEF Events
  <2>1. CASE UNCHANGED sending
    <3>1. Standing' = Standing /\ pv' = pv
      BY <1>1, <2>1 DEF Handle, Standing
    <3> QED BY <3>1, LineUntouched
  <2>2. CASE /\ Head(events).pv \notin waiting
             /\ sending' = Head(events).pv
    <3> DEFINE p == Head(events).pv
    <3>1. sending = NoPV /\ UNCHANGED <<queue, pv>> /\ p # NoPV /\ p \in PVNames
      BY <1>1, <2>p, NoPVAssumption DEF Handle
    <3>2. Standing = queue /\ Standing' = Append(queue, p)
      BY <2>2, <3>1, <1>t, StandingIsQueue, StandingLast DEF Standing
    <3>3. p \notin {queue[i] : i \in DOMAIN queue} /\ p # pv
      BY <2>2, <3>1, <1>t DEF WaitingMatchesWork, Queued
    <3> HIDE DEF p
    <3>4. Line!Join(p)
      BY <3>1, <3>2, <3>3 DEF Line!Join, Line!Standing, Standing
    <3> QED BY <3>1, <3>4 DEF Line!Next
  <2> QED BY <1>1, <2>1, <2>2 DEF Handle
<1>2. CASE Send
  <2>1. /\ sending \in PVNames /\ sending # NoPV /\ sending' = NoPV
        /\ queue' = Append(queue, sending) /\ pv' = pv
    BY <1>2, <1>t DEF Send
  <2>2. Standing = Append(queue, sending)
    BY <2>1, <1>t, StandingLast DEF Standing
  <2>3. Standing' = queue'
    <3>1. queue' \in Seq(PVNames)
      BY <2>1, <1>t
    <3> QED BY <2>1, <3>1 DEF Standing
  <2> QED BY <2>1, <2>2, <2>3, LineUntouched
<1>3. CASE Take
  <2>1. /\ queue # <<>> /\ pv = NoPV /\ pv' = Head(queue)
        /\ queue' = Tail(queue) /\ sending' = sending
    BY <1>3, <1>t DEF Take, TypeOK, Upgrading
  <2>2. PICK r \in Seq(PVNames) : r = IF sending = NoPV THEN <<>> ELSE <<sending>>
    <3>1. CASE sending = NoPV
      <4>1. <<>> \in Seq(PVNames)
        OBVIOUS
      <4> QED BY <3>1, <4>1
    <3>2. CASE sending # NoPV
      <4>1. <<sending>> \in Seq(PVNames)
        BY <1>t, <3>2
      <4> QED BY <3>2, <4>1
    <3> QED BY <3>1, <3>2
  <2>3. Standing = queue \o r /\ Standing' = Tail(queue) \o r
    BY <2>1, <2>2 DEF Standing
  <2>4. /\ Standing # <<>> /\ Head(Standing) = Head(queue)
        /\ Standing' = Tail(Standing)
    BY <2>1, <2>3, <1>t, StandingFirst
  <2>5. Line!Serve
    BY <2>1, <2>4 DEF Line!Serve, Standing
  <2> QED BY <2>5 DEF Line!Next
<1>4. CASE Done
  <2>1. pv # NoPV /\ pv' = NoPV /\ Standing' = Standing
    BY <1>4, <1>t DEF Done, TypeOK, Upgrading, Standing
  <2>2. Line!Leave
    BY <2>1 DEF Line!Leave, Standing
  <2> QED BY <2>2 DEF Line!Next
<1>5. CASE Die
  BY <1>5, EndsLine DEF Die
<1>6. CASE Synced \/ Quit \/ Pipeline \/ Wake \/ Stop \/ Begins
  <2>1. UNCHANGED <<sending, queue, pv>>
    BY <1>6 DEF Synced, Quit, Pipeline, Lock, GiveUp, UndoLock, Remove, Lose,
                Replace, UndoReplace, Succeed, Wake, Stop, Begins
  <2> QED BY <2>1, LineUntouched DEF Standing
<1>7. ASSUME NEW p \in PVNames, Cluster(p) \/ OtherDies(p)
      PROVE  [Line!Next]_(Line!vars)
  <2>1. UNCHANGED <<sending, queue, pv>>
    BY <1>7 DEF Cluster, Touch, OtherLocks, OtherEnds, OtherDies, LeaseExpires,
                ownVars
  <2> QED BY <2>1, LineUntouched DEF Standing
<1>8. CASE UNCHANGED vars
  BY <1>8, LineUntouched DEF vars, Standing
<1> QED BY <1>1, <1>2, <1>3, <1>4, <1>5, <1>6, <1>7, <1>8
        DEF Next, Manager, Loop

\* The handler that blocks, the channel of any size and the loop are together
\* a line that each PV joins at most once and that is served one at a time in
\* order; only the end of the process breaks it up (Start).
THEOREM QueueIsLine == Spec => ImplementsUpgradeLine
<1>1. Init => Line!Init
  <2> SUFFICES ASSUME Init PROVE Line!Init
    OBVIOUS
  <2>1. queue = <<>> /\ sending = NoPV /\ pv = NoPV
    BY DEF Init
  <2> QED BY <2>1 DEF Line!Init
<1>2. ManagerInv /\ [Next]_vars => [Line!Next]_(Line!vars)
  BY LineStep DEF ManagerInv
<1> QED BY <1>1, <1>2, ManagerInvariant, PTL DEF Spec, ImplementsUpgradeLine, Line!Spec

=============================================================================
