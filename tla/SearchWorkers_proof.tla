------------------------ MODULE SearchWorkers_proof ------------------------
(***************************************************************************)
(* Proofs about SearchWorkers, for every number of workers, every scope,   *)
(* every queue capacity and every bound on the environment.                *)
(*                                                                         *)
(* The argument: OnePlace and UnfinishedCount say where the objects are and *)
(* what the queue counts; with Stages they give that q.join() returns only *)
(* when every object is finished; SentByHolder adds that a finished object *)
(* was sent or dropped, and that what was sent is not in the hands of a    *)
(* worker that could send it again.  Together they are inductive.          *)
(***************************************************************************)
EXTENDS SearchWorkers, FiniteSetTheorems, TLAPS

-----------------------------------------------------------------------------
(***************************************************************************)
(* Types.                                                                  *)
(***************************************************************************)

\* The flags stay Boolean (kept apart from the other types for the provers).
LEMMA FlagsStep == ASSUME Flags, [Next]_vars PROVE Flags'
<1> USE DEF Flags, searchVars, controlVars,
        queueVars, limitVars, clientVars, historyVars, dataVars
<1>1. CASE UNCHANGED vars
  BY <1>1, Zenon DEF vars
<1>2. CASE ControlStep
  BY <1>2, Zenon DEF ControlStep, StartEnqueueThread, RecordWorkers,
     ControlFailure, HandleSignal, IgnoreSignals, CleanupContext, KillWorker,
     WorkersTerminated, LogStatistics, Exit, ForkWorker, TerminateWorker
<1>3. CASE EnqueueStep
  BY <1>3, Zenon DEF EnqueueStep, Put, ScopeExhausted, Join
<1>4. ASSUME NEW w \in Worker, WorkerStep(w) PROVE Flags'
  BY <1>4, Zenon DEF WorkerStep, Get, Evaluate, AcquireStats, ReleaseStats,
     TaskDone, SignalParent, Signalled
<1>5. ASSUME NEW p \in Sender, SendStep(p) PROVE Flags'
  BY <1>5, Zenon DEF SendStep, AcquireConn, Receive, Reply, Refuse, BlastFailure
<1>6. CASE Environment
  BY <1>6, Zenon DEF Environment, Setup, Start, Reexecute, ScopeFailure, Crash,
     ExternalSignal, ClientGetObject, ClientUnknownCommand, ClientCloseBlast,
     ClientCloseControl
<1>7. QED
  BY <1>1, <1>2, <1>3, <1>4, <1>5, <1>6, Zenon DEF Next

\* Every action preserves the types.
LEMMA TypeStep == ASSUME TypeOK, [Next]_vars, Flags' PROVE TypeOK'
<1> USE ConstantsAssumption DEF Sender, Object, Enq, Free, NoWorker,
        searchVars, controlVars,
        queueVars, limitVars, clientVars, historyVars, dataVars, TypeOK
<1>1. CASE Setup
  BY <1>1 DEF Setup
<1>2. CASE Start
  BY <1>2 DEF Start
<1>3. CASE StartEnqueueThread
  BY <1>3 DEF StartEnqueueThread
<1>4. CASE RecordWorkers
  BY <1>4 DEF RecordWorkers
<1>5. CASE Reexecute
  BY <1>5 DEF Reexecute
<1>6. CASE ControlFailure
  BY <1>6 DEF ControlFailure
<1>7. CASE HandleSignal
  BY <1>7 DEF HandleSignal, ProcessUp, AfterSignal
<1>8. CASE IgnoreSignals
  BY <1>8 DEF IgnoreSignals
<1>9. CASE CleanupContext
  BY <1>9 DEF CleanupContext
<1>10. CASE KillWorker
  BY <1>10 DEF KillWorker
<1>11. CASE WorkersTerminated
  BY <1>11 DEF WorkersTerminated
<1>12. CASE LogStatistics
  BY <1>12 DEF LogStatistics
<1>13. CASE Exit
  BY <1>13 DEF Exit
<1>14. CASE Crash
  BY <1>14 DEF Crash
<1>15. CASE Put
  BY <1>15 DEF Put
<1>16. CASE ScopeExhausted
  BY <1>16 DEF ScopeExhausted
<1>17. CASE ScopeFailure
  BY <1>17 DEF ScopeFailure
<1>18. CASE Join
  BY <1>18 DEF Join
<1>19. CASE ClientGetObject
  BY <1>19 DEF ClientGetObject
<1>20. CASE ClientUnknownCommand
  BY <1>20 DEF ClientUnknownCommand
<1>21. CASE ClientCloseBlast
  BY <1>21 DEF ClientCloseBlast
<1>22. CASE ClientCloseControl
  BY <1>22 DEF ClientCloseControl
<1>23. CASE ExternalSignal
  BY <1>23 DEF ExternalSignal
<1>24. ASSUME NEW w \in Worker, ForkWorker(w) PROVE TypeOK'
  BY <1>24 DEF ForkWorker
<1>25. ASSUME NEW w \in Worker, TerminateWorker(w) PROVE TypeOK'
  BY <1>25 DEF TerminateWorker
<1>26. ASSUME NEW w \in Worker, Get(w) PROVE TypeOK'
  BY <1>26 DEF Get
<1>27. ASSUME NEW w \in Worker, Evaluate(w) PROVE TypeOK'
  BY <1>27 DEF Evaluate
<1>28. ASSUME NEW w \in Worker, AcquireStats(w) PROVE TypeOK'
  BY <1>28 DEF AcquireStats
<1>29. ASSUME NEW w \in Worker, ReleaseStats(w) PROVE TypeOK'
  BY <1>29 DEF ReleaseStats
<1>30. ASSUME NEW w \in Worker, TaskDone(w) PROVE TypeOK'
  <2>1. finished' \in SUBSET (0..ScopeSize) /\ dropped' \in SUBSET (0..ScopeSize)
    BY <1>30 DEF TaskDone
  <2>2. QED
    BY <1>30, <2>1 DEF TaskDone
<1>31. ASSUME NEW w \in Worker, SignalParent(w) PROVE TypeOK'
  BY <1>31 DEF SignalParent, ProcessUp
<1>32. ASSUME NEW w \in Worker, Signalled(w) PROVE TypeOK'
  BY <1>32 DEF Signalled, Live
<1>33. ASSUME NEW p \in Sender, AcquireConn(p) PROVE TypeOK'
  BY <1>33 DEF AcquireConn
<1>34. ASSUME NEW p \in Sender, Receive(p) PROVE TypeOK'
  BY <1>34 DEF Receive
<1>35. ASSUME NEW p \in Sender, Reply(p) PROVE TypeOK'
  BY <1>35 DEF Reply, Payload, EmptyObject
<1>36. ASSUME NEW p \in Sender, Refuse(p) PROVE TypeOK'
  BY <1>36 DEF Refuse
<1>37. ASSUME NEW p \in Sender, BlastFailure(p) PROVE TypeOK'
  BY <1>37 DEF BlastFailure
<1>38. CASE UNCHANGED vars
  BY <1>38 DEF vars
<1>39. QED
  BY <1>1, <1>2, <1>3, <1>4, <1>5, <1>6, <1>7, <1>8, <1>9, <1>10, <1>11, <1>12, <1>13, <1>14, <1>15, <1>16, <1>17, <1>18, <1>19, <1>20, <1>21, <1>22, <1>23, <1>24, <1>25, <1>26, <1>27, <1>28, <1>29, <1>30, <1>31, <1>32, <1>33, <1>34, <1>35, <1>36, <1>37, <1>38
  DEF Next, ControlStep, EnqueueStep, WorkerStep, SendStep, Environment

\* The initial state is well typed.
LEMMA TypeInit == Init => TypeOK
<1>1. Init => Flags
  BY Zenon DEF Init, Flags
<1>2. QED
  BY <1>1, ConstantsAssumption DEF Init, TypeOK, Sender, Enq, Free, NoWorker, Object

\* No process of the search ever leaves its declared states: every step of every
\* handler, thread and worker preserves the types of the state (TypeOK).
THEOREM TypeCorrect == Spec => []TypeOK
<1>1. TypeOK /\ [Next]_vars => TypeOK'
  BY FlagsStep, TypeStep DEF TypeOK
<1>2. QED
  BY <1>1, TypeInit, PTL DEF Spec


-----------------------------------------------------------------------------
(***************************************************************************)
(* The accounting of objects.                                              *)
(***************************************************************************)

\* The state the accounting speaks of.
core == <<pc, wobj, outcome, queueVars, historyVars>>

\* The steps that change it.
LEMMA CoreSteps ==
  ASSUME [Next]_vars
  PROVE  \/ UNCHANGED core
         \/ StartEnqueueThread \/ KillWorker
         \/ Put \/ ScopeExhausted \/ ScopeFailure \/ Join
         \/ \E w \in Worker : ForkWorker(w) \/ WorkerStep(w)
         \/ \E p \in Sender : SendStep(p)
<1> USE DEF core, searchVars, controlVars,
        queueVars, limitVars, clientVars, historyVars, dataVars
<1>1. CASE UNCHANGED vars
  BY <1>1, Zenon DEF vars
<1>2. CASE \/ RecordWorkers \/ ControlFailure \/ HandleSignal \/ IgnoreSignals
           \/ CleanupContext \/ WorkersTerminated \/ LogStatistics \/ Exit
  BY <1>2, Zenon DEF RecordWorkers, ControlFailure, HandleSignal, IgnoreSignals,
     CleanupContext, WorkersTerminated, LogStatistics, Exit
<1>3. ASSUME NEW w \in Worker, TerminateWorker(w) PROVE UNCHANGED core
  BY <1>3, Zenon DEF TerminateWorker
<1>4. CASE \/ Setup \/ Start \/ Reexecute \/ Crash \/ ExternalSignal
           \/ ClientGetObject \/ ClientUnknownCommand \/ ClientCloseBlast
           \/ ClientCloseControl
  BY <1>4, Zenon DEF Setup, Start, Reexecute, Crash, ExternalSignal,
     ClientGetObject, ClientUnknownCommand, ClientCloseBlast, ClientCloseControl
<1>5. QED
  BY <1>1, <1>2, <1>3, <1>4, Zenon DEF Next, ControlStep, EnqueueStep, Environment

\* What the unfinished count counts is a finite set.
LEMMA YieldedFinite ==
  ASSUME TypeOK
  PROVE  IsFiniteSet(Yielded \ finished) /\ Cardinality(Yielded \ finished) \in Nat
<1>1. IsFiniteSet(Yielded)
  BY FS_Interval DEF Yielded, TypeOK
<1>2. QED
  BY <1>1, FS_Subset, FS_CardinalityType

\* put(), get() and task_done() keep every object in one place and counted.
LEMMA PlaceStep == ASSUME TypeOK, Stages, OnePlace, UnfinishedCount, [Next]_vars
                   PROVE  OnePlace' /\ UnfinishedCount'
<1> USE ConstantsAssumption DEF queueVars, historyVars, dataVars
<1>1. CASE UNCHANGED <<wobj, nextObj, objQueue, unfinished, finished>>
  BY <1>1 DEF OnePlace, UnfinishedCount, Yielded, Queued
<1>2. CASE Put
  <2>1. nextObj \in Yielded' /\ Yielded' = Yielded \cup {nextObj} /\ nextObj \notin Yielded
        /\ nextObj \in Nat
    BY <1>2 DEF Put, Yielded, TypeOK
  <2>2. OnePlace'
    BY <1>2, <2>1 DEF Put, OnePlace, TypeOK, Queued
  <2>3. UnfinishedCount'
    <3>1. IsFiniteSet(Yielded \ finished) /\ Cardinality(Yielded \ finished) \in Nat
      BY YieldedFinite
    <3>2. (Yielded \ finished)' = (Yielded \ finished) \cup {nextObj}
          /\ nextObj \notin Yielded \ finished
      BY <2>1, <1>2 DEF OnePlace, Put
    <3>3. QED
      BY <3>1, <3>2, <1>2, FS_AddElement DEF UnfinishedCount, Put
  <2>4. QED
    BY <2>2, <2>3
<1>3. ASSUME NEW w \in Worker, Get(w) PROVE OnePlace' /\ UnfinishedCount'
  <2>1. UnfinishedCount'
    BY <1>3 DEF Get, UnfinishedCount, Yielded
  <2>2. /\ objQueue \in Seq(Object) /\ objQueue # <<>> /\ objQueue' = Tail(objQueue)
        /\ Head(objQueue) = objQueue[1] /\ 1 \in DOMAIN objQueue
        /\ \A i \in DOMAIN objQueue' : i + 1 \in DOMAIN objQueue /\ objQueue'[i] = objQueue[i+1] /\ i + 1 # 1
    BY <1>3 DEF Get, TypeOK, Object
  <2>3. /\ wobj' = [wobj EXCEPT ![w] = objQueue[1]]
        /\ wobj \in [Worker -> 0..ScopeSize]
        /\ objQueue[1] \in Object /\ wobj[w] = 0
        /\ UNCHANGED <<nextObj, finished>>
    BY <1>3, <2>2 DEF Get, TypeOK, Stages, Object
  <2>4. \A i \in DOMAIN objQueue' : objQueue'[i] # objQueue[1]
    BY <2>2 DEF OnePlace
  <2>5. \A i, j \in DOMAIN objQueue' : objQueue'[i] = objQueue'[j] => i = j
    <3> TAKE i, j \in DOMAIN objQueue'
    <3> HAVE objQueue'[i] = objQueue'[j]
    <3>1. i + 1 = j + 1
      BY <2>2 DEF OnePlace
    <3>2. i \in Nat /\ j \in Nat
      BY <2>2 DEF Object
    <3> QED BY <3>1, <3>2
  <2>6. OnePlace'
    <3>1. Yielded' = Yielded /\ finished' = finished
      BY <2>3 DEF Yielded
    <3>2. \A i \in DOMAIN objQueue' : objQueue'[i] \in Yielded \ finished
      BY <2>2 DEF OnePlace
    <3>3. Queued(objQueue[1]) /\ objQueue[1] \in Yielded \ finished
      BY <2>2 DEF OnePlace, Queued
    <3>4. \A o : ~Queued(o) => ~(\E i \in DOMAIN objQueue' : objQueue'[i] = o)
      BY <2>2 DEF Queued
    <3>5. ASSUME NEW v \in Worker, wobj'[v] # 0
          PROVE  /\ wobj'[v] \in Yielded \ finished
                 /\ ~(\E i \in DOMAIN objQueue' : objQueue'[i] = wobj'[v])
                 /\ \A u \in Worker : wobj'[u] = wobj'[v] => u = v
      <4>1. CASE v = w
        <5>1. wobj'[v] = objQueue[1]
          BY <4>1, <2>3
        <5>2. \A u \in Worker : u # w => wobj'[u] # objQueue[1]
          BY <2>3, <3>3 DEF OnePlace, Object
        <5>3. QED
          BY <5>1, <5>2, <4>1, <3>3, <2>4
      <4>2. CASE v # w
        BY <4>2, <3>3, <3>4, <3>5, <2>3 DEF OnePlace
      <4>3. QED
        BY <4>1, <4>2
    <3>6. QED
      BY <3>1, <3>2, <3>5, <2>5 DEF OnePlace, Queued
  <2>7. QED
    BY <2>1, <2>6
<1>4. ASSUME NEW w \in Worker, TaskDone(w) PROVE OnePlace' /\ UnfinishedCount'
  <2>1. /\ wobj[w] # 0 /\ wobj \in [Worker -> 0..ScopeSize]
        /\ finished' = finished \cup {wobj[w]}
        /\ wobj' = [wobj EXCEPT ![w] = 0]
        /\ UNCHANGED <<nextObj, objQueue>>
    BY <1>4 DEF TaskDone, Stages, TypeOK
  <2>2. OnePlace'
    <3>1. Yielded' = Yielded /\ \A o : Queued(o)' <=> Queued(o)
      BY <2>1 DEF Yielded, Queued
    <3>2. \A i \in DOMAIN objQueue : objQueue[i] # wobj[w]
      BY <2>1 DEF OnePlace, Queued
    <3>3. \A v \in Worker : wobj'[v] # 0 => v # w /\ wobj'[v] = wobj[v] /\ wobj[v] # wobj[w]
      BY <2>1 DEF OnePlace
    <3>4. QED
      BY <2>1, <3>1, <3>2, <3>3 DEF OnePlace
  <2>3. UnfinishedCount'
    <3>1. IsFiniteSet(Yielded \ finished) /\ Cardinality(Yielded \ finished) \in Nat
      BY YieldedFinite
    <3>2. (Yielded \ finished)' = (Yielded \ finished) \ {wobj[w]}
          /\ wobj[w] \in Yielded \ finished
      BY <2>1 DEF OnePlace, Yielded
    <3>3. QED
      BY <3>1, <3>2, <1>4, FS_RemoveElement DEF UnfinishedCount, TaskDone
  <2>4. QED
    BY <2>2, <2>3
<1>5. QED
  <2>1. CASE StartEnqueueThread \/ KillWorker \/ ScopeExhausted \/ ScopeFailure \/ Join
    BY <1>1, <2>1, Zenon DEF StartEnqueueThread, KillWorker, ScopeExhausted, ScopeFailure, Join
  <2>2. ASSUME NEW w \in Worker, ForkWorker(w) \/ Evaluate(w) \/ AcquireStats(w) \/ ReleaseStats(w) \/ SignalParent(w) \/ Signalled(w)
        PROVE OnePlace' /\ UnfinishedCount'
    BY <1>1, <2>2, Zenon DEF ForkWorker, Evaluate, AcquireStats, ReleaseStats, SignalParent, Signalled
  <2>3. ASSUME NEW p \in Sender, SendStep(p) PROVE OnePlace' /\ UnfinishedCount'
    BY <1>1, <2>3, Zenon DEF SendStep, AcquireConn, Receive, Reply, Refuse, BlastFailure
  <2>4. CASE UNCHANGED core
    BY <1>1, <2>4, Zenon DEF core
  <2>5. QED
    BY <1>2, <1>3, <1>4, <2>1, <2>2, <2>3, <2>4, CoreSteps, Zenon DEF WorkerStep

\* Every step preserves Stages; Join is the step that needs the count.
LEMMA StagesStep == ASSUME TypeOK, Stages, OnePlace, UnfinishedCount, [Next]_vars
                    PROVE  Stages'
<1> USE ConstantsAssumption DEF queueVars, historyVars, dataVars, TypeOK, Stages, Sender, Enq
<1>1. CASE UNCHANGED core
  BY <1>1 DEF core
<1>2. CASE StartEnqueueThread \/ ScopeExhausted \/ ScopeFailure
  BY <1>2 DEF StartEnqueueThread, ScopeExhausted, ScopeFailure
<1>3. CASE KillWorker
  BY <1>3 DEF KillWorker
<1>4. CASE Put
  BY <1>4 DEF Put
<1>5. CASE Join
  <2>1. IsFiniteSet(Yielded \ finished)
    BY YieldedFinite
  <2>2. Yielded \ finished = {}
    BY <2>1, <1>5, FS_EmptySet DEF Join, UnfinishedCount
  <2>3. finished = Object
    <3>1. Yielded = Object
      BY <1>5 DEF Join, Yielded, Object
    <3>2. QED
      BY <2>2, <3>1 DEF OnePlace
  <2>4. QED
    BY <2>3, <1>5 DEF Join
<1>6. ASSUME NEW w \in Worker,
             ForkWorker(w) \/ Evaluate(w) \/ AcquireStats(w) \/ SignalParent(w)
      PROVE  Stages'
  <2>1. CASE ForkWorker(w)
    BY <2>1 DEF ForkWorker
  <2>2. CASE Evaluate(w)
    BY <2>2 DEF Evaluate
  <2>3. CASE AcquireStats(w)
    BY <2>3 DEF AcquireStats
  <2>4. CASE SignalParent(w)
    BY <2>4 DEF SignalParent
  <2>5. QED
    BY <1>6, <2>1, <2>2, <2>3, <2>4
<1>7. ASSUME NEW w \in Worker, Get(w) PROVE Stages'
  <2>1. Head(objQueue) \in Object
    BY <1>7 DEF Get
  <2>2. QED
    BY <1>7, <2>1 DEF Get, Object
<1>8. ASSUME NEW w \in Worker, ReleaseStats(w) PROVE Stages'
  BY <1>8 DEF ReleaseStats
<1>9. ASSUME NEW w \in Worker, TaskDone(w) PROVE Stages'
  <2>1. wobj[w] \in Object
    <3>1. wobj[w] # 0
      BY <1>9 DEF TaskDone
    <3>2. wobj[w] \in 0..ScopeSize
      OBVIOUS
    <3>3. QED
      BY <3>1, <3>2 DEF Object
  <2>2. QED
    BY <1>9, <2>1 DEF TaskDone
<1>10. ASSUME NEW w \in Worker, Signalled(w) PROVE Stages'
  <2>1. /\ pc'[w] \in {"done_evaluate", "dead"}
        /\ pc'[w] = "done_evaluate" => pc[w] = "eval"
        /\ \A p \in Sender \ {w} : pc'[p] = pc[p]
        /\ \A v \in Worker \ {w} : outcome'[v] = outcome[v]
        /\ UNCHANGED <<wobj, nextObj, finished>>
    BY <1>10 DEF Signalled
  <2>2. Enq \in Sender \ {w} /\ \A v \in Worker \ {w} : v \in Sender \ {w}
    OBVIOUS
  <2> QED BY ONLY <2>1, <2>2, <1>10, Stages DEF Stages
<1>11. ASSUME NEW p \in Sender, SendStep(p) PROVE Stages'
  <2>1. CASE AcquireConn(p)
    BY <2>1 DEF AcquireConn
  <2>2. CASE Receive(p)
    BY <2>2 DEF Receive
  <2>3. CASE Reply(p)
    BY <2>3 DEF Reply
  <2>4. CASE Refuse(p)
    BY <2>4 DEF Refuse
  <2>5. CASE BlastFailure(p)
    BY <2>5 DEF BlastFailure
  <2>6. QED
    BY <1>11, <2>1, <2>2, <2>3, <2>4, <2>5 DEF SendStep
<1>12. QED
  BY <1>1, <1>2, <1>3, <1>4, <1>5, <1>6, <1>7, <1>8, <1>9, <1>10, <1>11, CoreSteps,
     Zenon DEF WorkerStep

\* A step that sends and finishes nothing, takes no sent object from the worker
\* that sent it and brings no worker to task_done(), preserves SentByHolder.
LEMMA SentKept ==
  ASSUME SentByHolder, UNCHANGED historyVars,
         \A w \in Worker :
           /\ pc[w] \in {"task_done", "dead"} /\ outcome[w] = "accept" =>
                /\ pc'[w] \in {"task_done", "dead"} /\ outcome'[w] = "accept"
                /\ wobj'[w] = wobj[w]
           /\ pc'[w] = "task_done" /\ outcome'[w] = "accept" =>
                /\ pc[w] = "task_done" /\ outcome[w] = "accept"
                /\ wobj'[w] = wobj[w],
         pc[Enq] = "closed" => pc'[Enq] = "closed"
  PROVE  SentByHolder'
<1>1. \A o : Sent(o)' <=> Sent(o)
  BY DEF Sent, historyVars
<1>2. QED
  BY <1>1 DEF SentByHolder, historyVars

\* Every step preserves SentByHolder; Reply and TaskDone are the steps that
\* change what has been sent and finished.
LEMMA SentStep == ASSUME TypeOK, Stages, OnePlace, SentByHolder, [Next]_vars
                  PROVE  SentByHolder'
<1> USE ConstantsAssumption, SentKept DEF queueVars, dataVars, TypeOK, Sender, Enq,
        EmptyObject
<1>1. CASE UNCHANGED core
  BY <1>1 DEF core
<1>2. CASE StartEnqueueThread \/ ScopeExhausted \/ ScopeFailure \/ Join \/ Put
  BY <1>2 DEF StartEnqueueThread, ScopeExhausted, ScopeFailure, Join, Put
<1>3. CASE KillWorker
  BY <1>3 DEF KillWorker
<1>4. ASSUME NEW w \in Worker,
             ForkWorker(w) \/ AcquireStats(w) \/ SignalParent(w)
      PROVE  SentByHolder'
  BY <1>4 DEF ForkWorker, AcquireStats, SignalParent
<1>5. ASSUME NEW w \in Worker, Get(w) PROVE SentByHolder'
  BY <1>5 DEF Get, Stages
<1>6. ASSUME NEW w \in Worker, Evaluate(w) PROVE SentByHolder'
  BY <1>6 DEF Evaluate
<1>7. ASSUME NEW w \in Worker, ReleaseStats(w) PROVE SentByHolder'
  BY <1>7 DEF ReleaseStats
<1>8. ASSUME NEW w \in Worker, TaskDone(w) PROVE SentByHolder'
  <2>1. /\ sent' = sent /\ pc' = [pc EXCEPT ![w] = "get"]
        /\ finished' = finished \cup {wobj[w]}
        /\ dropped' = IF outcome[w] = "drop" THEN dropped \cup {wobj[w]} ELSE dropped
        /\ wobj' = [wobj EXCEPT ![w] = 0]
        /\ outcome' = [outcome EXCEPT ![w] = "none"]
        /\ wobj[w] # 0 /\ wobj[w] \notin finished
        /\ pc[w] = "task_done" /\ outcome[w] \in {"accept", "drop"}
    BY <1>8 DEF TaskDone, Stages, OnePlace, historyVars
  <2>2. \A o : Sent(o)' <=> Sent(o)
    BY <2>1 DEF Sent
  <2>3. ASSUME NEW i \in DOMAIN sent, sent[i] # 0
        PROVE  \/ sent[i] \in finished' \ dropped'
               \/ \E v \in Worker : /\ wobj'[v] = sent[i]
                                    /\ pc'[v] \in {"task_done", "dead"}
                                    /\ outcome'[v] = "accept"
    <3>1. CASE sent[i] \in finished \ dropped
      BY <3>1, <2>1
    <3>2. ASSUME NEW v \in Worker, wobj[v] = sent[i], outcome[v] = "accept",
                 pc[v] \in {"task_done", "dead"}
          PROVE  \/ sent[i] \in finished' \ dropped'
                 \/ /\ wobj'[v] = sent[i] /\ outcome'[v] = "accept"
                    /\ pc'[v] \in {"task_done", "dead"}
      <4>1. CASE v = w
        <5>1. sent[i] \notin dropped
          BY <2>1, <3>2, <4>1 DEF SentByHolder
        <5>2. QED
          BY <2>1, <3>2, <4>1, <5>1
      <4>2. CASE v # w
        BY <2>1, <3>2, <4>2
      <4>3. QED
        BY <4>1, <4>2
    <3>3. QED
      BY <3>1, <3>2, <2>3 DEF SentByHolder
  <2>4. \A v \in Worker :
          pc'[v] = "task_done" /\ outcome'[v] = "accept" => Sent(wobj'[v])
    BY <2>1 DEF SentByHolder
  <2>5. \A o \in finished' : Sent(o) \/ o \in dropped'
    BY <2>1 DEF SentByHolder
  <2>6. dropped' \subseteq finished' /\ (Sent(0) => pc'[Enq] = "closed")
    BY <2>1 DEF SentByHolder
  <2>7. QED
    BY <2>1, <2>2, <2>3, <2>4, <2>5, <2>6 DEF SentByHolder
<1>9. ASSUME NEW w \in Worker, Signalled(w) PROVE SentByHolder'
  BY <1>9 DEF Signalled, Live
<1>10. ASSUME NEW p \in Sender, Reply(p) PROVE SentByHolder'
  <2>1. /\ sent \in Seq(0..ScopeSize) /\ Payload(p) \in 0..ScopeSize
        /\ sent' = Append(sent, Payload(p))
        /\ pc' = [pc EXCEPT ![p] = IF p = Enq THEN "closed" ELSE "task_done"]
        /\ UNCHANGED <<finished, dropped, wobj, outcome>>
        /\ pc[p] = "reply"
    BY <1>10 DEF Reply, Payload
  <2>2. /\ DOMAIN sent' = DOMAIN sent \cup {Len(sent) + 1}
        /\ \A i \in DOMAIN sent : sent'[i] = sent[i]
        /\ sent'[Len(sent) + 1] = Payload(p)
    BY <2>1
  <2>3. \A o : Sent(o)' <=> Sent(o) \/ o = Payload(p)
    BY <2>2 DEF Sent
  <2>4. /\ p = Enq => Payload(p) = 0 /\ pc'[Enq] = "closed"
        /\ p # Enq => /\ p \in Worker /\ Payload(p) = wobj[p] /\ wobj[p] # 0
                      /\ outcome[p] = "accept" /\ pc'[p] = "task_done"
                      /\ pc'[Enq] = pc[Enq]
        /\ \A v \in Worker : v # p => pc'[v] = pc[v]
    BY <2>1 DEF Payload, Stages
  <2>5. \A i \in DOMAIN sent' : sent'[i] # 0 =>
          \/ sent'[i] \in finished' \ dropped'
          \/ \E v \in Worker : /\ wobj'[v] = sent'[i]
                               /\ pc'[v] \in {"task_done", "dead"}
                               /\ outcome'[v] = "accept"
    <3> SUFFICES ASSUME NEW i \in DOMAIN sent', sent'[i] # 0
                 PROVE  \/ sent'[i] \in finished \ dropped
                        \/ \E v \in Worker : /\ wobj[v] = sent'[i]
                                             /\ pc'[v] \in {"task_done", "dead"}
                                             /\ outcome[v] = "accept"
      BY <2>1
    <3>1. CASE i = Len(sent) + 1
      BY <3>1, <2>2, <2>4
    <3>2. CASE i \in DOMAIN sent
      BY <3>2, <2>1, <2>2, <2>4 DEF SentByHolder
    <3>3. QED
      BY <3>1, <3>2, <2>2
  <2>6. \A v \in Worker :
          pc'[v] = "task_done" /\ outcome'[v] = "accept" => Sent(wobj[v])'
    BY <2>1, <2>3, <2>4 DEF SentByHolder
  <2>7. Sent(0)' => pc'[Enq] = "closed"
    BY <2>3, <2>4 DEF SentByHolder
  <2>8. \A o \in finished' : Sent(o)' \/ o \in dropped'
    BY <2>1, <2>3 DEF SentByHolder
  <2>9. dropped' \subseteq finished'
    BY <2>1 DEF SentByHolder
  <2>10. QED
    BY <2>5, <2>6, <2>7, <2>8, <2>9 DEF SentByHolder
<1>11. ASSUME NEW p \in Sender,
              AcquireConn(p) \/ Receive(p) \/ Refuse(p) \/ BlastFailure(p)
       PROVE  SentByHolder'
  BY <1>11 DEF AcquireConn, Receive, Refuse, BlastFailure
<1>12. QED
  BY <1>1, <1>2, <1>3, <1>4, <1>5, <1>6, <1>7, <1>8, <1>9, <1>10, <1>11, CoreSteps,
     Zenon DEF WorkerStep, SendStep

-----------------------------------------------------------------------------
(***************************************************************************)
(* What the client sees.                                                   *)
(***************************************************************************)

\* A worker between get() and task_done() holds an unfinished object.
LEMMA HoldsUnfinished ==
  ASSUME TypeOK, Accounting, NEW w \in Worker, pc[w] \notin {"unborn", "get", "dead"}
  PROVE  wobj[w] \in Object /\ wobj[w] # 0 /\ wobj[w] \notin finished
<1>1. wobj[w] # 0 /\ wobj[w] \in 0..ScopeSize
  BY DEF Accounting, Stages, TypeOK
<1>2. wobj[w] \notin finished
  BY <1>1 DEF Accounting, OnePlace
<1>3. QED
  BY <1>1, <1>2, ConstantsAssumption DEF Object

\* What a sender is about to send has not been sent, and the search is not over.
LEMMA NotYetSent ==
  ASSUME TypeOK, Accounting, NEW p \in Sender, pc[p] = "reply"
  PROVE  /\ ~Sent(Payload(p)) /\ ~Sent(EmptyObject)
         /\ p # Enq => p \in Worker /\ Payload(p) \in Object
<1> USE ConstantsAssumption DEF Accounting, TypeOK, Sender, EmptyObject
<1>1. CASE p = Enq
  BY <1>1 DEF SentByHolder, Payload
<1>2. CASE p \in Worker
  <2>1. Payload(p) = wobj[p] /\ wobj[p] \in Object /\ wobj[p] \notin finished
        /\ wobj[p] # 0
    BY <1>2, HoldsUnfinished DEF Payload, Enq
  <2>2. ~Sent(EmptyObject)
    BY <2>1 DEF SentByHolder, Stages
  <2>3. ~Sent(wobj[p])
    <3> SUFFICES ASSUME NEW i \in DOMAIN sent, sent[i] = wobj[p] PROVE FALSE
      BY DEF Sent
    <3>1. \E v \in Worker : wobj[v] = wobj[p] /\ pc[v] \in {"task_done", "dead"}
      BY <2>1 DEF SentByHolder
    <3>2. QED
      BY <3>1, <1>2, <2>1 DEF OnePlace
  <2>4. QED
    BY <1>2, <2>1, <2>2, <2>3
<1>3. QED
  BY <1>1, <1>2

\* Reply adds its payload to what has been sent.
LEMMA ReplyAppends ==
  ASSUME TypeOK, NEW p \in Sender, Reply(p)
  PROVE  /\ sent \in Seq(0..ScopeSize) /\ Len(sent) \in Nat
         /\ DOMAIN sent = 1..Len(sent) /\ Len(sent') = Len(sent) + 1
         /\ DOMAIN sent' = DOMAIN sent \cup {Len(sent) + 1}
         /\ \A i \in DOMAIN sent : sent'[i] = sent[i]
         /\ sent'[Len(sent) + 1] = Payload(p)
         /\ \A o : Sent(o)' <=> Sent(o) \/ o = Payload(p)
<1>1. sent \in Seq(0..ScopeSize) /\ Payload(p) \in 0..ScopeSize
      /\ sent' = Append(sent, Payload(p))
  BY ConstantsAssumption DEF Reply, Payload, TypeOK, Sender, Enq, EmptyObject
<1>2. /\ sent \in Seq(0..ScopeSize) /\ Len(sent) \in Nat
      /\ DOMAIN sent = 1..Len(sent) /\ Len(sent') = Len(sent) + 1
      /\ DOMAIN sent' = DOMAIN sent \cup {Len(sent) + 1}
      /\ \A i \in DOMAIN sent : sent'[i] = sent[i]
      /\ sent'[Len(sent) + 1] = Payload(p)
  BY <1>1
<1>3. QED
  BY <1>2 DEF Sent

\* No other step does.
LEMMA OnlyReplySends ==
  ASSUME [Next]_vars
  PROVE  sent' = sent \/ \E p \in Sender : Reply(p)
<1> USE DEF queueVars, historyVars, dataVars
<1>1. CASE UNCHANGED core
  BY <1>1, Zenon DEF core
<1>2. CASE StartEnqueueThread \/ KillWorker \/ ScopeExhausted \/ ScopeFailure
           \/ Join \/ Put
  BY <1>2, Zenon DEF StartEnqueueThread, KillWorker, ScopeExhausted, ScopeFailure,
     Join, Put
<1>3. ASSUME NEW w \in Worker, ForkWorker(w) \/ WorkerStep(w) PROVE sent' = sent
  BY <1>3, Zenon DEF WorkerStep, ForkWorker, Get, Evaluate, AcquireStats,
     ReleaseStats, TaskDone, SignalParent, Signalled
<1>4. ASSUME NEW p \in Sender, SendStep(p) PROVE sent' = sent \/ Reply(p)
  BY <1>4, Zenon DEF SendStep, AcquireConn, Receive, Refuse, BlastFailure
<1>5. QED
  BY <1>1, <1>2, <1>3, <1>4, CoreSteps, Zenon

\* Only TaskDone changes what has been dropped.
LEMMA OnlyTaskDoneDrops ==
  ASSUME [Next]_vars
  PROVE  dropped' = dropped \/ \E w \in Worker : TaskDone(w)
<1> USE DEF queueVars, historyVars, dataVars
<1>1. CASE UNCHANGED core
  BY <1>1, Zenon DEF core
<1>2. CASE StartEnqueueThread \/ KillWorker \/ ScopeExhausted \/ ScopeFailure
           \/ Join \/ Put
  BY <1>2, Zenon DEF StartEnqueueThread, KillWorker, ScopeExhausted, ScopeFailure,
     Join, Put
<1>3. ASSUME NEW w \in Worker, ForkWorker(w) \/ WorkerStep(w)
      PROVE  dropped' = dropped \/ TaskDone(w)
  BY <1>3, Zenon DEF WorkerStep, ForkWorker, Get, Evaluate, AcquireStats,
     ReleaseStats, SignalParent, Signalled
<1>4. ASSUME NEW p \in Sender, SendStep(p) PROVE dropped' = dropped
  BY <1>4, Zenon DEF SendStep, AcquireConn, Receive, Reply, Refuse, BlastFailure
<1>5. QED
  BY <1>1, <1>2, <1>3, <1>4, CoreSteps, Zenon

\* Every step preserves at-most-once sending and the finality of the end.
LEMMA OnceStep ==
  ASSUME TypeOK, Accounting, SentOnce, NothingAfterEnd, [Next]_vars
  PROVE  SentOnce' /\ NothingAfterEnd'
<1>1. CASE sent' = sent
  BY <1>1 DEF SentOnce, NothingAfterEnd
<1>2. ASSUME NEW p \in Sender, Reply(p) PROVE SentOnce' /\ NothingAfterEnd'
  <2>1. ~Sent(Payload(p)) /\ ~Sent(EmptyObject)
    BY <1>2, NotYetSent DEF Reply
  <2>2. SentOnce'
    BY <1>2, <2>1, ReplyAppends DEF SentOnce, Sent
  <2>3. NothingAfterEnd'
    BY <1>2, <2>1, ReplyAppends DEF NothingAfterEnd, Sent
  <2>4. QED
    BY <2>2, <2>3
<1>3. QED
  BY <1>1, <1>2, OnlyReplySends

\* Every step is a step of ObjectDelivery or leaves its state alone.
LEMMA RefinementStep ==
  ASSUME TypeOK, Accounting, DroppedNotSent, [Next]_vars
  PROVE  [OD!Next]_<<fate, ended>>
<1>1. ASSUME NEW p \in Sender, Reply(p)
      PROVE  OD!Next
  <2>1. /\ ~Sent(Payload(p)) /\ ~Sent(EmptyObject)
        /\ p # Enq => p \in Worker /\ Payload(p) \in Object
    BY <1>1, NotYetSent DEF Reply
  <2>2. dropped' = dropped /\ \A o : Sent(o)' <=> Sent(o) \/ o = Payload(p)
    BY <1>1, ReplyAppends DEF Reply
  <2>3. CASE p = Enq
    <3>1. Payload(p) = 0 /\ 0 \notin Object
      BY <2>3, ConstantsAssumption DEF Payload, EmptyObject, Object
    <3>2. \A o \in Object : Sent(o) \/ o \in dropped
      BY <1>1, <2>3 DEF Reply, Accounting, Stages, SentByHolder
    <3>3. fate' = fate
      BY <2>2, <3>1 DEF fate
    <3>4. ~ended /\ ended'
      BY <2>1, <2>2, <3>1 DEF ended, EmptyObject
    <3>5. \A o \in Object : fate[o] # "pending"
      BY <3>2 DEF fate
    <3>6. OD!End
      <4>1. ended' = TRUE
        BY <2>2, <3>1, Zenon DEF ended, EmptyObject
      <4>2. QED
        BY <3>3, <3>4, <3>5, <4>1 DEF OD!End
    <3>7. QED
      BY <3>6 DEF OD!Next
  <2>4. CASE p # Enq
    <3>1. Payload(p) \in Object /\ Payload(p) # 0
      BY <2>1, <2>4, ConstantsAssumption DEF Object
    <3>2. Payload(p) \notin dropped
      BY <1>1, <2>1, <2>4, ConstantsAssumption
         DEF Reply, Accounting, OnePlace, Stages, SentByHolder, Payload, Sender
    <3>3. fate' = [fate EXCEPT ![Payload(p)] = "delivered"] /\ fate[Payload(p)] = "pending"
      BY <2>1, <2>2, <3>1, <3>2 DEF fate
    <3>4. ended' = ended /\ ~ended
      <4>1. Sent(0)' <=> Sent(0)
        BY <2>1, <2>2, <3>1 DEF EmptyObject
      <4>2. ended' = ended
        BY <4>1 DEF ended, EmptyObject, Sent
      <4>3. QED
        BY <4>2, <2>1 DEF ended
    <3>5. OD!Decide(Payload(p))
      BY <3>3, <3>4 DEF OD!Decide
    <3>6. QED
      BY <3>1, <3>5 DEF OD!Next
  <2>5. QED
    BY <2>3, <2>4
<1>2. ASSUME sent' = sent, dropped' = dropped
      PROVE  UNCHANGED <<fate, ended>>
  BY <1>2 DEF fate, ended, Sent
<1>3. ASSUME NEW w \in Worker, TaskDone(w), sent' = sent
      PROVE  OD!Next \/ UNCHANGED <<fate, ended>>
  <2>1. \A o : Sent(o)' <=> Sent(o)
    BY <1>3 DEF Sent
  <2>2. CASE outcome[w] = "drop"
    <3>1. /\ wobj[w] \in Object /\ wobj[w] \notin finished /\ pc[w] = "task_done"
          /\ dropped' = dropped \cup {wobj[w]}
      BY <1>3, <2>2, HoldsUnfinished DEF TaskDone
    <3>2. ~Sent(wobj[w])
      BY <3>1, <2>2, ConstantsAssumption
         DEF Accounting, SentByHolder, OnePlace, Sent, Object
    <3>3. ~Sent(EmptyObject)
      BY <3>1 DEF Accounting, SentByHolder, Stages
    <3>4. wobj[w] \notin dropped
      BY <3>1 DEF Accounting, SentByHolder
    <3>5. fate' = [fate EXCEPT ![wobj[w]] = "dropped"] /\ fate[wobj[w]] = "pending"
      BY <2>1, <3>1, <3>2, <3>4 DEF fate
    <3>6. ended' = ended /\ ~ended
      BY <2>1, <3>3, Zenon DEF ended, EmptyObject
    <3>7. OD!Decide(wobj[w])
      BY <3>5, <3>6 DEF OD!Decide
    <3>8. QED
      BY <3>1, <3>7 DEF OD!Next
  <2>3. CASE outcome[w] # "drop"
    BY <1>3, <2>3, <1>2 DEF TaskDone
  <2>4. QED
    BY <2>2, <2>3
<1>4. QED
  BY <1>1, <1>2, <1>3, OnlyReplySends, OnlyTaskDoneDrops

-----------------------------------------------------------------------------
(***************************************************************************)
(* The connection lock.                                                    *)
(***************************************************************************)

\* The connection lock is held across a call, and the call stays taken.
LEMMA LockStep ==
  ASSUME TypeOK, Stages, ConnLockHeld, OneAnswerPerCall, [Next]_vars
  PROVE  ConnLockHeld' /\ OneAnswerPerCall'
<1> USE ConstantsAssumption DEF ConnLockHeld, OneAnswerPerCall, TypeOK, Sender, Enq, Free,
        limitVars, clientVars, dataVars
<1>1. CASE UNCHANGED <<pc, connLock, request>>
  BY <1>1
<1>2. CASE ClientGetObject \/ ClientUnknownCommand
  BY <1>2 DEF ClientGetObject, ClientUnknownCommand
<1>3. CASE StartEnqueueThread \/ ScopeExhausted \/ ScopeFailure \/ Join
  BY <1>3 DEF StartEnqueueThread, ScopeExhausted, ScopeFailure, Join
<1>4. CASE KillWorker
  BY <1>4 DEF KillWorker
<1>5. ASSUME NEW w \in Worker, ForkWorker(w) PROVE ConnLockHeld' /\ OneAnswerPerCall'
  BY <1>5 DEF ForkWorker
<1>6. ASSUME NEW w \in Worker, WorkerStep(w) PROVE ConnLockHeld' /\ OneAnswerPerCall'
  <2>1. CASE Get(w)
    BY <2>1 DEF Get
  <2>2. CASE Evaluate(w)
    BY <2>2 DEF Evaluate
  <2>3. CASE AcquireStats(w)
    BY <2>3 DEF AcquireStats
  <2>4. CASE ReleaseStats(w)
    BY <2>4 DEF ReleaseStats
  <2>5. CASE TaskDone(w)
    BY <2>5 DEF TaskDone
  <2>6. CASE SignalParent(w)
    BY <2>6 DEF SignalParent
  <2>7. CASE Signalled(w)
    BY <2>7 DEF Signalled, Live
  <2>8. QED
    BY <1>6, <2>1, <2>2, <2>3, <2>4, <2>5, <2>6, <2>7 DEF WorkerStep
<1>7. ASSUME NEW p \in Sender, SendStep(p) PROVE ConnLockHeld' /\ OneAnswerPerCall'
  <2>1. CASE AcquireConn(p)
    BY <2>1 DEF AcquireConn
  <2>2. CASE Receive(p)
    BY <2>2 DEF Receive
  <2>3. CASE Reply(p)
    BY <2>3 DEF Reply
  <2>4. CASE Refuse(p)
    BY <2>4 DEF Refuse
  <2>5. CASE BlastFailure(p)
    BY <2>5 DEF BlastFailure
  <2>6. QED
    BY <1>7, <2>1, <2>2, <2>3, <2>4, <2>5 DEF SendStep
<1>8. QED
  <2>1. CASE \/ RecordWorkers \/ ControlFailure \/ HandleSignal \/ IgnoreSignals
             \/ CleanupContext \/ WorkersTerminated \/ LogStatistics \/ Exit
             \/ (\E w \in Worker : TerminateWorker(w)) \/ Put \/ UNCHANGED vars
    BY <1>1, <2>1, Zenon DEF RecordWorkers, ControlFailure, HandleSignal,
       IgnoreSignals, CleanupContext, WorkersTerminated, LogStatistics, Exit,
       TerminateWorker, Put, vars
  <2>2. CASE \/ Setup \/ Start \/ Reexecute \/ Crash \/ ExternalSignal
             \/ ClientCloseBlast \/ ClientCloseControl
    BY <1>1, <2>2, Zenon DEF Setup, Start, Reexecute, Crash, ExternalSignal,
       ClientCloseBlast, ClientCloseControl
  <2>3. QED
    BY <1>2, <1>3, <1>4, <1>5, <1>6, <1>7, <2>1, <2>2, Zenon
       DEF Next, ControlStep, EnqueueStep, Environment

\* The initial state satisfies every part of the invariant.
LEMMA AccountingInit == ASSUME Init PROVE Accounting /\ SentOnce /\ NothingAfterEnd
                                     /\ ConnLockHeld /\ OneAnswerPerCall
<1> USE ConstantsAssumption DEF Init, Sender, Enq, Free
<1>1. Yielded = {} /\ DOMAIN objQueue = {} /\ DOMAIN sent = {} /\ \A o : ~Sent(o)
  BY DEF Yielded, Sent
<1>2. Stages
  BY DEF Stages
<1>3. OnePlace
  BY <1>1 DEF OnePlace
<1>4. SentByHolder
  BY <1>1 DEF SentByHolder
<1>5. UnfinishedCount
  <2>1. Yielded \ finished = {}
    BY <1>1
  <2>2. QED
    BY <2>1, FS_EmptySet DEF UnfinishedCount
<1>6. SentOnce /\ NothingAfterEnd
  BY <1>1 DEF SentOnce, NothingAfterEnd
<1>7. ConnLockHeld /\ OneAnswerPerCall
  BY DEF ConnLockHeld, OneAnswerPerCall
<1>8. QED
  BY <1>2, <1>3, <1>4, <1>5, <1>6, <1>7 DEF Accounting

\* A dropped object is finished, and a finished object has no holder.
LEMMA DroppedFromAccounting == ASSUME TypeOK, Accounting PROVE DroppedNotSent
<1> SUFFICES ASSUME NEW o \in dropped, NEW i \in DOMAIN sent, sent[i] = o PROVE FALSE
  BY DEF DroppedNotSent, Sent
<1>1. o \in finished /\ o # 0
  BY DEF Accounting, SentByHolder, OnePlace, Yielded, TypeOK
<1>2. \E w \in Worker : wobj[w] = o
  BY <1>1 DEF Accounting, SentByHolder
<1>3. QED
  BY <1>1, <1>2 DEF Accounting, OnePlace

\* The end is sent by the enqueue thread, after the join.
LEMMA EndFromAccounting == ASSUME Accounting PROVE EndMeansAll
BY DEF Accounting, SentByHolder, Stages, EndMeansAll

-----------------------------------------------------------------------------
(***************************************************************************)
(* The theorems.                                                           *)
(***************************************************************************)

\* The accounting of objects between the queue, the workers and the client
\* (Accounting) holds in every reachable state: put(), get(), task_done() and
\* join() never lose an object, hand it to two workers or count it early.
THEOREM AccountingCorrect == Spec => []Accounting
<1>1. Accounting /\ TypeOK /\ [Next]_vars => Accounting'
  BY PlaceStep, StagesStep, SentStep DEF Accounting
<1>2. Init => Accounting
  BY AccountingInit
<1>3. QED
  BY <1>1, <1>2, TypeCorrect, PTL DEF Spec

\* When blast.close() has sent the EmptyObject, every object of the scope was
\* sent or dropped (EndMeansAll).
THEOREM EndMeansAllCorrect == Spec => []EndMeansAll
<1>1. Accounting => EndMeansAll
  BY EndFromAccounting
<1>2. QED
  BY <1>1, AccountingCorrect, PTL

\* No object is sent twice (SentOnce) and nothing is sent after the EmptyObject
\* (NothingAfterEnd), by any worker or by the enqueue thread.
THEOREM SentOnceCorrect == Spec => [](SentOnce /\ NothingAfterEnd)
<1>1. Init => SentOnce /\ NothingAfterEnd
  BY AccountingInit
<1>2. TypeOK /\ Accounting /\ (SentOnce /\ NothingAfterEnd) /\ [Next]_vars
        => (SentOnce /\ NothingAfterEnd)'
  BY OnceStep
<1>3. QED
  BY <1>1, <1>2, TypeCorrect, AccountingCorrect, PTL DEF Spec

\* An object a filter dropped is never sent (DroppedNotSent).
THEOREM DroppedNotSentCorrect == Spec => []DroppedNotSent
<1>1. TypeOK /\ Accounting => DroppedNotSent
  BY DroppedFromAccounting
<1>2. QED
  BY <1>1, TypeCorrect, AccountingCorrect, PTL

\* dispatch() answers each call of the client once: one process at a time is
\* between reading a call and answering it (OneAnswerPerCall), because the lock
\* is held from the one to the other.
THEOREM OneAnswerCorrect == Spec => []OneAnswerPerCall
<1>1. Init => ConnLockHeld /\ OneAnswerPerCall
  BY AccountingInit
<1>2. TypeOK /\ Accounting /\ (ConnLockHeld /\ OneAnswerPerCall) /\ [Next]_vars
        => (ConnLockHeld /\ OneAnswerPerCall)'
  BY LockStep DEF Accounting
<1>3. Spec => [](ConnLockHeld /\ OneAnswerPerCall)
  BY <1>1, <1>2, TypeCorrect, AccountingCorrect, PTL DEF Spec
<1>4. QED
  BY <1>3, PTL

\* The search process implements ObjectDelivery (Delivery): each step decides
\* one object, announces the end, or is invisible to the client.
THEOREM Implements == Spec => Delivery
<1>1. Init => OD!Init
  <2> SUFFICES ASSUME Init PROVE OD!Init
    OBVIOUS
  <2>1. \A o : ~Sent(o)
    BY DEF Init, Sent
  <2>2. fate = [o \in Object |-> "pending"]
    BY <2>1 DEF fate, Init
  <2>3. ended = FALSE
    BY <2>1 DEF ended, Sent
  <2>4. QED
    BY <2>2, <2>3 DEF OD!Init
<1>2. TypeOK /\ Accounting /\ DroppedNotSent /\ [Next]_vars
        => [OD!Next]_<<fate, ended>>
  BY RefinementStep
<1>3. QED
  BY <1>1, <1>2, TypeCorrect, AccountingCorrect, DroppedNotSentCorrect, PTL
     DEF Spec, Delivery, OD!Spec
=============================================================================
