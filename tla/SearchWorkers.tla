--------------------------- MODULE SearchWorkers ---------------------------
(***************************************************************************)
(* One search process of diamondd (server/search.py, the worker half of    *)
(* server/filter.py, rpc.py and DiamondServer._child of server/server.py). *)
(*                                                                         *)
(* The process has a control thread that serves the control connection,    *)
(* an enqueue-scope thread that feeds a bounded mp.JoinableQueue, and a    *)
(* set of forked worker processes that evaluate objects and send accepted  *)
(* ones to the client.  Workers and the enqueue thread share the blast     *)
(* connection through its mp.Lock, and workers and the control thread      *)
(* share the statistics lock.                                              *)
(*                                                                         *)
(* Objects are the positions 1..ScopeSize of the scope list; 0 is the      *)
(* EmptyObject that tells the client that the search is over.  What a      *)
(* filter stack decides is a choice: accept, drop or raise.                *)
(***************************************************************************)
EXTENDS Integers, Sequences, FiniteSets

CONSTANTS
  Worker,       \* the FilterStackRunner processes (config.threads of them)
  ScopeSize,    \* number of objects the scope list yields
  QueueMax,     \* capacity of the object queue (1000 in the code)
  MaxUnknown,   \* bound: unknown commands the client sends on the blast channel
  MaxSignals    \* bound: SIGTERM or SIGINT sent to the control process

\* The enqueue-scope thread, a free lock, and no worker.
Enq == "enqueue-scope-thread"
Free == "free"
NoWorker == "none"

ASSUME ConstantsAssumption ==
  /\ IsFiniteSet(Worker)
  /\ {Enq, Free, NoWorker} \cap Worker = {}
  /\ ScopeSize \in Nat
  /\ QueueMax \in Nat \ {0}
  /\ MaxUnknown \in Nat
  /\ MaxSignals \in Nat

VARIABLES
  ctl,            \* where the control thread is
  running,        \* Search._running
  configured,     \* Search._scope is not None
  context,        \* SearchState.context is not None
  ignoreSignals,  \* DiamondServer._ignore_signals
  sigPending,     \* a signal was sent to the control process, not yet handled
  workers,        \* Search._workers, as a set; {} stands for None too
  victim,         \* the worker the shutdown loop has popped, or NoWorker
  pc,             \* where each worker and the enqueue thread are
  wobj,           \* the object a worker holds, 0 for none
  outcome,        \* how a worker's _evaluate ended
  nextObj,        \* the next object the scope iterator yields
  objQueue,       \* contents of the JoinableQueue
  unfinished,     \* its unfinished-tasks semaphore
  connLock,       \* holder of the blast connection's lock
  statsLock,      \* holder of the statistics lock
  request,        \* the client's outstanding call on the blast channel
  blastOpen,      \* the client has not closed the blast connection
  controlOpen,    \* the client has not closed the control connection
  unknownSent,    \* unknown commands sent so far
  signalsSent,    \* external signals sent so far
  sent,           \* objects written to the blast connection, in order
  dropped,        \* objects a worker finished without sending them
  finished        \* objects a worker called task_done() for

searchVars  == <<running, configured, context, ignoreSignals, workers, victim>>
controlVars == <<ctl, searchVars>>
queueVars   == <<nextObj, objQueue, unfinished>>
limitVars   == <<blastOpen, controlOpen, unknownSent, signalsSent>>
clientVars  == <<request, limitVars>>
historyVars == <<sent, dropped, finished>>
\* What no step of the control thread changes, and all there is.
dataVars == <<wobj, outcome, queueVars, connLock, statsLock, clientVars, historyVars>>
vars == <<controlVars, sigPending, pc, dataVars>>

Object == 1..ScopeSize
EmptyObject == 0
Sender == Worker \cup {Enq}

Forked == {w \in Worker : pc[w] # "unborn"}
Live   == {w \in Worker : pc[w] \notin {"unborn", "dead"}}

\* The enqueue-scope thread is a daemon thread of the control process.
ProcessUp == ctl \notin {"exited", "crashed"}
Alive(p)  == p = Enq => ProcessUp

Init ==
  /\ ctl = "serving"
  /\ running = FALSE /\ configured = FALSE /\ context = FALSE
  /\ ignoreSignals = FALSE /\ sigPending = FALSE
  /\ workers = {} /\ victim = NoWorker
  /\ pc = [p \in Sender |-> IF p = Enq THEN "idle" ELSE "unborn"]
  /\ wobj = [w \in Worker |-> 0]
  /\ outcome = [w \in Worker |-> "none"]
  /\ nextObj = 1 /\ objQueue = <<>> /\ unfinished = 0
  /\ connLock = Free /\ statsLock = Free
  /\ request = "idle" /\ blastOpen = TRUE /\ controlOpen = TRUE
  /\ unknownSent = 0 /\ signalsSent = 0
  /\ sent = <<>> /\ dropped = {} /\ finished = {}

-----------------------------------------------------------------------------
(***************************************************************************)
(* The control thread: RPCs, and the steps of start().                     *)
(***************************************************************************)

\* setup(): refused once the search runs.  Its last lines commit the new
\* scope; a scope or cookie error leaves everything as it was, and the
\* FilterDependencyError of a bad filter stack, which is no RPCError, ends the
\* dispatch loop.
Setup ==
  /\ ctl = "serving" /\ controlOpen /\ ~running
  /\ \/ configured' = TRUE /\ UNCHANGED ctl
     \/ ctl' = "unwinding" /\ UNCHANGED configured
  /\ UNCHANGED <<running, context, ignoreSignals, workers, victim, sigPending,
                 pc, dataVars>>

\* start(): refused once running or without a scope; creates the shared
\* resource context unless there is one, and sets _running before any worker.
Start ==
  /\ ctl = "serving" /\ controlOpen /\ ~running /\ configured
  /\ context' = TRUE /\ running' = TRUE
  /\ ctl' = "starting"
  /\ UNCHANGED <<configured, ignoreSignals, workers, victim, sigPending, pc,
                 dataVars>>

\* start_threads(): w.start() forks the next worker.
ForkWorker(w) ==
  /\ ctl = "starting" /\ pc[w] = "unborn"
  /\ pc' = [pc EXCEPT ![w] = "get"]
  /\ UNCHANGED <<sigPending, dataVars, controlVars>>

\* start_threads(): t.start(), after every worker.
StartEnqueueThread ==
  /\ ctl = "starting" /\ Forked = Worker /\ pc[Enq] = "idle"
  /\ pc' = [pc EXCEPT ![Enq] = "put"]
  /\ UNCHANGED <<sigPending, dataVars, controlVars>>

\* start(): self._workers = workers, and the reply.
RecordWorkers ==
  /\ ctl = "starting" /\ pc[Enq] # "idle"
  /\ workers' = Worker
  /\ ctl' = "serving"
  /\ UNCHANGED <<running, configured, context, ignoreSignals, victim,
                 sigPending, pc, dataVars>>

\* reexecute_filters(): evaluates one object in the control thread, with or
\* without a running search.  The statistics lock is taken at the end of the
\* evaluation; an exception other than an RPCError ends the dispatch loop.
Reexecute ==
  /\ ctl = "serving" /\ controlOpen /\ configured
  /\ statsLock = Free
  /\ context' = TRUE
  /\ ctl' \in {"serving", "unwinding"}
  /\ UNCHANGED <<running, configured, ignoreSignals, workers, victim,
                 sigPending, pc, dataVars>>

\* dispatch() on a closed control connection raises ConnectionFailure.
ControlFailure ==
  /\ ctl = "serving" /\ ~controlOpen
  /\ ctl' = "unwinding"
  /\ UNCHANGED <<sigPending, pc, dataVars, searchVars>>

-----------------------------------------------------------------------------
(***************************************************************************)
(* Signals to the control process, and Search.shutdown().                  *)
(***************************************************************************)

\* Where raising _Signalled takes the control thread.  In the inner finally of
\* _child it replaces the exception in flight before _ignore_signals is set;
\* inside shutdown() it leaves shutdown() for good.
AfterSignal(c) ==
  IF c \in {"serving", "starting"} THEN "unwinding"
  ELSE IF c = "unwinding" THEN "shutdown"
  ELSE IF c = "exiting" THEN "exited"
  ELSE "exiting"

\* _handle_signal(): the Python handler runs in the control thread.
HandleSignal ==
  /\ ProcessUp /\ sigPending
  /\ sigPending' = FALSE
  /\ ctl' = IF ignoreSignals THEN ctl ELSE AfterSignal(ctl)
  /\ UNCHANGED <<pc, dataVars, searchVars>>

\* _child(): the inner finally.
IgnoreSignals ==
  /\ ctl = "unwinding"
  /\ ignoreSignals' = TRUE
  /\ ctl' = "shutdown"
  /\ UNCHANGED <<running, configured, context, workers, victim, sigPending,
                 pc, dataVars>>

\* shutdown(): context.cleanup().  With no context this is an AttributeError,
\* and with one it may raise too (no Docker service, an APIError that is logged
\* with an unbound container): both leave shutdown() before the worker loop.
\* It may also wait for ever, for a context lock whose holder was killed.
CleanupContext ==
  /\ ctl = "shutdown"
  /\ ctl' \in IF context THEN {"terminating", "exiting", "cleaning"}
              ELSE {"exiting"}
  /\ UNCHANGED <<sigPending, pc, dataVars, searchVars>>

\* shutdown(): pop a worker and send it SIGTERM.
TerminateWorker(w) ==
  /\ ctl = "terminating" /\ victim = NoWorker /\ w \in workers
  /\ workers' = workers \ {w}
  /\ victim' = w
  /\ UNCHANGED <<ctl, running, configured, context, ignoreSignals, sigPending,
                 pc, dataVars>>


\* shutdown(): p.join(1) returned, because the worker died or because a second
\* passed; SIGKILL, which runs no handler and so releases no lock, and join.
KillWorker ==
  /\ ctl = "terminating" /\ victim # NoWorker
  /\ pc' = [pc EXCEPT ![victim] = "dead"]
  /\ victim' = NoWorker
  /\ UNCHANGED <<ctl, running, configured, context, ignoreSignals, workers,
                 sigPending, dataVars>>

\* shutdown(): the loop is over.
WorkersTerminated ==
  /\ ctl = "terminating" /\ victim = NoWorker /\ workers = {}
  /\ ctl' = IF running THEN "logging" ELSE "exiting"
  /\ UNCHANGED <<sigPending, pc, dataVars, searchVars>>

\* shutdown(): stats.log() takes the statistics lock.
LogStatistics ==
  /\ ctl = "logging" /\ statsLock = Free
  /\ ctl' = "exiting"
  /\ UNCHANGED <<sigPending, pc, dataVars, searchVars>>

\* sys.exit(0): multiprocessing's exit handler joins every child process.
Exit ==
  /\ ctl = "exiting" /\ Live = {}
  /\ ctl' = "exited"
  /\ UNCHANGED <<sigPending, pc, dataVars, searchVars>>

\* The control process is killed outright; its threads die with it, holding
\* whatever lock they hold.
Crash ==
  /\ ProcessUp
  /\ ctl' = "crashed"
  /\ UNCHANGED <<sigPending, pc, dataVars, searchVars>>

-----------------------------------------------------------------------------
(***************************************************************************)
(* The enqueue-scope thread.                                               *)
(***************************************************************************)

\* q.put(obj): blocks while the queue is full.
Put ==
  /\ Alive(Enq) /\ pc[Enq] = "put" /\ nextObj <= ScopeSize
  /\ Len(objQueue) < QueueMax
  /\ objQueue' = Append(objQueue, nextObj)
  /\ unfinished' = unfinished + 1
  /\ nextObj' = nextObj + 1
  /\ UNCHANGED <<sigPending, pc, wobj, outcome, connLock, statsLock,
                 controlVars, clientVars, historyVars>>

\* The iterator is exhausted: q.join() next.
ScopeExhausted ==
  /\ Alive(Enq) /\ pc[Enq] = "put" /\ nextObj > ScopeSize
  /\ pc' = [pc EXCEPT ![Enq] = "join"]
  /\ UNCHANGED <<sigPending, dataVars, controlVars>>

\* An exception of the scope iterator that it does not catch ends the thread,
\* and nobody is told.
ScopeFailure ==
  /\ Alive(Enq) /\ pc[Enq] = "put"
  /\ pc' = [pc EXCEPT ![Enq] = "dead"]
  /\ UNCHANGED <<sigPending, dataVars, controlVars>>

\* Mutant: blast.close() without q.join().
JoinSkipped ==
  /\ Alive(Enq) /\ pc[Enq] = "join"
  /\ pc' = [pc EXCEPT ![Enq] = "send"]
  /\ UNCHANGED <<sigPending, dataVars, controlVars>>

\* q.join() returns once the unfinished count is zero; then blast.close().
Join ==
  /\ Alive(Enq) /\ pc[Enq] = "join" /\ unfinished = 0
  /\ pc' = [pc EXCEPT ![Enq] = "send"]
  /\ UNCHANGED <<sigPending, dataVars, controlVars>>

-----------------------------------------------------------------------------
(***************************************************************************)
(* The worker loop, FilterStackRunner.run().                               *)
(***************************************************************************)

\* obj = self._obj_queue.get()
Get(w) ==
  /\ pc[w] = "get" /\ objQueue # <<>>
  /\ wobj' = [wobj EXCEPT ![w] = Head(objQueue)]
  /\ objQueue' = Tail(objQueue)
  /\ pc' = [pc EXCEPT ![w] = "eval"]
  /\ UNCHANGED <<sigPending, outcome, nextObj, unfinished, connLock,
                 statsLock, controlVars, clientVars, historyVars>>

\* _evaluate() returns or raises; on_done_evaluate() is in its finally clause.
Evaluate(w) ==
  /\ pc[w] = "eval"
  /\ \E r \in {"accept", "drop", "error"} : outcome' = [outcome EXCEPT ![w] = r]
  /\ pc' = [pc EXCEPT ![w] = "done_evaluate"]
  /\ UNCHANGED <<sigPending, wobj, connLock, statsLock, controlVars,
                 clientVars, queueVars, historyVars>>

\* on_done_evaluate(): with self.stats.lock
AcquireStats(w) ==
  /\ pc[w] = "done_evaluate" /\ statsLock = Free
  /\ statsLock' = w
  /\ pc' = [pc EXCEPT ![w] = "stats"]
  /\ UNCHANGED <<sigPending, wobj, outcome, connLock, controlVars, clientVars,
                 queueVars, historyVars>>

ReleaseStatsDropContinues(w) ==
  /\ pc[w] = "stats"
  /\ statsLock' = Free
  /\ pc' = [pc EXCEPT ![w] = IF outcome[w] = "accept" THEN "send"
                             ELSE IF outcome[w] = "drop" THEN "get"
                             ELSE IF outcome[w] = "error" THEN "failed"
                             ELSE "dead"]
  /\ UNCHANGED <<sigPending, wobj, outcome, connLock, controlVars, clientVars,
                 queueVars, historyVars>>

\* ... and out of it: on to the blast channel, to task_done(), or to the
\* handler of the exception that was in flight.
ReleaseStats(w) ==
  /\ pc[w] = "stats"
  /\ statsLock' = Free
  /\ pc' = [pc EXCEPT ![w] = IF outcome[w] = "accept" THEN "send"
                             ELSE IF outcome[w] = "drop" THEN "task_done"
                             ELSE IF outcome[w] = "error" THEN "failed"
                             ELSE "dead"]
  /\ UNCHANGED <<sigPending, wobj, outcome, connLock, controlVars, clientVars,
                 queueVars, historyVars>>

\* self._obj_queue.task_done(); del obj
TaskDone(w) ==
  /\ pc[w] = "task_done"
  /\ unfinished' = unfinished - 1
  /\ finished' = finished \cup {wobj[w]}
  /\ dropped' = IF outcome[w] = "drop" THEN dropped \cup {wobj[w]} ELSE dropped
  /\ wobj' = [wobj EXCEPT ![w] = 0]
  /\ outcome' = [outcome EXCEPT ![w] = "none"]
  /\ pc' = [pc EXCEPT ![w] = "get"]
  /\ UNCHANGED <<sigPending, nextObj, objQueue, connLock, statsLock, sent,
                 controlVars, clientVars>>

\* Mutant: task_done() in a finally clause, so for a failed object too.
SignalParentTaskDone(w) ==
  /\ pc[w] = "failed"
  /\ sigPending' = IF ProcessUp THEN TRUE ELSE sigPending
  /\ unfinished' = unfinished - 1
  /\ finished' = finished \cup {wobj[w]}
  /\ pc' = [pc EXCEPT ![w] = "dead"]
  /\ UNCHANGED <<wobj, outcome, nextObj, objQueue, connLock, statsLock,
                 clientVars, sent, dropped, controlVars>>

\* The except clauses of run(): SIGUSR1 to the parent, and exit.  After a
\* crash of the control process the parent is somebody else.
SignalParent(w) ==
  /\ pc[w] = "failed"
  /\ sigPending' = IF ProcessUp THEN TRUE ELSE sigPending
  /\ pc' = [pc EXCEPT ![w] = "dead"]
  /\ UNCHANGED <<dataVars, controlVars>>

\* SIGTERM from shutdown() raises _Signalled in the worker: in _evaluate the
\* finally clause runs on_done_evaluate() first, elsewhere the with blocks
\* release the locks and the worker exits.
Signalled(w) ==
  /\ victim = w /\ w \in Live /\ outcome[w] # "signal"
  /\ IF pc[w] = "eval"
       THEN /\ outcome' = [outcome EXCEPT ![w] = "signal"]
            /\ pc' = [pc EXCEPT ![w] = "done_evaluate"]
            /\ UNCHANGED <<connLock, statsLock>>
       ELSE /\ pc' = [pc EXCEPT ![w] = "dead"]
            /\ connLock' = IF connLock = w THEN Free ELSE connLock
            /\ statsLock' = IF statsLock = w THEN Free ELSE statsLock
            /\ UNCHANGED outcome
  /\ UNCHANGED <<sigPending, wobj, controlVars, clientVars, queueVars,
                 historyVars>>

-----------------------------------------------------------------------------
(***************************************************************************)
(* The blast channel: BlastChannel.send() and close() both loop over       *)
(* RPCConnection.dispatch() until their single-use handler has been        *)
(* called.  The lock is held from before the request is read until the     *)
(* reply is written, and is free between two rounds of the loop.           *)
(***************************************************************************)

\* Mutant: dispatch() without the connection lock.
AcquireConnUnlocked(p) ==
  /\ Alive(p) /\ pc[p] = "send"
  /\ connLock' = p
  /\ pc' = [pc EXCEPT ![p] = "receive"]
  /\ UNCHANGED <<sigPending, wobj, outcome, statsLock, controlVars,
                 clientVars, queueVars, historyVars>>

\* dispatch(): with self._lock, before anything is read.
AcquireConn(p) ==
  /\ Alive(p) /\ pc[p] = "send" /\ connLock = Free
  /\ connLock' = p
  /\ pc' = [pc EXCEPT ![p] = "receive"]
  /\ UNCHANGED <<sigPending, wobj, outcome, statsLock, controlVars,
                 clientVars, queueVars, historyVars>>

\* _receive(): blocks until the client has a call outstanding.  get_object()
\* is the only handler; another command gets RPCProcedureUnavailable.
Receive(p) ==
  /\ Alive(p) /\ pc[p] = "receive" /\ request \in {"get_object", "unknown"}
  /\ pc' = [pc EXCEPT ![p] = IF request = "get_object" THEN "reply" ELSE "refuse"]
  /\ request' = "taken"
  /\ UNCHANGED <<sigPending, wobj, outcome, connLock, statsLock, controlVars,
                 limitVars, queueVars, historyVars>>

\* What a sender has to say.
Payload(p) == IF p = Enq THEN EmptyObject ELSE wobj[p]

\* Mutant: the sender's loop does not see that its handler was called.
ReplyAgain(p) ==
  /\ Alive(p) /\ pc[p] = "reply"
  /\ sent' = Append(sent, Payload(p))
  /\ request' = "idle"
  /\ connLock' = Free
  /\ pc' = [pc EXCEPT ![p] = IF p = Enq THEN "closed" ELSE "send"]
  /\ UNCHANGED <<sigPending, wobj, outcome, statsLock, dropped, finished,
                 controlVars, limitVars, queueVars>>

\* _reply() with the object: the handler's loop ends.  sendall() may well
\* succeed after the client has closed.
Reply(p) ==
  /\ Alive(p) /\ pc[p] = "reply"
  /\ sent' = Append(sent, Payload(p))
  /\ request' = "idle"
  /\ connLock' = Free
  /\ pc' = [pc EXCEPT ![p] = IF p = Enq THEN "closed" ELSE "task_done"]
  /\ UNCHANGED <<sigPending, wobj, outcome, statsLock, dropped, finished,
                 controlVars, limitVars, queueVars>>

\* _reply() with an error status: once more round the loop.
Refuse(p) ==
  /\ Alive(p) /\ pc[p] = "refuse"
  /\ request' = "idle"
  /\ connLock' = Free
  /\ pc' = [pc EXCEPT ![p] = "send"]
  /\ UNCHANGED <<sigPending, wobj, outcome, statsLock, controlVars, limitVars,
                 queueVars, historyVars>>

\* _receive() or _reply() on a closed connection raises ConnectionFailure.
BlastFailure(p) ==
  /\ Alive(p) /\ pc[p] \in {"receive", "reply", "refuse"} /\ ~blastOpen
  /\ connLock' = Free
  /\ pc' = [pc EXCEPT ![p] = IF p = Enq THEN "dead" ELSE "failed"]
  /\ UNCHANGED <<sigPending, wobj, outcome, statsLock, controlVars,
                 clientVars, queueVars, historyVars>>

-----------------------------------------------------------------------------
(***************************************************************************)
(* The environment: the client, and signals from outside.                  *)
(***************************************************************************)

\* The client has one call outstanding at a time.  Nothing keeps it from asking
\* for more after the EmptyObject.
ClientGetObject ==
  /\ blastOpen /\ request = "idle"
  /\ request' = "get_object"
  /\ UNCHANGED <<sigPending, pc, wobj, outcome, connLock, statsLock,
                 controlVars, limitVars, queueVars, historyVars>>

ClientUnknownCommand ==
  /\ blastOpen /\ request = "idle" /\ unknownSent < MaxUnknown
  /\ request' = "unknown"
  /\ unknownSent' = unknownSent + 1
  /\ UNCHANGED <<sigPending, pc, wobj, outcome, connLock, statsLock,
                 blastOpen, controlOpen, signalsSent, controlVars, queueVars,
                 historyVars>>

ClientCloseBlast ==
  /\ blastOpen
  /\ blastOpen' = FALSE
  /\ UNCHANGED <<sigPending, pc, wobj, outcome, connLock, statsLock, request,
                 controlOpen, unknownSent, signalsSent, controlVars,
                 queueVars, historyVars>>

ClientCloseControl ==
  /\ controlOpen
  /\ controlOpen' = FALSE
  /\ UNCHANGED <<sigPending, pc, wobj, outcome, connLock, statsLock, request,
                 blastOpen, unknownSent, signalsSent, controlVars, queueVars,
                 historyVars>>

ExternalSignal ==
  /\ ProcessUp /\ signalsSent < MaxSignals
  /\ sigPending' = TRUE
  /\ signalsSent' = signalsSent + 1
  /\ UNCHANGED <<pc, wobj, outcome, connLock, statsLock, request, blastOpen,
                 controlOpen, unknownSent, controlVars, queueVars,
                 historyVars>>

-----------------------------------------------------------------------------
ControlStep ==
  \/ StartEnqueueThread \/ RecordWorkers \/ ControlFailure
  \/ HandleSignal \/ IgnoreSignals \/ CleanupContext \/ KillWorker
  \/ WorkersTerminated \/ LogStatistics \/ Exit
  \/ \E w \in Worker : ForkWorker(w) \/ TerminateWorker(w)

WorkerStep(w) ==
  \/ Get(w) \/ Evaluate(w) \/ AcquireStats(w) \/ ReleaseStats(w)
  \/ TaskDone(w) \/ SignalParent(w) \/ Signalled(w)

EnqueueStep == Put \/ ScopeExhausted \/ Join

SendStep(p) ==
  AcquireConn(p) \/ Receive(p) \/ Reply(p) \/ Refuse(p) \/ BlastFailure(p)

Environment ==
  \/ Setup \/ Start \/ Reexecute
  \/ ScopeFailure \/ Crash \/ ExternalSignal
  \/ ClientGetObject \/ ClientUnknownCommand
  \/ ClientCloseBlast \/ ClientCloseControl

Next ==
  \/ ControlStep
  \/ EnqueueStep
  \/ \E w \in Worker : WorkerStep(w)
  \/ \E p \in Sender : SendStep(p)
  \/ Environment

Spec == Init /\ [][Next]_vars

\* Every process and thread that can take a step takes one: the code waits
\* without a limit only on a lock, the queue, the client or a signal, a filter
\* returns, and join(1) times out.  The client of client/search.py asks for the
\* next object as long as its connection is open.  Nothing is assumed of the
\* user, of signals from outside, or of failures.
Fairness ==
  /\ WF_vars(ControlStep)
  /\ WF_vars(EnqueueStep)
  /\ \A w \in Worker : WF_vars(WorkerStep(w))
  /\ \A p \in Sender : WF_vars(SendStep(p))
  /\ WF_vars(ClientGetObject)

FairSpec == Spec /\ Fairness

-----------------------------------------------------------------------------
(***************************************************************************)
(* Properties.                                                             *)
(***************************************************************************)

Flags ==
  /\ running \in BOOLEAN /\ configured \in BOOLEAN /\ context \in BOOLEAN
  /\ ignoreSignals \in BOOLEAN /\ sigPending \in BOOLEAN
  /\ blastOpen \in BOOLEAN /\ controlOpen \in BOOLEAN

TypeOK ==
  /\ Flags
  /\ ctl \in {"serving", "starting", "unwinding", "shutdown", "cleaning",
              "terminating", "logging", "exiting", "exited", "crashed"}
  /\ workers \in SUBSET Worker /\ victim \in Worker \cup {NoWorker}
  /\ pc \in [Sender -> {"idle", "put", "join", "closed", "unborn", "get",
                        "eval", "done_evaluate", "stats", "task_done", "failed",
                        "send", "receive", "reply", "refuse", "dead"}]
  /\ wobj \in [Worker -> 0..ScopeSize]
  /\ outcome \in [Worker -> {"none", "accept", "drop", "error", "signal"}]
  /\ nextObj \in 1..ScopeSize + 1 /\ objQueue \in Seq(Object)
  /\ unfinished \in Int
  /\ connLock \in Sender \cup {Free} /\ statsLock \in Worker \cup {Free}
  /\ request \in {"idle", "get_object", "unknown", "taken"}
  /\ unknownSent \in 0..MaxUnknown /\ signalsSent \in 0..MaxSignals
  /\ sent \in Seq(0..ScopeSize)
  /\ dropped \in SUBSET (0..ScopeSize) /\ finished \in SUBSET (0..ScopeSize)

Sent(o) == \E i \in DOMAIN sent : sent[i] = o

\* The EmptyObject promises that no accepted object is still to come (close():
\* "Tell the client that no more objects will be returned"): when it is on the
\* wire, every object of the scope has been sent or was dropped by a filter,
\* whichever workers died, failed or were still sending on the way.
EndMeansAll ==
  Sent(EmptyObject) => \A o \in Object : Sent(o) \/ o \in dropped

\* Nothing follows the EmptyObject, although workers and the enqueue thread
\* send on the same connection.
NothingAfterEnd ==
  \A i \in DOMAIN sent : sent[i] = EmptyObject => i = Len(sent)

\* An object is sent at most once, although a sender that answered an unknown
\* command gives up the connection and goes round its loop again.
SentOnce ==
  \A i, j \in DOMAIN sent : sent[i] = sent[j] => i = j

\* A dropped object is never sent.
DroppedNotSent == \A o \in dropped : ~Sent(o)

\* get_object() calls and replies pair up: at most one living process is between
\* reading a call and answering it, and the client is waiting for that answer.
OneAnswerPerCall ==
  \A p \in Sender :
    pc[p] \in {"reply", "refuse"} =>
      /\ connLock = p
      /\ request = "taken"

Queued(o) == \E i \in DOMAIN objQueue : objQueue[i] = o
Yielded == 1..nextObj - 1

\* The stages of the worker loop and of blast.close(), and what they imply.
Stages ==
  /\ \A w \in Worker :
       /\ pc[w] \notin {"idle", "put", "join", "closed"}
       /\ pc[w] \in {"unborn", "get"} => wobj[w] = 0
       /\ pc[w] \notin {"unborn", "get", "dead"} => wobj[w] # 0
       /\ pc[w] \in {"send", "receive", "reply", "refuse"} => outcome[w] = "accept"
       /\ pc[w] = "task_done" => outcome[w] \in {"accept", "drop"}
  /\ pc[Enq] \in {"join", "send", "receive", "reply", "refuse", "closed"} =>
       nextObj = ScopeSize + 1
  /\ pc[Enq] \in {"send", "receive", "reply", "refuse", "closed"} =>
       finished = Object

\* Every object the scope list has yielded is in one place: in the queue, with
\* one worker (maybe a dead one), or finished.
OnePlace ==
  /\ \A i \in DOMAIN objQueue : objQueue[i] \in Yielded \ finished
  /\ \A i, j \in DOMAIN objQueue : objQueue[i] = objQueue[j] => i = j
  /\ \A w \in Worker : wobj[w] # 0 =>
       /\ wobj[w] \in Yielded \ finished
       /\ ~Queued(wobj[w])
       /\ \A v \in Worker : wobj[v] = wobj[w] => v = w
  /\ finished \subseteq Yielded

\* What has been sent was accepted by the worker that held it, which did not
\* try again; what is finished was sent or dropped.
SentByHolder ==
  /\ \A i \in DOMAIN sent : sent[i] # 0 =>
       \/ sent[i] \in finished \ dropped
       \/ \E w \in Worker : /\ wobj[w] = sent[i]
                            /\ pc[w] \in {"task_done", "dead"}
                            /\ outcome[w] = "accept"
  /\ \A w \in Worker :
       pc[w] = "task_done" /\ outcome[w] = "accept" => Sent(wobj[w])
  /\ \A o \in finished : Sent(o) \/ o \in dropped
  /\ dropped \subseteq finished
  /\ Sent(EmptyObject) => pc[Enq] = "closed"

\* The queue's unfinished count, which q.join() waits for, is the number of
\* objects that were put and not yet finished, those of dead workers included.
UnfinishedCount == unfinished = Cardinality(Yielded \ finished)

\* The accounting of objects that the end-of-search announcement rests on:
\* put(), get(), task_done() and join() by several processes never lose an
\* object, hand it to two workers, or count it done before it was sent.
Accounting == Stages /\ OnePlace /\ SentByHolder /\ UnfinishedCount

\* The connection lock covers everything from reading a call to answering it.
ConnLockHeld ==
  \A p \in Sender : pc[p] \in {"receive", "reply", "refuse"} => connLock = p

\* A running search gets to its EmptyObject as long as the client stays, the
\* scope list can be read, and nothing makes the control thread leave its
\* loop: no circular wait between the full queue, q.join(), the connection lock
\* held while waiting for the client, and the statistics lock.
SearchEnds ==
  pc[Enq] = "put" ~>
    \/ Sent(EmptyObject)
    \/ ~blastOpen
    \/ pc[Enq] = "dead"
    \/ ctl \notin {"starting", "serving"}


-----------------------------------------------------------------------------
(***************************************************************************)
(* What the client sees is ObjectDelivery.                                 *)
(***************************************************************************)
fate == [o \in Object |-> IF Sent(o) THEN "delivered"
                          ELSE IF o \in dropped THEN "dropped"
                          ELSE "pending"]
ended == Sent(EmptyObject)

OD == INSTANCE ObjectDelivery WITH Object <- Object, fate <- fate, ended <- ended

\* The search process implements ObjectDelivery.
Delivery == OD!Spec
=============================================================================
