------------------------------- MODULE Proxy -------------------------------
(***************************************************************************)
(* The search proxy (proxy/search.py, proxy.py) between one client and the *)
(* servers in Conn, as one process of several threads: the control thread  *)
(* (setup, send_blobs, start, retrain, statistics, reexecution), one       *)
(* receiver per server, and the thread that answers get_object.  They      *)
(* share two deques, the class attribute ProxySearch.running, and the      *)
(* model; a deque's methods are atomic.                                    *)
(***************************************************************************)
EXTENDS ProxyFilter

CONSTANTS
  Conn,         \* the servers named by the cookies
  Found         \* per server, the number of objects that the search finds there

ASSUME ProxyAssumption == IsFiniteSet(Conn) /\ Found \in [Conn -> Nat]

Object == UNION {{c} \X (1..Found[c]) : c \in Conn}

VARIABLES
  alive,       \* the process
  proxied,     \* ProxySearch.proxy_filter is set
  filters,     \* _filters: "none", "sent", or "short" of one the client sent
  link,        \* per server: none, up, ready (set up), searching, down
  isRunning,   \* ProxySearch._running, which only start() sets
  running,     \* the class attribute, which a retrain clears and sets
  retrained,   \* history: a retrain has cleared it
  model,       \* proxy_model is not empty
  ctl,         \* control thread: "idle" or "training"
  recv,        \* receivers: off, gate, tokens, asking, got, over
  left,        \* per server, the number of objects it has still to return
  queue,       \* pending_objs
  reqs,        \* length of pending_reqs
  blast,       \* thread of get_object: off, wait, gate, reset, refill, fetch, judge, over
  hand,        \* the object that fetch_object() has popped
  fate,        \* what became of each object that a server has returned
  asked        \* the client waits for an object

threadVars == <<recv, left, queue, reqs, blast, hand, fate, asked>>
setupVars == <<proxied, filters, link, isRunning, model>>
vars == <<filterVars, setupVars, alive, running, retrained, ctl, threadVars>>

NoObject == <<>>
Received(c) == <<c, Found[c] - left[c]>>

\* The class attribute is not the False of its first line but the decorator
\* running(), which is true.
Init ==
  /\ FilterInit
  /\ alive = TRUE /\ proxied = FALSE /\ filters = "none"
  /\ link = [c \in Conn |-> "none"]
  /\ isRunning = FALSE /\ running = TRUE /\ retrained = FALSE
  /\ model = FALSE /\ ctl = "idle"
  /\ recv = [c \in Conn |-> "off"] /\ left = Found
  /\ queue = <<>> /\ reqs = 0 /\ blast = "off" /\ hand = NoObject
  /\ fate = [o \in Object |-> "unseen"] /\ asked = FALSE

\* An exception leaves the control thread's loop, or shutdown() is called: the
\* process kills itself, and the filter goes with it.
Die ==
  /\ alive' = FALSE
  /\ NewFilter
  /\ UNCHANGED <<setupVars, running, retrained, ctl, threadVars>>

-----------------------------------------------------------------------------
(***************************************************************************)
(* The control thread                                                      *)
(***************************************************************************)

Control == alive /\ ctl = "idle"

\* setup(): each server is connected; a cookie that does not parse changes
\* nothing, a connection that fails raises.  A PROXY filter in the list makes a
\* new ProxyFilter, and is taken out of the list; its index is 0 when an earlier
\* setup() had one and this has none.
Setup(proxy) ==
  /\ Control /\ ~isRunning
  /\ proxied' = (proxied \/ proxy)
  /\ filters' = IF proxied /\ ~proxy THEN "short" ELSE "sent"
  /\ link' = [c \in Conn |-> "up"]
  /\ reqs' = Cardinality(Conn) /\ queue' = <<>>
  /\ IF proxy THEN NewFilter ELSE UNCHANGED filterVars
  /\ UNCHANGED <<alive, isRunning, running, retrained, model, ctl, recv, left,
                 blast, hand, fate, asked>>

\* send_blobs(): the classifier is trained on the zip file, and each server is
\* set up; a failure of that is only logged.
SendBlobs(batch, more) ==
  /\ Control /\ ~isRunning /\ filters # "none"
  /\ IF proxied
     THEN /\ AddItems(batch, more)
          /\ Trainable
          /\ full' = Trained /\ model' = TRUE
     ELSE UNCHANGED <<filterVars, model>>
  /\ link' \in [Conn -> {"up", "ready"}]
  /\ UNCHANGED <<proxied, filters, alive, isRunning, running, retrained, ctl, threadVars>>

\* start(): the search is marked as running before the servers are asked, one
\* after the other; the first that refuses ends it with an error, and leaves
\* the blast channel unstarted.
Start ==
  /\ Control /\ ~isRunning /\ filters # "none"
  /\ isRunning' = TRUE /\ running' = TRUE
  /\ IF \A c \in Conn : link[c] = "ready"
     THEN /\ link' = [c \in Conn |-> "searching"]
          /\ recv' = [c \in Conn |-> "gate"]
          /\ blast' = "wait"
     ELSE /\ \E done \in SUBSET {c \in Conn : link[c] = "ready"} :
               link' = [c \in Conn |-> IF c \in done THEN "searching" ELSE link[c]]
          /\ UNCHANGED <<recv, blast>>
  /\ UNCHANGED <<filterVars, alive, proxied, filters, retrained, model, ctl, left,
                 queue, reqs, hand, fate, asked>>

\* retrain_filter(), from the moment it stops the other threads to the moment
\* it has a new model; no examples, or no proxy filter, end it at once.
Retrain(batch) ==
  /\ Control /\ proxied /\ batch # <<>>
  /\ running' = FALSE /\ retrained' = TRUE
  /\ AddItems(batch, FALSE)
  /\ Trainable
  /\ ctl' = "training"
  /\ UNCHANGED <<setupVars, alive, full, threadVars>>

\* Mutant: the other threads are not let go on.
RetrainedStopped ==
  /\ alive /\ ctl = "training"
  /\ full' = Trained /\ model' = TRUE
  /\ running' = FALSE /\ ctl' = "idle"
  /\ UNCHANGED <<items, unnamed, arrived, latest, alive, proxied, filters, link,
                 isRunning, retrained, threadVars>>

Retrained ==
  /\ alive /\ ctl = "training"
  /\ full' = Trained /\ model' = TRUE
  /\ running' = TRUE /\ ctl' = "idle"
  /\ UNCHANGED <<items, unnamed, arrived, latest, alive, proxied, filters, link,
                 isRunning, retrained, threadVars>>

\* Statistics or a reexecution on a server that is lost or refuses; a setup
\* that cannot connect; a training that raises; or the client hangs up.
ControlFails ==
  /\ alive
  /\ Die

-----------------------------------------------------------------------------
(***************************************************************************)
(* A receiver: worker() and _handle_objects()                              *)
(***************************************************************************)

Receiver(c, from, to) ==
  /\ alive /\ recv[c] = from
  /\ recv' = [recv EXCEPT ![c] = to]
  /\ UNCHANGED <<filterVars, setupVars, alive, running, retrained, ctl, reqs, blast,
                 hand, asked>>

Gate(c) ==
  /\ running
  /\ Receiver(c, "gate", "tokens")
  /\ UNCHANGED <<left, queue, fate>>

Ask(c) ==
  /\ reqs > 0
  /\ Receiver(c, "tokens", "asking")
  /\ UNCHANGED <<left, queue, fate>>

GetResult(c) ==
  /\ left[c] > 0
  /\ Receiver(c, "asking", "got")
  /\ left' = [left EXCEPT ![c] = @ - 1]
  /\ UNCHANGED <<queue, fate>>

\* An object without attributes, a connection that fails, or an RPC error.
Stop(c) ==
  /\ Receiver(c, "asking", "over")
  /\ UNCHANGED <<left, queue, fate>>

\* Mutant: the worker looks at the flag once more, and lets the object go.
EnqueueGated(c) ==
  /\ Receiver(c, "got", "gate")
  /\ queue' = IF running THEN Append(queue, Received(c)) ELSE queue
  /\ fate' = IF running THEN [fate EXCEPT ![Received(c)] = "queued"] ELSE fate
  /\ UNCHANGED left

Enqueue(c) ==
  /\ Receiver(c, "got", "gate")
  /\ queue' = Append(queue, Received(c))
  /\ fate' = [fate EXCEPT ![Received(c)] = "queued"]
  /\ UNCHANGED left

-----------------------------------------------------------------------------
(***************************************************************************)
(* get_object() and fetch_object()                                         *)
(***************************************************************************)

BlastThread(from, to) ==
  /\ alive /\ blast = from
  /\ blast' = to
  /\ UNCHANGED <<filterVars, setupVars, alive, running, retrained, ctl, recv, left>>

Request ==
  /\ ~asked
  /\ BlastThread("wait", "gate")
  /\ asked' = TRUE
  /\ UNCHANGED <<queue, reqs, hand, fate>>

\* While a retrain is on, what was received is thrown away, and the request
\* tokens are put back to one per server.
ClearObjects ==
  /\ ~running
  /\ BlastThread("gate", "reset")
  /\ fate' = [o \in Object |-> IF o \in Range(queue) THEN "cleared" ELSE fate[o]]
  /\ queue' = <<>>
  /\ UNCHANGED <<reqs, hand, asked>>

ClearRequests ==
  /\ BlastThread("reset", "refill")
  /\ reqs' = 0
  /\ UNCHANGED <<queue, hand, fate, asked>>

SetupRequests ==
  /\ BlastThread("refill", "gate")
  /\ reqs' = reqs + Cardinality(Conn)
  /\ UNCHANGED <<queue, hand, fate, asked>>

AddRequest ==
  /\ running
  /\ BlastThread("gate", "fetch")
  /\ reqs' = reqs + 1
  /\ UNCHANGED <<queue, hand, fate, asked>>

Pop ==
  /\ queue # <<>>
  /\ BlastThread("fetch", "judge")
  /\ hand' = Head(queue) /\ queue' = Tail(queue)
  /\ UNCHANGED <<reqs, fate, asked>>

\* The prediction is below 0.4, and the object not in the sample that is sent.
Reject ==
  /\ model
  /\ BlastThread("judge", "fetch")
  /\ fate' = [fate EXCEPT ![hand] = "rejected"] /\ hand' = NoObject
  /\ UNCHANGED <<queue, reqs, asked>>

\* decrease_request(), and the reply.
Return ==
  /\ BlastThread("judge", "wait")
  /\ fate' = [fate EXCEPT ![hand] = "returned"] /\ hand' = NoObject
  /\ reqs' = IF reqs > 0 THEN reqs - 1 ELSE 0
  /\ asked' = FALSE
  /\ UNCHANGED queue

\* dispatch_blast() ends when the reply cannot be sent.
BlastFails ==
  /\ BlastThread("judge", "over")
  /\ fate' = [fate EXCEPT ![hand] = "unsent"] /\ hand' = NoObject
  /\ reqs' = IF reqs > 0 THEN reqs - 1 ELSE 0
  /\ UNCHANGED <<queue, asked>>

-----------------------------------------------------------------------------
ControlStep ==
  \/ \E proxy \in BOOLEAN : Setup(proxy)
  \/ \E batch \in ZipBatch, more \in BOOLEAN : SendBlobs(batch, more)
  \/ Start
  \/ \E batch \in Batch : Retrain(batch)
  \/ ControlFails

ReceiverStep(c) == Gate(c) \/ Ask(c) \/ GetResult(c) \/ Enqueue(c)

BlastStep ==
  \/ ClearObjects \/ ClearRequests \/ SetupRequests \/ AddRequest
  \/ Pop \/ Reject \/ Return

Next ==
  \/ ControlStep \/ Retrained
  \/ \E c \in Conn : ReceiverStep(c) \/ Stop(c)
  \/ Request \/ BlastStep \/ BlastFails

\* Every thread runs, servers answer, and a training ends.
Spec ==
  /\ Init /\ [][Next]_vars
  /\ WF_vars(Retrained) /\ WF_vars(BlastStep)
  /\ \A c \in Conn : WF_vars(ReceiverStep(c))

-----------------------------------------------------------------------------
TypeOK ==
  /\ link \in [Conn -> {"none", "up", "ready", "searching"}]
  /\ filters \in {"none", "sent", "short"}
  /\ recv \in [Conn -> {"off", "gate", "tokens", "asking", "got", "over"}]
  /\ blast \in {"off", "wait", "gate", "reset", "refill", "fetch", "judge", "over"}
  /\ queue \in Seq(Object) /\ hand \in Object \cup {NoObject}
  /\ fate \in [Object -> {"unseen", "queued", "cleared", "rejected", "returned", "unsent"}]
  /\ reqs \in Nat

\* What a server has returned is queued, in the hands of one thread, or has met
\* one end; an object is thrown away only in a retrain, and rejected only by a
\* model.
Accounted ==
  /\ \A o \in Object :
       LET here == fate[o] = "queued"
           in == {i \in DOMAIN queue : queue[i] = o}
       IN  /\ here <=> Cardinality(in) + (IF hand = o THEN 1 ELSE 0) = 1
           /\ o[2] <= Found[o[1]] - left[o[1]] /\ fate[o] = "unseen"
                => recv[o[1]] = "got" /\ o = Received(o[1])
           /\ fate[o] = "cleared" => retrained
           /\ fate[o] = "rejected" => model

\* A client that asks for an object gets one, unless its servers have no more:
\* a retrain in between, which empties both deques, does not hold it up.
Exhausted ==
  /\ queue = <<>> /\ hand = NoObject
  /\ \A c \in Conn : recv[c] = "over" \/ (recv[c] = "asking" /\ left[c] = 0)

ObjectArrives == asked ~> ~asked \/ Exhausted \/ ~alive \/ blast = "over"
=============================================================================
