---------------------------- MODULE ClientSearch ----------------------------
(***************************************************************************)
(* A DiamondSearch of the Python client (client/search.py) and the control *)
(* handlers of the servers it talks to (server/search.py): one connection  *)
(* per server, which start() sets up one after the other, a receiver       *)
(* thread for each, a bounded queue.Queue they all put results into, and   *)
(* the generator DiamondSearch.results that yields them to the user.       *)
(*                                                                         *)
(* The i-th object of connection c is <<c, i>>.  A server sends as many as *)
(* it likes, up to MaxObjects, and ends or fails at any point.             *)
(*                                                                         *)
(* The user calls the methods one at a time, except close(), which may     *)
(* come while the generator is being read.  It does not start a search it  *)
(* has closed, nor evaluate() on one it has started: that would give the   *)
(* connection a new session under its receiver's feet.                     *)
(***************************************************************************)
EXTENDS Integers, Sequences, FiniteSets

CONSTANTS
  NumConn,     \* number of _DiamondConnections
  Blob,        \* code and blob arguments of the filters
  MaxObjects,  \* bound: objects a server sends
  QueueMax     \* capacity of pending_objs (100 in the code)

ASSUME ConstantsAssumption ==
  /\ NumConn \in Nat \ {0}
  /\ IsFiniteSet(Blob)
  /\ MaxObjects \in Nat
  /\ QueueMax \in Nat \ {0}

\* The _DiamondConnections in the order of the dict _connections, which
\* start(), get_stats() and close() follow.
Conn == 1..NumConn

VARIABLES
  phase,         \* where the user's thread is
  call,          \* the run_search() or evaluate() being made
  control,       \* control._sock of each connection: None, open or closed
  blast,         \* blast._sock of each connection
  closedConns,   \* connections with _closed set
  cache,         \* the blobs each server holds
  running,       \* connections whose server runs the search
  closeCalled,   \* close() was called, whether it returned or raised
  thread,        \* where the receiver thread of each connection is
  count,         \* objects received so far on each connection
  pendingConns,  \* pending_conns
  pendingObjs,   \* pending_objs
  yielded,       \* objects the generator has yielded, in order
  abort          \* close() returned: _closed and _abort_event

sessionVars == <<call, control, blast, closedConns, cache, running, closeCalled>>
threadVars == <<thread, count>>
poolVars == <<pendingConns, pendingObjs, yielded>>
vars == <<phase, sessionVars, threadVars, poolVars, abort>>

\* No call under way.
NoCall == [op |-> "none", conn |-> 0, step |-> "none", asked |-> {}]

Init ==
  /\ phase = "idle" /\ call = NoCall
  /\ control = [c \in Conn |-> "none"] /\ blast = [c \in Conn |-> "none"]
  /\ closedConns = {} /\ cache \in [Conn -> SUBSET Blob]
  /\ running = {} /\ closeCalled = FALSE
  /\ thread = [c \in Conn |-> "none"]
  /\ count = [c \in Conn |-> 0]
  /\ pendingConns = {} /\ pendingObjs = <<>> /\ yielded = <<>>
  /\ abort = FALSE

-----------------------------------------------------------------------------
(***************************************************************************)
(* A session with one server: run_search() and evaluate().                 *)
(***************************************************************************)

\* start() turns to the first server.
StartCalled ==
  /\ phase = "idle" /\ ~closeCalled
  /\ phase' = "calling"
  /\ call' = [op |-> "start", conn |-> 1, step |-> "control", asked |-> {}]
  /\ UNCHANGED <<control, blast, closedConns, cache, running, closeCalled,
                 threadVars, poolVars, abort>>

\* evaluate() picks the server by the hash of the object.
EvaluateCalled(c) ==
  /\ phase = "idle" /\ ~closeCalled
  /\ phase' = "calling"
  /\ call' = [op |-> "evaluate", conn |-> c, step |-> "control", asked |-> {}]
  /\ UNCHANGED <<control, blast, closedConns, cache, running, closeCalled,
                 threadVars, poolVars, abort>>

\* Step s of the call is over, and step t is next.
Advance(s, t) ==
  /\ phase = "calling" /\ call.step = s
  /\ call' = [call EXCEPT !.step = t]

\* connect() makes the control socket.  The socket of an earlier session of
\* this connection is dropped, which hangs that server up.
ConnectControl ==
  /\ Advance("control", "blast")
  /\ control' = [control EXCEPT ![call.conn] = "open"]
  /\ running' = running \ {call.conn}
  /\ UNCHANGED <<phase, blast, closedConns, cache, closeCalled, threadVars,
                 poolVars, abort>>

\* ... and the blast socket, with the nonce of the control connection.
ConnectBlast ==
  /\ Advance("blast", "setup")
  /\ blast' = [blast EXCEPT ![call.conn] = "open"]
  /\ UNCHANGED <<phase, control, closedConns, cache, running, closeCalled,
                 threadVars, poolVars, abort>>

\* Mutant: setup() takes a blob that other searches use for cached.
SetupPartial ==
  /\ phase = "calling" /\ call.step = "setup"
  /\ \E known \in SUBSET Blob :
       call' = [call EXCEPT !.step = "send",
                            !.asked = (Blob \ cache[call.conn]) \ known]
  /\ UNCHANGED <<phase, control, blast, closedConns, cache, running,
                 closeCalled, threadVars, poolVars, abort>>

\* The setup() handler verifies the cookies, keeps scope and filters, and
\* answers with the URIs it does not hold.
Setup ==
  /\ phase = "calling" /\ call.step = "setup"
  /\ call' = [call EXCEPT !.step = "send", !.asked = Blob \ cache[call.conn]]
  /\ UNCHANGED <<phase, control, blast, closedConns, cache, running,
                 closeCalled, threadVars, poolVars, abort>>

\* send_blobs(), unless nothing was asked for.
SendBlobs ==
  /\ Advance("send", call.op)
  /\ cache' = [cache EXCEPT ![call.conn] = @ \cup call.asked]
  /\ UNCHANGED <<phase, control, blast, closedConns, running, closeCalled,
                 threadVars, poolVars, abort>>

\* The start() handler finds scope, code and blobs, and starts the workers;
\* the client goes on to the next server, or binds the generator to results.
StartSearch ==
  /\ phase = "calling" /\ call.step = "start" /\ Blob \subseteq cache[call.conn]
  /\ running' = running \cup {call.conn}
  /\ IF call.conn = NumConn
       THEN phase' = "launching" /\ call' = NoCall
       ELSE /\ call' = [op |-> "start", conn |-> call.conn + 1,
                        step |-> "control", asked |-> {}]
            /\ UNCHANGED phase
  /\ UNCHANGED <<control, blast, closedConns, cache, closeCalled, threadVars,
                 poolVars, abort>>

\* The reexecute_filters() handler answers.  (An object it does not hold is
\* asked for with DiamondRPCFCacheMiss: see CallFailed.)
Reexecuted ==
  /\ phase = "calling" /\ call.step = "evaluate"
  /\ Blob \subseteq cache[call.conn]
  /\ phase' = "idle" /\ call' = NoCall
  /\ UNCHANGED <<control, blast, closedConns, cache, running, closeCalled,
                 threadVars, poolVars, abort>>

\* Mutant: start() reports the server and goes on with the next one.
CallSkips ==
  /\ phase = "calling" /\ call.op = "start" /\ call.conn < NumConn
  /\ control' = [control EXCEPT ![call.conn] = "open"]
  /\ running' = running \ {call.conn}
  /\ call' = [call EXCEPT !.conn = @ + 1, !.step = "control"]
  /\ UNCHANGED <<phase, blast, closedConns, cache, closeCalled, threadVars,
                 poolVars, abort>>

\* A step of the call raises: the server cannot be reached, hangs up, or
\* refuses (an expired or invalid cookie, a missing blob, an object it still
\* does not hold after evaluate() has sent its name).  The socket of a failed
\* connect() stays behind; so do the servers start() has started, this one too
\* when its answer is lost.
CallFailed ==
  /\ phase = "calling"
  /\ control' = [control EXCEPT ![call.conn] = "open"]
  /\ blast' = IF call.step = "blast"
                THEN [blast EXCEPT ![call.conn] = "open"] ELSE blast
  /\ running' \in IF call.step = "start" THEN {running, running \cup {call.conn}}
                                          ELSE {running \ {call.conn}}
  /\ phase' = "idle" /\ call' = NoCall
  /\ UNCHANGED <<closedConns, cache, closeCalled, threadVars, poolVars, abort>>

\* Another search on the server adds a blob it shares with this one.
OthersAdd(c, b) ==
  /\ cache' = [cache EXCEPT ![c] = @ \cup {b}]
  /\ UNCHANGED <<phase, call, control, blast, closedConns, running,
                 closeCalled, threadVars, poolVars, abort>>

-----------------------------------------------------------------------------
(***************************************************************************)
(* The generator, get_stats() and close().                                 *)
(***************************************************************************)

\* The user asks for the first result: the generator starts the threads.
Launch(c) ==
  /\ phase = "launching" /\ thread[c] = "none"
  /\ pendingConns' = pendingConns \cup {c}
  /\ thread' = [thread EXCEPT ![c] = "receive"]
  /\ UNCHANGED <<phase, sessionVars, count, pendingObjs, yielded, abort>>

Launched ==
  /\ phase = "launching" /\ \A c \in Conn : thread[c] # "none"
  /\ phase' = "get"
  /\ UNCHANGED <<sessionVars, threadVars, poolVars, abort>>

\* yield pending_objs.get(timeout=10)
Get ==
  /\ phase = "get" /\ pendingObjs # <<>>
  /\ yielded' = Append(yielded, Head(pendingObjs))
  /\ pendingObjs' = Tail(pendingObjs)
  /\ UNCHANGED <<phase, sessionVars, threadVars, pendingConns, abort>>

\* ... raises queue.Empty after ten seconds.
GetTimeout ==
  /\ phase = "get" /\ pendingObjs = <<>>
  /\ phase' = "check"
  /\ UNCHANGED <<sessionVars, threadVars, poolVars, abort>>

\* if len(pending_conns) == 0: return
Check ==
  /\ phase = "check"
  /\ phase' = IF pendingConns = {} THEN "returned" ELSE "get"
  /\ UNCHANGED <<sessionVars, threadVars, poolVars, abort>>

\* The user asks for no more results.
Abandon ==
  /\ phase = "get"
  /\ phase' = "abandoned"
  /\ UNCHANGED <<sessionVars, threadVars, poolVars, abort>>

\* What close() does: it closes one connection after the other, and raises
\* AttributeError at the first one that lacks a socket, with what it has closed
\* closed and the event not set.
CloseEffect ==
  LET lacking == {c \in Conn \ closedConns : "none" \in {control[c], blast[c]}}
      reached == {c \in Conn \ closedConns : \A d \in lacking : c <= d}
      Shut(sock) == [c \in Conn |-> IF c \in reached /\ sock[c] # "none"
                                     THEN "closed" ELSE sock[c]]
  IN  /\ closedConns' = closedConns \cup reached
      /\ control' = Shut(control)
      /\ blast' = Shut(blast)
      /\ running' = running \ reached
      /\ abort' = (lacking = {})
      /\ closeCalled' = TRUE

\* close(), unless an earlier one has returned.
Close ==
  /\ phase # "calling" /\ ~abort
  /\ CloseEffect
  /\ UNCHANGED <<phase, call, cache, threadVars, poolVars>>

\* get_stats() asks every server in turn.  A server that does not run the
\* search, or an answer that cannot be decoded, is an RPCError, for which it
\* closes the search.
GetStatsRefused(c) ==
  /\ phase # "calling" /\ ~abort /\ control[c] = "open"
  /\ 1..(c - 1) \subseteq running
  /\ CloseEffect
  /\ UNCHANGED <<phase, call, cache, threadVars, poolVars>>

\* ... and a server that has gone is a ConnectionFailure, which it passes on.
GetStatsLost(c) ==
  /\ phase # "calling" /\ control[c] = "open" /\ 1..(c - 1) \subseteq running
  /\ control' = [control EXCEPT ![c] = "closed"]
  /\ running' = running \ {c}
  /\ UNCHANGED <<phase, call, blast, closedConns, cache, closeCalled,
                 threadVars, poolVars, abort>>

-----------------------------------------------------------------------------
(***************************************************************************)
(* recv_objs(), the receiver thread.                                       *)
(***************************************************************************)

\* get_result() returns an object.
Receive(c) ==
  /\ thread[c] = "receive" /\ count[c] < MaxObjects
  /\ count' = [count EXCEPT ![c] = @ + 1]
  /\ thread' = [thread EXCEPT ![c] = "put"]
  /\ UNCHANGED <<phase, sessionVars, poolVars, abort>>

\* Mutant: the thread ends without its finally clause.
EndReceiveForgotten(c) ==
  /\ thread[c] = "receive"
  /\ thread' = [thread EXCEPT ![c] = "done"]
  /\ UNCHANGED <<phase, sessionVars, count, poolVars, abort>>

\* get_result() returns None at the end of the search, or the connection fails.
EndReceive(c) ==
  /\ thread[c] = "receive"
  /\ thread' = [thread EXCEPT ![c] = "finally"]
  /\ UNCHANGED <<phase, sessionVars, count, poolVars, abort>>

\* get_result() cannot decode the object: the connection is closed.
ReceiveGarbled(c) ==
  /\ thread[c] = "receive"
  /\ thread' = [thread EXCEPT ![c] = "finally"]
  /\ closedConns' = closedConns \cup {c}
  /\ control' = [control EXCEPT ![c] = "closed"]
  /\ blast' = [blast EXCEPT ![c] = "closed"]
  /\ running' = running \ {c}
  /\ UNCHANGED <<phase, call, cache, closeCalled, count, poolVars, abort>>

\* pending_objs.put(obj)
Put(c) ==
  /\ thread[c] = "put" /\ Len(pendingObjs) < QueueMax
  /\ pendingObjs' = Append(pendingObjs, <<c, count[c]>>)
  /\ thread' = [thread EXCEPT ![c] = "receive"]
  /\ UNCHANGED <<phase, sessionVars, count, pendingConns, yielded, abort>>

\* Mutant: the object is given up after the first timeout.
PutTimeoutDrops(c) ==
  /\ thread[c] = "put" /\ Len(pendingObjs) >= QueueMax
  /\ thread' = [thread EXCEPT ![c] = "receive"]
  /\ UNCHANGED <<phase, sessionVars, count, poolVars, abort>>

\* Mutant: ... and never.
PutTimeoutRetries(c) ==
  /\ thread[c] = "put" /\ Len(pendingObjs) >= QueueMax
  /\ UNCHANGED vars

\* ... raises queue.Full after ten seconds: the object is given up if the
\* search was closed, and otherwise put() is called again.  Giving up leaves
\* only the inner loop.
PutTimeout(c) ==
  /\ thread[c] = "put" /\ Len(pendingObjs) >= QueueMax
  /\ thread' = [thread EXCEPT ![c] = IF abort THEN "receive" ELSE "put"]
  /\ UNCHANGED <<phase, sessionVars, count, poolVars, abort>>

\* finally: pending_conns.remove(conn)
Remove(c) ==
  /\ thread[c] = "finally"
  /\ pendingConns' = pendingConns \ {c}
  /\ thread' = [thread EXCEPT ![c] = "done"]
  /\ UNCHANGED <<phase, sessionVars, count, pendingObjs, yielded, abort>>

-----------------------------------------------------------------------------
CallStep ==
  \/ ConnectControl \/ ConnectBlast \/ Setup \/ SendBlobs \/ StartSearch
  \/ Reexecuted \/ CallFailed

UserStep ==
  \/ CallStep \/ Launched \/ Get \/ GetTimeout \/ Check
  \/ \E c \in Conn : Launch(c)

ThreadStep(c) ==
  \/ Receive(c) \/ EndReceive(c) \/ ReceiveGarbled(c)
  \/ Put(c) \/ PutTimeout(c) \/ Remove(c)

Next ==
  \/ UserStep \/ StartCalled \/ Abandon \/ Close
  \/ \E c \in Conn : \/ ThreadStep(c) \/ EvaluateCalled(c)
                      \/ GetStatsRefused(c) \/ GetStatsLost(c)
  \/ \E c \in Conn, b \in Blob : OthersAdd(c, b)

Spec == Init /\ [][Next]_vars

\* Threads run, a server sends its next object or ends (SearchEnds and
\* ShutdownCompletes of SearchWorkers), and the user iterates until it stops
\* for good.
Fairness == WF_vars(UserStep) /\ \A c \in Conn : WF_vars(ThreadStep(c))

FairSpec == Spec /\ Fairness

-----------------------------------------------------------------------------
Call ==
  [op : {"none", "start", "evaluate"}, conn : 0..NumConn,
   step : {"none", "control", "blast", "setup", "send", "start", "evaluate"},
   asked : SUBSET Blob]

\* The types of the sessions with the servers.
SessionTypeOK ==
  /\ phase \in {"idle", "calling", "launching", "get", "check", "returned",
                "abandoned"}
  /\ call \in Call /\ (phase = "calling" => call.conn \in Conn)
  /\ control \in [Conn -> {"none", "open", "closed"}]
  /\ blast \in [Conn -> {"none", "open", "closed"}]
  /\ closedConns \subseteq Conn /\ running \subseteq Conn
  /\ cache \in [Conn -> SUBSET Blob] /\ closeCalled \in BOOLEAN
  /\ thread \in [Conn -> {"none", "receive", "put", "finally", "done"}]

\* ... and of the pool.
TypeOK ==
  /\ SessionTypeOK
  /\ count \in [Conn -> 0..MaxObjects]
  /\ pendingConns \subseteq Conn
  /\ pendingObjs \in Seq(Conn \X (1..MaxObjects)) /\ Len(pendingObjs) <= QueueMax
  /\ yielded \in Seq(Conn \X (1..MaxObjects))
  /\ abort \in BOOLEAN

\* What the threads have put, in order.
Pool == yielded \o pendingObjs

\* How many objects the thread of c is done with.
Handled(c) == IF thread[c] = "put" THEN count[c] - 1 ELSE count[c]

\* The pool neither loses, repeats nor reorders what a connection received, as
\* long as the search is not closed: yielded, queued and about-to-be-put objects
\* are together what came in, though put() times out while the queue is full.
PoolConserves ==
  ~abort =>
    /\ \A c \in Conn :
         {Pool[i][2] : i \in {j \in DOMAIN Pool : Pool[j][1] = c}} = 1..Handled(c)
    /\ \A i, j \in DOMAIN Pool :
         i < j /\ Pool[i][1] = Pool[j][1] => Pool[i][2] < Pool[j][2]

\* The generator comes to an end once the servers have, if the user goes on
\* asking.
GeneratorReturns ==
  (phase = "launching") ~> (phase \in {"returned", "abandoned"})

\* After close() every receiver thread ends, also when the user has left the
\* queue full.
CloseFreesThreads ==
  \A c \in Conn : (abort /\ c \in pendingConns) ~> (thread[c] = "done")

\* The start() handler never misses a blob: what the server held at setup()
\* and what it then asked for are all that the filters need, whatever other
\* searches have added in the meantime.
StartFindsBlobs ==
  phase = "calling" /\ call.step \in {"start", "evaluate"} =>
    Blob \subseteq cache[call.conn]

\* close() hangs up every server that start() has started, even when start()
\* failed half-way and close() raises at a connection that was never made: both
\* walk the connections in the same order.
CloseReleases == closeCalled => running = {}
=============================================================================
