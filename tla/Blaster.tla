------------------------------ MODULE Blaster ------------------------------
(***************************************************************************)
(* The JSON Blaster (blaster/handlers.py, blaster/search.py,               *)
(* blaster/rpc.py) in front of the servers in Conn: a SockJS connection    *)
(* that runs one search, and an HTTP request that evaluates one object.    *)
(*                                                                         *)
(* Everything runs as callbacks of one event loop, so a step here is what  *)
(* one event makes the coroutines do until they all wait again.  Closing   *)
(* a stream only schedules its close callback: link says whether the two   *)
(* streams to a server are up, closed ("cut"), or closed with the callback *)
(* run ("down").                                                           *)
(*                                                                         *)
(* The text is that of Python 2 (tox.ini), where the Blaster's strings are *)
(* the bytes of the protocol.  setup.py and environment.yml declare Python *)
(* 3, under which _hash_file() (cache.py) never meets its end of file and  *)
(* no search is ever stored.                                               *)
(***************************************************************************)
EXTENDS BlasterStore

CONSTANTS
  Conn,         \* the servers named by the search's cookies
  MaxObjects,   \* objects that the search finds on each server
  MaxFaults     \* bound: lost connections, RPC errors and crashes

ASSUME ObjectsAssumption == MaxObjects \in Nat

VARIABLES
  sock,       \* the SockJS connection: "open" or "closed"
  client,     \* its client: "here", or "gone" without a word
  late,       \* no pong for CONNECTION_TIMEOUT
  made,       \* SearchConnection._search is set
  said,       \* events sent to the client: "error", "search_started", ...
  phase,      \* the reply that run_search() waits for, per server
  link,       \* the streams to each server: none, up, cut, down
  started,    \* _DiamondBlastSet._started
  paused,     \* _DiamondBlastSet._paused
  unfinished, \* _DiamondBlastSet._connections
  blocking,   \* _DiamondBlastSet._blocking
  asks,       \* get_object requests outstanding, per server
  left,       \* objects the server has still to return
  sent,       \* results sent to the client, per server
  lost,       \* a result could not be stored or encoded: its handler is gone
  wait,       \* servers that owe statistics to a coroutine; "loop" and "final"
  ticking,    \* the statistics coroutine waits for its timeout
  ev,         \* step of EvaluateHandler.post()
  evlink,     \* the connection of the evaluation
  faults

searchVars == <<sock, client, late, made, said, phase, link, started, paused,
                unfinished, blocking, asks, left, sent, lost, wait, ticking>>
evalVars == <<ev, evlink>>
vars == <<storeVars, searchVars, evalVars, faults>>

Phases == {"control", "blast", "setup", "blobs", "start"}

SearchInit ==
  /\ sock = "open" /\ client = "here" /\ late = FALSE /\ made = FALSE /\ said = {}
  /\ phase = [c \in Conn |-> "none"] /\ link = [c \in Conn |-> "none"]
  /\ started = FALSE /\ paused = FALSE /\ unfinished = Conn /\ blocking = Conn
  /\ asks = [c \in Conn |-> 0]
  /\ left = [c \in Conn |-> MaxObjects] /\ sent = [c \in Conn |-> 0] /\ lost = FALSE
  /\ wait = [loop |-> {}, final |-> {}] /\ ticking = FALSE

Init ==
  /\ StoreInit /\ SearchInit
  /\ ev = "none" /\ evlink = "none" /\ faults = 0

\* _reply_handler() has read a reply of c, and hands it to the caller of its
\* sequence number.
Replied(c) == ~Busy /\ link[c] = "up"

Fault == faults < MaxFaults /\ faults' = faults + 1

\* Mutant: the search closes the connections of its blast set.
ClosedUnfinished(l) ==
  [c \in Conn |-> IF l[c] = "up" /\ c \in unfinished THEN "cut" ELSE l[c]]

\* close() of the search: every connection closes its two streams.
Closed(l) == [c \in Conn |-> IF l[c] = "up" THEN "cut" ELSE l[c]]

\* Whichever end begins, SearchConnection.close(), on_close(), and the close()
\* of the search and of each connection all run; l has the links as they are.
\* emit() of the events e comes before it.
CloseAll(l, e) ==
  /\ sock' = "closed" /\ made' = FALSE
  /\ link' = Closed(l)
  /\ said' = said \cup e

-----------------------------------------------------------------------------
(***************************************************************************)
(* SearchConnection.start() and run_search() of each server                *)
(***************************************************************************)

Start ==
  /\ ~Busy /\ sock = "open" /\ client = "here"
  /\ Request
  /\ IF made \/ "search" \notin files
     THEN said' = said \cup {"error"} /\ UNCHANGED <<made, phase, link>>
     ELSE /\ made' = TRUE
          /\ phase' = [c \in Conn |-> "control"]
          /\ link' = [c \in Conn |-> "up"]
          /\ UNCHANGED said
  /\ UNCHANGED <<sock, client, late, started, paused, unfinished, blocking,
                 asks, left, sent, lost, wait, ticking>>

\* The next step of run_search(); setup() sends blobs only if one is missing.
After(p) == CASE p = "control" -> {"blast"}
              [] p = "blast"   -> {"setup"}
              [] p = "setup"   -> {"blobs", "start"}
              [] p = "blobs"   -> {"start"}
              [] p = "start"   -> {"ready"}

\* Mutant: the connections stay in the set of those without a request.
TryStartKeeps ==
  IF started' /\ ~paused'
  THEN /\ asks' = [c \in Conn |-> IF c \in blocking THEN asks[c] + 1 ELSE asks[c]]
       /\ UNCHANGED blocking
  ELSE UNCHANGED <<asks, blocking>>

\* _try_start(): a handler for every connection without a request.
TryStart ==
  IF started' /\ ~paused'
  THEN /\ asks' = [c \in Conn |-> IF c \in blocking THEN asks[c] + 1 ELSE asks[c]]
       /\ blocking' = {}
  ELSE UNCHANGED <<asks, blocking>>

\* A server's reply.  The last one lets DiamondSearch.start() return: the blast
\* channels are started, the client is told, and statistics are asked for.
StartReply(c) ==
  /\ Replied(c) /\ phase[c] \in Phases
  /\ \E p \in After(phase[c]) : phase' = [phase EXCEPT ![c] = p]
  /\ IF \A d \in Conn : phase'[d] = "ready"
     THEN /\ started' = TRUE /\ UNCHANGED paused
          /\ TryStart
          /\ said' = said \cup {"search_started"}
          /\ wait' = [wait EXCEPT !.loop = Conn]
     ELSE UNCHANGED <<started, paused, asks, blocking, said, wait>>
  /\ UNCHANGED <<sock, client, late, made, link, unfinished, left, sent, lost, ticking>>

\* The server answers with an error: start() tells the client and closes.
StartRefused(c) ==
  /\ Replied(c) /\ phase[c] \in {"setup", "blobs", "start"}
  /\ Fault
  /\ CloseAll(link, {"error"})
  /\ UNCHANGED <<client, late, phase, started, paused, unfinished, blocking,
                 asks, left, sent, lost, wait, ticking>>

-----------------------------------------------------------------------------
(***************************************************************************)
(* _handle_objects(), pause() and resume()                                 *)
(***************************************************************************)

\* Mutant: the handler ends in a pause without leaving its connection behind.
AskAgainForgets(c) ==
  /\ asks' = IF paused THEN [asks EXCEPT ![c] = @ - 1] ELSE asks
  /\ UNCHANGED blocking

\* The loop of the handler after an object: it asks again unless paused.
AskAgain(c) ==
  IF paused
  THEN asks' = [asks EXCEPT ![c] = @ - 1] /\ blocking' = blocking \cup {c}
  ELSE UNCHANGED <<asks, blocking>>

\* get_result() gets the object without attributes: the end of this server's
\* search.
Empty(c) == left[c] = 0

\* _result() stores the object and sends it.  It raises when the object has no
\* _ObjectID, when the search has been pruned, or, with the object stored, when
\* an attribute cannot be decoded or the event breaks its schema;
\* _reply_handler() logs that, and nothing is left of the handler.
Object(c) ==
  /\ Replied(c) /\ asks[c] > 0 /\ ~Empty(c)
  /\ left' = [left EXCEPT ![c] = @ - 1]
  /\ \/ /\ there /\ PutResult
        /\ sent' = [sent EXCEPT ![c] = @ + 1] /\ UNCHANGED lost
        /\ AskAgain(c)
     \/ /\ PutResult \/ UNCHANGED files
        /\ lost' = TRUE /\ UNCHANGED <<sent, blocking>>
        /\ asks' = [asks EXCEPT ![c] = @ - 1]
  /\ UNCHANGED <<sock, client, late, made, said, phase, link, started, paused,
                 unfinished, wait, ticking>>

\* Mutant: the first connection that has finished ends the search.
FinishFirst(rest) ==
  wait' = IF rest # Conn THEN [wait EXCEPT !.final = Conn] ELSE wait

\* All connections have finished: _finished() asks for the final statistics.
Finish(rest) ==
  wait' = IF rest = {} THEN [wait EXCEPT !.final = Conn] ELSE wait

End(c) ==
  /\ Replied(c) /\ asks[c] > 0 /\ Empty(c)
  /\ asks' = [asks EXCEPT ![c] = @ - 1]
  /\ unfinished' = unfinished \ {c}
  /\ blocking' = blocking \ {c}
  /\ Finish(unfinished')
  /\ UNCHANGED <<sock, client, late, made, said, phase, link, started, paused,
                 left, sent, lost, ticking>>

\* RPCError: the handler closes its connection.
ObjectError(c) ==
  /\ Replied(c) /\ asks[c] > 0
  /\ Fault
  /\ asks' = [asks EXCEPT ![c] = @ - 1]
  /\ CloseAll(link, {})
  /\ UNCHANGED <<client, late, phase, started, paused, unfinished, blocking,
                 left, sent, lost, wait, ticking>>

Pause ==
  /\ ~Busy /\ sock = "open" /\ client = "here"
  /\ IF made THEN paused' = TRUE /\ UNCHANGED said
             ELSE said' = said \cup {"error"} /\ UNCHANGED paused
  /\ UNCHANGED <<sock, client, late, made, phase, link, started, unfinished,
                 blocking, asks, left, sent, lost, wait, ticking>>

Resume ==
  /\ ~Busy /\ sock = "open" /\ client = "here"
  /\ IF made THEN /\ paused' = FALSE /\ UNCHANGED <<said, started>>
                  /\ TryStart
             ELSE said' = said \cup {"error"} /\ UNCHANGED <<paused, started, asks, blocking>>
  /\ UNCHANGED <<sock, client, late, made, phase, link, unfinished, left, sent,
                 lost, wait, ticking>>

-----------------------------------------------------------------------------
(***************************************************************************)
(* Statistics: the coroutine ("loop") and the last ones ("final")          *)
(***************************************************************************)

\* The last reply.  The final statistics are followed by search_complete and
\* by the close of the search.
StatsReply(a, c) ==
  /\ Replied(c) /\ c \in wait[a]
  /\ wait' = [wait EXCEPT ![a] = @ \ {c}]
  /\ IF wait'[a] = {} /\ a = "final"
     THEN CloseAll(link, {"search_complete"})
     ELSE UNCHANGED <<sock, made, link, said>>
  /\ ticking' = (ticking \/ (wait'[a] = {} /\ a = "loop"))
  /\ UNCHANGED <<client, late, phase, started, paused, unfinished, blocking,
                 asks, left, sent, lost>>

StatsTick ==
  /\ ~Busy /\ ticking
  /\ ticking' = FALSE
  /\ wait' = IF made THEN [wait EXCEPT !.loop = Conn] ELSE wait
  /\ UNCHANGED <<sock, client, late, made, said, phase, link, started, paused,
                 unfinished, blocking, asks, left, sent, lost>>

\* get_stats() closes the search, and then fails on its unset results.
StatsError(a, c) ==
  /\ Replied(c) /\ c \in wait[a]
  /\ Fault
  /\ wait' = [wait EXCEPT ![a] = {}]
  /\ CloseAll(link, {})
  /\ UNCHANGED <<client, late, phase, started, paused, unfinished, blocking,
                 asks, left, sent, lost, ticking>>

-----------------------------------------------------------------------------
(***************************************************************************)
(* Connections that are lost, and clients that leave                       *)
(***************************************************************************)

Cut(c) ==
  /\ link[c] = "up"
  /\ Fault
  /\ link' = [link EXCEPT ![c] = "cut"]
  /\ UNCHANGED <<sock, client, late, made, said, phase, started, paused,
                 unfinished, blocking, asks, left, sent, lost, wait, ticking>>

\* _handle_close(): the pending read fails, with it every pending request
\* (ConnectionFailure), and the close callback runs.  start() reports the
\* failure, except that of a connect(), which never returns.
HandleClose(c) ==
  /\ ~Busy /\ link[c] = "cut"
  /\ asks' = [asks EXCEPT ![c] = 0]
  /\ wait' = [a \in DOMAIN wait |-> IF c \in wait[a] THEN {} ELSE wait[a]]
  /\ \E e \in SUBSET {"error"} :
       /\ e # {} => /\ phase[c] \in Phases /\ sock = "open"
       /\ phase[c] \in Phases \ {"control", "blast"} /\ sock = "open" => e # {}
       /\ CloseAll([link EXCEPT ![c] = "down"], e)
  /\ UNCHANGED <<client, late, phase, started, paused, unfinished, blocking,
                 left, sent, lost, ticking>>

Leave ==
  /\ sock = "open" /\ client = "here"
  /\ client' = "gone"
  /\ UNCHANGED <<sock, late, made, said, phase, link, started, paused,
                 unfinished, blocking, asks, left, sent, lost, wait, ticking>>

\* The client closes the connection, or TCP gives it up.
OnClose ==
  /\ ~Busy /\ sock = "open"
  /\ client' = "gone"
  /\ CloseAll(link, {})
  /\ UNCHANGED <<late, phase, started, paused, unfinished, blocking, asks,
                 left, sent, lost, wait, ticking>>

\* CONNECTION_TIMEOUT passes, or a pong arrives.
NoPong ==
  /\ made /\ ~late
  /\ late' = TRUE
  /\ UNCHANGED <<sock, client, made, said, phase, link, started, paused,
                 unfinished, blocking, asks, left, sent, lost, wait, ticking>>

Pong ==
  /\ ~Busy /\ sock = "open" /\ client = "here" /\ late
  /\ late' = FALSE
  /\ UNCHANGED <<sock, client, made, said, phase, link, started, paused,
                 unfinished, blocking, asks, left, sent, lost, wait, ticking>>

\* The keepalive coroutine finds the last pong too old.
Keepalive ==
  /\ ~Busy /\ made /\ late
  /\ CloseAll(link, {})
  /\ UNCHANGED <<client, late, phase, started, paused, unfinished, blocking,
                 asks, left, sent, lost, wait, ticking>>

-----------------------------------------------------------------------------
(***************************************************************************)
(* EvaluateHandler.post(), with a search and a connection of its own       *)
(***************************************************************************)

Evaluating == {"control", "blast", "setup", "blobs", "ask", "object", "retry"}

Evaluate ==
  /\ ~Busy /\ ev = "none"
  /\ Request
  /\ ev' \in IF "search" \in files THEN Fetch("control", "fetch", "refused") ELSE {"refused"}
  /\ evlink' = IF ev' = "control" THEN "up" ELSE "none"
  /\ UNCHANGED <<there, files, faults>>

EvalFetched ==
  /\ ~Busy /\ ev = "fetch"
  /\ ev' \in {"control", "refused"}
  /\ evlink' = IF ev' = "control" THEN "up" ELSE "none"
  /\ UNCHANGED <<there, files, faults>>

\* DiamondRPCFCacheMiss: the object is sent, and the request made once more.
EvalReply ==
  /\ ~Busy /\ evlink = "up" /\ ev \in Evaluating \ {"ask", "retry"}
  /\ ev' \in IF ev \in {"setup", "blobs"}
             THEN (After(ev) \ {"start"}) \cup {"ask"}
             ELSE IF ev = "object" THEN {"retry"} ELSE After(ev)
  /\ UNCHANGED <<there, files, evlink, faults>>

EvalMiss ==
  /\ ~Busy /\ evlink = "up" /\ ev = "ask"
  /\ ev' = "object"
  /\ UNCHANGED <<there, files, evlink, faults>>

\* The attributes arrive: the finally clause closes the search, the object is
\* stored, and the client is answered; an object that cannot be stored or
\* encoded, as in _result(), is an error of the request.
EvalDone ==
  /\ ~Busy /\ evlink = "up" /\ ev \in {"ask", "retry"}
  /\ evlink' = "none"
  /\ \/ there /\ PutResult /\ ev' = "answered"
     \/ (PutResult \/ UNCHANGED files) /\ ev' = "failed"
  /\ UNCHANGED <<there, faults>>

\* An RPC error, a second cache miss among them.
EvalError ==
  /\ ~Busy /\ evlink = "up" /\ ev \in Evaluating \ {"control", "blast"}
  /\ Fault
  /\ evlink' = "none" /\ ev' = "refused"
  /\ UNCHANGED <<there, files>>

EvalCut ==
  /\ evlink = "up" /\ ev \in Evaluating
  /\ Fault
  /\ evlink' = "cut"
  /\ UNCHANGED <<there, files, ev>>

\* ConnectionFailure, or the HTTPError that the close callback raises.
EvalClosed ==
  /\ ~Busy /\ evlink = "cut"
  /\ evlink' = "none" /\ ev' = "refused"
  /\ UNCHANGED <<there, files, faults>>

-----------------------------------------------------------------------------
\* The Blaster's process dies and is started again.
Crash ==
  /\ Fault
  /\ StoreCrash
  /\ CloseAll([c \in Conn |-> IF link[c] = "none" THEN "none" ELSE "down"], {})
  /\ asks' = [c \in Conn |-> 0] /\ wait' = [a \in DOMAIN wait |-> {}] /\ ticking' = FALSE
  /\ ev' = (IF ev \in Evaluating \cup {"fetch"} THEN "failed" ELSE ev) /\ evlink' = "none"
  /\ client' = "gone"
  /\ UNCHANGED <<late, phase, started, paused, unfinished, blocking, left, sent, lost>>

BlastStep(c) ==
  /\ \/ (StartReply(c) \/ End(c) \/ HandleClose(c)) /\ UNCHANGED <<there, files>>
     \/ Object(c) /\ UNCHANGED there
  /\ UNCHANGED <<expired, post, requests, stored, pruner, listed, evalVars, faults>>

StatsStep(a, c) == StatsReply(a, c) /\ UNCHANGED <<storeVars, evalVars, faults>>

ClientStep == Pause \/ Resume \/ Leave \/ OnClose \/ NoPong \/ Pong

FaultStep ==
  \E c \in Conn : \/ StartRefused(c) \/ ObjectError(c) \/ Cut(c)
                  \/ \E a \in DOMAIN wait : StatsError(a, c)

EvalStep ==
  /\ \/ Evaluate
     \/ /\ EvalFetched \/ EvalReply \/ EvalMiss \/ EvalDone \/ EvalError
             \/ EvalCut \/ EvalClosed
        /\ UNCHANGED requests
  /\ UNCHANGED <<expired, post, stored, pruner, listed, searchVars>>

Next ==
  \/ StoreNext /\ UNCHANGED <<searchVars, evalVars, faults>>
  \/ \E c \in Conn : BlastStep(c) \/ \E a \in DOMAIN wait : StatsStep(a, c)
  \/ Start /\ UNCHANGED <<diskVars, evalVars, faults>>
  \/ (ClientStep \/ StatsTick \/ Keepalive) /\ UNCHANGED <<storeVars, evalVars, faults>>
  \/ FaultStep /\ UNCHANGED <<storeVars, evalVars>>
  \/ EvalStep
  \/ Crash

\* Servers answer, the loop runs what is due, and time passes for a client that
\* does not answer pings.
Fairness ==
  /\ \A c \in Conn : /\ WF_vars(BlastStep(c))
                     /\ \A a \in {"loop", "final"} : WF_vars(StatsStep(a, c))
  /\ WF_vars(StoreNext /\ Busy /\ UNCHANGED <<searchVars, evalVars, faults>>)
  /\ WF_vars(Keepalive /\ UNCHANGED <<storeVars, evalVars, faults>>)
  /\ WF_vars(NoPong /\ client = "gone" /\ UNCHANGED <<storeVars, evalVars, faults>>)
  /\ WF_vars((EvalFetched \/ EvalReply \/ EvalDone \/ EvalClosed) /\ EvalStep)

Spec == Init /\ [][Next]_vars /\ Fairness
-----------------------------------------------------------------------------
TypeOK ==
  /\ StoreTypeOK
  /\ sock \in {"open", "closed"} /\ client \in {"here", "gone"}
  /\ late \in BOOLEAN /\ made \in BOOLEAN /\ started \in BOOLEAN
  /\ paused \in BOOLEAN /\ lost \in BOOLEAN /\ ticking \in BOOLEAN
  /\ said \subseteq {"error", "search_started", "search_complete"}
  /\ phase \in [Conn -> {"none", "ready"} \cup Phases]
  /\ link \in [Conn -> {"none", "up", "cut", "down"}]
  /\ unfinished \subseteq Conn /\ blocking \subseteq Conn
  /\ asks \in [Conn -> 0..1]
  /\ left \in [Conn -> 0..MaxObjects] /\ sent \in [Conn -> 0..MaxObjects]
  /\ wait \in [{"loop", "final"} -> SUBSET Conn]
  /\ ev \in {"none", "fetch", "answered", "failed", "refused"} \cup Evaluating
  /\ evlink \in {"none", "up", "cut"}
  /\ faults \in 0..MaxFaults

\* However the client pauses and resumes, a server never has two requests for
\* an object, and a connection that the next resume() would start has none.
OneRequest ==
  \A c \in Conn : /\ asks[c] <= 1
                  /\ c \in blocking => asks[c] = 0

\* The client hears search_complete only after every object of every server.
CompleteMeansAll ==
  "search_complete" \in said => \A c \in Conn : sent[c] = MaxObjects

\* A search that has been started comes to its search_complete, unless it is
\* paused, a result could not be stored or encoded (its definition was pruned,
\* an attribute is malformed), a server fails, or the client leaves.
SearchCompletes ==
  made ~> \/ "search_complete" \in said
          \/ paused \/ lost \/ faults > 0 \/ client = "gone" \/ late

\* The servers of a search whose client has gone are all released, also when
\* it leaves without a word, in a pause or in the middle of start(); and every
\* evaluation is answered and lets its server go, whatever becomes of either.
ServersReleased ==
  /\ client = "gone" ~> \A c \in Conn : link[c] \in {"none", "down"}
  /\ ev = "fetch" \/ ev \in Evaluating
       ~> ev \in {"answered", "refused", "failed"} /\ evlink = "none"
=============================================================================
