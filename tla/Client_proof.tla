---------------------------- MODULE Client_proof ----------------------------
(***************************************************************************)
(* Proofs about the client's side of a search: ClientSearch, for every     *)
(* number of servers, every set of blobs and every queue size, and         *)
(* SessionVars, for every number of servers, updates and merges.           *)
(***************************************************************************)
EXTENDS ClientSearch, SessionVars, TLAPS

(***************************************************************************)
(* Session variables: nothing that a filter adds to the control process's  *)
(* copy is lost to the client or counted twice, and every copy shows what  *)
(* was added to it and what was passed on to it.                           *)
(***************************************************************************)

\* The interlock is on just while the client has got and not set.
Interlocked == \A s \in Server : asked[s] = "got" <=> Control(s) \in interlock

\* A variable of which the client has not heard had nothing to give at the get.
UnheardIsZero ==
  \A s \in Server :
    /\ Control(s) \notin known => local[Control(s)] = 0
    /\ asked[s] = "got" /\ ~named => local[Control(s)] = 0

\* A worker that is not there yet adds nothing.
UnbornAddsNothing ==
  \A s \in Server \ started : contributed[Worker(s)] = 0

MergeInv ==
  /\ MergeTypeOK /\ Interlocked /\ UnheardIsZero /\ UnbornAddsNothing
  /\ CountedOnce /\ SeesOwnAndHeard

\* The copies of a server are different copies, and no two servers share one.
LEMMA Copies ==
  /\ \A s \in Server :
       /\ Control(s) \in Copy /\ Worker(s) \in Copy
       /\ Control(s)[1] = s /\ Worker(s)[1] = s
       /\ \A t \in Server : /\ Control(s) # Worker(t)
                            /\ s # t => Control(s) # Control(t) /\ Worker(s) # Worker(t)
  /\ \A c \in Copy : c[1] \in Server /\ c \in {Control(c[1]), Worker(c[1])}
<1>1. \A c \in Copy : \E s \in Server, k \in {"control", "worker"} : c = <<s, k>>
  BY DEF Copy
<1> QED BY <1>1 DEF Control, Worker, Copy

\* One lemma per action: each preserves MergeInv.
LEMMA UpdateStep ==
  ASSUME MergeInv, NEW c \in Copy, NEW d \in -MaxDelta..MaxDelta, Update(c, d)
  PROVE  MergeInv'
<1> USE MergeAssumption, Copies
<1> d \in Int OBVIOUS
<1>1. MergeTypeOK'
  BY DEF MergeInv, MergeTypeOK, Update, FilterUpdate, AddValue, clientVars
<1>2. Interlocked'
  BY DEF MergeInv, Interlocked, Update, FilterUpdate, AddValue, clientVars
<1>3. UnheardIsZero'
  BY DEF MergeInv, MergeTypeOK, Interlocked, UnheardIsZero, Update, FilterUpdate,
         AddValue, clientVars
<1>4. UnbornAddsNothing'
  BY DEF MergeInv, MergeTypeOK, UnbornAddsNothing, Update
<1>5. CountedOnce'
  BY DEF MergeInv, MergeTypeOK, Interlocked, CountedOnce, Pending, Update,
         FilterUpdate, AddValue, clientVars
<1>6. SeesOwnAndHeard'
  <2>1. /\ filter_get(c)' = filter_get(c) + d
        /\ \A e \in Copy \ {c} : filter_get(e)' = filter_get(e)
    BY DEF MergeInv, MergeTypeOK, filter_get, Update, FilterUpdate, AddValue
  <2>2. /\ contributed'[c] = contributed[c] + d
        /\ \A e \in Copy \ {c} : contributed'[e] = contributed[e]
        /\ UNCHANGED <<started, heard>>
        /\ c = Control(c[1]) \/ c[1] \in started
        /\ \A e \in Copy : contributed[e] \in Int /\ heard[e] \in Int
    BY DEF MergeInv, MergeTypeOK, Update
  <2> QED BY ONLY <2>1, <2>2, MergeInv, c \in Copy, d \in Int DEF MergeInv, SeesOwnAndHeard
<1> QED BY <1>1, <1>2, <1>3, <1>4, <1>5, <1>6 DEF MergeInv

LEMMA StartStep ==
  ASSUME MergeInv, NEW s \in Server, Start(s)
  PROVE  MergeInv'
<1> USE Copies
<1>1. \A c \in Copy \ {Worker(s)} :
        /\ global'[c] = global[c] /\ local'[c] = local[c]
        /\ between'[c] = between[c] /\ heard'[c] = heard[c]
        /\ c \in known' <=> c \in known
  BY DEF MergeInv, MergeTypeOK, Start, Inherit
<1>2. /\ global'[Worker(s)] = global[Control(s)] /\ local'[Worker(s)] = local[Control(s)]
      /\ between'[Worker(s)] = between[Control(s)]
      /\ heard'[Worker(s)] = filter_get(Control(s))
      /\ contributed'[Worker(s)] = 0
  BY DEF MergeInv, MergeTypeOK, UnbornAddsNothing, Start, Inherit, countVars
<1>3. MergeTypeOK'
  BY DEF MergeInv, MergeTypeOK, Start, Inherit, filter_get, clientVars, countVars
<1>4. Interlocked' /\ UnheardIsZero' /\ UnbornAddsNothing' /\ CountedOnce'
  BY <1>1 DEF MergeInv, Interlocked, UnheardIsZero, UnbornAddsNothing, CountedOnce,
              Pending, Start, clientVars, countVars
<1>5. filter_get(Control(s)) \in Int
  BY DEF MergeInv, MergeTypeOK, filter_get
<1>6. SeesOwnAndHeard'
  BY <1>1, <1>2, <1>5 DEF MergeInv, SeesOwnAndHeard, filter_get, Start, countVars
<1> QED BY <1>3, <1>4, <1>6 DEF MergeInv

LEMMA GetStep ==
  ASSUME MergeInv, NEW s \in Server, GetValues(s)
  PROVE  MergeInv'
<1> USE Copies
<1>1. MergeTypeOK'
  BY DEF MergeInv, MergeTypeOK, GetValues, ClientGet, Engage, varVars, countVars
<1>2. Interlocked'
  BY DEF MergeInv, MergeTypeOK, Interlocked, GetValues, ClientGet, Engage
<1>3. UnheardIsZero'
  BY DEF MergeInv, MergeTypeOK, UnheardIsZero, GetValues, ClientGet, varVars
<1>4. CountedOnce'
  BY DEF MergeInv, MergeTypeOK, CountedOnce, Pending, GetValues, ClientGet, varVars,
         countVars
<1>5. UnbornAddsNothing' /\ SeesOwnAndHeard'
  BY DEF MergeInv, UnbornAddsNothing, SeesOwnAndHeard, filter_get, GetValues, varVars,
         countVars
<1> QED BY <1>1, <1>2, <1>3, <1>4, <1>5 DEF MergeInv

LEMMA SetStep ==
  ASSUME MergeInv, NEW s \in Server, SetValues(s)
  PROVE  MergeInv'
<1> USE Copies
<1>1. MergeTypeOK'
  BY DEF MergeInv, MergeTypeOK, SetValues, ClientSet, SetValue, varVars, countVars
<1>2. Interlocked'
  BY DEF MergeInv, MergeTypeOK, Interlocked, SetValues, ClientSet, SetValue
<1>3. UnheardIsZero'
  BY DEF MergeInv, MergeTypeOK, UnheardIsZero, SetValues, ClientSet, SetValue, varVars
<1>4. CountedOnce'
  BY DEF MergeInv, MergeTypeOK, UnheardIsZero, CountedOnce, Pending, SetValues,
         ClientSet, SetValue, varVars, countVars
<1>5. UnbornAddsNothing'
  BY DEF MergeInv, UnbornAddsNothing, SetValues, countVars
<1>6. CASE named
  <2> DEFINE c == Control(s)
  <2>1. contributed[c] = took[s] + between[c]
    BY DEF MergeInv, MergeTypeOK, CountedOnce, Pending, SetValues
  <2>2. /\ global'[c] = merged /\ local'[c] = between[c] /\ between'[c] = 0
        /\ heard'[c] = merged - took[s] /\ contributed' = contributed
        /\ started' = started
        /\ \A e \in Copy \ {c} : /\ global'[e] = global[e] /\ local'[e] = local[e]
                                 /\ between'[e] = between[e] /\ heard'[e] = heard[e]
    BY <1>6 DEF MergeInv, MergeTypeOK, SetValues, ClientSet, SetValue, countVars
  <2>3. SeesOwnAndHeard'
    BY <2>1, <2>2 DEF MergeInv, MergeTypeOK, SeesOwnAndHeard, filter_get
  <2> QED BY <1>1, <1>2, <1>3, <1>4, <1>5, <2>3 DEF MergeInv
<1>7. CASE ~named
  <2>1. SeesOwnAndHeard'
    BY <1>7 DEF MergeInv, SeesOwnAndHeard, filter_get, SetValues, ClientSet, varVars,
                countVars
  <2> QED BY <1>1, <1>2, <1>3, <1>4, <1>5, <2>1 DEF MergeInv
<1> QED BY <1>6, <1>7

LEMMA NextRoundStep == MergeInv /\ NextRound => MergeInv'
BY Copies DEF MergeInv, MergeTypeOK, Interlocked, UnheardIsZero, UnbornAddsNothing,
              CountedOnce, Pending, SeesOwnAndHeard, filter_get, NextRound, varVars,
              countVars

\* MergeInv is inductive.
LEMMA MergeInductive == MergeSpec => []MergeInv
<1>1. MergeInit => MergeInv
  <2> SUFFICES ASSUME MergeInit PROVE MergeInv OBVIOUS
  <2>1. MergeTypeOK
    <3>1. named \in BOOLEAN
      BY Zenon DEF MergeInit
    <3>2. updates \in 0..MaxUpdates /\ merged \in Int
      BY MergeAssumption DEF MergeInit
    <3> QED BY <3>1, <3>2 DEF MergeInit, MergeTypeOK
  <2>2. Interlocked /\ UnheardIsZero /\ UnbornAddsNothing
    BY Copies DEF MergeInit, Interlocked, UnheardIsZero, UnbornAddsNothing
  <2>3. CountedOnce /\ SeesOwnAndHeard
    BY Copies DEF MergeInit, CountedOnce, Pending, SeesOwnAndHeard, filter_get
  <2> QED BY <2>1, <2>2, <2>3 DEF MergeInv
<1>2. MergeInv /\ [MergeNext]_mergeVars => MergeInv'
  <2> SUFFICES ASSUME MergeInv, [MergeNext]_mergeVars PROVE MergeInv' OBVIOUS
  <2>1. CASE UNCHANGED mergeVars
    BY <2>1 DEF MergeInv, MergeTypeOK, Interlocked, UnheardIsZero, UnbornAddsNothing,
                CountedOnce, Pending, SeesOwnAndHeard, filter_get, mergeVars, varVars,
                clientVars, countVars
  <2>2. CASE NextRound
    BY <2>2, NextRoundStep
  <2>3. ASSUME NEW s \in Server, GetValues(s) PROVE MergeInv'
    BY <2>3, GetStep
  <2>4. ASSUME NEW s \in Server, SetValues(s) PROVE MergeInv'
    BY <2>4, SetStep
  <2>5. ASSUME NEW s \in Server, Start(s) PROVE MergeInv'
    BY <2>5, StartStep
  <2>6. ASSUME NEW c \in Copy, NEW d \in -MaxDelta..MaxDelta, Update(c, d)
        PROVE  MergeInv'
    BY <2>6, UpdateStep
  <2> QED BY <2>1, <2>2, <2>3, <2>4, <2>5, <2>6 DEF MergeNext, Client
<1> QED BY <1>1, <1>2, PTL DEF MergeSpec

\* sessionvars.py: the session variables are type correct.
THEOREM MergeTypeCorrect == MergeSpec => []MergeTypeOK
BY MergeInductive, PTL DEF MergeInv

\* filter_update(), client_get() and client_set(): each contribution, positive
\* or negative, of a filter that runs in the control process is taken once by the
\* client or still there to take, for every number of servers and every
\* interleaving of updates with the client's rounds (CountedOnce).
THEOREM CountedOnceCorrect == MergeSpec => []CountedOnce
BY MergeInductive, PTL DEF MergeInv

\* filter_get(): in the control process and in the workers, a filter sees every
\* contribution to its own copy once, and what the client's last set or fork()
\* passed on to that copy, at every point between a get and a set
\* (SeesOwnAndHeard).
THEOREM SeesOwnAndHeardCorrect == MergeSpec => []SeesOwnAndHeard
BY MergeInductive, PTL DEF MergeInv
-----------------------------------------------------------------------------
(***************************************************************************)
(* The client search: what start() and close() leave behind, and what      *)
(* becomes of the objects that receiver threads put into the pool.         *)
(***************************************************************************)

\* After setup() the server holds, or has been promised, every blob.
BlobsPromised ==
  phase = "calling" =>
    /\ call.op \in {"start", "evaluate"}
    /\ call.step = "send" => Blob \subseteq cache[call.conn] \cup call.asked
    /\ call.step \in {"start", "evaluate"} => Blob \subseteq cache[call.conn]

\* Both sockets of connection c have been made.
Connected(c) == control[c] # "none" /\ blast[c] # "none"

\* While start() is at connection c, it has connected those before it.
CallInOrder ==
  phase = "calling" =>
    /\ call.step = "blast" => control[call.conn] # "none"
    /\ call.op = "start" => \A d \in Conn : d < call.conn => Connected(d)
    /\ call.step = "start" => call.op = "start"
    /\ call.step \in {"setup", "send", "start", "evaluate"} => Connected(call.conn)

\* A server that runs the search is connected, and so are all before it, and
\* close() has not been through it.
RunningConnected ==
  \A c \in running :
    /\ c \notin closedConns
    /\ \A d \in Conn : d <= c => Connected(d)

\* Nothing is closed before close() is called or a thread runs.
OpenUntilUsed ==
  phase \in {"idle", "calling"} =>
    /\ \A c \in Conn : thread[c] = "none"
    /\ ~closeCalled => closedConns = {}
    /\ phase = "calling" => ~closeCalled

SessionInv ==
  /\ SessionTypeOK /\ BlobsPromised /\ CallInOrder /\ RunningConnected
  /\ OpenUntilUsed /\ CloseReleases

LEMMA SessionInit == Init => SessionInv
<1> SUFFICES ASSUME Init PROVE SessionInv
  OBVIOUS
<1>1. NoCall \in Call
  BY ConstantsAssumption DEF NoCall, Call
<1>2. SessionTypeOK
  BY <1>1 DEF Init, SessionTypeOK
<1> QED
  BY <1>2 DEF Init, SessionInv, BlobsPromised, CallInOrder, RunningConnected,
              OpenUntilUsed, CloseReleases

\* What close() does to a connection that it reaches.
LEMMA CloseEffectReleases ==
  ASSUME SessionInv, CloseEffect
  PROVE  /\ running' = {} /\ closeCalled'
         /\ closedConns' \subseteq Conn
         /\ control' \in [Conn -> {"none", "open", "closed"}]
         /\ blast' \in [Conn -> {"none", "open", "closed"}]
<1> USE DEF SessionInv, SessionTypeOK
<1> DEFINE lacking == {c \in Conn \ closedConns : "none" \in {control[c], blast[c]}}
           reached == {c \in Conn \ closedConns : \A d \in lacking : c <= d}
<1>1. ASSUME NEW c \in running PROVE c \in reached
  <2>1. c \in Conn \ closedConns
    BY <1>1 DEF RunningConnected
  <2>2. ASSUME NEW d \in lacking PROVE c <= d
    <3>1. ~Connected(d) /\ d \in Conn
      BY <2>2 DEF Connected
    <3>2. ~(d <= c)
      BY <1>1, <3>1 DEF RunningConnected
    <3> QED BY <2>1, <3>1, <3>2, ConstantsAssumption DEF Conn
  <2> QED BY <2>1, <2>2
<1>2. running' = running \ reached
  BY DEF CloseEffect
<1>3. running' = {}
  BY <1>1, <1>2
<1> QED BY <1>3 DEF CloseEffect

\* start() and evaluate() are called, and what their steps do.
LEMMA CallSteps ==
  ASSUME SessionInv,
         StartCalled \/ (\E c \in Conn : EvaluateCalled(c)) \/ CallStep
  PROVE  SessionInv'
<1> USE ConstantsAssumption
    DEF SessionInv, SessionTypeOK, BlobsPromised, CallInOrder, RunningConnected,
        OpenUntilUsed, CloseReleases, Connected, threadVars
<1>1. CASE StartCalled
  BY <1>1 DEF StartCalled, Call, Conn
<1>2. ASSUME NEW c \in Conn, EvaluateCalled(c) PROVE SessionInv'
  BY <1>2 DEF EvaluateCalled, Call, Conn
<1>3. CASE ConnectControl
  <2>1. /\ call.conn \in Conn /\ call' \in Call
        /\ phase' = "calling" => call'.conn \in Conn
    BY <1>3 DEF ConnectControl, Advance, Call
  <2>2. SessionTypeOK'
    BY <1>3, <2>1 DEF ConnectControl, Advance
  <2>3. BlobsPromised' /\ CallInOrder'
    BY <1>3, <2>1 DEF ConnectControl, Advance, Call
  <2>4. RunningConnected' /\ OpenUntilUsed' /\ CloseReleases'
    BY <1>3, <2>1 DEF ConnectControl, Advance
  <2> QED BY <2>2, <2>3, <2>4
<1>4. CASE ConnectBlast
  <2>1. /\ call.conn \in Conn /\ call' \in Call
        /\ phase' = "calling" => call'.conn \in Conn
    BY <1>4 DEF ConnectBlast, Advance, Call
  <2>2. SessionTypeOK'
    BY <1>4, <2>1 DEF ConnectBlast, Advance
  <2>3. BlobsPromised' /\ CallInOrder'
    <3>1. \A d \in Conn : control'[d] = control[d] /\ (blast[d] # "none" => blast'[d] # "none")
      BY <1>4, <2>1 DEF ConnectBlast
    <3>2. /\ phase' = "calling" /\ call'.op = call.op /\ call'.conn = call.conn
          /\ call'.step = "setup" /\ call.step = "blast" /\ phase = "calling"
      BY <1>4 DEF ConnectBlast, Advance, Call
    <3>3. Connected(call.conn)'
      BY <1>4, <2>1, <3>1, <3>2 DEF ConnectBlast
    <3> QED BY <3>1, <3>2, <3>3
  <2>4. RunningConnected' /\ OpenUntilUsed' /\ CloseReleases'
    BY <1>4, <2>1 DEF ConnectBlast, Advance
  <2> QED BY <2>2, <2>3, <2>4
<1>5. CASE Setup
  <2>1. /\ call.conn \in Conn /\ call' \in Call
        /\ phase' = "calling" => call'.conn \in Conn
    BY <1>5 DEF Setup, Call
  <2>2. SessionTypeOK'
    BY <1>5, <2>1 DEF Setup
  <2>3. BlobsPromised' /\ CallInOrder'
    BY <1>5, <2>1 DEF Setup, Call
  <2>4. RunningConnected' /\ OpenUntilUsed' /\ CloseReleases'
    BY <1>5, <2>1 DEF Setup
  <2> QED BY <2>2, <2>3, <2>4
<1>6. CASE SendBlobs
  BY <1>6 DEF SendBlobs, Advance, Call
<1>7. CASE StartSearch
  <2>1. /\ call.conn \in Conn /\ call' \in Call
        /\ phase' = "calling" => call'.conn \in Conn
    BY <1>7 DEF StartSearch, Call, NoCall, Conn
  <2>2. SessionTypeOK'
    BY <1>7, <2>1 DEF StartSearch
  <2>3. BlobsPromised' /\ CallInOrder'
    BY <1>7, <2>1 DEF StartSearch, Call, NoCall, Conn
  <2>4. \A d \in Conn : d <= call.conn => Connected(d)
    BY <1>7, <2>1 DEF StartSearch, Conn
  <2>5. RunningConnected' /\ OpenUntilUsed' /\ CloseReleases'
    BY <1>7, <2>1, <2>4 DEF StartSearch
  <2> QED BY <2>2, <2>3, <2>5
<1>8. CASE Reexecuted
  BY <1>8 DEF Reexecuted, Call, NoCall
<1>9. CASE CallFailed
  BY <1>9 DEF CallFailed, Call, NoCall, Conn
<1> QED
  BY <1>1, <1>2, <1>3, <1>4, <1>5, <1>6, <1>7, <1>8, <1>9 DEF CallStep

\* The steps of the generator, the threads, get_stats() and close().
LEMMA OtherSteps ==
  ASSUME SessionInv, [Next]_vars,
         ~StartCalled, ~(\E c \in Conn : EvaluateCalled(c)), ~CallStep
  PROVE  SessionInv'
<1> USE ConstantsAssumption
    DEF SessionInv, SessionTypeOK, BlobsPromised, CallInOrder, RunningConnected,
        OpenUntilUsed, CloseReleases, Connected, threadVars, sessionVars, poolVars
<1>1. CASE UNCHANGED vars
  BY <1>1 DEF vars
<1>2. CASE Launched \/ Get \/ GetTimeout \/ Check \/ Abandon
  BY <1>2 DEF Launched, Get, GetTimeout, Check, Abandon
<1>3. ASSUME NEW c \in Conn,
             Launch(c) \/ Receive(c) \/ EndReceive(c) \/ Put(c) \/ PutTimeout(c)
               \/ Remove(c)
      PROVE  SessionInv'
  BY <1>3 DEF Launch, Receive, EndReceive, Put, PutTimeout, Remove
<1>4. ASSUME NEW c \in Conn, ReceiveGarbled(c) PROVE SessionInv'
  BY <1>4 DEF ReceiveGarbled
<1>5. ASSUME NEW c \in Conn, GetStatsLost(c) PROVE SessionInv'
  BY <1>5 DEF GetStatsLost
<1>6. ASSUME NEW c \in Conn, NEW b \in Blob, OthersAdd(c, b) PROVE SessionInv'
  BY <1>6 DEF OthersAdd
<1>7. ASSUME CloseEffect, phase # "calling", UNCHANGED <<phase, call, cache, threadVars>>
      PROVE  SessionInv'
  BY <1>7, CloseEffectReleases
<1>8. CASE Close
  BY <1>7, <1>8 DEF Close
<1>9. ASSUME NEW c \in Conn, GetStatsRefused(c) PROVE SessionInv'
  BY <1>7, <1>9 DEF GetStatsRefused
<1> QED
  BY <1>1, <1>2, <1>3, <1>4, <1>5, <1>6, <1>8, <1>9
  DEF Next, UserStep, ThreadStep

LEMMA SessionInvariant == Spec => []SessionInv
<1>1. SessionInv /\ [Next]_vars => SessionInv'
  BY CallSteps, OtherSteps
<1> QED BY SessionInit, <1>1, PTL DEF Spec

\* Whatever fails in start() and evaluate() and however often they are called
\* again, close() leaves no server that start() has started running, for every
\* number of servers (CloseReleases).
THEOREM CloseReleasesCorrect == Spec => []CloseReleases
<1>1. SessionInv => CloseReleases
  BY DEF SessionInv
<1> QED BY SessionInvariant, <1>1, PTL

\* A server that is asked to start or to reexecute holds every blob of the
\* filters, for every set of blobs and whatever the servers held before
\* (StartFindsBlobs).
THEOREM StartFindsBlobsCorrect == Spec => []StartFindsBlobs
<1>1. SessionInv => StartFindsBlobs
  BY DEF SessionInv, BlobsPromised, StartFindsBlobs
<1> QED BY SessionInvariant, <1>1, PTL
-----------------------------------------------------------------------------
(***************************************************************************)
(* The pool of pending objects.                                            *)
(***************************************************************************)
Object == Conn \X (1..MaxObjects)

PoolTypeOK ==
  /\ thread \in [Conn -> {"none", "receive", "put", "finally", "done"}]
  /\ count \in [Conn -> 0..MaxObjects]
  /\ pendingConns \subseteq Conn
  /\ pendingObjs \in Seq(Object) /\ Len(pendingObjs) <= QueueMax
  /\ yielded \in Seq(Object)
  /\ \A c \in Conn : thread[c] = "put" => count[c] # 0

\* pool holds the objects 1..h[c] of each connection c, each has a place, and
\* they are in order.
Orderly(pool, h) ==
  /\ \A i \in 1..Len(pool) : pool[i][2] <= h[pool[i][1]]
  /\ \A c \in Conn : \A n \in 1..h[c] : \E i \in 1..Len(pool) : pool[i] = <<c, n>>
  /\ \A i, j \in 1..Len(pool) :
       i < j /\ pool[i][1] = pool[j][1] => pool[i][2] < pool[j][2]

HandledAll == [c \in Conn |-> Handled(c)]

PoolInv ==
  PoolTypeOK /\ abort \in BOOLEAN /\ (~abort => Orderly(Pool, HandledAll))

\* The next object of a connection goes to the end.
LEMMA OrderlyAppend ==
  ASSUME NEW pool \in Seq(Object), NEW h \in [Conn -> Int], NEW c \in Conn,
         h[c] >= 0, <<c, h[c] + 1>> \in Object, Orderly(pool, h)
  PROVE  Orderly(Append(pool, <<c, h[c] + 1>>), [h EXCEPT ![c] = h[c] + 1])
<1> DEFINE n == h[c] + 1
           p == Append(pool, <<c, n>>)
           g == [h EXCEPT ![c] = n]
           L == Len(pool)
<1>1. /\ L \in Nat /\ Len(p) = L + 1 /\ p[L + 1] = <<c, n>>
      /\ \A i \in 1..L : p[i] = pool[i]
  OBVIOUS
<1>2. \A i \in 1..L : pool[i][1] \in Conn /\ pool[i][2] \in Nat
  BY DEF Object
<1>3. p[L + 1][1] = c /\ p[L + 1][2] = n
  BY <1>1
<1>4. \A d \in Conn : g[d] = (IF d = c THEN n ELSE h[d]) /\ h[d] <= g[d] /\ g[d] \in Int
  OBVIOUS
<1> HIDE DEF p, g, L
<1>5. ASSUME NEW i \in 1..Len(p) PROVE p[i][2] <= g[p[i][1]]
  <2>1. CASE i = L + 1
    BY <1>3, <1>4, <2>1
  <2>2. CASE i \in 1..L
    <3>1. /\ p[i] = pool[i] /\ p[i][1] \in Conn /\ p[i][2] \in Nat
          /\ p[i][2] <= h[p[i][1]]
      BY <1>1, <1>2, <2>2 DEF Orderly, L
    <3> QED BY <1>4, <3>1
  <2> QED BY <1>1, <2>1, <2>2
<1>6. ASSUME NEW d \in Conn, NEW k \in 1..g[d]
      PROVE  \E i \in 1..Len(p) : p[i] = <<d, k>>
  <2>1. CASE d = c /\ k = n
    BY <1>1, <2>1
  <2>2. CASE k \in 1..h[d]
    <3>1. PICK i \in 1..L : pool[i] = <<d, k>>
      BY <2>2 DEF Orderly, L
    <3> QED BY <1>1, <3>1
  <2> QED BY <1>4, <2>1, <2>2
<1>7. ASSUME NEW i \in 1..Len(p), NEW j \in 1..Len(p), i < j, p[i][1] = p[j][1]
      PROVE  p[i][2] < p[j][2]
  <2>1. i \in 1..L /\ p[i] = pool[i]
    BY <1>1, <1>7
  <2>2. CASE j \in 1..L
    BY <1>1, <1>7, <2>1, <2>2 DEF Orderly, L
  <2>3. CASE j = L + 1
    <3>1. pool[i][2] <= h[pool[i][1]] /\ pool[i][2] \in Nat
      BY <1>2, <2>1 DEF Orderly, L
    <3>2. pool[i][1] = c
      BY <1>3, <1>7, <2>1, <2>3
    <3> QED BY <1>3, <2>1, <2>3, <3>1, <3>2
  <2> QED BY <1>1, <2>2, <2>3
<1> QED BY <1>5, <1>6, <1>7 DEF Orderly, p, g

LEMMA PoolType ==
  ASSUME PoolTypeOK
  PROVE  /\ Pool \in Seq(Object) /\ DOMAIN Pool = 1..Len(Pool) /\ Len(Pool) \in Nat
         /\ \A i \in 1..Len(Pool) : Pool[i] \in Object
BY DEF PoolTypeOK, Pool

\* What get() takes from the head of the queue goes to the end of what was
\* yielded.
LEMMA GetMoves ==
  ASSUME PoolTypeOK, Get
  PROVE  Pool' = Pool
<1> USE DEF PoolTypeOK, Get, Pool
<1>1. /\ yielded' = Append(yielded, Head(pendingObjs))
      /\ pendingObjs' = Tail(pendingObjs) /\ pendingObjs # <<>>
  OBVIOUS
<1>2. Len(Pool') = Len(Pool)
  BY <1>1
<1>3. ASSUME NEW i \in 1..Len(Pool) PROVE Pool'[i] = Pool[i]
  BY <1>1, <1>3
<1>4. Pool \in Seq(Object) /\ Pool' \in Seq(Object)
  BY <1>1
<1> QED
  BY <1>2, <1>3, <1>4

\* put() adds to the end of the pool.
LEMMA PutAppends ==
  ASSUME PoolTypeOK, NEW c \in Conn, Put(c)
  PROVE  Pool' = Append(Pool, <<c, count[c]>>) /\ <<c, count[c]>> \in Object
<1> USE DEF PoolTypeOK, Put, Pool
<1>1. <<c, count[c]>> \in Object
  BY ConstantsAssumption DEF Object
<1>2. pendingObjs' = Append(pendingObjs, <<c, count[c]>>) /\ yielded' = yielded
  BY DEF poolVars
<1> QED
  BY <1>1, <1>2

LEMMA PoolTypeStep ==
  ASSUME PoolTypeOK, [Next]_vars
  PROVE  PoolTypeOK'
<1> USE ConstantsAssumption DEF PoolTypeOK
<1>1. CASE UNCHANGED <<threadVars, poolVars>>
  BY <1>1 DEF threadVars, poolVars
<1>3. CASE Get
  BY <1>3 DEF Get, threadVars
<1>4. ASSUME NEW c \in Conn, Launch(c) PROVE PoolTypeOK'
  BY <1>4 DEF Launch
<1>5. ASSUME NEW c \in Conn, ThreadStep(c) PROVE PoolTypeOK'
  <2>1. CASE Put(c)
    <3>1. <<c, count[c]>> \in Object
      BY <2>1, PutAppends
    <3>2. /\ pendingObjs' = Append(pendingObjs, <<c, count[c]>>)
          /\ thread' = [thread EXCEPT ![c] = "receive"]
          /\ Len(pendingObjs) < QueueMax
          /\ UNCHANGED <<count, pendingConns, yielded>>
      BY <2>1 DEF Put
    <3> QED BY <3>1, <3>2
  <2>2. CASE Receive(c)
    BY <2>2 DEF Receive, poolVars
  <2>3. CASE EndReceive(c) \/ ReceiveGarbled(c) \/ Remove(c)
    BY <2>3 DEF EndReceive, ReceiveGarbled, Remove, poolVars
  <2>4. CASE PutTimeout(c)
    <3>1. /\ thread[c] = "put" /\ UNCHANGED <<count, poolVars>>
          /\ \E t \in {"receive", "put"} : thread' = [thread EXCEPT ![c] = t]
      BY <2>4 DEF PutTimeout
    <3> QED BY <3>1 DEF poolVars
  <2> QED BY <1>5, <2>1, <2>2, <2>3, <2>4 DEF ThreadStep
<1> QED
  BY <1>1, <1>3, <1>4, <1>5
  DEF Next, vars, UserStep, CallStep, Launched, GetTimeout, Check, Abandon, Close,
      ConnectControl, ConnectBlast, Setup, SendBlobs, StartSearch, Reexecuted,
      CallFailed, StartCalled, EvaluateCalled, GetStatsRefused, GetStatsLost,
      OthersAdd

\* A step of a search that is not closed keeps what the pool holds, or adds the
\* next object of one connection.
LEMMA PoolOrderStep ==
  ASSUME PoolTypeOK, Orderly(Pool, HandledAll), ~abort, [Next]_vars
  PROVE  Orderly(Pool, HandledAll)'
<1> USE ConstantsAssumption
<1>1. ASSUME Pool' = Pool, \A d \in Conn : Handled(d)' = Handled(d)
      PROVE  Orderly(Pool, HandledAll)'
  <2>1. HandledAll' = HandledAll
    BY <1>1 DEF HandledAll
  <2> QED BY <1>1, <2>1 DEF Orderly
<1>2. CASE UNCHANGED <<threadVars, poolVars>>
  BY <1>1, <1>2 DEF threadVars, poolVars, Pool, Handled
<1>3. CASE Get
  <2>1. Pool' = Pool /\ UNCHANGED <<thread, count>>
    BY <1>3, GetMoves DEF Get, threadVars
  <2> QED BY <1>1, <2>1 DEF Handled
<1>4. ASSUME NEW c \in Conn, Launch(c) PROVE Orderly(Pool, HandledAll)'
  <2>1. Pool' = Pool
    BY <1>4 DEF Launch, Pool
  <2>2. \A d \in Conn : Handled(d)' = Handled(d)
    BY <1>4 DEF Launch, Handled, PoolTypeOK
  <2> QED BY <1>1, <2>1, <2>2
<1>5. ASSUME NEW c \in Conn, Put(c) PROVE Orderly(Pool, HandledAll)'
  <2>1. /\ thread[c] = "put" /\ count' = count
        /\ thread' = [thread EXCEPT ![c] = "receive"]
    BY <1>5 DEF Put
  <2>2. HandledAll \in [Conn -> Int]
    BY DEF HandledAll, Handled, PoolTypeOK
  <2>3. HandledAll[c] + 1 = count[c] /\ HandledAll[c] >= 0
    BY <2>1 DEF HandledAll, Handled, PoolTypeOK
  <2>4. HandledAll' = [HandledAll EXCEPT ![c] = count[c]]
    BY <2>1 DEF HandledAll, Handled, PoolTypeOK
  <2>5. Pool' = Append(Pool, <<c, count[c]>>) /\ <<c, count[c]>> \in Object
    BY <1>5, PutAppends
  <2>6. Orderly(Append(Pool, <<c, count[c]>>), [HandledAll EXCEPT ![c] = count[c]])
    BY <2>2, <2>3, <2>5, PoolType, OrderlyAppend
  <2> QED BY <2>4, <2>5, <2>6 DEF Orderly
<1>6. ASSUME NEW c \in Conn, ThreadStep(c), ~Put(c) PROVE Orderly(Pool, HandledAll)'
  <2>1. Pool' = Pool
    BY <1>6 DEF ThreadStep, Receive, EndReceive, ReceiveGarbled, PutTimeout, Remove,
                poolVars, Pool
  <2>2. CASE Receive(c)
    BY <1>1, <2>1, <2>2 DEF Receive, Handled, PoolTypeOK
  <2>3. CASE EndReceive(c) \/ ReceiveGarbled(c) \/ Remove(c)
    BY <1>1, <2>1, <2>3 DEF EndReceive, ReceiveGarbled, Remove, Handled, PoolTypeOK
  <2>4. CASE PutTimeout(c)
    <3>1. thread[c] = "put" /\ thread' = [thread EXCEPT ![c] = "put"] /\ count' = count
      BY <2>4 DEF PutTimeout
    <3> QED BY <1>1, <2>1, <3>1 DEF Handled, PoolTypeOK
  <2> QED BY <1>6, <2>2, <2>3, <2>4 DEF ThreadStep
<1> QED
  BY <1>2, <1>3, <1>4, <1>5, <1>6
  DEF Next, vars, UserStep, CallStep, Launched, GetTimeout, Check, Abandon, Close,
      ConnectControl, ConnectBlast, Setup, SendBlobs, StartSearch, Reexecuted,
      CallFailed, StartCalled, EvaluateCalled, GetStatsRefused, GetStatsLost,
      OthersAdd

\* Only close() sets the event, and nothing clears it.
LEMMA AbortStep ==
  ASSUME abort \in BOOLEAN, [Next]_vars
  PROVE  abort' \in BOOLEAN /\ (~abort' => ~abort)
<1>1. CASE CloseEffect /\ ~abort
  <2>1. abort' \in BOOLEAN
    BY <1>1 DEF CloseEffect
  <2> QED BY <1>1, <2>1
<1>2. CASE abort' = abort
  BY <1>2
<1> QED
  BY <1>1, <1>2, Zenon
  DEF Next, vars, UserStep, ThreadStep, CallStep, Launched, Get, GetTimeout, Check,
      Abandon, Close, ConnectControl, ConnectBlast, Setup, SendBlobs, StartSearch,
      Reexecuted, CallFailed, StartCalled, EvaluateCalled, GetStatsRefused,
      GetStatsLost, OthersAdd, Launch, Receive, EndReceive, ReceiveGarbled, Put,
      PutTimeout, Remove

LEMMA PoolInvariant == Spec => []PoolInv
<1>1. Init => PoolInv
  <2> SUFFICES ASSUME Init PROVE PoolInv
    OBVIOUS
  <2>1. PoolTypeOK
    <3>1. <<>> \in Seq(Object) /\ Len(<<>>) = 0
      OBVIOUS
    <3> QED BY <3>1, ConstantsAssumption DEF Init, PoolTypeOK
  <2>2. Pool = <<>>
    BY DEF Init, Pool
  <2>3. \A c \in Conn : Handled(c) = 0
    BY DEF Init, Handled
  <2>4. abort \in BOOLEAN
    BY DEF Init
  <2>5. Orderly(Pool, HandledAll)
    BY <2>2, <2>3 DEF Orderly, HandledAll
  <2> QED BY <2>1, <2>4, <2>5 DEF PoolInv
<1>2. PoolInv /\ [Next]_vars => PoolInv'
  BY PoolTypeStep, PoolOrderStep, AbortStep DEF PoolInv
<1> QED BY <1>1, <1>2, PTL DEF Spec

\* Type correctness: the queue of pending objects never holds more than its
\* capacity, and every object in it or yielded is one of a connection.
THEOREM TypeCorrect == Spec => []TypeOK
<1>1. SessionInv /\ PoolInv => TypeOK
  BY DEF SessionInv, PoolInv, PoolTypeOK, TypeOK, Object
<1> QED BY SessionInvariant, PoolInvariant, <1>1, PTL

\* As long as the search is not closed, every object that the receiver threads
\* have taken from their connections is yielded, queued or in its thread's
\* hands, once and in the order of its connection, for every number of
\* connections, every queue size and every interleaving of the threads with the
\* generator (PoolConserves).
THEOREM PoolConservesCorrect == Spec => []PoolConserves
<1>1. PoolInv => PoolConserves
  <2> SUFFICES ASSUME PoolInv, ~abort PROVE PoolConserves
    BY DEF PoolConserves
  <2> PoolTypeOK /\ Orderly(Pool, HandledAll)
    BY DEF PoolInv
  <2>1. DOMAIN Pool = 1..Len(Pool)
    BY PoolType
  <2>2. ASSUME NEW c \in Conn
        PROVE  {Pool[i][2] : i \in {j \in DOMAIN Pool : Pool[j][1] = c}} = 1..Handled(c)
    <3>1. \A i \in 1..Len(Pool) : Pool[i][1] = c => Pool[i][2] \in 1..Handled(c)
      <4> SUFFICES ASSUME NEW i \in 1..Len(Pool), Pool[i][1] = c
                   PROVE  Pool[i][2] \in 1..Handled(c)
        OBVIOUS
      <4>1. Pool[i][2] \in 1..MaxObjects
        BY PoolType DEF Object
      <4>2. Pool[i][2] <= Handled(c)
        BY DEF Orderly, HandledAll
      <4>3. Handled(c) \in Int
        BY DEF Handled, PoolTypeOK
      <4> QED BY <4>1, <4>2, <4>3, ConstantsAssumption
    <3>2. \A n \in 1..Handled(c) :
            \E i \in 1..Len(Pool) : Pool[i][1] = c /\ Pool[i][2] = n
      <4> SUFFICES ASSUME NEW n \in 1..Handled(c)
                   PROVE  \E i \in 1..Len(Pool) : Pool[i][1] = c /\ Pool[i][2] = n
        OBVIOUS
      <4>1. PICK i \in 1..Len(Pool) : Pool[i] = <<c, n>>
        BY DEF Orderly, HandledAll
      <4> QED BY <4>1
    <3> QED BY <2>1, <3>1, <3>2
  <2> QED BY <2>1, <2>2 DEF Orderly, PoolConserves
<1> QED BY PoolInvariant, <1>1, PTL
=============================================================================
