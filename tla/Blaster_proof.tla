--------------------------- MODULE Blaster_proof ---------------------------
(***************************************************************************)
(* Proofs about the JSON Blaster, for every set of servers and any number  *)
(* of objects, requests and faults.                                        *)
(***************************************************************************)
EXTENDS Blaster, TLAPS

(***************************************************************************)
(* The stored definition                                                   *)
(***************************************************************************)

\* Before a cookie expires nothing is pruned, and put_search() reaches its
\* second rename only with the result of its first one in place.
StoreInv ==
  ~expired => /\ pruner = "sleep"
              /\ post = "search" => "expires" \in files
              /\ stored => "search" \in files
              /\ "search" \in files => "expires" \in files

\* What a step that is none of the store's does to it.
Spared ==
  /\ UNCHANGED <<expired, stored>>
  /\ files' = files \/ files' = files \cup {"result"}
  /\ \/ UNCHANGED <<post, pruner>>
     \/ post' = "none" /\ pruner' = "sleep"

LEMMA StoreOrSpared == ASSUME [Next]_vars PROVE StoreNext \/ Spared
<1> USE DEF Spared
<1>1. CASE UNCHANGED vars
  BY <1>1 DEF vars, storeVars, diskVars
<1>2. ASSUME NEW c \in Conn, BlastStep(c) PROVE Spared
  BY <1>2 DEF BlastStep, Object, PutResult
<1>3. ASSUME NEW c \in Conn, NEW a \in DOMAIN wait, StatsStep(a, c) PROVE Spared
  BY <1>3 DEF StatsStep, storeVars, diskVars
<1>4. CASE Start /\ UNCHANGED <<diskVars, evalVars, faults>>
  BY <1>4 DEF diskVars
<1>5. CASE \/ (ClientStep \/ StatsTick \/ Keepalive) /\ UNCHANGED <<storeVars, evalVars, faults>>
           \/ FaultStep /\ UNCHANGED <<storeVars, evalVars>>
  BY <1>5 DEF storeVars, diskVars
<1>6. CASE EvalStep
  BY <1>6 DEF EvalStep, Evaluate, EvalFetched, EvalReply, EvalMiss, EvalDone, EvalError,
              EvalCut, EvalClosed, PutResult
<1>7. CASE Crash
  BY <1>7 DEF Crash, StoreCrash
<1> QED BY <1>1, <1>2, <1>3, <1>4, <1>5, <1>6, <1>7 DEF Next

LEMMA StoreInvStep == ASSUME StoreInv, [Next]_vars PROVE StoreInv'
<1>1. CASE Spared
  BY <1>1 DEF Spared, StoreInv
<1>2. CASE PostSearch \/ Fetched \/ PutMkdir \/ PutCheck
  BY <1>2 DEF PostSearch, Fetched, PutMkdir, PutCheck, Fetch, StoreInv
<1>3. CASE PutExpires \/ PutRename
  BY <1>3 DEF PutExpires, PutRename, PutFails, StoreInv
<1>4. CASE Expire \/ PruneLook \/ PruneList \/ PruneRmdir
  BY <1>4 DEF Expire, PruneLook, PruneList, PruneRmdir, StoreInv
<1>5. ASSUME NEW f \in listed, PruneRemove(f) PROVE StoreInv'
  BY <1>5 DEF PruneRemove, StoreInv
<1> QED BY <1>1, <1>2, <1>3, <1>4, <1>5, StoreOrSpared DEF StoreNext

\* A search key that a POST returned can be used until a cookie expires, and
\* what can be loaded can be pruned, whatever happens between the renames
\* (KeyGood).
THEOREM KeyGoodCorrect == Spec => []KeyGood
<1>1. Init => StoreInv
  BY DEF Init, StoreInit, StoreInv
<1>2. StoreInv /\ [Next]_vars => StoreInv'
  BY StoreInvStep
<1>3. StoreInv => KeyGood
  BY DEF StoreInv, KeyGood
<1> QED BY <1>1, <1>2, <1>3, PTL DEF Spec

-----------------------------------------------------------------------------
(***************************************************************************)
(* Requests and objects                                                    *)
(***************************************************************************)

Actor == {"loop", "final"}

\* Where the objects of c are.  A server whose result could not be stored is
\* never asked again and never finishes.
Balanced(c) ==
  /\ c \in unfinished
       => \/ sent[c] + left[c] = MaxObjects
          \/ asks[c] = 0 /\ c \notin blocking
  /\ c \notin unfinished
       => sent[c] = MaxObjects /\ asks[c] = 0 /\ c \notin blocking

ObjectsInv ==
  /\ asks \in [Conn -> {0, 1}] /\ blocking \subseteq Conn
  /\ left \in [Conn -> Nat] /\ sent \in [Conn -> Nat]
  /\ unfinished \subseteq Conn
  /\ wait \in [Actor -> SUBSET Conn]
  /\ \A c \in blocking : asks[c] = 0
  /\ \A c \in Conn : Balanced(c)
  /\ wait["final"] # {} => unfinished = {}
  /\ "search_complete" \in said => unfinished = {}

LEMMA ObjectsInit == Init => ObjectsInv
<1> SUFFICES ASSUME Init PROVE ObjectsInv
  OBVIOUS
<1>1. wait \in [Actor -> SUBSET Conn] /\ wait["final"] = {}
  BY DEF Init, SearchInit, Actor
<1> QED BY <1>1, ObjectsAssumption DEF Init, SearchInit, ObjectsInv, Balanced

\* Steps that touch no object, may forget requests or statistics, and say
\* nothing of an end.
LEMMA QuietStep ==
  ASSUME ObjectsInv, UNCHANGED <<blocking, left, sent, unfinished>>,
         asks' \in [Conn -> {0, 1}], \A c \in Conn : asks'[c] \in {0, asks[c]},
         wait' \in [Actor -> SUBSET Conn], wait'["final"] # {} => wait["final"] # {},
         "search_complete" \in said' => "search_complete" \in said
  PROVE  ObjectsInv'
  BY DEF ObjectsInv, Balanced

\* _try_start() asks each server that has no request.
LEMMA TryStartStep ==
  ASSUME ObjectsInv, TryStart, UNCHANGED <<left, sent, unfinished>>,
         wait' \in [Actor -> SUBSET Conn], wait'["final"] = wait["final"],
         "search_complete" \in said' => "search_complete" \in said
  PROVE  ObjectsInv'
<1>1. CASE UNCHANGED <<asks, blocking>>
  BY <1>1, QuietStep DEF ObjectsInv
<1>2. CASE /\ asks' = [c \in Conn |-> IF c \in blocking THEN asks[c] + 1 ELSE asks[c]]
           /\ blocking' = {}
  BY <1>2 DEF ObjectsInv, Balanced
<1> QED BY <1>1, <1>2 DEF TryStart

LEMMA ObjectStep == ASSUME ObjectsInv, NEW c \in Conn, Object(c) PROVE ObjectsInv'
<1> USE DEF ObjectsInv, Balanced
<1>1. /\ asks[c] = 1 /\ c \notin blocking /\ c \in unfinished
      /\ sent[c] + left[c] = MaxObjects /\ left[c] > 0
      /\ left' = [left EXCEPT ![c] = @ - 1]
      /\ UNCHANGED <<unfinished, wait, said>>
  BY DEF Object, Empty
<1>2. \/ asks' = asks /\ blocking' = blocking
      \/ asks' = [asks EXCEPT ![c] = 0] /\ blocking' = blocking \cup {c}
      \/ asks' = [asks EXCEPT ![c] = 0] /\ blocking' = blocking
  BY <1>1 DEF Object, AskAgain
<1>3. \/ sent' = [sent EXCEPT ![c] = @ + 1]
      \/ sent' = sent /\ asks' = [asks EXCEPT ![c] = 0] /\ blocking' = blocking
  BY <1>1 DEF Object
<1>4. /\ left' \in [Conn -> Nat] /\ sent' \in [Conn -> Nat]
      /\ asks' \in [Conn -> {0, 1}] /\ blocking' \subseteq Conn
  BY <1>1, <1>2, <1>3
<1>5. \A d \in Conn \ {c} : /\ asks'[d] = asks[d] /\ left'[d] = left[d] /\ sent'[d] = sent[d]
                            /\ d \in blocking' <=> d \in blocking
  BY <1>1, <1>2, <1>3
<1>6. Balanced(c)'
  BY <1>1, <1>2, <1>3
<1>7. \A d \in Conn \ {c} : Balanced(d)'
  BY <1>1, <1>5
<1>8. \A d \in blocking' : asks'[d] = 0
  BY <1>1, <1>2
<1> QED BY <1>1, <1>4, <1>6, <1>7, <1>8

LEMMA EndStep == ASSUME ObjectsInv, NEW c \in Conn, End(c) PROVE ObjectsInv'
<1> USE DEF ObjectsInv, Balanced
<1>1. /\ asks[c] = 1 /\ c \notin blocking /\ c \in unfinished
      /\ sent[c] = MaxObjects
      /\ asks' = [asks EXCEPT ![c] = 0]
      /\ unfinished' = unfinished \ {c} /\ blocking' = blocking \ {c}
      /\ UNCHANGED <<left, sent, said>>
  <2>1. asks[c] > 0 /\ left[c] = 0 /\ asks' = [asks EXCEPT ![c] = asks[c] - 1]
        /\ unfinished' = unfinished \ {c} /\ blocking' = blocking \ {c}
        /\ UNCHANGED <<left, sent, said>>
    BY DEF End, Empty
  <2>2. asks[c] = 1 /\ c \notin blocking /\ c \in unfinished
    BY <2>1
  <2>3. sent[c] + left[c] = MaxObjects /\ sent[c] \in Nat
    BY <2>2
  <2> QED BY <2>1, <2>2, <2>3, ObjectsAssumption
<1>2. wait' = wait \/ (unfinished' = {} /\ wait' = [wait EXCEPT !["final"] = Conn])
  BY DEF End, Finish
<1>3. wait["final"] = {} /\ "search_complete" \notin said
  <2>1. unfinished # {}
    BY <1>1
  <2> QED BY <2>1
<1>4. wait' \in [Actor -> SUBSET Conn] /\ (wait'["final"] # {} => unfinished' = {})
  BY <1>2, <1>3 DEF Actor
<1>5. \A d \in Conn : Balanced(d)'
  BY <1>1
<1> QED BY <1>1, <1>3, <1>4, <1>5

LEMMA ObjectsStep == ASSUME ObjectsInv, [Next]_vars PROVE ObjectsInv'
<1>0. asks \in [Conn -> {0, 1}] /\ wait \in [Actor -> SUBSET Conn]
  BY DEF ObjectsInv
<1>1. CASE UNCHANGED searchVars
  BY <1>0, <1>1, QuietStep DEF searchVars
<1>2. ASSUME NEW c \in Conn, StartReply(c) PROVE ObjectsInv'
  <2>1. UNCHANGED <<left, sent, unfinished>>
    BY <1>2 DEF StartReply
  <2>2. \/ TryStart /\ said' = said \cup {"search_started"} /\ wait' = [wait EXCEPT !["loop"] = Conn]
        \/ UNCHANGED <<asks, blocking, said, wait>>
    BY <1>2 DEF StartReply
  <2>3. CASE UNCHANGED <<asks, blocking, said, wait>>
    BY <1>0, <2>1, <2>3, QuietStep
  <2>4. CASE TryStart /\ said' = said \cup {"search_started"} /\ wait' = [wait EXCEPT !["loop"] = Conn]
    <3>1. wait' \in [Actor -> SUBSET Conn] /\ wait'["final"] = wait["final"]
      BY <1>0, <2>4 DEF Actor
    <3> QED BY <2>1, <2>4, <3>1, TryStartStep
  <2> QED BY <2>2, <2>3, <2>4
<1>3. ASSUME NEW c \in Conn, HandleClose(c) PROVE ObjectsInv'
  <2>1. /\ UNCHANGED <<blocking, left, sent, unfinished>>
        /\ asks' = [asks EXCEPT ![c] = 0]
        /\ wait' = [a \in DOMAIN wait |-> IF c \in wait[a] THEN {} ELSE wait[a]]
    BY <1>3 DEF HandleClose
  <2>2. "search_complete" \in said' => "search_complete" \in said
    BY <1>3 DEF HandleClose, CloseAll
  <2>3. wait' \in [Actor -> SUBSET Conn] /\ (wait'["final"] # {} => wait["final"] # {})
    BY <1>0, <2>1 DEF Actor
  <2> QED BY <1>0, <2>1, <2>2, <2>3, QuietStep
<1>4. ASSUME NEW a \in Actor, NEW c \in Conn, StatsReply(a, c) PROVE ObjectsInv'
  <2>1. /\ UNCHANGED <<blocking, asks, left, sent, unfinished>>
        /\ wait' = [wait EXCEPT ![a] = @ \ {c}] /\ c \in wait[a]
    BY <1>4 DEF StatsReply
  <2>2. a = "final" \/ ("search_complete" \in said' => "search_complete" \in said)
    BY <1>4 DEF StatsReply
  <2>3. wait' \in [Actor -> SUBSET Conn] /\ (wait'["final"] # {} => wait["final"] # {})
    BY <1>0, <2>1 DEF Actor
  <2>4. a = "final" => unfinished = {}
    BY <2>1 DEF ObjectsInv
  <2> QED BY <1>0, <2>1, <2>2, <2>3, <2>4 DEF ObjectsInv, Balanced
<1>5. CASE Start \/ Pause \/ Leave \/ OnClose \/ NoPong \/ Pong \/ Keepalive
  <2>1. /\ UNCHANGED <<asks, blocking, left, sent, unfinished, wait>>
        /\ "search_complete" \in said' => "search_complete" \in said
    BY <1>5 DEF Start, Pause, Leave, OnClose, NoPong, Pong, Keepalive, CloseAll
  <2> QED BY <1>0, <2>1, QuietStep
<1>6. CASE Resume
  <2>1. /\ UNCHANGED <<left, sent, unfinished, wait>> /\ (TryStart \/ UNCHANGED <<asks, blocking>>)
        /\ "search_complete" \in said' => "search_complete" \in said
    BY <1>6 DEF Resume
  <2> QED BY <1>0, <2>1, QuietStep, TryStartStep
<1>7. CASE StatsTick
  <2>1. /\ UNCHANGED <<asks, blocking, left, sent, unfinished, said>>
        /\ wait' = wait \/ wait' = [wait EXCEPT !["loop"] = Conn]
    BY <1>7 DEF StatsTick
  <2>2. wait' \in [Actor -> SUBSET Conn] /\ wait'["final"] = wait["final"]
    BY <1>0, <2>1 DEF Actor
  <2> QED BY <1>0, <2>1, <2>2, QuietStep
<1>8. ASSUME NEW c \in Conn, StartRefused(c) \/ Cut(c) PROVE ObjectsInv'
  <2>1. /\ UNCHANGED <<asks, blocking, left, sent, unfinished, wait>>
        /\ "search_complete" \in said' => "search_complete" \in said
    BY <1>8 DEF StartRefused, Cut, CloseAll
  <2> QED BY <1>0, <2>1, QuietStep
<1>9. ASSUME NEW c \in Conn, ObjectError(c) PROVE ObjectsInv'
  <2>1. /\ UNCHANGED <<blocking, left, sent, unfinished, wait>>
        /\ asks' = [asks EXCEPT ![c] = @ - 1] /\ asks[c] > 0
        /\ "search_complete" \in said' => "search_complete" \in said
    BY <1>9 DEF ObjectError, CloseAll
  <2> QED BY <1>0, <2>1, QuietStep
<1>10. ASSUME NEW a \in Actor, NEW c \in Conn, StatsError(a, c) PROVE ObjectsInv'
  <2>1. /\ UNCHANGED <<asks, blocking, left, sent, unfinished>>
        /\ wait' = [wait EXCEPT ![a] = {}]
        /\ "search_complete" \in said' => "search_complete" \in said
    BY <1>10 DEF StatsError, CloseAll
  <2>2. wait' \in [Actor -> SUBSET Conn] /\ (wait'["final"] # {} => wait["final"] # {})
    BY <1>0, <2>1 DEF Actor
  <2> QED BY <1>0, <2>1, <2>2, QuietStep
<1>11. CASE Crash
  <2>1. /\ UNCHANGED <<blocking, left, sent, unfinished>>
        /\ asks' = [c \in Conn |-> 0] /\ wait' = [a \in DOMAIN wait |-> {}]
        /\ "search_complete" \in said' => "search_complete" \in said
    BY <1>11 DEF Crash, CloseAll
  <2>2. wait' \in [Actor -> SUBSET Conn] /\ (wait'["final"] # {} => wait["final"] # {})
    BY <1>0, <2>1 DEF Actor
  <2> QED BY <1>0, <2>1, <2>2, QuietStep
<1>12. DOMAIN wait = Actor
  BY <1>0
<1>13. CASE EvalStep \/ UNCHANGED vars \/ (StoreNext /\ UNCHANGED <<searchVars, evalVars, faults>>)
  BY <1>1, <1>13 DEF EvalStep, vars
<1>14. ASSUME NEW c \in Conn, BlastStep(c) PROVE ObjectsInv'
  BY <1>2, <1>3, <1>14, ObjectStep, EndStep DEF BlastStep
<1>15. CASE FaultStep
  BY <1>8, <1>9, <1>10, <1>12, <1>15 DEF FaultStep
<1>16. ASSUME NEW c \in Conn, NEW a \in DOMAIN wait, StatsStep(a, c) PROVE ObjectsInv'
  BY <1>4, <1>12, <1>16 DEF StatsStep
<1>17. CASE Start \/ ClientStep \/ StatsTick \/ Keepalive
  BY <1>5, <1>6, <1>7, <1>17 DEF ClientStep
<1> QED
  BY <1>11, <1>13, <1>14, <1>15, <1>16, <1>17 DEF Next

\* However the client pauses and resumes, no server has two requests for an
\* object, and one that resume() would start has none (OneRequest).
THEOREM OneRequestCorrect == Spec => []OneRequest
<1>1. ObjectsInv => OneRequest
  BY DEF ObjectsInv, OneRequest
<1>2. ObjectsInv /\ [Next]_vars => ObjectsInv'
  BY ObjectsStep
<1> QED BY ObjectsInit, <1>1, <1>2, PTL DEF Spec

\* search_complete comes after every object of every server, for any number of
\* both (CompleteMeansAll).
THEOREM CompleteMeansAllCorrect == Spec => []CompleteMeansAll
<1>1. ObjectsInv => CompleteMeansAll
  BY DEF ObjectsInv, CompleteMeansAll, Balanced
<1>2. ObjectsInv /\ [Next]_vars => ObjectsInv'
  BY ObjectsStep
<1> QED BY ObjectsInit, <1>1, <1>2, PTL DEF Spec
=============================================================================
