-------------------------- MODULE Supervisor_proof --------------------------
(***************************************************************************)
(* Proofs about the two halves of the supervisor: ConnListener, for every  *)
(* set of searches, and ChildManager, for every set of search processes    *)
(* and every number of signals.                                            *)
(***************************************************************************)
EXTENDS ConnListener, ChildManager, TLAPS

\* What the supervisor knows of connections.  A connection that died has left
\* the poll set for good, and every event is that of an accepted connection.
Registered ==
  /\ reg \subseteq accepted /\ dead \subseteq accepted
  /\ reg \cap dead = {}
  /\ batch \subseteq accepted \cup {Listening}

\* The pair of s has been handed over: nothing more is read from either end.
HandedOver(s) ==
  /\ got[<<s, "data">>] = NonceLen
  /\ <<s, "control">> \in accepted \ (reg \cup dead)
  /\ phase = "batch" => <<s, "control">> \notin batch

PairingInv ==
  /\ TypeOK
  /\ Registered
  /\ \A s \in Search : Paired(s) => HandedOver(s)
  /\ \A i, j \in DOMAIN pairs : pairs[i] = pairs[j] => i = j

LEMMA ConnFacts ==
  /\ Listening \notin Conn
  /\ \A s \in Search : <<s, "control">> \in Conn /\ <<s, "data">> \in Conn
  /\ \A c \in Conn : /\ c[1] \in Search
                     /\ Control(c) = <<c[1], "control">>
                     /\ IsControl(c) => c = <<c[1], "control">>
                     /\ ~IsControl(c) => c = <<c[1], "data">>
<1>1. \A c \in Conn : \E s \in Search, e \in {"control", "data"} : c = <<s, e>>
  BY DEF Conn
<1> QED BY <1>1 DEF Listening, Conn, IsControl, Control

LEMMA PairingInit == Init => PairingInv
  BY ConstantsAssumption DEF Init, PairingInv, TypeOK, Registered, Paired, HandedOver, NonceLen

\* A step that hands over no pair keeps what has been handed over.
LEMMA NoNewPair ==
  ASSUME PairingInv, TypeOK', Registered', UNCHANGED pairs,
         \A c \in Conn : got[c] = NonceLen => got'[c] = NonceLen,
         accepted \subseteq accepted', reg' \cap accepted \subseteq reg,
         \A c \in accepted :
           c \in dead' => c \in dead \/ c \in reg \/ (phase = "batch" /\ c \in batch),
         phase' = "batch" => (phase = "batch" /\ batch' \subseteq batch)
                             \/ batch' \subseteq reg \cup {Listening}
  PROVE  PairingInv'
<1>1. ASSUME NEW s \in Search, Paired(s) PROVE HandedOver(s)'
  <2>1. HandedOver(s)
    BY <1>1 DEF PairingInv
  <2>2. <<s, "control">> \in Conn /\ <<s, "data">> \in Conn /\ Listening \notin Conn
    BY ConnFacts
  <2> QED BY <2>1, <2>2 DEF HandedOver
<1>2. \A s \in Search : Paired(s)' = Paired(s)
  BY DEF Paired
<1> QED BY <1>1, <1>2 DEF PairingInv

LEMMA ClientSteps ==
  ASSUME PairingInv, NEW c \in Conn, ClientStep(c) \/ Close(c) \/ Reset(c)
  PROVE  PairingInv'
<1>1. UNCHANGED <<serverVars, loopVars>>
  BY DEF ClientStep, Connect, SendPart, Close, Reset
<1>2. TypeOK'
  BY <1>1, ConstantsAssumption
  DEF ClientStep, Connect, SendPart, Close, Reset, PairingInv, TypeOK, NonceLen,
      serverVars, loopVars
<1>3. Registered'
  BY <1>1 DEF PairingInv, Registered, serverVars, loopVars
<1> QED BY <1>1, <1>2, <1>3, NoNewPair DEF serverVars, loopVars

\* A match: control connection and data connection are alive and unpaired.
LEMMA MatchStep == ASSUME PairingInv, NEW c \in Conn, Match(c) PROVE PairingInv'
<1> DEFINE s == c[1]
<1>0. /\ Control(c) = <<s, "control">> /\ c = <<s, "data">> /\ s \in Search
      /\ Control(c) \in Conn
  BY ConnFacts DEF Match
<1>1. TypeOK'
  <2>1. pairs' \in Seq(Search)
    <3>1. pairs' = pairs \/ pairs' = Append(pairs, s)
      BY DEF Match
    <3>2. pairs \in Seq(Search)
      BY DEF PairingInv, TypeOK
    <3> QED BY ONLY <1>0, <3>1, <3>2
  <2> QED BY <2>1, <1>0
      DEF Match, Complete, Handling, PairingInv, TypeOK, NonceLen, clientVars
<1>2. Registered'
  BY DEF Match, Complete, Handling, PairingInv, Registered
<1>3. got[c] < NonceLen /\ got' = [got EXCEPT ![c] = NonceLen] /\ phase = "batch"
  BY DEF Match, Complete, Handling, PairingInv, TypeOK
<1>4. \A t \in Search : got[<<t, "data">>] = NonceLen => got'[<<t, "data">>] = NonceLen
  BY <1>3, ConnFacts DEF PairingInv, TypeOK
<1>5. CASE Control(c) \notin reg
  BY <1>1, <1>2, <1>3, <1>5, NoNewPair
  DEF Match, Complete, Handling, PairingInv, TypeOK
<1>6. CASE Control(c) \in reg
  <2>1. pairs' = Append(pairs, s) /\ phase' = "start" /\ reg' = reg \ {c, Control(c)}
        /\ UNCHANGED <<accepted, dead>>
    BY <1>6 DEF Match
  <2>2. /\ DOMAIN pairs' = 1..(Len(pairs) + 1) /\ DOMAIN pairs = 1..Len(pairs)
        /\ \A i \in DOMAIN pairs : pairs'[i] = pairs[i]
        /\ pairs'[Len(pairs) + 1] = s /\ Len(pairs) \in Nat
    BY <1>0, <2>1 DEF PairingInv, TypeOK
  <2>3. ~Paired(s)
    BY <1>0, <1>3 DEF PairingInv, HandedOver, NonceLen
  <2>4. \A t \in Search : Paired(t)' => Paired(t) \/ t = s
    BY <2>2 DEF Paired
  <2>5. got'[<<s, "data">>] = NonceLen
    BY <1>0, <1>3 DEF PairingInv, TypeOK
  <2>6. HandedOver(s)'
    BY <1>0, <1>6, <2>1, <2>5 DEF HandedOver, PairingInv, Registered
  <2>7. ASSUME NEW t \in Search, Paired(t) PROVE HandedOver(t)'
    BY <1>4, <2>1, <2>7 DEF HandedOver, PairingInv
  <2>8. \A i, j \in DOMAIN pairs' : pairs'[i] = pairs'[j] => i = j
    BY <2>2, <2>3 DEF PairingInv, Paired
  <2> QED BY <1>1, <1>2, <2>4, <2>6, <2>7, <2>8 DEF PairingInv
<1> QED BY <1>5, <1>6

LEMMA PairingStep == ASSUME PairingInv, [Next]_vars PROVE PairingInv'
<1> USE DEF clientVars, serverVars, loopVars
<1>1. CASE UNCHANGED vars
  BY <1>1 DEF vars, PairingInv, TypeOK, Registered, HandedOver, Paired
<1>2. CASE Poll \/ BatchDone \/ AcceptAll \/ StartChild
  <2>1. TypeOK'
    BY <1>2 DEF Poll, BatchDone, AcceptAll, StartChild, Ready, Waiting, PairingInv, TypeOK
  <2>2. Registered'
    BY <1>2 DEF Poll, BatchDone, AcceptAll, StartChild, Ready, Waiting, PairingInv,
                Registered
  <2>3. CASE Poll
    BY <2>1, <2>2, <2>3, NoNewPair DEF Poll, Ready
  <2>4. CASE BatchDone \/ StartChild
    BY <2>1, <2>2, <2>4, NoNewPair DEF BatchDone, StartChild
  <2>5. CASE AcceptAll
    BY <2>1, <2>2, <2>5, NoNewPair DEF AcceptAll, Waiting
  <2> QED BY <1>2, <2>3, <2>4, <2>5
<1>3. ASSUME NEW c \in Conn,
             \/ ReadPart(c) \/ ConnectionDied(c) \/ ConnectionReset(c)
             \/ SendFails(c) \/ NameControl(c) \/ UnknownNonce(c)
      PROVE  PairingInv'
  <2>1. /\ UNCHANGED <<pairs, accepted, refused, clientVars>> /\ reg' \subseteq reg
        /\ batch' \subseteq batch /\ phase = "batch" /\ phase' \in {"batch", "failed"}
        /\ dead' \in {dead, dead \cup {c}} /\ c \in batch
        /\ dead' # dead => c \notin reg'
        /\ held' = held
    BY <1>3 DEF ReadPart, ConnectionDied, ConnectionReset, SendFails, NameControl,
                UnknownNonce, Complete, CleanUp, Handling
  <2>2. got' = got \/ (got' = [got EXCEPT ![c] = sent[c]] /\ got[c] < sent[c])
    <3>1. CASE ReadPart(c)
      BY <3>1 DEF ReadPart
    <3>2. CASE ConnectionDied(c) \/ ConnectionReset(c)
      BY <3>2 DEF ConnectionDied, ConnectionReset
    <3>3. ASSUME Complete(c)
          PROVE  got' = [got EXCEPT ![c] = sent[c]] /\ got[c] < sent[c]
      BY <3>3 DEF Complete
    <3> QED BY <1>3, <3>1, <3>2, <3>3 DEF SendFails, NameControl, UnknownNonce
  <2>3. \A d \in Conn : got[d] = NonceLen => got'[d] = NonceLen
    BY <2>2 DEF PairingInv, TypeOK, NonceLen
  <2>4. named' \subseteq named \cup {c} /\ echoed' \subseteq echoed \cup {c}
    BY <1>3 DEF ReadPart, ConnectionDied, ConnectionReset, SendFails, NameControl,
                UnknownNonce, Complete, CleanUp
  <2>5. c \in accepted
    BY <2>1, ConnFacts DEF PairingInv, Registered
  <2>6. TypeOK'
    BY <2>1, <2>2, <2>4 DEF PairingInv, TypeOK
  <2>7. Registered'
    BY <2>1, <2>5 DEF PairingInv, Registered
  <2> QED BY <2>1, <2>3, <2>6, <2>7, NoNewPair
<1> QED
  BY <1>1, <1>2, <1>3, ClientSteps, MatchStep DEF Next, ServerStep

\* A child is forked at most once for a nonce and never for a control
\* connection found dead (PairedOnceAlive), for any number of clients that
\* connect, send, close and are reset at any time.
THEOREM PairedOnceAliveCorrect == Spec => []PairedOnceAlive
<1>1. PairingInv => PairedOnceAlive
  BY DEF PairingInv, PairedOnceAlive, HandedOver
<1>2. PairingInv /\ [Next]_vars => PairingInv'
  BY PairingStep
<1> QED BY PairingInit, <1>1, <1>2, PTL DEF Spec
-----------------------------------------------------------------------------
(***************************************************************************)
(* The child manager.                                                      *)
(***************************************************************************)
HandlerFrame == [at : {"wait", "pop", "kill", "remove"}, child : Child \cup {NoChild}]

ManagerTypes ==
  /\ current \in Child \cup {NoChild} /\ frames \in Seq(HandlerFrame)
  /\ children \subseteq Child /\ tempdir \subseteq Child
  /\ proc \in [Child -> {"unborn", "running", "zombie", "reaped"}]
  /\ signals \in Nat

\* Where the main thread is before a signal, and what it is at work on.
MainKnows ==
  /\ signals = 0 => sup \in {"accept", "made", "forked"}
  /\ sup = "accept" => current = NoChild
  /\ sup = "made" => proc[current] = "unborn"
  /\ sup \in {"made", "forked", "killing", "removing"} => current \in Child

\* A handler that has got past waitpid() works on a process that has exited;
\* every directory that is not in the table, nor the main thread's, is that of a
\* process which a handler has taken from the table and is cleaning up after.
HandlerKnows ==
  /\ \A i \in DOMAIN frames : frames[i].at # "wait" =>
       frames[i].child \in Child /\ proc[frames[i].child] = "reaped"
  /\ signals = 0 =>
       \A k \in tempdir \ (children \cup {current}) :
         \E i \in DOMAIN frames :
           frames[i].at \in {"kill", "remove"} /\ frames[i].child = k

ManagerInv == ManagerTypes /\ MainKnows /\ HandlerKnows

\* What a step of the innermost handler does to the frames.
LEMMA FrameStep ==
  ASSUME ManagerTypes, frames # <<>>, NEW s \in {"wait", "pop", "kill", "remove"},
         NEW k \in Child \cup {NoChild}, HandlerNext(s, k)
  PROVE  /\ frames' \in Seq(HandlerFrame) /\ DOMAIN frames' = DOMAIN frames
         /\ Len(frames) \in DOMAIN frames
         /\ \A i \in DOMAIN frames \ {Len(frames)} : frames'[i] = frames[i]
         /\ frames'[Len(frames)].at = s /\ frames'[Len(frames)].child = k
<1>1. frames \in Seq(HandlerFrame) /\ [at |-> s, child |-> k] \in HandlerFrame
  BY DEF ManagerTypes, HandlerFrame
<1>2. Len(frames) \in DOMAIN frames
  BY <1>1
<1> QED BY ONLY <1>1, <1>2, HandlerNext(s, k) DEF HandlerNext

\* A step of the main thread or of a search process leaves the frames alone.
LEMMA NoHandlerStep ==
  ASSUME ManagerInv, UNCHANGED frames, ManagerTypes', MainKnows',
         signals' = signals,
         \A k \in Child : proc[k] = "reaped" => proc'[k] = "reaped",
         tempdir' \ (children' \cup {current'}) \subseteq tempdir \ (children \cup {current})
  PROVE  ManagerInv'
  BY DEF ManagerInv, HandlerKnows

LEMMA ManagerInvInductive ==
  ASSUME ManagerInv, [ManagerNext]_managerVars
  PROVE  ManagerInv'
<1> USE ManagerAssumption
    DEF ManagerTypes, MainKnows, Main, mainVars, groupVars, tableVars
<1>0. ManagerTypes /\ MainKnows /\ HandlerKnows
  BY DEF ManagerInv
<1>1. CASE UNCHANGED managerVars
  BY <1>0, <1>1 DEF managerVars, ManagerInv, HandlerKnows
<1>2. ASSUME NEW k \in Child, MakeTempdir(k) PROVE ManagerInv'
  BY <1>0, <1>2, NoHandlerStep DEF MakeTempdir
<1>3. CASE Fork
  BY <1>0, <1>3, NoHandlerStep DEF Fork
<1>4. CASE Register
  BY <1>0, <1>4, NoHandlerStep DEF Register
<1>5. ASSUME NEW k \in Child, EnterCgroup(k) \/ StartFilters(k) PROVE ManagerInv'
  BY <1>0, <1>5, NoHandlerStep DEF EnterCgroup, StartFilters
<1>6. ASSUME NEW k \in Child, ChildExit(k) PROVE ManagerInv'
  BY <1>0, <1>6, NoHandlerStep DEF ChildExit
<1>7. CASE ChildSignal
  <2> DEFINE new == [at |-> "wait", child |-> NoChild]
  <2>1. new \in HandlerFrame /\ frames' = Append(frames, new)
        /\ UNCHANGED <<mainVars, tableVars, signals>>
    BY <1>7 DEF ChildSignal, HandlerFrame
  <2>2. /\ frames' \in Seq(HandlerFrame) /\ DOMAIN frames \subseteq DOMAIN frames'
        /\ \A i \in DOMAIN frames : frames'[i] = frames[i]
        /\ \A i \in DOMAIN frames' : i \in DOMAIN frames \/ frames'[i] = new
    BY <1>0, <2>1
  <2> QED BY <1>0, <2>1, <2>2 DEF ManagerInv, HandlerKnows
<1>8. ASSUME NEW k \in Child, Reap(k) PROVE ManagerInv'
  <2>1. /\ frames # <<>> /\ HandlerNext("pop", k) /\ frames[Len(frames)].at = "wait"
        /\ proc' = [proc EXCEPT ![k] = "reaped"] /\ proc[k] = "zombie"
        /\ UNCHANGED <<mainVars, children, tempdir, signals>>
    BY <1>8 DEF Reap, Handler
  <2>2. /\ frames' \in Seq(HandlerFrame) /\ DOMAIN frames' = DOMAIN frames
        /\ Len(frames) \in DOMAIN frames
        /\ \A i \in DOMAIN frames \ {Len(frames)} : frames'[i] = frames[i]
        /\ frames'[Len(frames)].at = "pop" /\ frames'[Len(frames)].child = k
    BY ONLY <1>0, <2>1, FrameStep
  <2>3. ManagerTypes' /\ MainKnows'
    BY <1>0, <2>1, <2>2
  <2>4. HandlerKnows'
    BY <1>0, <2>1, <2>2 DEF HandlerKnows
  <2> QED BY <2>3, <2>4 DEF ManagerInv
<1>9. CASE HandlerDone
  <2>1. /\ frames # <<>> /\ frames[Len(frames)].at = "wait"
        /\ frames' = SubSeq(frames, 1, Len(frames) - 1)
        /\ UNCHANGED <<mainVars, tableVars, signals>>
    BY <1>9 DEF HandlerDone, Handler
  <2>2. /\ frames' \in Seq(HandlerFrame) /\ DOMAIN frames' = DOMAIN frames \ {Len(frames)}
        /\ \A i \in DOMAIN frames' : frames'[i] = frames[i]
    BY <1>0, <2>1
  <2> QED BY <1>0, <2>1, <2>2 DEF ManagerInv, HandlerKnows
<1>10. CASE HandlerPop
  <2>1. /\ frames # <<>> /\ frames[Len(frames)].at = "pop"
        /\ children' = children \ {Target}
        /\ IF Target \in children THEN HandlerNext("kill", Target)
                                   ELSE HandlerNext("wait", NoChild)
        /\ UNCHANGED <<mainVars, proc, tempdir, signals>>
    BY <1>10 DEF HandlerPop, Handler
  <2>2. Len(frames) \in DOMAIN frames
    BY <1>0, <2>1
  <2>3. Target \in Child /\ proc[Target] = "reaped"
    BY <1>0, <2>1, <2>2 DEF HandlerKnows, Target
  <2>4. CASE Target \in children
    <3>1. /\ frames' \in Seq(HandlerFrame) /\ DOMAIN frames' = DOMAIN frames
          /\ \A i \in DOMAIN frames \ {Len(frames)} : frames'[i] = frames[i]
          /\ frames'[Len(frames)].at = "kill" /\ frames'[Len(frames)].child = Target
      BY <1>0, <2>1, <2>3, <2>4, FrameStep
    <3> QED BY <1>0, <2>1, <2>2, <2>3, <3>1 DEF ManagerInv, HandlerKnows
  <2>5. CASE Target \notin children
    <3>1. /\ frames' \in Seq(HandlerFrame) /\ DOMAIN frames' = DOMAIN frames
          /\ \A i \in DOMAIN frames \ {Len(frames)} : frames'[i] = frames[i]
          /\ frames'[Len(frames)].at = "wait"
      BY <1>0, <2>1, <2>5, FrameStep
    <3>2. children' = children
      BY <2>1, <2>5
    <3> QED BY <1>0, <2>1, <2>2, <3>1, <3>2 DEF ManagerInv, HandlerKnows
  <2> QED BY <2>4, <2>5
<1>11. CASE HandlerKill
  <2>1. /\ frames # <<>> /\ frames[Len(frames)].at = "kill"
        /\ HandlerNext("remove", Target) /\ KillTasks(Target)
        /\ UNCHANGED <<mainVars, children, tempdir, signals>>
    BY <1>11 DEF HandlerKill, Handler
  <2>2. Len(frames) \in DOMAIN frames
    BY <1>0, <2>1
  <2>3. Target \in Child /\ proc[Target] = "reaped" /\ Target = frames[Len(frames)].child
    BY <1>0, <2>1, <2>2 DEF HandlerKnows, Target
  <2>4. proc' = proc
    BY <2>1, <2>3 DEF KillTasks
  <2>5. /\ frames' \in Seq(HandlerFrame) /\ DOMAIN frames' = DOMAIN frames
        /\ \A i \in DOMAIN frames \ {Len(frames)} : frames'[i] = frames[i]
        /\ frames'[Len(frames)].at = "remove" /\ frames'[Len(frames)].child = Target
    BY <1>0, <2>1, <2>3, FrameStep
  <2> QED BY <1>0, <2>1, <2>2, <2>3, <2>4, <2>5 DEF ManagerInv, HandlerKnows
<1>12. CASE HandlerRemove
  <2>1. /\ frames # <<>> /\ frames[Len(frames)].at = "remove"
        /\ HandlerNext("wait", NoChild) /\ tempdir' = tempdir \ {Target}
        /\ UNCHANGED <<mainVars, children, proc, signals>>
    BY <1>12 DEF HandlerRemove, Handler, RemoveDirectories
  <2>2. /\ frames' \in Seq(HandlerFrame) /\ DOMAIN frames' = DOMAIN frames
        /\ Len(frames) \in DOMAIN frames
        /\ \A i \in DOMAIN frames \ {Len(frames)} : frames'[i] = frames[i]
        /\ frames'[Len(frames)].at = "wait"
    BY <1>0, <2>1, FrameStep
  <2>3. Target = frames[Len(frames)].child
    BY DEF Target
  <2> QED BY <1>0, <2>1, <2>2, <2>3 DEF ManagerInv, HandlerKnows
<1>13. CASE Signal
  <2>1. signals' # 0 /\ signals' \in Nat /\ frames' = <<>> /\ current' = NoChild
        /\ UNCHANGED tableVars /\ sup' \in {"exiting", "dead"}
    BY <1>0, <1>13 DEF Signal
  <2>2. frames' \in Seq(HandlerFrame) /\ DOMAIN frames' = {}
    BY <2>1
  <2> QED BY <1>0, <2>1, <2>2 DEF ManagerInv, HandlerKnows
<1>14. ASSUME NEW k \in Child, KillNext(k) PROVE ManagerInv'
  BY <1>0, <1>14 DEF KillNext, ManagerInv, HandlerKnows
<1>15. CASE KillAllKill
  <2>1. /\ proc' \in [Child -> {"unborn", "running", "zombie", "reaped"}]
        /\ \A k \in Child : proc[k] = "reaped" => proc'[k] = "reaped"
    BY <1>0, <1>15 DEF KillAllKill, KillTasks
  <2> QED BY <1>0, <1>15, <2>1, NoHandlerStep DEF KillAllKill
<1>16. CASE KillAllRemove
  BY <1>0, <1>16 DEF KillAllRemove, RemoveDirectories, ManagerInv, HandlerKnows
<1>17. CASE Die
  BY <1>0, <1>17, NoHandlerStep DEF Die
<1> QED
  BY <1>1, <1>2, <1>3, <1>4, <1>5, <1>6, <1>7, <1>8, <1>9, <1>10, <1>11, <1>12,
     <1>13, <1>14, <1>15, <1>16, <1>17 DEF ManagerNext, SupervisorStep

LEMMA ManagerInvariant == ManagerSpec => []ManagerInv
<1>1. ManagerInit => ManagerInv
  BY ManagerAssumption DEF ManagerInit, ManagerInv, ManagerTypes, MainKnows,
     HandlerKnows
<1> QED BY <1>1, ManagerInvInductive, PTL DEF ManagerSpec

\* For every number of search processes, whenever and in whatever order they
\* exit and however deep the handlers nest: until a signal interrupts the
\* supervisor, every temporary directory it has made is that of a process in the
\* table, or of one that the main thread or a handler is at work on
\* (DirectoriesKnown).
THEOREM DirectoriesKnownCorrect == ManagerSpec => []DirectoriesKnown
<1>1. ManagerInv => DirectoriesKnown
  BY DEF ManagerInv, HandlerKnows, DirectoriesKnown
<1> QED BY <1>1, ManagerInvariant, PTL

\* The SIGCHLD handler never takes the directory of a search process that still
\* runs, for every number of processes, signals and nested handlers
\* (RunningUndisturbed).
THEOREM RunningUndisturbedCorrect == ManagerSpec => RunningUndisturbed
<1> DEFINE Step == \A k \in tempdir :
                     proc[k] = "running" /\ sup \in {"accept", "made", "forked"} =>
                       k \in tempdir'
<1>1. ManagerInv /\ [ManagerNext]_managerVars => [Step]_managerVars
  <2> SUFFICES ASSUME ManagerInv, ManagerNext, NEW k \in tempdir,
                      proc[k] = "running", sup \in {"accept", "made", "forked"}
               PROVE  k \in tempdir'
    OBVIOUS
  <2>1. CASE HandlerRemove
    <3>1. /\ frames # <<>> /\ frames[Len(frames)].at = "remove"
          /\ tempdir' = tempdir \ {Target}
      BY <2>1 DEF HandlerRemove, Handler, RemoveDirectories
    <3>2. Len(frames) \in DOMAIN frames
      BY <3>1 DEF ManagerInv, ManagerTypes
    <3>3. proc[Target] = "reaped"
      BY <3>1, <3>2 DEF ManagerInv, HandlerKnows, Target
    <3> QED BY <3>1, <3>3
  <2>2. CASE KillAllRemove
    BY <2>2 DEF KillAllRemove, Main
  <2>3. CASE ~HandlerRemove /\ ~KillAllRemove
    BY <2>3 DEF ManagerNext, SupervisorStep, MakeTempdir, Fork, Register,
       EnterCgroup, StartFilters, ChildExit, ChildSignal, Reap, HandlerDone,
       HandlerPop, HandlerKill, Signal, KillNext, KillAllKill, Die, tableVars
  <2> QED BY <2>1, <2>2, <2>3
<1> QED
  BY <1>1, ManagerInvariant, PTL DEF ManagerSpec, RunningUndisturbed
=============================================================================
