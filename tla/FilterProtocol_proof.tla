------------------------ MODULE FilterProtocol_proof ------------------------
(***************************************************************************)
(* Proofs about the resource context inside FilterProtocol, for every set  *)
(* of workers and of resource signatures.                                  *)
(***************************************************************************)
EXTENDS FilterProtocol, FiniteSetTheorems, SequenceTheorems, TLAPS

\* What any step of FilterProtocol does to the resource context.
ContextNext ==
  \/ \E p \in Proc : Ensuring(p) \/ Raised(p)
  \/ \E w \in Worker : Killed(w) \/ Terminate(w) \/ \E s \in Sig : Call(w, s)
  \/ \E s \in Sig : Reexecute(s)
  \/ Start \/ BeginShutdown \/ ShutdownSteps
  \/ /\ step[Runner] = "out"
     /\ step' = [step EXCEPT ![Runner] = "raised"]
     /\ UNCHANGED <<nvidia, kind, ctl, lock, catalog, want, made, containers, refused>>

LEMMA ContextStep == ASSUME [Next]_vars PROVE [ContextNext]_contextVars
<1>1. CASE UNCHANGED vars
  BY <1>1 DEF vars
<1>2. CASE FilterSteps
  BY <1>2 DEF FilterSteps, FilterReady, FilterTells, StdoutThread, FilterHints,
              FilterMisspeaks, FilterAsks, FilterReads, FilterResult,
              FilterLingers, FilterRaises, FilterDies, FilterOrphaned
<1>3. CASE ContextSteps
  BY <1>3 DEF ContextSteps, Control, ContextNext, Proc
<1>4. CASE Evaluate \/ ConnectFails \/ ConnectContainer
  BY <1>4, ProtocolAssumption
  DEF Evaluate, ConnectFails, ConnectContainer, Fatal, ContextNext, Running
<1>5. CASE OnInit \/ OnTell \/ OnAsk \/ OnResult \/ OnHint \/ Died
  BY <1>5 DEF OnInit, OnTell, OnAsk, OnResult, OnHint, Died, Reading, Running,
              Fatal, ContextNext
<1>6. CASE OnEnsure \/ EnsureReply \/ OnBad \/ RunnerRaised
  BY <1>6, ProtocolAssumption
  DEF OnEnsure, EnsureReply, OnBad, RunnerRaised, Command, Reading, Running,
      Fatal, ContextNext, Proc
<1> QED BY <1>1, <1>2, <1>3, <1>4, <1>5, <1>6 DEF Next, RunnerSteps

-----------------------------------------------------------------------------
\* The types that the argument needs.
TypesOK ==
  /\ lock \in [Proc -> Proc \cup {Free}]
  /\ catalog \in [Proc -> [Sig -> [name : Name, address : BOOLEAN]]]
  /\ step \in [Proc -> {"out", "lock", "raised", "dead"} \cup Inside]
  /\ want \in [Proc -> Sig]
  /\ made \in Nat /\ kind \in {"none", "plain", "shared"}

\* The control process is in ensure_resource() only while it serves; cleanup()
\* holds the lock while it removes; a shared context comes with start().
ControlPlace ==
  /\ ctl \notin {"serving", "running"} => step[Ctl] = "out"
  /\ ctl = "removing" => lock[Ctl] = Ctl
  /\ kind = "shared" => ctl # "serving"

\* Without a context nobody has asked for anything.
NoneYet ==
  kind = "none" =>
    /\ containers = {} /\ step[Ctl] = "out"
    /\ \A w \in Worker : step[w] = "dead"

\* In a shared context one process at a time is inside the with statement.
OneInside ==
  kind = "shared" => \A p \in Proc : step[p] \in Inside => lock[Ctl] = p

\* ... and the catalog has no handle before create() yields one, and one after.
HandleFirst ==
  kind = "shared" => \A p \in Proc :
    /\ step[p] = "name" => catalog[Ctl][want[p]] = NoHandle(want[p])
    /\ step[p] \in {"pull", "run", "address"} =>
         catalog[Ctl][want[p]] # NoHandle(want[p])

ContextInv ==
  TypesOK /\ ControlPlace /\ NoneYet /\ OneInside /\ HandleFirst /\ Catalogued

LEMMA ContextInvInit == Init => ContextInv
<1> SUFFICES ASSUME Init PROVE ContextInv
  OBVIOUS
<1>1. TypesOK
  <2>1. (CHOOSE s \in Sig : TRUE) \in Sig
    BY ProtocolAssumption
  <2> QED
    BY <2>1 DEF Init, ContextInit, TypesOK, NoCatalog, NoHandle, Handle, Name
<1> QED
  BY <1>1, ResourceAssumption
  DEF Init, ContextInit, ContextInv, ControlPlace, NoneYet, OneInside,
      HandleFirst, Catalogued, Proc

LEMMA CtlApart == Ctl \in Proc /\ Ctl \notin Worker /\ Free \notin Proc /\ Worker \subseteq Proc
  BY ResourceAssumption DEF Proc, Ctl, Free

\* The second handle of create() is the first one with an address.
LEMMA WithAddress ==
  ASSUME NEW h \in [name : Name, address : BOOLEAN]
  PROVE  /\ [h EXCEPT !.address = TRUE] \in [name : Name, address : BOOLEAN]
         /\ [h EXCEPT !.address = TRUE].name = h.name
         /\ [h EXCEPT !.address = TRUE].address = TRUE
  OBVIOUS

\* One entry of one process's catalog is set.
LEMMA SetEntry ==
  ASSUME NEW H, NEW C \in [Proc -> [Sig -> H]], NEW D, NEW q \in Proc, NEW s \in Sig,
         NEW h \in H, D = [C EXCEPT ![q] = [C[q] EXCEPT ![s] = h]]
  PROVE  /\ D \in [Proc -> [Sig -> H]]
         /\ \A o \in Proc, t \in Sig :
              D[o][t] = IF o = q /\ t = s THEN h ELSE C[o][t]
  OBVIOUS

\* A handle that stays in the catalog stays named.
LEMMA NamedKept ==
  ASSUME \A s \in Sig : catalog[Ctl][s] # NoHandle(s) =>
           /\ catalog'[Ctl][s] # NoHandle(s)
           /\ catalog'[Ctl][s].name = catalog[Ctl][s].name
  PROVE  Named \subseteq Named'
  BY DEF Named

\* What create() runs is named.
LEMMA MineNamed ==
  ASSUME ContextInv, kind = "shared", NEW p \in Proc,
         step[p] \in {"pull", "run", "address"}
  PROVE  Mine(p) \in Named
  BY DEF ContextInv, TypesOK, HandleFirst, Mine, Named, Home

\* The steps of ensure_resource().
LEMMA EnsuringStep ==
  ASSUME ContextInv, NEW p \in Proc, Ensuring(p) PROVE ContextInv'
<1> USE CtlApart DEF ContextInv, TypesOK, ControlPlace, NoneYet, OneInside,
                     HandleFirst, Inside, Creating
<1>0. kind = "shared" /\ step[p] \in Inside =>
        \A q \in Proc : q # p => step[q] \notin Inside
  OBVIOUS
<1>1. step[p] \in {"lock"} \cup Inside
  BY DEF Ensuring, Acquire, RecordName, Pull, RunContainer, RunNvidia,
         ReadAddress, Return
<1>2. kind # "none" /\ (p = Ctl => ctl \in {"serving", "running"})
  BY <1>1 DEF Proc
<1>3. kind = "shared" => Home(p) = Ctl
  BY DEF Home
<1>4. Home(p) \in Proc /\ (kind # "shared" => Home(p) = p)
  BY DEF Home
<1>5. CASE Acquire(p)
  <2>1. Catalogued'
    BY <1>5 DEF Acquire, Catalogued, Named
  <2>2. TypesOK' /\ ControlPlace' /\ NoneYet' /\ OneInside'
    BY <1>2, <1>3, <1>4, <1>5 DEF Acquire
  <2>3. HandleFirst'
    BY <1>2, <1>3, <1>4, <1>5 DEF Acquire
  <2> QED BY <2>1, <2>2, <2>3
<1>6. CASE RecordName(p)
  <2> DEFINE h == Handle(made + 1, want[p], FALSE)
  <2>1. /\ h \in [name : Name, address : BOOLEAN] /\ h # NoHandle(want[p])
        /\ want[p] \in Sig /\ step[p] = "name"
    BY <1>6 DEF Handle, NoHandle, Name, RecordName
  <2>2. kind = "shared" => /\ catalog'[Ctl] = [catalog[Ctl] EXCEPT ![want[p]] = h]
                           /\ catalog[Ctl][want[p]] = NoHandle(want[p])
    BY <1>3, <1>6, <2>1 DEF RecordName
  <2> HIDE DEF h
  <2>3. Catalogued'
    <3>1. kind = "shared" =>
            \A s \in Sig : catalog[Ctl][s] # NoHandle(s) => catalog'[Ctl][s] = catalog[Ctl][s]
      BY <2>1, <2>2
    <3>2. kind = "shared" => Named \subseteq Named'
      BY <3>1, NamedKept
    <3> QED BY <1>6, <3>2 DEF RecordName, Catalogued
  <2>4. catalog' \in [Proc -> [Sig -> [name : Name, address : BOOLEAN]]]
    BY <1>4, <1>6, <2>1 DEF RecordName, h
  <2>5. TypesOK' /\ ControlPlace' /\ NoneYet' /\ OneInside'
    <3>1. /\ step' = [step EXCEPT ![p] = "pull"] /\ made' = made + 1
          /\ UNCHANGED <<kind, ctl, lock, want, containers>>
      BY <1>6 DEF RecordName
    <3>2. TypesOK'
      BY <2>4, <3>1
    <3> QED BY <1>2, <2>1, <3>1, <3>2
  <2>6. HandleFirst'
    <3>1. /\ step' = [step EXCEPT ![p] = "pull"] /\ UNCHANGED <<kind, want>>
      BY <1>6 DEF RecordName
    <3>2. ASSUME kind = "shared", NEW q \in Proc, q # p
          PROVE  step'[q] \notin {"name", "pull", "run", "address"}
      BY <1>0, <2>1, <3>1, <3>2
    <3>3. kind = "shared" => catalog'[Ctl][want[p]] = h
      <4>1. catalog[Ctl] \in [Sig -> [name : Name, address : BOOLEAN]]
        OBVIOUS
      <4> QED BY <2>1, <2>2, <4>1
    <3> QED BY <2>1, <3>1, <3>2, <3>3
  <2> QED BY <2>3, <2>5, <2>6
<1>7. CASE Pull(p)
  <2>1. Catalogued'
    BY <1>7 DEF Pull, Catalogued, Named
  <2>2. TypesOK' /\ ControlPlace' /\ NoneYet' /\ OneInside'
    BY <1>2, <1>3, <1>4, <1>7 DEF Pull, Leave
  <2>3. HandleFirst'
    BY <1>7 DEF Pull, Leave
  <2> QED BY <2>1, <2>2, <2>3
<1>8. CASE RunContainer(p) \/ RunNvidia(p)
  <2>1. Catalogued'
    <3>1. containers' \subseteq containers \cup {Mine(p)} /\ Named' = Named
      BY <1>8 DEF RunContainer, RunNvidia, Named
    <3>2. kind = "shared" => Mine(p) \in Named
      BY <1>8, MineNamed DEF RunContainer, RunNvidia
    <3>3. kind' = kind /\ ctl' = ctl
      BY <1>8 DEF RunContainer, RunNvidia
    <3> QED BY <3>1, <3>2, <3>3 DEF Catalogued
  <2>2. TypesOK' /\ ControlPlace' /\ NoneYet' /\ OneInside'
    BY <1>2, <1>3, <1>4, <1>8 DEF RunContainer, RunNvidia, Leave
  <2>3. HandleFirst'
    BY <1>8 DEF RunContainer, RunNvidia, Leave
  <2> QED BY <2>1, <2>2, <2>3
<1>9. CASE ReadAddress(p)
  <2> DEFINE old == catalog[Home(p)][want[p]]
             new == [old EXCEPT !.address = TRUE]
  <2>0. old \in [name : Name, address : BOOLEAN] /\ want[p] \in Sig
    BY <1>4
  <2>1. /\ want[p] \in Sig
        /\ new \in [name : Name, address : BOOLEAN]
        /\ new.name = old.name /\ new.address = TRUE
    BY <2>0, WithAddress
  <2>2. catalog' = catalog \/ catalog' = [catalog EXCEPT ![Home(p)] =
                                            [catalog[Home(p)] EXCEPT ![want[p]] = new]]
    BY <1>9 DEF ReadAddress
  <2> HIDE DEF new
  <2> DEFINE H == [name : Name, address : BOOLEAN]
  <2> HIDE DEF H
  <2>a. /\ catalog' \in [Proc -> [Sig -> H]]
        /\ \/ catalog' = catalog
           \/ \A o \in Proc, t \in Sig :
                catalog'[o][t] = IF o = Home(p) /\ t = want[p] THEN new ELSE catalog[o][t]
    <3>1. catalog \in [Proc -> [Sig -> H]] /\ new \in H /\ Home(p) \in Proc
      BY <1>4, <2>1 DEF H
    <3>2. CASE catalog' = catalog
      BY <3>1, <3>2
    <3>3. CASE catalog' = [catalog EXCEPT ![Home(p)] =
                             [catalog[Home(p)] EXCEPT ![want[p]] = new]]
      <4>1. /\ catalog' \in [Proc -> [Sig -> H]]
            /\ \A o \in Proc, t \in Sig :
                 catalog'[o][t] = IF o = Home(p) /\ t = want[p] THEN new ELSE catalog[o][t]
        BY ONLY <2>1, <3>1, <3>3, SetEntry
      <4> QED BY <4>1, EmptySeq
    <3> QED BY <2>2, <3>2, <3>3
  <2>3. \A s \in Sig : \/ catalog'[Ctl][s] = catalog[Ctl][s]
                       \/ /\ catalog'[Ctl][s].name = catalog[Ctl][s].name
                          /\ catalog'[Ctl][s].address = TRUE
    BY ONLY <2>1, <2>a, CtlApart
  <2>4. \A s \in Sig : NoHandle(s).address = FALSE
    BY DEF NoHandle, Handle
  <2>5. \A s \in Sig : catalog[Ctl][s] # NoHandle(s) =>
           /\ catalog'[Ctl][s] # NoHandle(s)
           /\ catalog'[Ctl][s].name = catalog[Ctl][s].name
    BY <2>3, <2>4
  <2>6. Catalogued'
    BY <1>9, <2>5, NamedKept DEF ReadAddress, Catalogued
  <2>7. catalog' \in [Proc -> [Sig -> [name : Name, address : BOOLEAN]]]
    BY <2>a DEF H
  <2>8. TypesOK' /\ ControlPlace' /\ NoneYet' /\ OneInside'
    <3>1. lock' = lock \/ lock' = [lock EXCEPT ![Home(p)] = Free]
      BY <1>9 DEF ReadAddress, Leave
    <3>2. \/ step' = [step EXCEPT ![p] = "return"] /\ lock' = lock
          \/ step' = [step EXCEPT ![p] = "raised"]
      BY <1>9 DEF ReadAddress, Leave
    <3>3. UNCHANGED <<kind, ctl, want, made>> /\ step[p] = "address"
      BY <1>9 DEF ReadAddress
    <3> QED BY <1>0, <1>2, <1>3, <1>4, <2>7, <3>1, <3>2, <3>3
  <2>9. HandleFirst'
    BY <1>0, <1>9, <2>5 DEF ReadAddress, Leave
  <2> QED BY <2>6, <2>8, <2>9
<1>10. CASE Return(p)
  <2>1. Catalogued'
    BY <1>10 DEF Return, Catalogued, Named
  <2>2. TypesOK' /\ ControlPlace' /\ NoneYet' /\ OneInside'
    BY <1>2, <1>3, <1>4, <1>10 DEF Return, Leave
  <2>3. HandleFirst'
    BY <1>10 DEF Return, Leave
  <2> QED BY <2>1, <2>2, <2>3
<1> QED BY <1>5, <1>6, <1>7, <1>8, <1>9, <1>10 DEF Ensuring

\* Steps that leave lock and catalog alone and put no process inside the with
\* statement.
LEMMA QuietStep ==
  ASSUME ContextInv, UNCHANGED <<kind, lock, catalog, made, containers>>,
         kind # "none" \/ UNCHANGED step,
         want' \in [Proc -> Sig], step' \in [Proc -> {"out", "lock", "raised", "dead"} \cup Inside],
         \A q \in Proc : step'[q] \in Inside => step'[q] = step[q] /\ want'[q] = want[q],
         ctl' \notin {"serving", "running"} => step'[Ctl] = "out",
         ctl' = "removing" => ctl = "removing",
         ctl' = "serving" => ctl = "serving",
         ctl \in {"terminating", "failed", "exited"}
           => ctl' \in {"terminating", "failed", "exited"}
  PROVE  ContextInv'
<1> USE CtlApart DEF ContextInv, TypesOK, ControlPlace, NoneYet, OneInside,
                     HandleFirst, Inside, Creating
<1>1. Catalogued'
  BY DEF Catalogued, Named
<1>2. TypesOK' /\ ControlPlace' /\ OneInside'
  OBVIOUS
<1>3. NoneYet'
  OBVIOUS
<1>4. HandleFirst'
  OBVIOUS
<1> QED BY <1>1, <1>2, <1>3, <1>4

\* A process that leaves ensure_resource(), perhaps with its container made;
\* workers may end in the same step.
LEMMA LeaveStep ==
  ASSUME ContextInv, NEW p \in Proc, NEW where \in {"out", "dead"}, MayRun(p),
         p = Ctl => where = "out",
         kind # "none" \/ UNCHANGED <<step, containers>>,
         step' \in [Proc -> {"out", "lock", "raised", "dead"} \cup Inside],
         step'[p] = where,
         \A q \in Proc \ {p} : step'[q] = step[q] \/ (q # Ctl /\ step'[q] = "dead"),
         \/ step[p] \in Inside /\ lock' = [lock EXCEPT ![Home(p)] = Free]
         \/ lock' = lock,
         UNCHANGED <<kind, catalog, made, want>>,
         ctl' = ctl \/ (ctl' = "cleaning" /\ p = Ctl /\ ctl \in {"serving", "running"})
  PROVE  ContextInv'
<1> USE CtlApart DEF ContextInv, TypesOK, ControlPlace, NoneYet, OneInside,
                     HandleFirst, Inside, Creating
<1>1. Catalogued'
  <2>1. kind = "shared" => containers' \subseteq containers \cup Named
    BY MineNamed DEF MayRun, Catalogued
  <2>2. Named' = Named
    BY DEF Named
  <2>3. kind' = kind /\ (ctl' \notin {"terminating", "failed", "exited"}
                          => ctl \notin {"terminating", "failed", "exited"})
    OBVIOUS
  <2>4. Catalogued
    OBVIOUS
  <2> QED BY ONLY <2>1, <2>2, <2>3, <2>4 DEF Catalogued
<1>2. Home(p) \in Proc /\ (kind = "shared" => Home(p) = Ctl) /\ (kind # "shared" => Home(p) = p)
  BY DEF Home
<1>3. TypesOK'
  BY <1>2
<1>4. ControlPlace'
  <2>1. CASE step[p] \in Inside /\ lock' = [lock EXCEPT ![Home(p)] = Free]
    <3>1. ctl = "removing" => p # Ctl /\ kind # "shared"
      BY <2>1
    <3> QED BY <1>2, <2>1, <3>1
  <2>2. CASE lock' = lock
    BY <2>2
  <2> QED BY <2>1, <2>2
<1>5. NoneYet'
  OBVIOUS
<1>6. OneInside' /\ HandleFirst'
  BY <1>2
<1> QED BY <1>1, <1>3, <1>4, <1>5, <1>6

LEMMA StartStep == ASSUME ContextInv, Start PROVE ContextInv'
<1> USE CtlApart DEF ContextInv, TypesOK, ControlPlace, NoneYet, OneInside,
                     HandleFirst, Inside, Creating
<1>1. Catalogued'
  BY DEF Start, Catalogued
<1>2. TypesOK' /\ ControlPlace' /\ NoneYet' /\ OneInside' /\ HandleFirst'
  BY DEF Start
<1> QED BY <1>1, <1>2

LEMMA ReexecuteStep ==
  ASSUME ContextInv, NEW s \in Sig, Reexecute(s) PROVE ContextInv'
<1> USE CtlApart DEF ContextInv, TypesOK, ControlPlace, NoneYet, OneInside,
                     HandleFirst, Inside, Creating
<1>1. Catalogued'
  BY DEF Reexecute, Catalogued, Named
<1>2. TypesOK' /\ ControlPlace' /\ NoneYet' /\ OneInside' /\ HandleFirst'
  BY DEF Reexecute
<1> QED BY <1>1, <1>2

LEMMA ShutdownStep == ASSUME ContextInv, ShutdownSteps PROVE ContextInv'
<1> USE CtlApart DEF ContextInv, TypesOK, ControlPlace, NoneYet, OneInside,
                     HandleFirst, Inside, Creating
<1>1. CASE NoContext \/ Exit
  <2>1. /\ UNCHANGED <<kind, lock, catalog, step, want, made, containers>>
        /\ ctl' \in {"failed", "exited"} /\ ctl \in {"cleaning", "terminating"}
    BY <1>1 DEF NoContext, Exit
  <2> QED BY <2>1 DEF Catalogued
<1>2. CASE CleanupLock
  <2>1. Catalogued'
    BY <1>2 DEF CleanupLock, Catalogued, Named
  <2> QED BY <1>2, <2>1 DEF CleanupLock
<1>3. CASE RemoveAll \/ RemoveFails
  <2>1. /\ lock' = [lock EXCEPT ![Ctl] = Free] /\ ctl' \in {"terminating", "failed"}
        /\ ctl = "removing" /\ UNCHANGED <<kind, step, want, made>>
        /\ catalog' \in {catalog, [catalog EXCEPT ![Ctl] = NoCatalog]}
    BY <1>3 DEF RemoveAll, RemoveFails
  <2>2. containers' \subseteq containers
    BY <1>3 DEF RemoveAll, RemoveFails
  <2>3. kind = "shared" => \A p \in Proc : step[p] \notin Inside
    BY <2>1
  <2>4. NoCatalog \in [Sig -> [name : Name, address : BOOLEAN]]
    BY DEF NoCatalog, NoHandle, Handle, Name
  <2>5. catalog' \in [Proc -> [Sig -> [name : Name, address : BOOLEAN]]]
    <3>1. catalog \in [Proc -> [Sig -> [name : Name, address : BOOLEAN]]]
      OBVIOUS
    <3> QED BY ONLY <2>1, <2>4, <3>1
  <2>6. lock' \in [Proc -> Proc \cup {Free}]
    BY <2>1
  <2>7. TypesOK'
    BY <2>1, <2>5, <2>6
  <2>8. OneInside' /\ HandleFirst' /\ NoneYet'
    BY <2>1, <2>2, <2>3
  <2>9. ControlPlace' /\ Catalogued'
    BY <2>1 DEF Catalogued
  <2> QED BY <2>7, <2>8, <2>9
<1> QED BY <1>1, <1>2, <1>3 DEF ShutdownSteps

LEMMA ContextInvStep == ASSUME ContextInv, [Next]_vars PROVE ContextInv'
<1> USE CtlApart
<1>1. CASE UNCHANGED contextVars
  BY <1>1 DEF contextVars, ContextInv, TypesOK, ControlPlace, NoneYet, OneInside,
              HandleFirst, Catalogued, Named
<1>0. /\ step \in [Proc -> {"out", "lock", "raised", "dead"} \cup Inside]
      /\ want \in [Proc -> Sig]
      /\ ctl \notin {"serving", "running"} => step[Ctl] = "out"
  BY DEF ContextInv, TypesOK, ControlPlace
<1>2. ASSUME NEW p \in Proc, Raised(p) PROVE ContextInv'
  <2>1. kind # "none" /\ step[p] = "raised"
    BY <1>2 DEF Raised, ContextInv, NoneYet, Proc
  <2>2. CASE ctl \in {"serving", "running"}
    <3>1. /\ UNCHANGED <<kind, catalog, made, want>>
          /\ step' = [step EXCEPT ![p] = "dead", ![Ctl] = "out"]
          /\ Interrupt
      BY <1>2, <2>2 DEF Raised
    <3>2. /\ step' \in [Proc -> {"out", "lock", "raised", "dead"} \cup Inside]
          /\ step'[Ctl] = "out"
          /\ \A q \in Proc \ {Ctl} : step'[q] = step[q] \/ step'[q] = "dead"
      BY <1>0, <3>1
    <3> QED BY <2>1, <2>2, <3>1, <3>2, LeaveStep DEF Interrupt
  <2>3. CASE ctl \notin {"serving", "running"}
    <3>1. /\ UNCHANGED <<kind, ctl, lock, catalog, made, containers, want>>
          /\ step' = [step EXCEPT ![p] = IF p = Ctl THEN "out" ELSE "dead"]
      BY <1>2, <2>3 DEF Raised
    <3>2. p # Ctl
      BY <1>0, <2>1, <2>3
    <3>3. /\ step' \in [Proc -> {"out", "lock", "raised", "dead"} \cup Inside]
          /\ step'[Ctl] = step[Ctl]
          /\ \A q \in Proc : step'[q] \in Inside => step'[q] = step[q]
      BY <1>0, <3>1, <3>2 DEF Inside, Creating
    <3> QED BY <1>0, <2>1, <2>3, <3>1, <3>3, QuietStep
  <2> QED BY <2>2, <2>3
<1>3. ASSUME NEW w \in Worker, NEW s \in Sig, Call(w, s) PROVE ContextInv'
  BY <1>3, QuietStep
  DEF Call, ContextInv, TypesOK, ControlPlace, NoneYet, Inside, Creating
<1>4. CASE /\ step[Runner] = "out"
           /\ step' = [step EXCEPT ![Runner] = "raised"]
           /\ UNCHANGED <<nvidia, kind, ctl, lock, catalog, want, made, containers, refused>>
  BY <1>4, QuietStep, ProtocolAssumption
  DEF ContextInv, TypesOK, ControlPlace, NoneYet, Inside, Creating
<1>5. ASSUME NEW w \in Worker, Killed(w) \/ Terminate(w) PROVE ContextInv'
  <2>1. kind # "none"
    BY <1>5 DEF ContextInv, NoneYet, Killed, Terminate, Up
  <2>2. step' = [step EXCEPT ![w] = "dead"]
    BY <1>5 DEF Killed, Terminate, Leave
  <2> QED BY <1>0, <1>5, <2>1, <2>2, LeaveStep DEF Killed, Terminate, Leave
<1>6. CASE BeginShutdown
  <2>1. step' = [step EXCEPT ![Ctl] = "out"]
    BY <1>6 DEF BeginShutdown
  <2>2. ASSUME kind = "none" PROVE UNCHANGED <<step, containers>>
    <3>1. step[Ctl] = "out"
      BY <2>2 DEF ContextInv, NoneYet
    <3>2. containers' = containers
      BY <1>6, <3>1 DEF BeginShutdown, Interrupt, MayRun
    <3> QED BY <1>0, <2>1, <3>1, <3>2
  <2> QED BY <1>0, <1>6, <2>1, <2>2, LeaveStep DEF BeginShutdown, Interrupt
<1> QED
  BY <1>1, <1>2, <1>3, <1>4, <1>5, <1>6, ContextStep, EnsuringStep, StartStep,
     ReexecuteStep, ShutdownStep
  DEF ContextNext

\* Until cleanup() is through, every container that exists is named in the
\* catalog of a shared context, for every set of workers and of signatures,
\* whoever fails or is killed between the steps of create() (Catalogued).
THEOREM CataloguedCorrect == Spec => []Catalogued
<1>1. ContextInv => Catalogued
  BY DEF ContextInv
<1>2. ContextInv /\ [Next]_vars => ContextInv'
  BY ContextInvStep
<1> QED BY ContextInvInit, <1>1, <1>2, PTL DEF Spec

-----------------------------------------------------------------------------
(***************************************************************************)
(* The conversation: the messages in the pipe                              *)
(***************************************************************************)

Msg == [kind : Kind, n : Nat]

\* A result is the last message for its object.
Bump(m) == IF m.kind = "result" THEN 1 ELSE 0

\* The messages o in the pipe, of a filter that now works on w, go on object by
\* object from object b.
Chain(o, w, b) ==
  /\ o = <<>> => w = b
  /\ o # <<>> => o[1].n = b /\ o[Len(o)].n + Bump(o[Len(o)]) = w
  /\ \A i \in 1..(Len(o) - 1) : o[i + 1].n = o[i].n + Bump(o[i])

LEMMA ChainAppend ==
  ASSUME NEW o \in Seq(Msg), NEW w \in Nat, NEW b \in Nat, NEW m \in Msg,
         m.n = w, Chain(o, w, b)
  PROVE  Append(o, m) \in Seq(Msg) /\ Chain(Append(o, m), w + Bump(m), b)
<1> DEFINE o2 == Append(o, m)
<1>1. /\ o2 \in Seq(Msg) /\ Len(o2) = Len(o) + 1 /\ o2[Len(o) + 1] = m
      /\ \A i \in 1..Len(o) : o2[i] = o[i]
      /\ Len(o) \in Nat /\ (o = <<>> <=> Len(o) = 0) /\ o2 # <<>>
  OBVIOUS
<1> HIDE DEF o2
<1>2. \A i \in 1..(Len(o2) - 1) : o2[i + 1].n = o2[i].n + Bump(o2[i])
  <2> TAKE i \in 1..(Len(o2) - 1)
  <2>1. CASE i < Len(o)
    BY <1>1, <2>1 DEF Chain
  <2>2. CASE i = Len(o)
    BY <1>1, <2>2 DEF Chain
  <2> QED BY <1>1, <2>1, <2>2
<1>3. o2[1].n = b
  BY <1>1 DEF Chain
<1>4. o2[Len(o2)].n + Bump(o2[Len(o2)]) = w + Bump(m)
  BY <1>1
<1>5. Chain(o2, w + Bump(m), b)
  BY <1>1, <1>2, <1>3, <1>4 DEF Chain
<1> QED BY <1>1, <1>5 DEF o2

LEMMA ChainTail ==
  ASSUME NEW o \in Seq(Msg), NEW w \in Nat, NEW b \in Nat, o # <<>>, Chain(o, w, b)
  PROVE  Tail(o) \in Seq(Msg) /\ Head(o) \in Msg /\ Chain(Tail(o), w, b + Bump(Head(o)))
<1> DEFINE o2 == Tail(o)
<1>1. Len(o) \in Nat /\ Len(o) # 0 /\ Head(o) = o[1] /\ o[1] \in Msg
  OBVIOUS
<1>2. /\ o2 \in Seq(Msg) /\ Len(o2) = Len(o) - 1
      /\ \A i \in 1..(Len(o) - 1) : o2[i] = o[i + 1]
  BY <1>1
<1> HIDE DEF o2
<1>3. o2 = <<>> <=> Len(o2) = 0
  BY <1>2
<1>4. \A i \in 1..(Len(o2) - 1) : o2[i + 1].n = o2[i].n + Bump(o2[i])
  BY <1>1, <1>2 DEF Chain
<1>5. ASSUME o2 = <<>> PROVE w = b + Bump(o[1])
  <2>1. Len(o) = 1
    BY <1>1, <1>2, <1>3, <1>5
  <2>2. o[1].n = b /\ o[Len(o)].n + Bump(o[Len(o)]) = w
    BY DEF Chain
  <2> QED BY <2>1, <2>2
<1>6. ASSUME o2 # <<>>
      PROVE  o2[1].n = b + Bump(o[1]) /\ o2[Len(o2)].n + Bump(o2[Len(o2)]) = w
  <2>1. Len(o2) \in 1..(Len(o) - 1) /\ 1 \in 1..(Len(o) - 1)
    BY <1>1, <1>2, <1>3, <1>6
  <2>2. o2[Len(o2)] = o[Len(o)] /\ o2[1] = o[2]
    BY <1>1, <1>2, <2>1
  <2> QED BY <1>1, <2>1, <2>2 DEF Chain
<1>7. Chain(o2, w, b + Bump(Head(o)))
  BY <1>1, <1>4, <1>5, <1>6 DEF Chain
<1> QED BY <1>1, <1>2, <1>7 DEF o2

\* The runner takes part in the conversation.
Awake == step[Runner] \notin {"raised", "dead"}

\* The object that the next message is for.
Due == IF stage = "idle" THEN turn + 1 ELSE turn

PipeInv ==
  /\ ContextInv
  /\ out \in Seq(Msg) /\ working \in Nat /\ turn \in Nat
  /\ ctl = "serving" => filter = "none" /\ \A w \in Worker : step[w] = "dead"
  /\ filter = "none" => out = <<>>
  /\ filter # "none" /\ ~hinted /\ Awake => Chain(out, working, Due)

\* Only start() wakes a worker.
LEMMA AwakeStep ==
  ASSUME PipeInv, [Next]_vars
  PROVE  /\ ctl' = "serving" => ctl = "serving" /\ \A w \in Worker : step'[w] = "dead"
         /\ Awake' => Awake \/ ctl = "serving"
<1> USE CtlApart, ProtocolAssumption DEF Awake
<1>0. /\ step \in [Proc -> {"out", "lock", "raised", "dead"} \cup Inside]
      /\ ctl = "serving" => \A w \in Worker : step[w] = "dead"
  BY DEF PipeInv, ContextInv, TypesOK
<1>1. [ContextNext]_contextVars
  BY ContextStep
<1>2. CASE UNCHANGED contextVars
  BY <1>0, <1>2 DEF contextVars
<1>3. ASSUME NEW p \in Proc, NEW x, step' = [step EXCEPT ![p] = x],
             step[p] \notin {"raised", "dead"} \/ x \in {"raised", "dead"},
             ctl = "serving" => p = Ctl,
             ctl' = "serving" => ctl = "serving"
      PROVE  /\ ctl' = "serving" => ctl = "serving" /\ \A w \in Worker : step'[w] = "dead"
             /\ Awake' => Awake \/ ctl = "serving"
  BY <1>0, <1>3
<1>4. ASSUME NEW p \in Proc, Ensuring(p)
      PROVE  \E x : step' = [step EXCEPT ![p] = x] /\ step[p] \in {"lock"} \cup Inside /\ ctl' = ctl
  <2>1. step[p] \in {"lock"} \cup Inside /\ ctl' = ctl
    BY <1>4 DEF Ensuring, Acquire, RecordName, Pull, RunContainer, RunNvidia, ReadAddress,
                Return, Inside, Creating
  <2>2. \E x : step' = [step EXCEPT ![p] = x]
    <3>1. CASE Acquire(p) \/ RecordName(p)
      BY <3>1 DEF Acquire, RecordName
    <3>2. CASE Pull(p) \/ RunContainer(p)
      BY <3>2 DEF Pull, RunContainer, Leave
    <3>3. CASE RunNvidia(p) \/ ReadAddress(p) \/ Return(p)
      BY <3>3 DEF RunNvidia, ReadAddress, Return, Leave
    <3> QED BY <1>4, <3>1, <3>2, <3>3 DEF Ensuring
  <2> QED BY <2>1, <2>2
<1>5. ASSUME NEW p \in Proc, Ensuring(p)
      PROVE  /\ ctl' = "serving" => ctl = "serving" /\ \A w \in Worker : step'[w] = "dead"
             /\ Awake' => Awake \/ ctl = "serving"
  <2>1. PICK x : step' = [step EXCEPT ![p] = x] /\ step[p] \in {"lock"} \cup Inside /\ ctl' = ctl
    BY <1>4, <1>5
  <2>2. step[p] \notin {"raised", "dead"} /\ (ctl = "serving" => p = Ctl)
    BY <1>0, <2>1 DEF Inside, Creating, Proc
  <2> QED BY <1>3, <2>1, <2>2
<1>6. ASSUME NEW p \in Proc, Raised(p)
      PROVE  /\ ctl' = "serving" => ctl = "serving" /\ \A w \in Worker : step'[w] = "dead"
             /\ Awake' => Awake \/ ctl = "serving"
  BY <1>0, <1>6 DEF Raised, Interrupt
<1>7. ASSUME NEW w \in Worker, Killed(w) \/ Terminate(w) \/ \E s \in Sig : Call(w, s)
      PROVE  /\ ctl' = "serving" => ctl = "serving" /\ \A v \in Worker : step'[v] = "dead"
             /\ Awake' => Awake \/ ctl = "serving"
  BY <1>0, <1>7 DEF Killed, Terminate, Call, Leave, Up
<1>8. CASE BeginShutdown \/ \E s \in Sig : Reexecute(s)
  BY <1>0, <1>8 DEF BeginShutdown, Interrupt, Reexecute
<1>9. CASE Start
  BY <1>9 DEF Start
<1>10. CASE ShutdownSteps
  BY <1>0, <1>10 DEF ShutdownSteps, NoContext, CleanupLock, RemoveAll, RemoveFails, Exit
<1>11. CASE /\ step[Runner] = "out"
            /\ step' = [step EXCEPT ![Runner] = "raised"]
            /\ UNCHANGED <<nvidia, kind, ctl, lock, catalog, want, made, containers, refused>>
  BY <1>0, <1>11
<1> QED
  BY <1>1, <1>2, <1>5, <1>6, <1>7, <1>8, <1>9, <1>10, <1>11 DEF ContextNext

\* What the filter does to its pipe.
LEMMA FilterEffect ==
  ASSUME PipeInv, FilterSteps
  PROVE  /\ UNCHANGED <<contextVars, mode, runnerVars>>
         /\ filter # "none" /\ filter' # "none"
         /\ \/ UNCHANGED <<out, working>>
            \/ \E m \in Msg : /\ m.n = working /\ out' = Append(out, m)
                             /\ working' = working + Bump(m)
<1>0. working \in Nat /\ \A k \in Kind : Message(k) \in Msg
  BY DEF PipeInv, Message, Msg
<1>1. ASSUME NEW k \in Kind, Send(k), working' = working + (IF k = "result" THEN 1 ELSE 0)
      PROVE  \E m \in Msg : /\ m.n = working /\ out' = Append(out, m)
                            /\ working' = working + Bump(m)
  BY <1>0, <1>1 DEF Send, Message, Bump
<1>2. CASE FilterReady \/ FilterTells \/ StdoutThread \/ FilterHints \/ FilterMisspeaks
  <2>1. /\ UNCHANGED <<contextVars, mode, runnerVars, working>>
        /\ filter # "none" /\ filter' # "none"
        /\ Send("init") \/ Send("tell") \/ Send("hint") \/ Send("bad")
    BY <1>2 DEF FilterReady, FilterTells, StdoutThread, FilterHints, FilterMisspeaks, Alive
  <2> QED BY <1>0, <1>1, <2>1 DEF Kind
<1>3. CASE FilterAsks \/ FilterLingers \/ FilterRaises
  <2>1. /\ UNCHANGED <<contextVars, mode, runnerVars, working>>
        /\ filter # "none" /\ filter' # "none"
        /\ Send("ask") \/ Send("ensure") \/ Send("tell")
    BY <1>3 DEF FilterAsks, FilterLingers, FilterRaises, Alive
  <2> QED BY <1>0, <1>1, <2>1 DEF Kind
<1>4. CASE FilterReads \/ FilterOrphaned
  BY <1>4 DEF FilterReads, FilterOrphaned, Alive
<1>5. CASE FilterResult
  BY <1>1, <1>5 DEF FilterResult, Alive, Kind
<1>6. CASE FilterDies
  <2>1. /\ UNCHANGED <<contextVars, mode, runnerVars, working>>
        /\ filter # "none" /\ filter' # "none"
        /\ out' = out \/ out' = Append(out, Message("cut"))
    BY <1>6 DEF FilterDies, Alive
  <2>2. Message("cut") \in Msg /\ Message("cut").n = working /\ Bump(Message("cut")) = 0
    BY <1>0 DEF Message, Bump, Kind
  <2> QED BY <1>0, <2>1, <2>2
<1> QED BY <1>2, <1>3, <1>4, <1>5, <1>6 DEF FilterSteps

LEMMA PipeFilterStep == ASSUME PipeInv, FilterSteps, ContextInv' PROVE PipeInv'
<1>1. /\ UNCHANGED <<contextVars, mode, runnerVars>>
      /\ filter # "none" /\ filter' # "none"
  BY FilterEffect
<1>2. CASE UNCHANGED <<out, working>>
  BY <1>1, <1>2 DEF PipeInv, Awake, Due, contextVars, runnerVars
<1>3. CASE \E m \in Msg : /\ m.n = working /\ out' = Append(out, m)
                           /\ working' = working + Bump(m)
  <2>1. PICK m \in Msg : /\ m.n = working /\ out' = Append(out, m)
                         /\ working' = working + Bump(m)
    BY <1>3
  <2>2. Due \in Nat /\ Due' = Due /\ (Awake' <=> Awake) /\ hinted' = hinted
    BY <1>1 DEF PipeInv, Awake, Due, contextVars, runnerVars
  <2>3. out \in Seq(Msg) /\ working \in Nat /\ Bump(m) \in Nat
    BY DEF PipeInv, Bump
  <2>4. out' \in Seq(Msg) /\ working' \in Nat
    BY ONLY <2>1, <2>3
  <2>5. ~hinted /\ Awake => Chain(out', working', Due')
    <3>1. SUFFICES ASSUME ~hinted, Awake PROVE Chain(out', working', Due')
      OBVIOUS
    <3>2. Chain(out, working, Due)
      BY <1>1, <3>1 DEF PipeInv
    <3> QED BY <2>1, <2>2, <2>3, <3>2, ChainAppend
  <2> QED BY <1>1, <2>2, <2>4, <2>5 DEF PipeInv, contextVars, runnerVars
<1> QED BY <1>2, <1>3, FilterEffect

LEMMA PipeContextStep ==
  ASSUME PipeInv, [Next]_vars, UNCHANGED <<mode, runnerVars, filterVars>>, ContextInv'
  PROVE  PipeInv'
<1>1. UNCHANGED <<stage, turn, hinted, filter, working, out>>
  BY DEF runnerVars, filterVars
<1>2. Due' = Due
  BY <1>1 DEF Due
<1>3. filter # "none" => (Awake' => Awake)
  BY AwakeStep DEF PipeInv
<1> QED BY <1>1, <1>2, <1>3, AwakeStep DEF PipeInv

\* The runner reads a message, of its current object unless there was a hint.
LEMMA PipeReadStep ==
  ASSUME PipeInv, [Next]_vars, ContextInv', NEW k \in Kind, Command(k),
         UNCHANGED <<turn, filter, working>>,
         Awake' /\ ~hinted' => /\ ~hinted
                              /\ (stage' = "idle" <=> k = "result")
  PROVE  PipeInv'
<1>1. /\ out # <<>> /\ Head(out).kind = k /\ out' = Tail(out)
      /\ stage = "reading" /\ step[Runner] = "out" /\ ctl # "serving"
  BY ProtocolAssumption DEF Command, Reading, Running, PipeInv
<1>2. out \in Seq(Msg) /\ working \in Nat /\ turn \in Nat /\ filter # "none"
  BY <1>1 DEF PipeInv
<1>3. out' \in Seq(Msg)
  BY ONLY <1>1, <1>2
<1>4. ASSUME Awake', ~hinted' PROVE Chain(out', working', Due')
  <2>1. Chain(out, working, turn)
    BY <1>1, <1>2, <1>4 DEF PipeInv, Due, Awake
  <2>2. Chain(out', working', turn + Bump(Head(out)))
    BY <1>1, <1>2, <2>1, ChainTail
  <2>3. Due' = turn + Bump(Head(out))
    BY <1>1, <1>2, <1>4 DEF Due, Bump
  <2> QED BY <2>2, <2>3
<1>5. ctl' # "serving"
  BY <1>1, AwakeStep
<1> QED BY <1>2, <1>3, <1>4, <1>5 DEF PipeInv

LEMMA PipeRunnerStep ==
  ASSUME PipeInv, RunnerSteps, [Next]_vars, ContextInv' PROVE PipeInv'
<1>1. CASE OnInit \/ OnTell \/ OnAsk \/ OnResult \/ OnHint
  BY <1>1, PipeReadStep
  DEF OnInit, OnTell, OnAsk, OnResult, OnHint, Kind, Command, Reading, runnerVars
<1>2. CASE OnEnsure \/ OnBad
  BY <1>2, PipeReadStep, ProtocolAssumption, CtlApart
  DEF OnEnsure, OnBad, Fatal, Awake, Kind, Command, Reading, PipeInv, ContextInv, TypesOK
<1>3. CASE EnsureReply
  BY <1>3, AwakeStep DEF EnsureReply, PipeInv, Awake, Due, contextVars
<1>4. ASSUME Connected, [Next]_vars, ctl # "serving" PROVE PipeInv'
  <2>1. ctl' # "serving"
    BY <1>4, AwakeStep
  <2>2. Chain(out', working', Due')
    BY <1>4 DEF Connected, Due, Chain
  <2> QED BY <1>4, <2>1, <2>2 DEF Connected, PipeInv
<1>5. ctl # "serving"
  BY ProtocolAssumption
  DEF RunnerSteps, Evaluate, ConnectFails, ConnectContainer, OnInit, OnTell, OnAsk,
      OnEnsure, EnsureReply, OnResult, OnHint, OnBad, Died, RunnerRaised, Raised,
      Command, Reading, Running, PipeInv
<1>6. ctl' # "serving"
  BY <1>5, AwakeStep
<1>7. ASSUME Fatal \/ Raised(Runner), UNCHANGED <<turn, filter, working, out>> PROVE PipeInv'
  <2>1. ~Awake'
    BY <1>7, ProtocolAssumption, CtlApart
    DEF Fatal, Raised, Awake, PipeInv, ContextInv, TypesOK
  <2> QED BY <1>6, <1>7, <2>1 DEF PipeInv
<1>8. CASE Evaluate
  <2>1. CASE filter # "none"
    <3>1. /\ stage' = "reading" /\ turn' = turn + 1 /\ stage = "idle"
          /\ UNCHANGED <<contextVars, hinted, filter, working, out>>
      BY <1>8, <2>1 DEF Evaluate, filterVars
    <3>2. Due' = Due /\ turn' \in Nat
      BY <3>1 DEF Due, PipeInv
    <3>3. Awake' <=> Awake
      BY <3>1 DEF Awake, contextVars
    <3> QED BY <1>6, <2>1, <3>1, <3>2, <3>3 DEF PipeInv
  <2>2. CASE Connected
    BY <1>4, <1>5, <2>2
  <2>3. CASE filter = "none" /\ UNCHANGED <<turn, filterVars>>
    BY <1>6, <2>3 DEF PipeInv, filterVars
  <2> QED BY <1>8, <2>1, <2>2, <2>3 DEF Evaluate, filterVars
<1>9. CASE ConnectFails \/ RunnerRaised
  BY <1>7, <1>9 DEF ConnectFails, RunnerRaised, filterVars
<1>10. CASE ConnectContainer
  BY <1>4, <1>5, <1>7, <1>10 DEF ConnectContainer, filterVars
<1>11. CASE Died
  <2>1. CASE inited
    BY <1>6, <1>11, <2>1 DEF Died, PipeInv
  <2>2. CASE ~inited
    BY <1>7, <1>11, <2>2 DEF Died
  <2> QED BY <2>1, <2>2
<1> QED
  BY <1>1, <1>2, <1>3, <1>8, <1>9, <1>10, <1>11 DEF RunnerSteps

LEMMA PipeInvInit == Init => PipeInv
<1> SUFFICES ASSUME Init PROVE PipeInv
  OBVIOUS
<1>1. ContextInv
  BY ContextInvInit
<1>2. \A w \in Worker : step[w] = "dead"
  BY CtlApart DEF Init, ContextInit
<1> QED BY <1>1, <1>2 DEF Init, PipeInv

LEMMA PipeInvStep == PipeInv /\ [Next]_vars => PipeInv'
<1> SUFFICES ASSUME PipeInv, [Next]_vars PROVE PipeInv'
  OBVIOUS
<1>1. ContextInv'
  BY ContextInvStep DEF PipeInv
<1>2. CASE UNCHANGED vars
  BY <1>1, <1>2, PipeContextStep DEF vars
<1>3. CASE Next
  BY <1>1, <1>3, PipeRunnerStep, PipeFilterStep, PipeContextStep DEF Next
<1> QED BY <1>2, <1>3

\* The runner reads every message during the evaluate() of the object it was
\* sent for, on a connection without a hint, for every capacity of the pipe and
\* any number of objects (CommandsOfCurrent).
THEOREM CommandsOfCurrentCorrect == Spec => []CommandsOfCurrent
<1>1. PipeInv => CommandsOfCurrent
  <2> SUFFICES ASSUME PipeInv, Reading, out # <<>>, ~hinted PROVE Head(out).n = turn
    BY DEF CommandsOfCurrent
  <2>1. Chain(out, working, turn)
    BY DEF PipeInv, Reading, Running, Awake, Due
  <2>2. Head(out) = out[1]
    BY DEF PipeInv
  <2> QED BY <2>1, <2>2 DEF Chain
<1> QED BY PipeInvInit, PipeInvStep, <1>1, PTL DEF Spec

-----------------------------------------------------------------------------
(***************************************************************************)
(* The conversation: requests and replies                                  *)
(***************************************************************************)

Request == {"ask", "ensure"}
Requests(o) == {i \in 1..Len(o) : o[i].kind \in Request}

LEMMA RequestsAppend ==
  ASSUME NEW o \in Seq(Msg), NEW m \in Msg
  PROVE  Requests(Append(o, m)) =
           IF m.kind \in Request THEN Requests(o) \cup {Len(o) + 1} ELSE Requests(o)
<1> DEFINE o2 == Append(o, m)
<1>1. /\ Len(o2) = Len(o) + 1 /\ o2[Len(o) + 1] = m /\ Len(o) \in Nat
      /\ \A i \in 1..Len(o) : o2[i] = o[i]
  OBVIOUS
<1> HIDE DEF o2
<1>2. 1..Len(o2) = (1..Len(o)) \cup {Len(o) + 1} /\ Len(o) + 1 \notin 1..Len(o)
  BY <1>1
<1>3. Requests(o2) = IF m.kind \in Request THEN Requests(o) \cup {Len(o) + 1} ELSE Requests(o)
  BY <1>1, <1>2 DEF Requests
<1> QED BY <1>3 DEF o2

LEMMA RequestsTail ==
  ASSUME NEW o \in Seq(Msg), o # <<>>
  PROVE  /\ Head(o).kind \in Request <=> 1 \in Requests(o)
         /\ \A i : i \in Requests(Tail(o)) <=> (i \in Nat \ {0} /\ i + 1 \in Requests(o))
<1> DEFINE o2 == Tail(o)
<1>1. Len(o) \in Nat /\ Len(o) # 0 /\ Head(o) = o[1]
  OBVIOUS
<1>2. Len(o2) = Len(o) - 1 /\ \A i \in 1..(Len(o) - 1) : o2[i] = o[i + 1]
  BY <1>1
<1> HIDE DEF o2
<1>3. Head(o).kind \in Request <=> 1 \in Requests(o)
  BY <1>1 DEF Requests
<1>4. \A i : i \in Requests(o2) <=> (i \in Nat \ {0} /\ i + 1 \in Requests(o))
  BY <1>1, <1>2 DEF Requests
<1> QED BY <1>3, <1>4 DEF o2

\* What reading one message does to a pipe with at most one request in it.
LEMMA RequestsRead ==
  ASSUME NEW o \in Seq(Msg), o # <<>>
  PROVE  /\ Requests(o) = {} => Head(o).kind \notin Request /\ Requests(Tail(o)) = {}
         /\ (\E i : Requests(o) = {i}) =>
              IF Head(o).kind \in Request THEN Requests(Tail(o)) = {}
                                          ELSE \E i : Requests(Tail(o)) = {i}
<1>1. /\ Head(o).kind \in Request <=> 1 \in Requests(o)
      /\ \A i : i \in Requests(Tail(o)) <=> (i \in Nat \ {0} /\ i + 1 \in Requests(o))
  BY RequestsTail
<1>2. Requests(o) \subseteq Nat \ {0}
  BY DEF Requests
<1>3. ASSUME NEW i, Requests(o) = {i}
      PROVE  IF Head(o).kind \in Request THEN Requests(Tail(o)) = {}
                                         ELSE \E j : Requests(Tail(o)) = {j}
  <2>1. CASE i = 1
    <3>1. \A j \in Nat \ {0} : j + 1 # 1
      OBVIOUS
    <3> QED BY <1>1, <1>3, <2>1, <3>1
  <2>2. CASE i # 1
    <3>1. i \in Nat /\ i - 1 \in Nat \ {0} /\ (i - 1) + 1 = i
      BY <1>2, <1>3, <2>2
    <3>2. \A j \in Nat \ {0} : j + 1 = i => j = i - 1
      BY <3>1
    <3>3. Requests(Tail(o)) = {i - 1}
      BY <1>1, <1>3, <3>1, <3>2
    <3> QED BY <1>1, <1>3, <2>2, <3>3
  <2> QED BY <2>1, <2>2
<1> QED BY <1>1, <1>3

\* Where the request is that a filter waits for: in the pipe, answered, or in
\* the runner's hands.
NoRequest == ~asked /\ Requests(out) = {} /\ reply = <<>> /\ stage # "ensure"
InPipe == asked /\ (\E i : Requests(out) = {i}) /\ reply = <<>> /\ stage # "ensure"
Answered == asked /\ Requests(out) = {} /\ Len(reply) = 1 /\ stage # "ensure"
InHand == asked /\ Requests(out) = {} /\ reply = <<>> /\ stage = "ensure"
Place == NoRequest \/ InPipe \/ Answered \/ InHand

\* Both sides take part in the conversation.
Talking == filter \in {"init", "run"} /\ Awake

PlaceInv == PipeInv /\ reply \in Seq(Nat) /\ (Talking => Place)

LEMMA PlaceMatches == ASSUME PlaceInv PROVE RepliesMatch
<1> SUFFICES ASSUME Talking
             PROVE  Cardinality(Requests(out)) + Len(reply) + (IF stage = "ensure" THEN 1 ELSE 0)
                      = IF asked THEN 1 ELSE 0
  BY DEF RepliesMatch, Talking, Awake, Requests, Request
<1>1. Cardinality({}) = 0 /\ \A i : Cardinality({i}) = 1
  BY FS_EmptySet, FS_Singleton
<1>2. Len(<<>>) = 0
  OBVIOUS
<1>3. CASE NoRequest
  BY <1>1, <1>2, <1>3 DEF NoRequest
<1>4. CASE InPipe
  <2>1. Cardinality(Requests(out)) = 1
    BY <1>1, <1>4 DEF InPipe
  <2> QED BY <1>2, <1>4, <2>1 DEF InPipe
<1>5. CASE Answered
  <2>1. Cardinality(Requests(out)) = 0
    BY <1>1, <1>5 DEF Answered
  <2> QED BY <1>5, <2>1 DEF Answered
<1>6. CASE InHand
  BY <1>1, <1>2, <1>6 DEF InHand
<1> QED BY <1>3, <1>4, <1>5, <1>6 DEF PlaceInv, Place

\* The pipe, both hands and the stage stay as they are.
LEMMA PlaceKept ==
  ASSUME PlaceInv, PipeInv', Talking' => Talking, Requests(out)' = Requests(out),
         UNCHANGED <<asked, reply>>, (stage' # "ensure" /\ stage # "ensure") \/ stage' = stage
  PROVE  PlaceInv'
  BY DEF PlaceInv, Place, NoRequest, InPipe, Answered, InHand

\* One side leaves the conversation, or there is none.
LEMMA PlaceSilent ==
  ASSUME PlaceInv, PipeInv', reply' = reply \/ reply' = <<>>, ~Talking'
  PROVE  PlaceInv'
<1>1. reply \in Seq(Nat) /\ <<>> \in Seq(Nat)
  BY DEF PlaceInv
<1>2. reply' \in Seq(Nat)
  BY <1>1
<1> QED BY <1>2 DEF PlaceInv

LEMMA PlaceFilterStep == ASSUME PlaceInv, FilterSteps, PipeInv' PROVE PlaceInv'
<1>0. /\ UNCHANGED <<contextVars, mode, runnerVars>> /\ stage' = stage
      /\ (Awake' <=> Awake) /\ out \in Seq(Msg) /\ \A k \in Kind : Message(k) \in Msg
  BY FilterEffect DEF PlaceInv, PipeInv, Awake, contextVars, runnerVars, Message, Msg
<1>1. ASSUME NEW k \in Kind \ Request, Send(k) PROVE Requests(out)' = Requests(out)
  BY <1>0, <1>1, RequestsAppend DEF Send, Message, Requests
<1>2. CASE FilterReady \/ FilterTells \/ StdoutThread \/ FilterHints \/ FilterMisspeaks
           \/ FilterResult
  <2>1. /\ \E k \in Kind \ Request : Send(k)
        /\ UNCHANGED <<asked, reply>> /\ filter \in {"init", "run"}
    BY <1>2 DEF FilterReady, FilterTells, StdoutThread, FilterHints, FilterMisspeaks,
                FilterResult, Alive, Kind, Request
  <2> QED BY <1>0, <1>1, <2>1, PlaceKept DEF Talking
<1>3. CASE FilterAsks
  <2>1. /\ ~asked /\ asked' /\ reply' = reply /\ filter' = filter
        /\ \E k \in Request : Send(k)
    BY <1>3 DEF FilterAsks, Request
  <2>2. ASSUME Talking' PROVE InPipe'
    <3>1. NoRequest
      BY <1>0, <2>1, <2>2 DEF PlaceInv, Place, Talking, InPipe, Answered, InHand
    <3>2. Requests(out)' = {Len(out) + 1}
      <4>1. PICK k \in Request : Send(k)
        BY <2>1
      <4>2. Message(k) \in Msg /\ Message(k).kind = k /\ out' = Append(out, Message(k))
        BY <1>0, <4>1 DEF Message, Send, Request, Kind
      <4>3. Requests(Append(out, Message(k))) = Requests(out) \cup {Len(out) + 1}
        BY <1>0, <4>1, <4>2, RequestsAppend
      <4> QED BY <3>1, <4>2, <4>3 DEF NoRequest, Requests
    <3> QED BY <1>0, <2>1, <3>1, <3>2 DEF NoRequest, InPipe
  <2> QED BY <2>1, <2>2 DEF PlaceInv, Place
<1>4. CASE FilterReads
  <2>1. /\ asked /\ ~asked' /\ reply # <<>> /\ reply' = Tail(reply)
        /\ UNCHANGED <<filter, out>>
    BY <1>4 DEF FilterReads
  <2>2. reply \in Seq(Nat) /\ reply' \in Seq(Nat)
    BY <2>1 DEF PlaceInv
  <2>3. ASSUME Talking' PROVE NoRequest'
    <3>1. Answered
      BY <1>0, <2>1, <2>3 DEF PlaceInv, Place, Talking, NoRequest, InPipe, InHand
    <3>2. Tail(reply) = <<>>
      <4>1. Tail(reply) \in Seq(Nat) /\ Len(Tail(reply)) = 0
        BY <2>1, <2>2, <3>1 DEF Answered
      <4> QED BY <4>1, EmptySeq
    <3> QED BY <1>0, <2>1, <3>1, <3>2 DEF NoRequest, Answered, Requests
  <2> QED BY <2>2, <2>3 DEF PlaceInv, Place
<1>5. CASE FilterLingers \/ FilterRaises \/ FilterDies \/ FilterOrphaned
  BY <1>5, PlaceSilent DEF FilterLingers, FilterRaises, FilterDies, FilterOrphaned, Talking
<1> QED BY <1>2, <1>3, <1>4, <1>5 DEF FilterSteps

LEMMA PlaceRunnerStep ==
  ASSUME PlaceInv, RunnerSteps, [Next]_vars, PipeInv' PROVE PlaceInv'
<1>0. /\ out \in Seq(Msg) /\ reply \in Seq(Nat) /\ turn \in Nat
      /\ step \in [Proc -> {"out", "lock", "raised", "dead"} \cup Inside]
      /\ Runner \in Proc
  BY ProtocolAssumption DEF PlaceInv, PipeInv, ContextInv, TypesOK, Proc
<1>1. Running => Awake
  BY DEF Running, Awake
<1>2. ASSUME NEW k \in Kind \ Request, Command(k), UNCHANGED <<filter, asked, reply>>,
             stage' # "ensure"
      PROVE  PlaceInv'
  <2>1. /\ out # <<>> /\ Head(out).kind = k /\ out' = Tail(out)
        /\ stage # "ensure" /\ Awake
    BY <1>1, <1>2 DEF Command, Reading
  <2>2. /\ Requests(out) = {} => Requests(out)' = {}
        /\ (\E i : Requests(out) = {i}) => \E i : Requests(out)' = {i}
    BY <1>0, <1>2, <2>1, RequestsRead DEF Requests
  <2>3. ASSUME Talking' PROVE Place'
    <3>1. Talking
      BY <1>2, <2>1, <2>3 DEF Talking
    <3> QED BY <1>2, <2>1, <2>2, <3>1 DEF PlaceInv, Place, NoRequest, InPipe, Answered, InHand
  <2> QED BY <1>2, <2>3 DEF PlaceInv
<1>3. CASE OnInit \/ OnTell \/ OnResult \/ OnHint
  BY <1>2, <1>3
  DEF OnInit, OnTell, OnResult, OnHint, Kind, Request, Command, Reading, runnerVars
<1>4. ASSUME NEW k \in Request, Command(k), Talking PROVE InPipe /\ Requests(out)' = {}
  <2>1. /\ out # <<>> /\ Head(out).kind = k /\ out' = Tail(out) /\ stage # "ensure"
    BY <1>4 DEF Command, Reading
  <2>2. InPipe
    BY <1>0, <1>4, <2>1, RequestsRead DEF PlaceInv, Place, NoRequest, Answered, InHand
  <2> QED BY <1>0, <1>4, <2>1, <2>2, RequestsRead DEF InPipe, Requests
<1>5. ASSUME Talking, reply = <<>>, reply' = IF filter = "dead" THEN reply ELSE Append(reply, turn)
      PROVE  Len(reply') = 1
  <2>1. reply' = Append(<<>>, turn)
    BY <1>5 DEF Talking
  <2> QED BY <1>0, <2>1
<1>6. reply' = (IF filter = "dead" THEN reply ELSE Append(reply, turn)) => reply' \in Seq(Nat)
  BY <1>0
<1>7. CASE OnAsk
  <2>1. /\ Command("ask") /\ UNCHANGED <<stage, filter, asked, contextVars>>
        /\ reply' = IF filter = "dead" THEN reply ELSE Append(reply, turn)
        /\ Running
    BY <1>7 DEF OnAsk, Command, Reading, runnerVars
  <2>2. ASSUME Talking' PROVE Answered'
    <3>1. Talking
      BY <1>1, <2>1, <2>2 DEF Talking
    <3>2. InPipe /\ Requests(out)' = {}
      BY <1>4, <2>1, <3>1 DEF Request
    <3>3. Len(reply') = 1
      BY <1>5, <2>1, <3>1, <3>2 DEF InPipe
    <3> QED BY <2>1, <3>2, <3>3 DEF InPipe, Answered
  <2> QED BY <1>6, <2>1, <2>2 DEF PlaceInv, Place
<1>8. CASE OnEnsure
  <2>1. /\ Command("ensure") /\ UNCHANGED <<filter, asked, reply>>
        /\ stage' = "ensure" /\ Running
    BY <1>8 DEF OnEnsure, Command, Reading
  <2>2. ASSUME Talking' PROVE InHand'
    <3>1. Talking
      BY <1>1, <2>1, <2>2 DEF Talking
    <3>2. InPipe /\ Requests(out)' = {}
      BY <1>4, <2>1, <3>1 DEF Request
    <3> QED BY <2>1, <3>2 DEF InPipe, InHand
  <2> QED BY <2>1, <2>2 DEF PlaceInv, Place
<1>9. CASE EnsureReply
  <2>1. /\ stage = "ensure" /\ stage' = "reading" /\ UNCHANGED <<filter, asked, out>> /\ Running
        /\ reply' = IF filter = "dead" THEN reply ELSE Append(reply, turn)
    BY <1>9 DEF EnsureReply
  <2>2. ASSUME Talking' PROVE Answered'
    <3>1. Talking
      BY <1>1, <2>1, <2>2 DEF Talking
    <3>2. InHand
      BY <2>1, <3>1 DEF PlaceInv, Place, NoRequest, InPipe, Answered
    <3>3. Len(reply') = 1
      BY <1>5, <2>1, <3>1, <3>2 DEF InHand
    <3> QED BY <2>1, <3>2, <3>3 DEF InHand, Answered, Requests
  <2> QED BY <1>6, <2>1, <2>2 DEF PlaceInv, Place
<1>10. ASSUME Fatal \/ Raised(Runner), reply' = reply PROVE PlaceInv'
  <2>1. ~Awake'
    BY <1>0, <1>10, CtlApart, ProtocolAssumption DEF Fatal, Raised, Awake
  <2> QED BY <1>10, <2>1, PlaceSilent DEF Talking
<1>11. ASSUME Connected PROVE PlaceInv'
  <2>1. Requests(<<>>) = {} /\ <<>> \in Seq(Nat)
    BY DEF Requests
  <2>2. NoRequest' /\ reply' \in Seq(Nat)
    BY <1>11, <2>1 DEF Connected, NoRequest, Requests
  <2> QED BY <2>2 DEF PlaceInv, Place
<1>12. CASE Evaluate
  <2>1. CASE filter # "none"
    <3>1. /\ stage = "idle" /\ stage' = "reading" /\ Running /\ UNCHANGED <<filter, asked, out, reply>>
      BY <1>12, <2>1 DEF Evaluate, filterVars
    <3>2. Requests(out)' = Requests(out) /\ (Talking' => Talking)
      BY <1>1, <3>1 DEF Requests, Talking
    <3> QED BY <3>1, <3>2, PlaceKept
  <2>2. CASE filter = "none" /\ UNCHANGED filterVars
    BY <2>2, PlaceSilent DEF Talking, filterVars
  <2> QED BY <1>11, <1>12, <2>1, <2>2 DEF Evaluate
<1>13. CASE ConnectFails \/ RunnerRaised \/ OnBad
  BY <1>10, <1>13 DEF ConnectFails, RunnerRaised, OnBad, filterVars
<1>14. CASE ConnectContainer
  BY <1>10, <1>11, <1>14 DEF ConnectContainer, filterVars
<1>15. CASE Died
  <2>1. CASE inited
    BY <1>15, <2>1, PlaceSilent DEF Died, Talking
  <2>2. CASE ~inited
    BY <1>10, <1>15, <2>2 DEF Died
  <2> QED BY <2>1, <2>2
<1> QED
  BY <1>3, <1>7, <1>8, <1>9, <1>12, <1>13, <1>14, <1>15 DEF RunnerSteps

LEMMA PlaceContextStep ==
  ASSUME PlaceInv, [Next]_vars, UNCHANGED <<mode, runnerVars, filterVars>>, PipeInv'
  PROVE  PlaceInv'
<1>1. UNCHANGED <<stage, asked, filter, out, reply>>
  BY DEF runnerVars, filterVars
<1>2. Talking' => Talking
  BY <1>1, AwakeStep DEF Talking, PlaceInv, PipeInv
<1> QED BY <1>1, <1>2, PlaceKept DEF Requests

\* A waiting filter has exactly one command in the pipe, in the runner's hands
\* or answered, and a filter that does not wait has none, whoever dies and
\* however many messages the pipe holds (RepliesMatch).
THEOREM RepliesMatchCorrect == Spec => []RepliesMatch
<1>1. Init => PlaceInv
  <2> SUFFICES ASSUME Init PROVE PlaceInv
    OBVIOUS
  <2>1. reply \in Seq(Nat) /\ ~Talking
    BY DEF Init, Talking
  <2> QED BY <2>1, PipeInvInit DEF PlaceInv
<1>2. PlaceInv /\ [Next]_vars => PlaceInv'
  <2> SUFFICES ASSUME PlaceInv, [Next]_vars PROVE PlaceInv'
    OBVIOUS
  <2>1. PipeInv'
    BY PipeInvStep DEF PlaceInv
  <2>2. CASE UNCHANGED vars
    BY <2>1, <2>2, PlaceContextStep DEF vars
  <2>3. CASE Next
    BY <2>1, <2>3, PlaceRunnerStep, PlaceFilterStep, PlaceContextStep DEF Next
  <2> QED BY <2>2, <2>3
<1>3. PlaceInv => RepliesMatch
  BY PlaceMatches
<1> QED BY <1>1, <1>2, <1>3, PTL DEF Spec
=============================================================================
