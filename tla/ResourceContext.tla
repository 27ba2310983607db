-------------------------- MODULE ResourceContext --------------------------
(***************************************************************************)
(* The resource context of one search process (server/resource.py) and the *)
(* part of server/search.py that creates, shares and cleans it up.         *)
(*                                                                         *)
(* The control process and the forked workers ask the context for docker   *)
(* containers by signature; a catalog says which exist, and a lock         *)
(* serialises their creation.  start() makes a context whose lock and      *)
(* catalog live in an mp.Manager.  A reexecution before start() makes one  *)
(* with a thread lock and a dict, start() keeps that one, and every forked *)
(* worker then goes on with its own copy.                                  *)
(***************************************************************************)
EXTENDS Integers, FiniteSets

CONSTANTS
  Worker,    \* the forked FilterStackRunner processes
  Sig        \* resource signatures the filters ask for

Ctl == "control"
Free == "free"
Proc == Worker \cup {Ctl}

ASSUME ResourceAssumption == {Ctl, Free} \cap Worker = {}

VARIABLES
  nvidia,      \* the signatures whose type is nvidia-docker
  kind,        \* SearchState.context: "none", "plain" or "shared"
  ctl,         \* the control process: serving, running, or a step of shutdown()
  lock,        \* holder of the lock in each process's copy of the context
  catalog,     \* the catalog in each process's copy: signature -> handle
  step,        \* where each process is in ensure_resource()
  want,        \* the signature it asked for
  made,        \* number of names drawn by create() so far (uuid4)
  containers,  \* names of the containers that exist
  refused      \* those of them that docker refused to remove in cleanup()

contextVars == <<nvidia, kind, ctl, lock, catalog, step, want, made, containers, refused>>

\* The process whose copy of the context p works on: with the manager's lock
\* and catalog there is one copy, that of the control process.
Home(p) == IF kind = "shared" THEN Ctl ELSE p

\* Container names are numbered; number 0 stands for no handle in the catalog.
Name == [n : Nat, sig : Sig]
Handle(n, s, a) == [name |-> [n |-> n, sig |-> s], address |-> a]
NoHandle(s) == Handle(0, s, FALSE)
NoCatalog == [s \in Sig |-> NoHandle(s)]

\* A process inside the with statement of ensure_resource().
Creating == {"name", "pull", "run", "address"}
Inside == Creating \cup {"return"}
Up(p) == step[p] # "dead"

ContextInit ==
  /\ nvidia \in SUBSET Sig
  /\ kind = "none" /\ ctl = "serving"
  /\ lock = [p \in Proc |-> Free]
  /\ catalog = [p \in Proc |-> NoCatalog]
  /\ step = [p \in Proc |-> IF p = Ctl THEN "out" ELSE "dead"]
  /\ want = [p \in Proc |-> CHOOSE s \in Sig : TRUE]
  /\ made = 0 /\ containers = {} /\ refused = {}

-----------------------------------------------------------------------------
(***************************************************************************)
(* ensure_resource()                                                       *)
(***************************************************************************)

Call(p, s) ==
  /\ step[p] = "out"
  /\ step' = [step EXCEPT ![p] = "lock"]
  /\ want' = [want EXCEPT ![p] = s]
  /\ UNCHANGED <<nvidia, kind, ctl, lock, catalog, made, containers, refused>>

\* with self._lock, and the look at the catalog.
Acquire(p) ==
  /\ step[p] = "lock" /\ lock[Home(p)] = Free
  /\ lock' = [lock EXCEPT ![Home(p)] = p]
  /\ step' = [step EXCEPT ![p] =
                IF catalog[Home(p)][want[p]] = NoHandle(want[p]) THEN "name" ELSE "return"]
  /\ UNCHANGED <<nvidia, kind, ctl, catalog, want, made, containers, refused>>

\* Mutant: a create() that yields its name only once the container runs.
RecordNameLate(p) ==
  /\ step[p] = "name"
  /\ made' = made + 1
  /\ containers' = containers \cup {[n |-> made + 1, sig |-> want[p]]}
  /\ catalog' = catalog
  /\ step' = [step EXCEPT ![p] = "return"]
  /\ UNCHANGED <<nvidia, kind, ctl, lock, want, refused>>

\* The first handle that create() yields: a fresh name, put into the catalog
\* before any container of that name can exist.
RecordName(p) ==
  /\ step[p] = "name"
  /\ made' = made + 1
  /\ catalog' = [catalog EXCEPT ![Home(p)][want[p]] =
                   Handle(made + 1, want[p], FALSE)]
  /\ step' = [step EXCEPT ![p] = "pull"]
  /\ UNCHANGED <<nvidia, kind, ctl, lock, want, containers, refused>>

Mine(p) == catalog[Home(p)][want[p]].name

\* An exception leaves the with statement: the lock is free, the catalog keeps
\* what was recorded.
Leave(p, where) ==
  /\ lock' = [lock EXCEPT ![Home(p)] = Free]
  /\ step' = [step EXCEPT ![p] = where]

\* p leaves while docker works on a request of it, which may be carried out.
MayRun(p) ==
  containers' \in {containers} \cup
    (IF step[p] = "run" THEN {containers \cup {Mine(p)}} ELSE {})

\* client.images.pull(), which may raise ResourceCreationError.
Pull(p) ==
  /\ step[p] = "pull"
  /\ \/ step' = [step EXCEPT ![p] = "run"] /\ UNCHANGED lock
     \/ Leave(p, "raised")
  /\ UNCHANGED <<nvidia, kind, ctl, catalog, want, made, containers, refused>>

\* client.containers.run(): it starts the container, or raises before or after
\* docker has created it.  The exception handler removes nothing, for its
\* variable is still None.
RunContainer(p) ==
  /\ step[p] = "run" /\ want[p] \notin nvidia
  /\ \/ containers' = containers \cup {Mine(p)}
        /\ step' = [step EXCEPT ![p] = "address"] /\ UNCHANGED lock
     \/ containers' \in {containers, containers \cup {Mine(p)}} /\ Leave(p, "raised")
  /\ UNCHANGED <<nvidia, kind, ctl, catalog, want, made, refused>>

\* The nvidia-docker command: after a failure the container of that name is
\* removed as far as that succeeds.
RunNvidia(p) ==
  /\ step[p] = "run" /\ want[p] \in nvidia
  /\ \/ containers' = containers \cup {Mine(p)}
        /\ step' = [step EXCEPT ![p] = "address"] /\ UNCHANGED lock
     \/ containers' \in {containers, containers \cup {Mine(p)}} /\ Leave(p, "raised")
  /\ UNCHANGED <<nvidia, kind, ctl, catalog, want, made, refused>>

\* The loop that waits for the IP address, and the second handle.  An APIError
\* of a plain container removes it, unless that fails as well.
ReadAddress(p) ==
  /\ step[p] = "address"
  /\ \/ /\ catalog' = [catalog EXCEPT ![Home(p)][want[p]].address = TRUE]
        /\ step' = [step EXCEPT ![p] = "return"]
        /\ UNCHANGED <<lock, containers>>
     \/ /\ containers' \in {containers} \cup
             (IF want[p] \in nvidia THEN {} ELSE {containers \ {Mine(p)}})
        /\ Leave(p, "raised")
        /\ UNCHANGED catalog
  /\ UNCHANGED <<nvidia, kind, ctl, want, made, refused>>

\* The handle is returned, with or without an address.
Return(p) ==
  /\ step[p] = "return"
  /\ Leave(p, "out")
  /\ UNCHANGED <<nvidia, kind, ctl, catalog, want, made, containers, refused>>

\* An exception, that of a signal too, reaches the control thread wherever it
\* is: on its way out it releases the lock of an ensure_resource().
Interrupt ==
  /\ ctl' = "cleaning"
  /\ lock' = IF step[Ctl] \in Inside THEN [lock EXCEPT ![Home(Ctl)] = Free] ELSE lock
  /\ MayRun(Ctl)

\* A ResourceCreationError in a worker: it signals the control process and
\* ends.  In a reexecution: it ends the dispatch loop of the control process.
\* A process that is shutting down ignores the signal.
Raised(p) ==
  /\ step[p] = "raised"
  /\ IF ctl \in {"serving", "running"}
     THEN /\ Interrupt
          /\ step' = [step EXCEPT ![p] = "dead", ![Ctl] = "out"]
     ELSE /\ step' = [step EXCEPT ![p] = IF p = Ctl THEN "out" ELSE "dead"]
          /\ UNCHANGED <<ctl, lock, containers>>
  /\ UNCHANGED <<nvidia, kind, catalog, want, made, refused>>

\* A worker is killed (out of memory, an administrator): a lock it holds stays
\* held.
Killed(p) ==
  /\ p \in Worker /\ Up(p)
  /\ step' = [step EXCEPT ![p] = "dead"]
  /\ MayRun(p)
  /\ UNCHANGED <<nvidia, kind, ctl, lock, catalog, want, made, refused>>

-----------------------------------------------------------------------------
(***************************************************************************)
(* The control process                                                     *)
(***************************************************************************)

\* reexecute_filters(): makes a context of its own if there is none, and runs
\* the filter stack in the control process, which may ask for resources.
Reexecute(s) ==
  /\ ctl \in {"serving", "running"} /\ step[Ctl] = "out"
  /\ kind' = IF kind = "none" THEN "plain" ELSE kind
  /\ step' = [step EXCEPT ![Ctl] = "lock"]
  /\ want' = [want EXCEPT ![Ctl] = s]
  /\ UNCHANGED <<nvidia, ctl, lock, catalog, made, containers, refused>>

\* start(): a shared context unless there is a context, and fork() copies the
\* memory of the control process into every worker.
Start ==
  /\ ctl = "serving" /\ step[Ctl] = "out"
  /\ kind' = IF kind = "none" THEN "shared" ELSE kind
  /\ ctl' = "running"
  /\ step' = [p \in Proc |-> "out"]
  /\ catalog' = [p \in Proc |-> catalog[Ctl]]
  /\ UNCHANGED <<nvidia, lock, want, made, containers, refused>>

\* The connection ends or a signal arrives.
BeginShutdown ==
  /\ ctl \in {"serving", "running"}
  /\ Interrupt
  /\ step' = [step EXCEPT ![Ctl] = "out"]
  /\ UNCHANGED <<nvidia, kind, catalog, want, made, refused>>

\* shutdown() without a context: AttributeError, and the process exits.
NoContext ==
  /\ ctl = "cleaning" /\ kind = "none"
  /\ ctl' = "failed"
  /\ UNCHANGED <<nvidia, kind, lock, catalog, step, want, made, containers, refused>>

\* cleanup() takes the lock.
CleanupLock ==
  /\ ctl = "cleaning" /\ kind # "none" /\ lock[Ctl] = Free
  /\ lock' = [lock EXCEPT ![Ctl] = Ctl]
  /\ ctl' = "removing"
  /\ UNCHANGED <<nvidia, kind, catalog, step, want, made, containers, refused>>

Named == {catalog[Ctl][s].name : s \in {s \in Sig : catalog[Ctl][s] # NoHandle(s)}}

\* The loop over the catalog and its clear().  A container that is gone, or
\* that docker will not remove, is skipped with a warning.
RemoveAll ==
  /\ ctl = "removing"
  /\ \E stuck \in SUBSET (Named \cap containers) :
       containers' = (containers \ Named) \cup stuck /\ refused' = stuck
  /\ catalog' = [catalog EXCEPT ![Ctl] = NoCatalog]
  /\ lock' = [lock EXCEPT ![Ctl] = Free]
  /\ ctl' = "terminating"
  /\ UNCHANGED <<nvidia, kind, step, want, made>>

\* docker cannot even be asked for a container: the warning of that branch
\* names a variable that was never bound.  The exception ends the loop before
\* clear(), and shutdown() before it has terminated any worker.
RemoveFails ==
  /\ ctl = "removing"
  /\ \E failing \in Named : \E gone \in SUBSET (Named \ {failing}) :
       containers' = containers \ gone
  /\ lock' = [lock EXCEPT ![Ctl] = Free]
  /\ ctl' = "failed"
  /\ UNCHANGED <<nvidia, kind, catalog, step, want, made, refused>>

\* shutdown() terminates a worker: SIGTERM raises _Signalled in it, which
\* leaves the with statement, and a request docker was working on may have been
\* carried out.
Terminate(w) ==
  /\ ctl = "terminating" /\ Up(w)
  /\ IF step[w] \in Inside
     THEN Leave(w, "dead")
     ELSE step' = [step EXCEPT ![w] = "dead"] /\ UNCHANGED lock
  /\ MayRun(w)
  /\ UNCHANGED <<nvidia, kind, ctl, catalog, want, made, refused>>

Exit ==
  /\ ctl = "terminating" /\ \A w \in Worker : ~Up(w)
  /\ ctl' = "exited"
  /\ UNCHANGED <<nvidia, kind, lock, catalog, step, want, made, containers, refused>>

Ensuring(p) ==
  \/ Acquire(p) \/ RecordName(p) \/ Pull(p) \/ RunContainer(p) \/ RunNvidia(p)
  \/ ReadAddress(p) \/ Return(p)

Control ==
  \/ \E s \in Sig : Reexecute(s)
  \/ Start \/ BeginShutdown \/ Raised(Ctl) \/ Ensuring(Ctl)

ShutdownSteps == NoContext \/ CleanupLock \/ RemoveAll \/ RemoveFails \/ Exit

-----------------------------------------------------------------------------
(***************************************************************************)
(* Properties                                                              *)
(***************************************************************************)

ContextTypeOK ==
  /\ nvidia \subseteq Sig
  /\ kind \in {"none", "plain", "shared"}
  /\ ctl \in {"serving", "running", "cleaning", "removing", "terminating",
              "failed", "exited"}
  /\ lock \in [Proc -> Proc \cup {Free}]
  /\ catalog \in [Proc -> [Sig -> [name : Name, address : BOOLEAN]]]
  /\ step \in [Proc -> {"out", "lock", "raised", "dead"} \cup Inside]
  /\ want \in [Proc -> Sig]
  /\ made \in Nat /\ containers \subseteq Name /\ refused \subseteq Name

\* Until cleanup() is through, every container that exists is named in the one
\* catalog of a shared context, whatever failed and whoever was killed between
\* the steps of create(): cleanup() can find it.
Catalogued ==
  kind = "shared" /\ ctl \notin {"terminating", "failed", "exited"}
    => containers \subseteq Named

\* "When a ResourceContext is cleaned up, all resources therein must be cleaned
\* up properly": when shutdown() is through, no container is left but those
\* docker refused to remove.
CleanedUp == ctl = "exited" => containers \subseteq refused
=============================================================================
