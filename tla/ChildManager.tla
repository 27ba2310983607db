---------------------------- MODULE ChildManager ----------------------------
(***************************************************************************)
(* The supervisor's table of search processes (server/child.py, and the    *)
(* signal handling of DiamondServer.run in server/server.py).  The SIGCHLD *)
(* handler and the handler of SIGTERM and SIGINT, which raises, run in the *)
(* main thread between any two of its steps, and a SIGCHLD handler may     *)
(* interrupt another one.                                                  *)
(*                                                                         *)
(* The configuration names a cgroup directory or, by default, none.  Only  *)
(* with one does cleaning up after a search process kill what is left of   *)
(* it and of its filters, and only once it has entered its cgroup, which   *)
(* it does itself after fork().  Process ids are not reused.               *)
(***************************************************************************)
EXTENDS Integers, Sequences, FiniteSets

CONSTANTS
  Child,      \* the search processes, one for each connection pair
  NoChild,    \* none of them
  MaxSignals, \* bound: SIGTERM or SIGINT sent to the supervisor
  MaxNest     \* bound: SIGCHLD handlers that run inside each other

ASSUME ManagerAssumption ==
  NoChild \notin Child /\ MaxSignals \in Nat /\ MaxNest \in Nat

VARIABLES
  cgroups,   \* config.cgroupdir is not None
  sup,       \* where the main thread is
  current,   \* the child it is working on
  frames,    \* the SIGCHLD handlers that run, the innermost one last
  chld,      \* a SIGCHLD is pending
  children,  \* ChildManager._children
  proc,      \* state of each search process
  cgroup,    \* its cgroup: no directory, not entered by the process, or entered
  filters,   \* search processes with descendants that still run
  tempdir,   \* search processes whose temporary directory exists
  signals    \* signals sent so far

mainVars    == <<sup, current>>
groupVars   == <<cgroups, cgroup>>
tableVars   == <<children, proc, groupVars, filters, tempdir>>
managerVars == <<mainVars, frames, chld, tableVars, signals>>

ManagerInit ==
  /\ cgroups \in BOOLEAN
  /\ sup = "accept" /\ current = NoChild
  /\ frames = <<>> /\ chld = FALSE
  /\ children = {} /\ filters = {} /\ tempdir = {}
  /\ proc = [k \in Child |-> "unborn"]
  /\ cgroup = [k \in Child |-> "none"]
  /\ signals = 0

\* The main thread runs only while no signal handler does.
Main(s) == sup = s /\ frames = <<>>

\* The innermost handler, the child it works on, and what it does next.
Handler(s) == frames # <<>> /\ frames[Len(frames)].at = s
Target == frames[Len(frames)].child
HandlerNext(s, k) ==
  frames' = [frames EXCEPT ![Len(frames)] = [at |-> s, child |-> k]]

-----------------------------------------------------------------------------
(***************************************************************************)
(* ChildManager.start()                                                    *)
(***************************************************************************)

\* _SearchChild(): mkdtemp(), and another one for the cgroup.
MakeTempdir(k) ==
  /\ Main("accept") /\ proc[k] = "unborn" /\ k \notin tempdir
  /\ tempdir' = tempdir \cup {k}
  /\ cgroup' = [cgroup EXCEPT ![k] = IF cgroups THEN "empty" ELSE "none"]
  /\ sup' = "made" /\ current' = k
  /\ UNCHANGED <<frames, chld, children, proc, cgroups, filters, signals>>

\* child.start(): fork().
Fork ==
  /\ Main("made")
  /\ proc' = [proc EXCEPT ![current] = "running"]
  /\ sup' = "forked"
  /\ UNCHANGED <<current, frames, chld, children, groupVars, filters, tempdir,
                 signals>>

\* self._children[pid] = child
Register ==
  /\ Main("forked")
  /\ children' = children \cup {current}
  /\ sup' = "accept" /\ current' = NoChild
  /\ UNCHANGED <<frames, chld, proc, groupVars, filters, tempdir, signals>>

-----------------------------------------------------------------------------
(***************************************************************************)
(* The search processes.                                                   *)
(***************************************************************************)

\* child.start(), in the child: it writes its pid to the tasks file.  If the
\* cgroup has been removed, open() raises and the child exits (ChildExit).
EnterCgroup(k) ==
  /\ proc[k] = "running" /\ cgroup[k] = "empty"
  /\ cgroup' = [cgroup EXCEPT ![k] = "entered"]
  /\ UNCHANGED <<mainVars, frames, chld, children, proc, cgroups, filters,
                 tempdir, signals>>

\* A search process starts filters, which are in its cgroup ...
StartFilters(k) ==
  /\ proc[k] = "running" /\ k \notin filters
  /\ cgroups => cgroup[k] = "entered"
  /\ filters' = filters \cup {k}
  /\ UNCHANGED <<mainVars, frames, chld, children, proc, groupVars, tempdir,
                 signals>>

\* ... and exits, with or without leaving them behind.
ChildExit(k) ==
  /\ proc[k] = "running"
  /\ proc' = [proc EXCEPT ![k] = "zombie"]
  /\ chld' = TRUE
  /\ \/ filters' = filters \ {k}
     \/ UNCHANGED filters
  /\ UNCHANGED <<mainVars, frames, children, groupVars, tempdir, signals>>

-----------------------------------------------------------------------------
(***************************************************************************)
(* _child_exited(), the SIGCHLD handler.                                   *)
(***************************************************************************)

ChildSignal ==
  /\ sup # "dead" /\ chld /\ Len(frames) < MaxNest
  /\ chld' = FALSE
  /\ frames' = Append(frames, [at |-> "wait", child |-> NoChild])
  /\ UNCHANGED <<mainVars, tableVars, signals>>

\* Mutant: a process that has not exited is taken for one that has.
ReapAny(k) ==
  /\ Handler("wait") /\ proc[k] \in {"running", "zombie"}
  /\ proc' = IF proc[k] = "zombie" THEN [proc EXCEPT ![k] = "reaped"] ELSE proc
  /\ HandlerNext("pop", k)
  /\ UNCHANGED <<mainVars, chld, children, groupVars, filters, tempdir, signals>>

\* waitpid(-1, WNOHANG)
Reap(k) ==
  /\ Handler("wait") /\ proc[k] = "zombie"
  /\ proc' = [proc EXCEPT ![k] = "reaped"]
  /\ HandlerNext("pop", k)
  /\ UNCHANGED <<mainVars, chld, children, groupVars, filters, tempdir, signals>>

\* ... finds no more.
HandlerDone ==
  /\ Handler("wait") /\ \A k \in Child : proc[k] # "zombie"
  /\ frames' = SubSeq(frames, 1, Len(frames) - 1)
  /\ UNCHANGED <<mainVars, chld, tableVars, signals>>

\* Mutant: the child is taken from the table and not cleaned up.
HandlerPopOnly ==
  /\ Handler("pop")
  /\ HandlerNext("wait", NoChild)
  /\ children' = children \ {Target}
  /\ UNCHANGED <<mainVars, chld, proc, groupVars, filters, tempdir, signals>>

\* _cleanup_child(): self._children.pop(pid); a KeyError is passed over.
HandlerPop ==
  /\ Handler("pop")
  /\ IF Target \in children THEN HandlerNext("kill", Target)
                             ELSE HandlerNext("wait", NoChild)
  /\ children' = children \ {Target}
  /\ UNCHANGED <<mainVars, chld, proc, groupVars, filters, tempdir, signals>>

\* Mutant: only the search process itself is killed.
KillTasksOnlyChild(k) ==
  /\ UNCHANGED filters
  /\ IF cgroup[k] = "entered" /\ proc[k] = "running"
       THEN proc' = [proc EXCEPT ![k] = "zombie"] /\ chld' = TRUE
       ELSE UNCHANGED <<proc, chld>>

\* _SearchChild.cleanup(): kills what is in the tasks file.  Without a cgroup,
\* or before the process has entered it, that is nothing.
KillTasks(k) ==
  IF cgroup[k] = "entered"
    THEN /\ filters' = filters \ {k}
         /\ IF proc[k] = "running"
              THEN proc' = [proc EXCEPT ![k] = "zombie"] /\ chld' = TRUE
              ELSE UNCHANGED <<proc, chld>>
    ELSE UNCHANGED <<filters, proc, chld>>

\* _SearchChild.cleanup(): rmdir() of the cgroup, which fails if a process is
\* in it and may fail if none is, and rmtree() of the temporary directory.
RemoveDirectories(k) ==
  /\ tempdir' = tempdir \ {k}
  /\ \/ UNCHANGED cgroup
     \/ /\ cgroup[k] = "entered" => proc[k] # "running" /\ k \notin filters
        /\ cgroup' = [cgroup EXCEPT ![k] = "none"]

HandlerKill ==
  /\ Handler("kill")
  /\ KillTasks(Target)
  /\ HandlerNext("remove", Target)
  /\ UNCHANGED <<mainVars, children, groupVars, tempdir, signals>>

HandlerRemove ==
  /\ Handler("remove")
  /\ RemoveDirectories(Target)
  /\ HandlerNext("wait", NoChild)
  /\ UNCHANGED <<mainVars, chld, children, proc, cgroups, filters, signals>>

-----------------------------------------------------------------------------
(***************************************************************************)
(* The supervisor's end.                                                   *)
(***************************************************************************)

\* _handle_signal() raises _Signalled in whatever the main thread is doing, all
\* SIGCHLD handlers included.  run() catches it once; in kill_all() nobody does.
Signal ==
  /\ sup # "dead" /\ signals < MaxSignals
  /\ signals' = signals + 1
  /\ frames' = <<>>
  /\ sup' = IF sup \in {"accept", "made", "forked"} THEN "exiting" ELSE "dead"
  /\ current' = NoChild
  /\ UNCHANGED <<chld, tableVars>>

\* Mutant: kill_all() stops at the first child that is gone.
KillNextStops(k) ==
  /\ Main("exiting") /\ k \in children
  /\ children' = IF proc[k] = "running" THEN children \ {k} ELSE {}
  /\ sup' = "killing" /\ current' = k
  /\ UNCHANGED <<frames, chld, proc, groupVars, filters, tempdir, signals>>

\* kill_all(): pop the next child ...
KillNext(k) ==
  /\ Main("exiting") /\ k \in children
  /\ children' = children \ {k}
  /\ sup' = "killing" /\ current' = k
  /\ UNCHANGED <<frames, chld, proc, groupVars, filters, tempdir, signals>>

\* ... and clean up after it.
KillAllKill ==
  /\ Main("killing")
  /\ KillTasks(current)
  /\ sup' = "removing"
  /\ UNCHANGED <<current, frames, children, groupVars, tempdir, signals>>

KillAllRemove ==
  /\ Main("removing")
  /\ RemoveDirectories(current)
  /\ sup' = "exiting" /\ current' = NoChild
  /\ UNCHANGED <<frames, chld, children, proc, cgroups, filters, signals>>

\* run(): the supervisor dies of the signal it caught.
Die ==
  /\ Main("exiting") /\ children = {}
  /\ sup' = "dead"
  /\ UNCHANGED <<current, frames, chld, tableVars, signals>>

-----------------------------------------------------------------------------
SupervisorStep ==
  \/ Fork \/ Register
  \/ ChildSignal \/ HandlerDone \/ HandlerPop \/ HandlerKill \/ HandlerRemove
  \/ KillAllKill \/ KillAllRemove \/ Die
  \/ \E k \in Child : Reap(k) \/ KillNext(k)

ManagerNext ==
  \/ SupervisorStep \/ Signal
  \/ \E k \in Child :
       MakeTempdir(k) \/ EnterCgroup(k) \/ StartFilters(k) \/ ChildExit(k)

ManagerSpec == ManagerInit /\ [][ManagerNext]_managerVars

\* The supervisor runs.  Nothing is assumed of clients, search processes or
\* signals.
ManagerFairSpec == ManagerSpec /\ WF_managerVars(SupervisorStep)

-----------------------------------------------------------------------------
ManagerTypeOK ==
  /\ cgroups \in BOOLEAN
  /\ sup \in {"accept", "made", "forked", "exiting", "killing", "removing", "dead"}
  /\ frames \in Seq([at : {"wait", "pop", "kill", "remove"},
                     child : Child \cup {NoChild}])
  /\ current \in Child \cup {NoChild}
  /\ chld \in BOOLEAN
  /\ children \subseteq Child /\ filters \subseteq Child /\ tempdir \subseteq Child
  /\ proc \in [Child -> {"unborn", "running", "zombie", "reaped"}]
  /\ cgroup \in [Child -> {"none", "empty", "entered"}]
  /\ signals \in 0..MaxSignals

\* No search process loses its temporary directory while it runs, unless the
\* supervisor is going down: the handler, nested or not, cleans up after the
\* process that exited, not after another one.
RunningUndisturbed ==
  [][\A k \in tempdir :
       proc[k] = "running" /\ sup \in {"accept", "made", "forked"} =>
         k \in tempdir']_managerVars

\* Until a signal interrupts it, the supervisor knows of every directory it has
\* made: it is in the table, or the main thread or one of the handlers that
\* interrupt each other is at work on it.
DirectoriesKnown ==
  signals = 0 =>
    tempdir \subseteq children \cup {current}
                       \cup {frames[i].child : i \in DOMAIN frames}

\* A registered search process that has exited is cleaned up after, whatever
\* the main thread is doing and however its handlers nest, unless a signal takes
\* the supervisor away: its directory goes, and with cgroups so do the filters
\* it left behind.  (Without cgroups nothing is killed.)
ExitedCleaned ==
  \A k \in Child :
    (k \in children /\ proc[k] = "zombie") ~>
      \/ k \notin tempdir /\ (cgroups => k \notin filters)
      \/ signals > 0

\* A supervisor that goes down on one signal deletes the directory of every
\* search process in its table, though the SIGCHLDs of those it kills interrupt
\* kill_all(), and leaves neither process nor filters of one that has entered
\* its cgroup.  (It kills none without cgroups, or before it has entered.)
ExitKillsRegistered ==
  \A k \in Child :
    /\ (sup = "exiting" /\ k \in children) ~> (k \notin tempdir \/ signals > 1)
    /\ (sup = "exiting" /\ k \in children /\ cgroup[k] = "entered") ~>
         \/ proc[k] # "running" /\ k \notin filters
         \/ signals > 1
=============================================================================
