---------------------------- MODULE SessionVars ----------------------------
(***************************************************************************)
(* Session variables (server/sessionvars.py, its callers in                *)
(* server/search.py and server/filter.py): sums to which the filters of    *)
(* every server add.  A client may merge them from time to time, by a get  *)
(* from each server followed by a set on each; the code in this repository *)
(* has the servers' half of that only, so the client's rounds are taken    *)
(* from what client_get() and client_set() expect of it.                   *)
(*                                                                         *)
(* One variable is modelled; all others behave alike and do not interact.  *)
(* A search process has one SessionVariables for the control thread, where *)
(* reexecute_filters() runs filters, and the copies that fork() gives to   *)
(* its workers, where the filters of the search itself run: "control" and  *)
(* "worker".  The client's calls are served by the control thread: no      *)
(* merge takes anything from a worker's copy, or brings anything to it.    *)
(* Values are integers, of either sign.                                    *)
(***************************************************************************)
EXTENDS Integers

CONSTANTS
  Server,      \* servers of one search
  MaxDelta,    \* bound: the largest value a filter adds or takes off
  MaxUpdates   \* bound: updates by filters

ASSUME MergeAssumption ==
  MaxDelta \in Nat \ {0} /\ MaxUpdates \in Nat

Copy == Server \X {"control", "worker"}
Control(s) == <<s, "control">>
Worker(s) == <<s, "worker">>

VARIABLES
  known,        \* copies that have the variable in _vars
  global,       \* _global_val
  local,        \* _local_val
  between,      \* _between_get_and_set_val
  interlock,    \* copies with _between_get_and_set
  started,      \* servers that have started the search
  asked,        \* the client's round: what it has done with each server
  named,        \* the client has heard of the variable
  merged,       \* its total, which it sends to all servers
  took,         \* what the client has got from each server, in all
  heard,        \* what has been passed on to each copy, by a set or by fork()
  contributed,  \* what filters have added, by the copy they added it to
  updates       \* updates so far

varVars    == <<known, global, local, between>>
clientVars == <<asked, named, merged, took>>
countVars  == <<contributed, updates>>
mergeVars == <<varVars, interlock, started, clientVars, heard, countVars>>

MergeInit ==
  /\ known = {} /\ interlock = {} /\ started = {}
  /\ global = [c \in Copy |-> 0] /\ local = [c \in Copy |-> 0]
  /\ between = [c \in Copy |-> 0]
  /\ asked = [s \in Server |-> "idle"]
  /\ named = FALSE /\ merged = 0 /\ took = [s \in Server |-> 0]
  /\ heard = [c \in Copy |-> 0]
  /\ contributed = [c \in Copy |-> 0] /\ updates = 0

\* filter_get(): what a filter sees.
filter_get(c) == global[c] + local[c] + between[c]

-----------------------------------------------------------------------------
(***************************************************************************)
(* The server.                                                             *)
(***************************************************************************)

\* _SessionVariable.filter_update()
AddValue(c, d) ==
  /\ IF c \in interlock
       THEN between' = [between EXCEPT ![c] = @ + d] /\ UNCHANGED local
       ELSE local' = [local EXCEPT ![c] = @ + d] /\ UNCHANGED between
  /\ UNCHANGED global

\* SessionVariables.filter_update()
FilterUpdate(c, d) ==
  /\ known' = known \cup {c}
  /\ AddValue(c, d)
  /\ UNCHANGED interlock

\* A filter sends update-session-variables: in the control thread for
\* reexecute_filters(), in a worker once there are workers.
Update(c, d) ==
  /\ updates < MaxUpdates
  /\ c = Worker(c[1]) => c[1] \in started
  /\ FilterUpdate(c, d)
  /\ contributed' = [contributed EXCEPT ![c] = @ + d]
  /\ updates' = updates + 1
  /\ UNCHANGED <<started, clientVars, heard>>

\* start(): the workers are forked, with a copy of everything.
Inherit(f, s) == [f EXCEPT ![Worker(s)] = f[Control(s)]]

Start(s) ==
  /\ s \notin started
  /\ started' = started \cup {s}
  /\ known' = IF Control(s) \in known THEN known \cup {Worker(s)} ELSE known
  /\ global' = Inherit(global, s) /\ local' = Inherit(local, s)
  /\ between' = Inherit(between, s)
  /\ heard' = [heard EXCEPT ![Worker(s)] = filter_get(Control(s))]
  /\ UNCHANGED <<interlock, clientVars, countVars>>

\* _SessionVariable.client_get()
ClientGet(c) == local[c]

\* Mutant: the interlock is not engaged.
EngageNot(c) == UNCHANGED interlock

\* SessionVariables.client_get() engages the interlock.
Engage(c) == interlock' = interlock \cup {c}

\* Mutant: what came in between is dropped.
SetValueDrops(c) ==
  /\ global' = [global EXCEPT ![c] = merged]
  /\ local' = [local EXCEPT ![c] = 0]
  /\ between' = [between EXCEPT ![c] = 0]

\* _SessionVariable.client_set(): the variable gets the client's total, and what
\* came in between becomes local.
SetValue(c) ==
  /\ global' = [global EXCEPT ![c] = merged]
  /\ local' = [local EXCEPT ![c] = between[c]]
  /\ between' = [between EXCEPT ![c] = 0]

\* SessionVariables.client_set() releases the interlock, and sets the variable if
\* it is among the values.
ClientSet(c) ==
  /\ interlock' = interlock \ {c}
  /\ IF named
       THEN /\ known' = known \cup {c} /\ SetValue(c)
            /\ heard' = [heard EXCEPT ![c] = merged - took[c[1]]]
       ELSE UNCHANGED <<varVars, heard>>

-----------------------------------------------------------------------------
(***************************************************************************)
(* The client's calls: one round is a get from every server, in any order, *)
(* and then a set on every server.                                         *)
(***************************************************************************)

\* session_variables_get(): the variable's local part, if the server knows it.
GetValues(s) ==
  /\ s \in started /\ asked[s] = "idle"
  /\ \A t \in Server : asked[t] # "set"
  /\ Engage(Control(s))
  /\ named' = (named \/ Control(s) \in known)
  /\ merged' = merged + ClientGet(Control(s))
  /\ took' = [took EXCEPT ![s] = @ + ClientGet(Control(s))]
  /\ asked' = [asked EXCEPT ![s] = "got"]
  /\ UNCHANGED <<varVars, started, heard, countVars>>

\* session_variables_set().
SetValues(s) ==
  /\ asked[s] = "got"
  /\ \A t \in Server : asked[t] # "idle"
  /\ ClientSet(Control(s))
  /\ asked' = [asked EXCEPT ![s] = "set"]
  /\ UNCHANGED <<started, named, merged, took, countVars>>

NextRound ==
  /\ \A s \in Server : asked[s] = "set"
  /\ asked' = [s \in Server |-> "idle"]
  /\ UNCHANGED <<varVars, interlock, started, named, merged, took, heard,
                 countVars>>

-----------------------------------------------------------------------------
Client == NextRound \/ \E s \in Server : GetValues(s) \/ SetValues(s)

MergeNext ==
  \/ Client
  \/ \E s \in Server : Start(s)
  \/ \E c \in Copy, d \in -MaxDelta..MaxDelta : Update(c, d)

MergeSpec == MergeInit /\ [][MergeNext]_mergeVars

-----------------------------------------------------------------------------
MergeTypeOK ==
  /\ known \subseteq Copy /\ interlock \subseteq Copy /\ started \subseteq Server
  /\ global \in [Copy -> Int] /\ local \in [Copy -> Int]
  /\ between \in [Copy -> Int]
  /\ asked \in [Server -> {"idle", "got", "set"}] /\ named \in BOOLEAN
  /\ merged \in Int /\ took \in [Server -> Int] /\ heard \in [Copy -> Int]
  /\ contributed \in [Copy -> Int] /\ updates \in 0..MaxUpdates

\* What the client has yet to take from server s.
Pending(s) ==
  between[Control(s)] + (IF asked[s] = "got" THEN 0 ELSE local[Control(s)])

\* What filters add in a server's control process (those of reexecute_filters()),
\* before, between or after the client's get and set, the client has taken once,
\* or will take: nothing of it is lost or counted twice when updates race a
\* merge, even those to a variable that the client's set does not name because
\* it came up after the get.  (What the filters of the running search add, in
\* the workers' copies, is no part of this sum: the client never takes it.)
CountedOnce ==
  \A s \in Server : contributed[Control(s)] = took[s] + Pending(s)

\* What a filter sees of the variable is what was added to the copy it runs on,
\* each contribution once, and what was passed on to that copy: in the control
\* process what the client's last set brought from the other servers, in a
\* worker what the variable was when it was forked.  A get, a set and the updates
\* between them never hide a contribution from its own server or show it twice;
\* and a merge never reaches a worker.
SeesOwnAndHeard ==
  \A c \in Copy :
    c = Control(c[1]) \/ c[1] \in started =>
      filter_get(c) = contributed[c] + heard[c]
=============================================================================
