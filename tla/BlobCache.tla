----------------------------- MODULE BlobCache -----------------------------
(***************************************************************************)
(* The blob cache that all search processes of a diamondd share with the   *)
(* garbage collector in its supervisor (blobcache.py; used from            *)
(* server/search.py, server/filter.py and server/server.py).  There is no  *)
(* lock: every step below is one system call.                              *)
(*                                                                         *)
(* One blob is modelled; blobs do not interact.  A file is represented by  *)
(* its mtime.  The contents never differ (a blob is named by its hash).    *)
(***************************************************************************)
EXTENDS Integers

CONSTANTS
  Proc,           \* search processes
  Absent,         \* no such file
  Lifetime,       \* blob_cache_days, in ticks
  PruneInterval,  \* _prune_blob_cache(): no more than once an hour
  MaxOp,          \* bound: ticks that pass during one operation or prune
  MaxTime,        \* bound: the last clock value
  MaxAborts       \* bound: processes killed in the middle of an operation

ASSUME ConstantsAssumption ==
  /\ Lifetime \in Nat /\ PruneInterval \in Nat
  /\ MaxOp \in Nat /\ MaxTime \in Nat /\ MaxAborts \in Nat
  /\ 2 * MaxOp < PruneInterval /\ PruneInterval <= Lifetime
  /\ 4 * MaxOp <= Lifetime
  /\ Absent \notin Int

VARIABLES
  clock,    \* wall-clock time
  live,     \* mtime of the file named sig, or Absent
  gc,       \* mtime of the file named sig-, or Absent
  pc,       \* where each search process is
  op,       \* the operation a process has called _access() from
  began,    \* when that operation began, now if there is none
  since,    \* when the process last had the cache confirm the blob, or Absent
  phase,    \* where prune() is
  pruneAt,  \* DiamondServer._last_cache_prune
  expires,  \* prune()'s local variable
  aborts    \* processes killed so far

procVars  == <<pc, op, began, since>>
pruneVars == <<phase, pruneAt, expires>>
vars == <<clock, live, gc, procVars, pruneVars, aborts>>

\* The mtime of a file left by a search long ago.
Old == -(Lifetime + 1)

Op == {"contains", "bind"}
Idle == {"new", "ready", "KeyError", "IOError"}

Init ==
  /\ clock = 0
  /\ live \in {Absent, Old} /\ gc \in {Absent, Old}
  /\ live = Absent \/ gc = Absent
  /\ pc = [p \in Proc |-> "new"]
  /\ op = [p \in Proc |-> "contains"]
  /\ began = [p \in Proc |-> 0]
  /\ since = [p \in Proc |-> Absent]
  /\ phase = "idle" /\ pruneAt = -PruneInterval /\ expires = Old
  /\ aborts = 0

-----------------------------------------------------------------------------
(***************************************************************************)
(* The search processes.  setup() tests for the blob; the client sends a   *)
(* missing one with send_blobs(); the filters that start() binds then read *)
(* the blob or link it to an executable.                                   *)
(***************************************************************************)

\* A call of __contains__() from setup(), or of __getitem__() or
\* executable_path() from a filter that is bound while the search runs.
Begin(p) ==
  /\ \/ pc[p] = "new" /\ op' = [op EXCEPT ![p] = "contains"]
     \/ pc[p] = "ready" /\ op' = [op EXCEPT ![p] = "bind"]
  /\ pc' = [pc EXCEPT ![p] = "utime"]
  /\ began' = [began EXCEPT ![p] = clock]
  /\ UNCHANGED <<clock, live, gc, since, pruneVars, aborts>>

\* Where a successful _access() leads: __getitem__() opens the file, and
\* executable_path() links it.
Accessed(o) == IF o = "contains" THEN {"ready"} ELSE {"open", "link"}

\* _access(): os.utime(path).
Utime(p) ==
  /\ pc[p] = "utime"
  /\ IF live # Absent
       THEN /\ live' = clock
            /\ since' = [since EXCEPT ![p] = clock]
            /\ \E c \in Accessed(op[p]) : pc' = [pc EXCEPT ![p] = c]
       ELSE /\ pc' = [pc EXCEPT ![p] = "utime_rescue"]
            /\ UNCHANGED <<live, since>>
  /\ UNCHANGED <<clock, gc, op, began, pruneVars, aborts>>

\* What comes after the rescue from each operation that failed.
Retry == [utime_rescue |-> "utime_retry", open_rescue |-> "open_retry",
          link_rescue |-> "link_retry"]

\* _try_with_rescue(): os.rename(path-, path), which replaces a file that is
\* already there; its failure is ignored.
Rescue(p) ==
  /\ pc[p] \in DOMAIN Retry
  /\ IF gc # Absent THEN live' = gc /\ gc' = Absent ELSE UNCHANGED <<live, gc>>
  /\ pc' = [pc EXCEPT ![p] = Retry[pc[p]]]
  /\ UNCHANGED <<clock, op, began, since, pruneVars, aborts>>

\* _access(): the second os.utime(path).  Its failure is a KeyError, which
\* __contains__() reports to the client as a missing blob.
UtimeRetry(p) ==
  /\ pc[p] = "utime_retry"
  /\ IF live # Absent
       THEN /\ live' = clock
            /\ since' = [since EXCEPT ![p] = clock]
            /\ \E c \in Accessed(op[p]) : pc' = [pc EXCEPT ![p] = c]
       ELSE /\ pc' = [pc EXCEPT ![p] = IF op[p] = "contains" THEN "missing"
                                                             ELSE "KeyError"]
            /\ UNCHANGED <<live, since>>
  /\ UNCHANGED <<clock, gc, op, began, pruneVars, aborts>>

\* Mutant: __getitem__() does not rescue.
OpenOnce(p) ==
  /\ pc[p] \in {"open", "open_retry"}
  /\ pc' = [pc EXCEPT ![p] = IF live # Absent THEN "ready" ELSE "IOError"]
  /\ UNCHANGED <<clock, live, gc, op, began, since, pruneVars, aborts>>

\* __getitem__(): open(path), and once more after a rescue.
Open(p) ==
  /\ pc[p] \in {"open", "open_retry"}
  /\ pc' = [pc EXCEPT ![p] = IF live # Absent THEN "ready"
                             ELSE IF pc[p] = "open" THEN "open_rescue"
                             ELSE "IOError"]
  /\ UNCHANGED <<clock, live, gc, op, began, since, pruneVars, aborts>>

\* executable_path(): make_dest() tries os.link(path, ...), then
\* shutil.copyfile(path, ...), and both once more after a rescue.
MakeDest(p) ==
  /\ pc[p] \in {"link", "copy", "link_retry", "copy_retry"}
  /\ pc' = [pc EXCEPT ![p] = IF live # Absent THEN "ready"
                             ELSE IF pc[p] = "link" THEN "copy"
                             ELSE IF pc[p] = "copy" THEN "link_rescue"
                             ELSE IF pc[p] = "link_retry" THEN "copy_retry"
                             ELSE "IOError"]
  /\ UNCHANGED <<clock, live, gc, op, began, since, pruneVars, aborts>>

\* send_blobs() and add(): write a temporary file ...
WriteTemp(p) ==
  /\ pc[p] = "missing"
  /\ began' = [began EXCEPT ![p] = clock]
  /\ pc' = [pc EXCEPT ![p] = "add"]
  /\ UNCHANGED <<clock, live, gc, op, since, pruneVars, aborts>>

\* ... and os.link() it to path; a file that is already there stays as it is,
\* with its mtime.
Add(p) ==
  /\ pc[p] = "add"
  /\ live' = IF live = Absent THEN began[p] ELSE live
  /\ since' = [since EXCEPT ![p] = began[p]]
  /\ pc' = [pc EXCEPT ![p] = "ready"]
  /\ UNCHANGED <<clock, gc, op, began, pruneVars, aborts>>

\* The search is over; the process slot stands for the next search.
EndSearch(p) ==
  /\ pc[p] \in Idle \ {"new"}
  /\ pc' = [pc EXCEPT ![p] = "new"]
  /\ UNCHANGED <<clock, live, gc, op, began, since, pruneVars, aborts>>

\* A search process is killed between two system calls.
Abort(p) ==
  /\ pc[p] \notin Idle /\ aborts < MaxAborts
  /\ pc' = [pc EXCEPT ![p] = "new"]
  /\ aborts' = aborts + 1
  /\ UNCHANGED <<clock, live, gc, op, began, since, pruneVars>>

-----------------------------------------------------------------------------
(***************************************************************************)
(* The supervisor: prune().                                                *)
(***************************************************************************)

\* _prune_blob_cache(), and the first line of prune().
PruneStart ==
  /\ phase = "idle" /\ clock - pruneAt >= PruneInterval
  /\ pruneAt' = clock
  /\ expires' = clock - Lifetime
  /\ phase' = "list"
  /\ UNCHANGED <<clock, live, gc, procVars, aborts>>

\* First pass: listdir(), stat() and rename(), each of which may find that the
\* file has gone.
List ==
  /\ phase = "list"
  /\ phase' = IF live # Absent THEN "stat" ELSE "list_gc"
  /\ UNCHANGED <<clock, live, gc, pruneAt, expires, procVars, aborts>>

Expired(mtime) == mtime # Absent /\ mtime < expires

Stat ==
  /\ phase = "stat"
  /\ phase' = IF Expired(live) THEN "rename" ELSE "list_gc"
  /\ UNCHANGED <<clock, live, gc, pruneAt, expires, procVars, aborts>>

Rename ==
  /\ phase = "rename"
  /\ IF live # Absent THEN gc' = live /\ live' = Absent ELSE UNCHANGED <<live, gc>>
  /\ phase' = "list_gc"
  /\ UNCHANGED <<clock, pruneAt, expires, procVars, aborts>>

\* Second pass.
ListGC ==
  /\ phase = "list_gc"
  /\ phase' = IF gc # Absent THEN "stat_gc" ELSE "idle"
  /\ UNCHANGED <<clock, live, gc, pruneAt, expires, procVars, aborts>>

\* Mutant: the second pass trusts the first.
StatGCSkipped ==
  /\ phase = "stat_gc"
  /\ phase' = "unlink"
  /\ UNCHANGED <<clock, live, gc, pruneAt, expires, procVars, aborts>>

StatGC ==
  /\ phase = "stat_gc"
  /\ phase' = IF Expired(gc) THEN "unlink" ELSE "idle"
  /\ UNCHANGED <<clock, live, gc, pruneAt, expires, procVars, aborts>>

Unlink ==
  /\ phase = "unlink"
  /\ gc' = Absent
  /\ phase' = "idle"
  /\ UNCHANGED <<clock, live, pruneAt, expires, procVars, aborts>>

\* The supervisor exits on a signal, kill_all() takes the search processes with
\* it, and a new supervisor starts; its _last_cache_prune is the epoch.
Restart ==
  /\ aborts < MaxAborts
  /\ phase' = "idle"
  /\ pruneAt' = clock - PruneInterval
  /\ pc' = [p \in Proc |-> "new"]
  /\ aborts' = aborts + 1
  /\ UNCHANGED <<clock, live, gc, op, began, since, expires>>

-----------------------------------------------------------------------------
\* Time passes, but never more than MaxOp ticks inside an operation.
Tick ==
  /\ clock < MaxTime
  /\ \A p \in Proc : pc[p] \in Idle \/ clock - began[p] < MaxOp
  /\ phase = "idle" \/ clock - pruneAt < MaxOp
  /\ clock' = clock + 1
  /\ began' = [p \in Proc |-> IF pc[p] \in Idle THEN clock + 1 ELSE began[p]]
  /\ UNCHANGED <<live, gc, pc, op, since, pruneVars, aborts>>

ProcStep(p) ==
  \/ Begin(p) \/ Utime(p) \/ Rescue(p) \/ UtimeRetry(p) \/ Open(p)
  \/ MakeDest(p) \/ WriteTemp(p) \/ Add(p) \/ EndSearch(p) \/ Abort(p)

PruneStep ==
  PruneStart \/ List \/ Stat \/ Rename \/ ListGC \/ StatGC \/ Unlink \/ Restart

Next == (\E p \in Proc : ProcStep(p)) \/ PruneStep \/ Tick

Spec == Init /\ [][Next]_vars

-----------------------------------------------------------------------------
MTime == {Absent} \cup (Old..MaxTime)

TypeOK ==
  /\ clock \in 0..MaxTime
  /\ live \in MTime /\ gc \in MTime
  /\ pc \in [Proc -> Idle \cup DOMAIN Retry \cup
               {"utime", "utime_retry", "open", "open_retry", "link", "copy",
                "link_retry", "copy_retry", "missing", "add"}]
  /\ op \in [Proc -> Op]
  /\ began \in [Proc -> 0..MaxTime]
  /\ since \in [Proc -> {Absent} \cup (0..MaxTime)]
  /\ phase \in {"idle", "list", "stat", "rename", "list_gc", "stat_gc", "unlink"}
  /\ pruneAt \in -PruneInterval..MaxTime /\ expires \in Old..MaxTime
  /\ aborts \in 0..MaxAborts

\* How long a blob is kept after its last use.  add() may find the file of
\* another add() that ran during the same setup() and send_blobs(), and leaves
\* it its older mtime.
Kept == Lifetime - 2 * MaxOp

\* A blob that some search process found in the cache, or added to it, less
\* than a lifetime ago has not been collected: it is under one of its names,
\* whatever the interleaving of utime(), the rescuing rename(), link() and the
\* two passes of prune().  (Not so once a process has been killed: a rescuer that
\* dies between rename() and utime() can leave an expired file in place of one
\* just added.)
RecentlyUsedKept ==
  aborts = 0 => \A p \in Proc : since[p] # Absent /\ clock - since[p] <= Kept =>
    live # Absent \/ gc # Absent

\* BlobCache: "The second attempt should succeed since the file's mtime is
\* current."  After a successful _access() neither __getitem__() nor
\* executable_path() fails, though prune() may move the file away under them.
AccessedBlobOpens == aborts = 0 => \A p \in Proc : pc[p] # "IOError"

\* BlobCache: "if the mtime is still expired in the second pass, we know it is
\* safe to delete".  No file whose mtime is within the lifetime is ever
\* deleted; a name may only lose such a file to the other name, or to a file
\* that replaces it.
OnlyExpiredDeleted ==
  [][gc # Absent /\ gc' = Absent /\ live' # gc => clock - gc > Lifetime]_vars
=============================================================================
