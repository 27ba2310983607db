-------------------------- MODULE BlobCache_proof --------------------------
(***************************************************************************)
(* Proofs about BlobCache, for every set of processes, every lifetime and  *)
(* every bound: type correctness, that prune() deletes only what is older  *)
(* than the lifetime, that it keeps what was used within it, and that a    *)
(* blob which _access() has confirmed can be opened.                       *)
(***************************************************************************)
EXTENDS BlobCache, TLAPS

\* TypeOK by the actions of the search processes and of the supervisor.
LEMMA TypeProcStep ==
  ASSUME TypeOK, NEW p \in Proc, ProcStep(p)
  PROVE  TypeOK'
<1> USE ConstantsAssumption DEF TypeOK, MTime, Old, Idle, Op, Retry, pruneVars
<1>1. CASE Begin(p)
  BY <1>1 DEF Begin
<1>2. CASE Utime(p)
  BY <1>2 DEF Utime, Accessed
<1>3. CASE Rescue(p)
  BY <1>3 DEF Rescue
<1>4. CASE UtimeRetry(p)
  BY <1>4 DEF UtimeRetry, Accessed
<1>5. CASE Open(p)
  BY <1>5 DEF Open
<1>6. CASE MakeDest(p)
  BY <1>6 DEF MakeDest
<1>7. CASE WriteTemp(p)
  BY <1>7 DEF WriteTemp
<1>8. CASE Add(p)
  BY <1>8 DEF Add
<1>9. CASE EndSearch(p)
  BY <1>9 DEF EndSearch
<1>10. CASE Abort(p)
  BY <1>10 DEF Abort
<1> QED
  BY <1>1, <1>2, <1>3, <1>4, <1>5, <1>6, <1>7, <1>8, <1>9, <1>10 DEF ProcStep

LEMMA TypePruneStep ==
  ASSUME TypeOK, PruneStep \/ Tick
  PROVE  TypeOK'
<1> USE ConstantsAssumption DEF TypeOK, MTime, Old, Idle, procVars, pruneVars
<1>1. CASE PruneStart
  BY <1>1 DEF PruneStart
<1>2. CASE List \/ Stat \/ ListGC \/ StatGC
  BY <1>2 DEF List, Stat, ListGC, StatGC
<1>3. CASE Rename \/ Unlink
  BY <1>3 DEF Rename, Unlink
<1>4. CASE Restart
  BY <1>4 DEF Restart
<1>5. CASE Tick
  BY <1>5 DEF Tick
<1> QED
  BY <1>1, <1>2, <1>3, <1>4, <1>5 DEF PruneStep

\* Type correctness: every mtime stays between that of the oldest file and the
\* clock's bound, and prune()'s expiry limit with them.
THEOREM TypeCorrect == Spec => []TypeOK
<1>1. Init => TypeOK
  BY ConstantsAssumption DEF Init, TypeOK, MTime, Old, Idle, Op, Retry
<1>2. TypeOK /\ [Next]_vars => TypeOK'
  <2> SUFFICES ASSUME TypeOK, [Next]_vars PROVE TypeOK'
    OBVIOUS
  <2>1. CASE UNCHANGED vars
    BY <2>1 DEF TypeOK, vars, procVars, pruneVars
  <2>2. CASE \E p \in Proc : ProcStep(p)
    BY <2>2, TypeProcStep
  <2>3. CASE PruneStep \/ Tick
    BY <2>3, TypePruneStep
  <2> QED
    BY <2>1, <2>2, <2>3 DEF Next
<1> QED
  BY <1>1, <1>2, PTL DEF Spec

-----------------------------------------------------------------------------
\* What prune() knows in each phase.  The expiry limit is a lifetime before
\* its start, and the file that the second stat() found expired can only be
\* renamed away by a rescue before the unlink(), never replaced or touched.
PruneKnows ==
  /\ phase # "idle" => expires <= clock - Lifetime
  /\ phase = "unlink" => gc = Absent \/ gc < expires

LEMMA PruneKnowsInductive ==
  ASSUME TypeOK, PruneKnows, [Next]_vars
  PROVE  PruneKnows'
<1> USE ConstantsAssumption DEF PruneKnows, TypeOK, MTime, Old
<1>1. CASE UNCHANGED vars
  BY <1>1 DEF vars, pruneVars
<1>2. ASSUME NEW p \in Proc, ProcStep(p) PROVE PruneKnows'
  <2>1. UNCHANGED <<phase, expires, clock>> /\ (gc' = gc \/ gc' = Absent)
    BY <1>2 DEF ProcStep, Begin, Utime, Rescue, UtimeRetry, Open, MakeDest,
                WriteTemp, Add, EndSearch, Abort, pruneVars
  <2> QED
    BY <2>1
<1>3. CASE PruneStart \/ List \/ Stat \/ Rename \/ ListGC
  BY <1>3 DEF PruneStart, List, Stat, Rename, ListGC
<1>4. CASE StatGC
  BY <1>4 DEF StatGC, Expired
<1>5. CASE Unlink \/ Restart
  BY <1>5 DEF Unlink, Restart
<1>6. CASE Tick
  BY <1>6 DEF Tick, pruneVars
<1> QED
  BY <1>1, <1>2, <1>3, <1>4, <1>5, <1>6 DEF Next, PruneStep

\* prune() deletes a file only when its mtime is older than the lifetime at
\* that very moment, whatever the search processes do between its system
\* calls, and even if processes are killed half way through an operation.
THEOREM OnlyExpiredDeletedCorrect == Spec => OnlyExpiredDeleted
<1> DEFINE Step == gc # Absent /\ gc' = Absent /\ live' # gc =>
                     clock - gc > Lifetime
<1>1. Init => PruneKnows
  BY DEF Init, PruneKnows
<1>2. TypeOK /\ PruneKnows /\ [Next]_vars => [Step]_vars
  <2> SUFFICES ASSUME TypeOK, PruneKnows, Next,
                      gc # Absent, gc' = Absent, live' # gc
               PROVE  clock - gc > Lifetime
    OBVIOUS
  <2>1. ASSUME NEW p \in Proc, ProcStep(p) PROVE FALSE
    BY <2>1 DEF ProcStep, Begin, Utime, Rescue, UtimeRetry, Open, MakeDest,
                WriteTemp, Add, EndSearch, Abort
  <2>2. CASE PruneStart \/ List \/ Stat \/ Rename \/ ListGC \/ StatGC \/ Restart
    BY <2>2 DEF PruneStart, List, Stat, Rename, ListGC, StatGC, Restart
  <2>3. CASE Unlink
    BY <2>3, ConstantsAssumption DEF Unlink, PruneKnows, TypeOK, MTime, Old
  <2>4. CASE Tick
    BY <2>4 DEF Tick
  <2> QED
    BY <2>1, <2>2, <2>3, <2>4 DEF Next, PruneStep
<1> QED
  BY <1>1, <1>2, TypeCorrect, PruneKnowsInductive, PTL
     DEF Spec, OnlyExpiredDeleted
-----------------------------------------------------------------------------
(***************************************************************************)
(* A blob that was used within the lifetime is kept, and opens.  Both need *)
(* one inductive invariant about the two names and everyone who is half    *)
(* way through an operation.  It holds until a process is killed.          *)
(***************************************************************************)
\* The longest an operation takes.
M == MaxOp

\* prune() between its first pass and its next start.
Second == {"idle", "list_gc", "stat_gc", "unlink"}

Rescuing == DOMAIN Retry
Reading == {"open", "link", "copy"}
ReadRescuing == {"open_rescue", "link_rescue"}
ReadRetrying == {"open_retry", "link_retry", "copy_retry"}

\* The first pass that x may have to fear is over: the operation of x began
\* at most MaxOp ticks after prune() did, and prune() does not start again
\* before x is done.
SecondPass(x) == phase \in Second /\ began[x] <= pruneAt + M

\* The second pass under way will delete the file under sig-.
Doomed == phase \in Second \ {"idle"} /\ gc # Absent /\ gc < expires

\* x has renamed an old file over a newer one and is about to touch it.  Until
\* then no rename() of prune() comes: the file is not old enough for the first
\* pass, or that pass is over.
Guards(x) ==
  /\ pc[x] = "utime_retry" /\ live # Absent /\ gc = Absent /\ phase # "rename"
  /\ live >= began[x] - 3 * M \/ SecondPass(x)

Guarded == \E x \in Proc : Guards(x)

\* No time stamp is ahead of the clock, and nobody's operation is older than
\* MaxOp ticks.
TimesBounded ==
  /\ \A p \in Proc : /\ began[p] <= clock
                     /\ pc[p] \notin Idle => clock - began[p] <= M
                     /\ since[p] # Absent => since[p] <= clock
  /\ pruneAt <= clock
  /\ phase # "idle" => clock - pruneAt <= M /\ expires = pruneAt - Lifetime
  /\ live # Absent => live <= clock
  /\ gc # Absent => gc <= clock

\* Between its stat() and its rename() prune() can be overtaken by a touch, not
\* by a rescue that would leave the name empty or with another old file.
FirstPassKnows ==
  /\ phase \in {"stat", "rename"} => live # Absent
  /\ phase = "rename" => /\ live < expires \/ live >= pruneAt
                         /\ gc = Absent \/ \A x \in Proc : pc[x] \notin Rescuing

\* The file under sig is hardly older than the one under sig-.
LiveNewer == live # Absent /\ gc # Absent => live >= gc - M

\* A rescuer that would replace a file replaces a new one, by a file that the
\* first pass of prune() spares until the rescuer has touched it.
RescuersReplace ==
  \A x \in Proc : pc[x] \in Rescuing =>
    \/ live = Absent \/ gc = Absent
    \/ /\ live >= began[x] - M
       /\ gc >= began[x] - 3 * M \/ Doomed

\* add() comes up to one operation after the __contains__() that sent for it.
Slack(x) == IF pc[x] = "add" THEN 2 * M ELSE M

\* A process that found no blob finds, if any, a new one.
AddersFind ==
  \A x \in Proc :
    /\ pc[x] \in {"utime_retry", "missing", "add"} =>
         gc = Absent \/ gc >= began[x] - Slack(x) \/ Doomed
    /\ pc[x] \in {"missing", "add"} =>
         live = Absent \/ live >= began[x] - Slack(x) \/ Guarded

\* A process that has had _access() confirm the blob finds it under one name,
\* and after a rescue under the first.
ReadersFind ==
  \A x \in Proc :
    /\ pc[x] \in Reading \cup ReadRescuing \cup ReadRetrying =>
         since[x] # Absent /\ since[x] >= began[x]
    /\ pc[x] \in Reading =>
         \/ live # Absent /\ live >= since[x]
         \/ gc # Absent /\ gc >= since[x] /\ SecondPass(x)
         \/ /\ live # Absent /\ gc = Absent /\ phase # "rename"
            /\ live >= began[x] - 3 * M
         \/ Guarded
    /\ pc[x] \in ReadRescuing =>
         /\ SecondPass(x)
         /\ \/ gc # Absent /\ gc >= since[x]
            \/ gc = Absent /\ live # Absent
    /\ pc[x] \in ReadRetrying => SecondPass(x) /\ live # Absent
    /\ pc[x] # "IOError"

\* What every user of the blob relies on.
UsedKept ==
  \A p \in Proc : since[p] # Absent =>
    \/ live # Absent /\ live >= since[p] - 2 * M
    \/ gc # Absent /\ gc >= since[p] - M
    \/ Guarded
    \/ clock - since[p] > Kept

Parts == /\ TimesBounded /\ FirstPassKnows /\ LiveNewer /\ RescuersReplace
         /\ AddersFind /\ ReadersFind /\ UsedKept

CacheInvariant == aborts = 0 => Parts

-----------------------------------------------------------------------------
LEMMA TimesBoundedStep ==
  ASSUME TypeOK, TimesBounded, Next
  PROVE  aborts' = 0 => TimesBounded'
<1> SUFFICES ASSUME aborts' = 0 PROVE TimesBounded'
  OBVIOUS
<1> USE ConstantsAssumption DEF TypeOK, MTime, Old, TimesBounded, M, Idle, pruneVars
<1>1. ASSUME NEW p \in Proc, ProcStep(p) PROVE TimesBounded'
  <2>1. CASE Begin(p)
    BY <2>1 DEF Begin
  <2>2. CASE Utime(p) \/ UtimeRetry(p)
    BY <2>2 DEF Utime, UtimeRetry, Accessed
  <2>3. CASE Rescue(p)
    BY <2>3 DEF Rescue, Retry
  <2>4. CASE Open(p) \/ MakeDest(p)
    BY <2>4 DEF Open, MakeDest
  <2>5. CASE WriteTemp(p) \/ Add(p) \/ EndSearch(p)
    BY <2>5 DEF WriteTemp, Add, EndSearch
  <2>6. CASE Abort(p)
    BY <2>6 DEF Abort
  <2> QED
    BY <1>1, <2>1, <2>2, <2>3, <2>4, <2>5, <2>6 DEF ProcStep
<1>2. CASE PruneStart
  BY <1>2 DEF PruneStart, procVars
<1>3. CASE List \/ Stat \/ Rename \/ ListGC \/ StatGC \/ Unlink
  BY <1>3 DEF List, Stat, Rename, ListGC, StatGC, Unlink, procVars
<1>4. CASE Restart
  BY <1>4 DEF Restart
<1>5. CASE Tick
  BY <1>5 DEF Tick
<1> QED
  BY <1>1, <1>2, <1>3, <1>4, <1>5 DEF Next, PruneStep

\* Who has replaced a new file goes on guarding it until he has touched it.
LEMMA GuardsStep ==
  ASSUME TypeOK, TimesBounded, Next, NEW x \in Proc, Guards(x)
  PROVE  aborts' = 0 => Guards(x)' \/ UtimeRetry(x)
<1> SUFFICES ASSUME aborts' = 0, ~UtimeRetry(x) PROVE Guards(x)'
  OBVIOUS
<1> USE ConstantsAssumption
    DEF TypeOK, MTime, Old, TimesBounded, Guards, SecondPass, Second, M, Idle,
        pruneVars
<1>1. ASSUME NEW p \in Proc, ProcStep(p) PROVE Guards(x)'
  <2>1. CASE Begin(p) \/ EndSearch(p) \/ WriteTemp(p) \/ Open(p) \/ MakeDest(p)
    BY <2>1 DEF Begin, EndSearch, WriteTemp, Open, MakeDest
  <2>2. CASE Utime(p) \/ UtimeRetry(p)
    BY <2>2 DEF Utime, UtimeRetry
  <2>3. CASE Rescue(p)
    BY <2>3 DEF Rescue, Retry
  <2>4. CASE Add(p)
    BY <2>4 DEF Add
  <2>5. CASE Abort(p)
    BY <2>5 DEF Abort
  <2> QED
    BY <1>1, <2>1, <2>2, <2>3, <2>4, <2>5 DEF ProcStep
<1>2. CASE PruneStart
  BY <1>2 DEF PruneStart, procVars
<1>3. CASE Stat
  BY <1>3 DEF Stat, Expired, procVars
<1>4. CASE List \/ Rename \/ ListGC \/ StatGC \/ Unlink
  BY <1>4 DEF List, Rename, ListGC, StatGC, Unlink, procVars
<1>5. CASE Restart
  BY <1>5 DEF Restart
<1>6. CASE Tick
  BY <1>6 DEF Tick
<1> QED
  BY <1>1, <1>2, <1>3, <1>4, <1>5, <1>6 DEF Next, PruneStep
\* A guarded file is guarded until it is touched.
LEMMA GuardedStep ==
  ASSUME TypeOK, TimesBounded, Next, Guarded, aborts' = 0
  PROVE  Guarded' \/ live' = clock
<1>1. PICK x \in Proc : Guards(x)
  BY DEF Guarded
<1>2. CASE UtimeRetry(x)
  BY <1>1, <1>2 DEF UtimeRetry, Guards
<1>3. CASE Guards(x)'
  BY <1>3 DEF Guarded
<1> QED
  BY <1>1, <1>2, <1>3, GuardsStep

\* The rescue before a second utime() leaves the file guarded when it replaces
\* another, and when it snatches a doomed one from the second pass.
LEMMA RescueGuards ==
  ASSUME TypeOK, TimesBounded, FirstPassKnows, RescuersReplace,
         NEW p \in Proc, Rescue(p), pc[p] = "utime_rescue",
         gc # Absent, live # Absent \/ Doomed
  PROVE  Guarded'
<1> USE ConstantsAssumption DEF TypeOK, MTime, Old
<1>1. phase # "rename"
  BY DEF FirstPassKnows, Rescuing, Retry
<1>2. gc >= began[p] - 3 * M \/ Doomed
  BY DEF RescuersReplace, Rescuing, Retry
<1>3. Doomed => SecondPass(p)
  BY DEF Doomed, SecondPass, Second, TimesBounded, M, Idle
<1>4. Guards(p)'
  BY <1>1, <1>2, <1>3 DEF Rescue, Retry, Guards, SecondPass, pruneVars, M
<1> QED
  BY <1>4 DEF Guarded

\* The rescue before a second open() brings a new file, after the first pass.
LEMMA RescueNew ==
  ASSUME TypeOK, TimesBounded, ReadersFind,
         NEW p \in Proc, Rescue(p), pc[p] # "utime_rescue", gc # Absent
  PROVE  gc >= clock - M /\ phase # "rename"
BY ConstantsAssumption
   DEF TypeOK, MTime, Old, TimesBounded, ReadersFind, Rescue, Retry, SecondPass,
       Second, ReadRescuing, Reading, ReadRetrying, M, Idle

LEMMA FirstPassKnowsStep ==
  ASSUME TypeOK, TimesBounded, FirstPassKnows, RescuersReplace, Next, aborts' = 0
  PROVE  FirstPassKnows'
<1> USE ConstantsAssumption
    DEF TypeOK, MTime, Old, TimesBounded, FirstPassKnows, Rescuing, Retry, M, Idle,
        pruneVars
<1>1. ASSUME NEW p \in Proc, ProcStep(p) PROVE FirstPassKnows'
  <2>1. CASE Begin(p) \/ EndSearch(p) \/ WriteTemp(p)
    BY <2>1 DEF Begin, EndSearch, WriteTemp
  <2>2. CASE Utime(p) \/ UtimeRetry(p)
    BY <2>2 DEF Utime, UtimeRetry, Accessed
  <2>3. CASE Rescue(p)
    BY <2>3 DEF Rescue
  <2>4. CASE Open(p) \/ MakeDest(p)
    BY <2>4 DEF Open, MakeDest
  <2>5. CASE Add(p)
    BY <2>5 DEF Add
  <2>6. CASE Abort(p)
    BY <2>6 DEF Abort
  <2> QED
    BY <1>1, <2>1, <2>2, <2>3, <2>4, <2>5, <2>6 DEF ProcStep
<1>2. CASE Stat
  <2>1. Expired(live) => gc = Absent \/ \A x \in Proc : pc[x] \notin Rescuing
    BY <1>2 DEF Stat, Expired, RescuersReplace, Doomed, Second
  <2> QED
    BY <1>2, <2>1 DEF Stat, Expired, procVars
<1>3. CASE PruneStart \/ List \/ Rename \/ ListGC \/ StatGC \/ Unlink
  BY <1>3 DEF PruneStart, List, Rename, ListGC, StatGC, Unlink, procVars
<1>4. CASE Restart
  BY <1>4 DEF Restart
<1>5. CASE Tick
  BY <1>5 DEF Tick
<1> QED
  BY <1>1, <1>2, <1>3, <1>4, <1>5 DEF Next, PruneStep

LEMMA LiveNewerStep ==
  ASSUME TypeOK, TimesBounded, LiveNewer, Next
  PROVE  LiveNewer'
<1> USE ConstantsAssumption DEF TypeOK, MTime, Old, TimesBounded, LiveNewer, M
<1>1. ASSUME NEW p \in Proc, ProcStep(p) PROVE LiveNewer'
  <2>1. CASE Add(p)
    BY <2>1 DEF Add, Idle
  <2>2. CASE ~Add(p)
    BY <1>1, <2>2 DEF ProcStep, Begin, Utime, Rescue, UtimeRetry, Open, MakeDest,
                WriteTemp, EndSearch, Abort
  <2> QED
    BY <2>1, <2>2
<1>2. CASE PruneStep
  BY <1>2 DEF PruneStep, PruneStart, List, Stat, Rename, ListGC, StatGC, Unlink,
              Restart
<1>3. CASE Tick
  BY <1>3 DEF Tick
<1> QED
  BY <1>1, <1>2, <1>3 DEF Next

\* Only the second pass that dooms a file ends its being doomed.
LEMMA DoomedStep ==
  ASSUME TypeOK, Next, Doomed, aborts' = 0, gc' = gc
  PROVE  Doomed'
<1> USE ConstantsAssumption DEF TypeOK, MTime, Old, Doomed, Second
<1>1. ASSUME NEW p \in Proc, ProcStep(p) PROVE Doomed'
  BY <1>1 DEF ProcStep, Begin, Utime, Rescue, UtimeRetry, Open, MakeDest,
              WriteTemp, Add, EndSearch, Abort, pruneVars
<1>2. CASE PruneStep
  BY <1>2 DEF PruneStep, PruneStart, List, Stat, Rename, ListGC, StatGC, Unlink,
              Restart, Expired
<1>3. CASE Tick
  BY <1>3 DEF Tick, pruneVars
<1> QED
  BY <1>1, <1>2, <1>3 DEF Next

LEMMA RescuersReplaceStep ==
  ASSUME TypeOK, TimesBounded, RescuersReplace, AddersFind, Next, aborts' = 0
  PROVE  RescuersReplace'
<1> USE ConstantsAssumption
    DEF TypeOK, MTime, Old, TimesBounded, RescuersReplace, Rescuing, Retry, M, Idle
<1>1. ASSUME NEW p \in Proc, ProcStep(p) PROVE RescuersReplace'
  <2>1. CASE Begin(p) \/ EndSearch(p) \/ WriteTemp(p)
    <3>1. UNCHANGED <<live, gc, clock>> /\ (Doomed => Doomed')
      BY <2>1, DoomedStep DEF Begin, EndSearch, WriteTemp
    <3> QED
      BY <2>1, <3>1 DEF Begin, EndSearch, WriteTemp
  <2>2. CASE Utime(p) \/ UtimeRetry(p)
    <3>1. gc' = gc /\ (Doomed => Doomed')
      BY <2>2, DoomedStep DEF Utime, UtimeRetry
    <3> QED
      BY <2>2, <3>1 DEF Utime, UtimeRetry, Accessed
  <2>3. CASE Rescue(p)
    BY <2>3 DEF Rescue
  <2>4. CASE Open(p) \/ MakeDest(p)
    <3>1. gc' = gc /\ (Doomed => Doomed')
      BY <2>4, DoomedStep DEF Open, MakeDest
    <3> QED
      BY <2>4, <3>1 DEF Open, MakeDest
  <2>5. CASE Add(p)
    <3>1. gc' = gc /\ (Doomed => Doomed')
      BY <2>5, DoomedStep DEF Add
    <3>2. gc = Absent \/ gc >= clock - 3 * M \/ Doomed
      BY <2>5 DEF Add, AddersFind, Slack
    <3> QED
      BY <2>5, <3>1, <3>2 DEF Add
  <2>6. CASE Abort(p)
    BY <2>6 DEF Abort
  <2> QED
    BY <1>1, <2>1, <2>2, <2>3, <2>4, <2>5, <2>6 DEF ProcStep
<1>2. CASE PruneStart \/ List \/ Stat \/ ListGC \/ StatGC
  <2>1. UNCHANGED <<live, gc, pc, began>> /\ (Doomed => Doomed')
    BY <1>2, DoomedStep DEF PruneStart, List, Stat, ListGC, StatGC, procVars
  <2> QED
    BY <2>1
<1>3. CASE Rename \/ Unlink
  <2>1. CASE gc' = gc /\ live' = live
    BY <1>3, <2>1, DoomedStep DEF Rename, Unlink, procVars
  <2>2. CASE gc' = Absent \/ live' = Absent
    BY <2>2
  <2> QED
    BY <1>3, <2>1, <2>2 DEF Rename, Unlink
<1>4. CASE Restart
  BY <1>4 DEF Restart
<1>5. CASE Tick
  <2>1. UNCHANGED <<live, gc, pc>> /\ (Doomed => Doomed')
    BY <1>5, DoomedStep DEF Tick
  <2> QED
    BY <1>5, <2>1 DEF Tick
<1> QED
  BY <1>1, <1>2, <1>3, <1>4, <1>5 DEF Next, PruneStep
LEMMA AddersFindStep ==
  ASSUME TypeOK, TimesBounded, FirstPassKnows, RescuersReplace, AddersFind,
         ReadersFind, Next, aborts' = 0
  PROVE  AddersFind'
<1> USE ConstantsAssumption DEF TypeOK, MTime, Old, TimesBounded, AddersFind, Slack,
                                M, Idle
<1>1. Guarded => Guarded' \/ live' = clock
  BY GuardedStep
<1>2. Doomed /\ gc' = gc => Doomed'
  BY DoomedStep
<1>3. ASSUME NEW p \in Proc, ProcStep(p) PROVE AddersFind'
  <2>1. CASE Begin(p) \/ EndSearch(p) \/ WriteTemp(p) \/ Open(p) \/ MakeDest(p)
    BY <1>1, <1>2, <2>1 DEF Begin, EndSearch, WriteTemp, Open, MakeDest
  <2>2. CASE Utime(p) \/ UtimeRetry(p)
    BY <1>1, <1>2, <2>2 DEF Utime, UtimeRetry, Accessed
  <2>3. CASE Rescue(p)
    <3>1. CASE gc = Absent
      BY <1>1, <2>3, <3>1 DEF Rescue, Retry
    <3>2. CASE gc # Absent /\ pc[p] = "utime_rescue"
      <4>1. Doomed => Guarded'
        BY <2>3, <3>2, RescueGuards
      <4> QED
        BY <2>3, <3>2, <4>1 DEF Rescue, Retry
    <3>3. CASE gc # Absent /\ pc[p] # "utime_rescue"
      <4>1. gc >= clock - M
        BY <2>3, <3>3, RescueNew
      <4> QED
        BY <2>3, <3>3, <4>1 DEF Rescue, Retry
    <3> QED
      BY <3>1, <3>2, <3>3
  <2>4. CASE Add(p)
    BY <1>1, <1>2, <2>4 DEF Add
  <2>5. CASE Abort(p)
    BY <2>5 DEF Abort
  <2> QED
    BY <1>3, <2>1, <2>2, <2>3, <2>4, <2>5 DEF ProcStep
<1>4. CASE PruneStart \/ List \/ Stat \/ ListGC \/ StatGC
  <2>1. UNCHANGED <<live, gc, pc, began, clock>>
    BY <1>4 DEF PruneStart, List, Stat, ListGC, StatGC, procVars
  <2> QED
    BY <1>1, <1>2, <2>1
<1>5. CASE Rename
  <2>1. live' = Absent /\ gc' = live /\ UNCHANGED <<pc, began, clock>>
    BY <1>5 DEF Rename, FirstPassKnows, procVars
  <2>2. live < expires => Doomed'
    BY <1>5, <2>1 DEF Rename, FirstPassKnows, Doomed, Second
  <2>3. live < expires \/ live >= pruneAt
    BY <1>5 DEF Rename, FirstPassKnows
  <2> QED
    BY <1>5, <2>1, <2>2, <2>3 DEF Rename
<1>6. CASE Unlink
  <2>1. gc' = Absent /\ UNCHANGED <<live, pc, began, clock>>
    BY <1>6 DEF Unlink, procVars
  <2> QED
    BY <1>1, <2>1
<1>7. CASE Restart
  BY <1>7 DEF Restart
<1>8. CASE Tick
  BY <1>1, <1>2, <1>8 DEF Tick
<1> QED
  BY <1>3, <1>4, <1>5, <1>6, <1>7, <1>8 DEF Next, PruneStep

LEMMA ReadersFindStep ==
  ASSUME TypeOK, PruneKnows, TimesBounded, FirstPassKnows, RescuersReplace,
         ReadersFind, Next, aborts' = 0
  PROVE  ReadersFind'
<1> USE ConstantsAssumption
    DEF TypeOK, MTime, Old, TimesBounded, ReadersFind, SecondPass, Second, M, Idle,
        Reading, ReadRescuing, ReadRetrying
<1>1. Guarded => Guarded' \/ live' = clock
  BY GuardedStep
<1>2. ASSUME NEW p \in Proc, ProcStep(p) PROVE ReadersFind'
  <2>1. CASE Begin(p) \/ EndSearch(p) \/ WriteTemp(p)
    BY <1>1, <2>1 DEF Begin, EndSearch, WriteTemp, pruneVars
  <2>2. CASE Open(p)
    <3>1. Guarded => live # Absent
      BY DEF Guarded, Guards
    <3> QED
      BY <1>1, <2>2, <3>1 DEF Open, pruneVars
  <2>3. CASE MakeDest(p)
    <3>1. Guarded => live # Absent
      BY DEF Guarded, Guards
    <3> QED
      BY <1>1, <2>3, <3>1 DEF MakeDest, pruneVars
  <2>4. CASE Utime(p)
    BY <1>1, <2>4 DEF Utime, Accessed, pruneVars
  <2>5. CASE UtimeRetry(p)
    BY <1>1, <2>5 DEF UtimeRetry, Accessed, pruneVars
  <2>6. CASE Rescue(p)
    <3>1. CASE gc = Absent
      BY <1>1, <2>6, <3>1 DEF Rescue, Retry, pruneVars
    <3>2. CASE gc # Absent /\ pc[p] = "utime_rescue"
      <4>1. live # Absent => Guarded'
        BY <2>6, <3>2, RescueGuards
      <4>2. Guarded => live # Absent
        BY DEF Guarded, Guards
      <4> QED
        BY <2>6, <3>2, <4>1, <4>2 DEF Rescue, Retry, pruneVars
    <3>3. CASE gc # Absent /\ pc[p] # "utime_rescue"
      <4>1. gc >= clock - M /\ phase # "rename"
        BY <2>6, <3>3, RescueNew
      <4> QED
        BY <2>6, <3>3, <4>1 DEF Rescue, Retry, pruneVars
    <3> QED
      BY <3>1, <3>2, <3>3
  <2>7. CASE Add(p)
    BY <1>1, <2>7 DEF Add, pruneVars
  <2>8. CASE Abort(p)
    BY <2>8 DEF Abort
  <2> QED
    BY <1>2, <2>1, <2>2, <2>3, <2>4, <2>5, <2>6, <2>7, <2>8 DEF ProcStep
<1>3. CASE PruneStart
  BY <1>1, <1>3 DEF PruneStart, procVars
<1>4. CASE List \/ ListGC \/ StatGC
  BY <1>1, <1>4 DEF List, ListGC, StatGC, procVars
<1>5. CASE Stat
  BY <1>1, <1>5 DEF Stat, Expired, procVars
<1>6. CASE Rename
  <2>1. ~Guarded
    BY <1>6 DEF Rename, Guarded, Guards
  <2> QED
    BY <1>6, <2>1 DEF Rename, FirstPassKnows, procVars
<1>7. CASE Unlink
  BY <1>1, <1>7 DEF Unlink, PruneKnows, procVars
<1>8. CASE Restart
  BY <1>8 DEF Restart
<1>9. CASE Tick
  BY <1>1, <1>9 DEF Tick, pruneVars
<1> QED
  BY <1>2, <1>3, <1>4, <1>5, <1>6, <1>7, <1>8, <1>9 DEF Next, PruneStep

LEMMA UsedKeptStep ==
  ASSUME TypeOK, PruneKnows, Parts, Next, aborts' = 0
  PROVE  UsedKept'
<1> USE ConstantsAssumption DEF TypeOK, MTime, Old, Parts, TimesBounded, UsedKept,
                                Kept, M, Idle
<1>1. Guarded => Guarded' \/ live' = clock
  BY GuardedStep
<1>2. ASSUME NEW p \in Proc, ProcStep(p) PROVE UsedKept'
  <2>1. CASE Begin(p) \/ EndSearch(p) \/ WriteTemp(p) \/ Open(p) \/ MakeDest(p)
    BY <1>1, <2>1 DEF Begin, EndSearch, WriteTemp, Open, MakeDest
  <2>2. CASE Utime(p) \/ UtimeRetry(p)
    BY <1>1, <2>2 DEF Utime, UtimeRetry
  <2>3. CASE Rescue(p)
    <3>1. CASE gc = Absent
      BY <1>1, <2>3, <3>1 DEF Rescue
    <3>2. CASE gc # Absent /\ pc[p] = "utime_rescue"
      <4>1. live # Absent => Guarded'
        BY <2>3, <3>2, RescueGuards
      <4>2. Guarded => live # Absent
        BY DEF Guarded, Guards
      <4> QED
        BY <2>3, <3>2, <4>1, <4>2 DEF Rescue
    <3>3. CASE gc # Absent /\ pc[p] # "utime_rescue"
      <4>1. gc >= clock - M
        BY <2>3, <3>3, RescueNew
      <4> QED
        BY <2>3, <3>3, <4>1 DEF Rescue
    <3> QED
      BY <3>1, <3>2, <3>3
  <2>4. CASE Add(p)
    <3>1. live = Absent \/ live >= began[p] - 2 * M \/ Guarded
      BY <2>4 DEF Add, AddersFind, Slack
    <3>2. Guarded => live # Absent
      BY DEF Guarded, Guards
    <3> QED
      BY <1>1, <2>4, <3>1, <3>2 DEF Add
  <2>5. CASE Abort(p)
    BY <2>5 DEF Abort
  <2> QED
    BY <1>2, <2>1, <2>2, <2>3, <2>4, <2>5 DEF ProcStep
<1>3. CASE PruneStart \/ List \/ Stat \/ ListGC \/ StatGC
  <2>1. UNCHANGED <<live, gc, since, clock>>
    BY <1>3 DEF PruneStart, List, Stat, ListGC, StatGC, procVars
  <2> QED
    BY <1>1, <2>1
<1>4. CASE Rename
  <2>1. ~Guarded
    BY <1>4 DEF Rename, Guarded, Guards
  <2>2. live # Absent /\ (live < expires \/ live >= pruneAt)
    BY <1>4 DEF Rename, FirstPassKnows
  <2> QED
    BY <1>4, <2>1, <2>2 DEF Rename, LiveNewer, procVars
<1>5. CASE Unlink
  BY <1>1, <1>5 DEF Unlink, PruneKnows, procVars
<1>6. CASE Restart
  BY <1>6 DEF Restart
<1>7. CASE Tick
  BY <1>1, <1>7 DEF Tick
<1> QED
  BY <1>2, <1>3, <1>4, <1>5, <1>6, <1>7 DEF Next, PruneStep

-----------------------------------------------------------------------------
LEMMA CacheInvariantInit == Init => CacheInvariant
BY ConstantsAssumption
   DEF Init, CacheInvariant, Parts, TimesBounded, FirstPassKnows, LiveNewer,
       RescuersReplace, AddersFind, ReadersFind, UsedKept, M, Old, Idle, Rescuing,
       Retry, Reading, ReadRescuing, ReadRetrying

LEMMA CacheInvariantInductive ==
  ASSUME TypeOK, PruneKnows, CacheInvariant, [Next]_vars
  PROVE  CacheInvariant'
<1>1. CASE UNCHANGED vars
  BY <1>1 DEF vars, procVars, pruneVars, CacheInvariant, Parts, TimesBounded,
     FirstPassKnows, LiveNewer, RescuersReplace, AddersFind, ReadersFind, UsedKept,
     Doomed, Guarded, Guards, SecondPass, Slack
<1>2. ASSUME Next, aborts' = 0 PROVE Parts'
  <2>1. Parts
    <3>1. aborts \in Nat
      BY ConstantsAssumption DEF TypeOK
    <3>2. aborts' = aborts \/ aborts' = aborts + 1
      BY <1>2 DEF Next, ProcStep, Begin, Utime, Rescue, UtimeRetry, Open, MakeDest,
         WriteTemp, Add, EndSearch, Abort, PruneStep, PruneStart, List, Stat, Rename,
         ListGC, StatGC, Unlink, Restart, Tick
    <3> QED
      BY <1>2, <3>1, <3>2 DEF CacheInvariant
  <2> QED
    BY <1>2, <2>1, TimesBoundedStep, FirstPassKnowsStep, LiveNewerStep,
       RescuersReplaceStep, AddersFindStep, ReadersFindStep, UsedKeptStep DEF Parts
<1> QED
  BY <1>1, <1>2 DEF CacheInvariant

\* The invariant holds in every run of the search processes and the supervisor.
THEOREM CacheInvariantCorrect == Spec => []CacheInvariant
<1>1. Init => PruneKnows
  BY DEF Init, PruneKnows
<1> QED
  BY <1>1, CacheInvariantInit, CacheInvariantInductive, PruneKnowsInductive,
     TypeCorrect, PTL DEF Spec

\* A blob that a search found in the cache, or added to it, within the lifetime
\* less two operations is under one of its two names, as long as no process has
\* been killed: for any number of searches, any lifetime of at least four
\* operations, and every interleaving of their system calls with prune()'s.
THEOREM RecentlyUsedKeptCorrect == Spec => []RecentlyUsedKept
<1>1. TypeOK /\ CacheInvariant => RecentlyUsedKept
  <2> SUFFICES ASSUME TypeOK, UsedKept, NEW p \in Proc,
                      since[p] # Absent, clock - since[p] <= Kept
               PROVE  live # Absent \/ gc # Absent
    BY DEF CacheInvariant, Parts, RecentlyUsedKept
  <2>1. Guarded => live # Absent
    BY DEF Guarded, Guards
  <2> QED
    BY <2>1, ConstantsAssumption DEF UsedKept, TypeOK, Kept
<1> QED
  BY <1>1, CacheInvariantCorrect, TypeCorrect, PTL

\* What _access() has confirmed can be opened or linked: the one rescue of
\* _try_with_rescue() is enough, for any number of searches and every
\* interleaving of their system calls with prune()'s.
THEOREM AccessedBlobOpensCorrect == Spec => []AccessedBlobOpens
<1>1. CacheInvariant => AccessedBlobOpens
  BY DEF CacheInvariant, Parts, ReadersFind, AccessedBlobOpens
<1> QED
  BY <1>1, CacheInvariantCorrect, PTL
=============================================================================
