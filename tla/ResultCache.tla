---------------------------- MODULE ResultCache ----------------------------
(***************************************************************************)
(* FilterStackRunner._evaluate of server/filter.py: how workers, of one    *)
(* search or of several, decide on an object with the help of the results  *)
(* and attribute values that they share in Redis, with the object loader   *)
(* of server/object_.py as the first runner of every stack.                *)
(*                                                                         *)
(* One object is followed.  A filter is known by its cache digest and is   *)
(* deterministic: the attributes it sets and its score are functions of    *)
(* the attributes it read.  The thresholds are not part of the digest, so  *)
(* searches that disagree on them share results.  Attribute values stand   *)
(* for themselves and for their hashes.                                    *)
(***************************************************************************)
EXTENDS Integers, Sequences, FiniteSets

CONSTANTS
  Proc,            \* worker processes
  Filter,          \* cache digests, the fetcher's among them
  Fetcher,         \* the digest "dataretriever"
  Key,             \* attribute names
  In, Out, Omit,   \* attributes each filter reads, sets, and asks to omit
  OutVal(_, _, _), \* the value a filter sets for a key, given what it read
  Score(_, _),     \* its score, given what it read
  Absent,          \* no such attribute
  Spoilt,          \* object data that begins with the rest of another transfer
  Stacks,          \* filter stacks of the searches, the fetcher first
  Thresholds,      \* for each search, the scores each filter lets pass
  MaxEvals,        \* bound: evaluations by all workers
  MaxEvict         \* bound: entries that Redis drops

ASSUME CacheAssumption ==
  /\ Fetcher \in Filter
  /\ In \in [Filter -> SUBSET Key] /\ Out \in [Filter -> SUBSET Key]
  /\ Omit \in [Filter -> SUBSET Key]
  /\ \A f \in Filter : Omit[f] \subseteq In[f] \cup Out[f]
  /\ Stacks \subseteq Seq(Filter)
  /\ In[Fetcher] = {} /\ Omit[Fetcher] = {}
  /\ MaxEvals \in Nat /\ MaxEvict \in Nat

\* What makes a searchlet sound, as the comments of _result_cache_can_drop()
\* have it: an attribute has one writer in a stack, which comes before the
\* filters that read it.
ASSUME StacksAssumption ==
  \A s \in Stacks :
    /\ Len(s) > 0 /\ s[1] = Fetcher
    /\ \A i, j \in 1..Len(s) : i # j =>
         /\ s[i] # s[j] /\ Out[s[i]] \cap Out[s[j]] = {}
         /\ i < j => Out[s[j]] \cap In[s[i]] = {}

VARIABLES
  results,   \* result cache: digest -> set of at most one result
  values,    \* attribute cache: the values in it
  pc,        \* where each worker is
  stack,     \* its filter stack
  passing,   \* its thresholds
  cached,    \* cache_results
  next,      \* position of the runner that is next
  obj,       \* the attributes of its object
  omits,     \* the attributes not to be sent
  fresh,     \* new_results
  verdict,   \* "none", "accept", "drop", or "lost" without a decision
  residue,   \* its HTTP loader holds the rest of a transfer that failed
  spoilt,    \* some object was loaded on top of such a rest
  evals,     \* evaluations begun
  evicted    \* entries dropped

workVars == <<stack, passing, cached, next, obj, omits, fresh, verdict>>
vars == <<results, values, pc, workVars, residue, spoilt, evals, evicted>>

NoResults == [f \in Filter |-> {}]
NewObject == [k \in Key |-> Absent]

\* _FilterResult: what a filter makes of an object with attributes o.
Result(f, inp) ==
  [inp |-> inp,
   out |-> [k \in Out[f] |-> OutVal(f, k, inp)],
   omit |-> {k \in Omit[f] : k \in Out[f] \/ inp[k] # Absent},
   score |-> Score(f, inp)]
Run(f, o) == Result(f, [k \in In[f] |-> o[k]])

\* The attributes after the outputs of result r were set.
Apply(o, r) == [k \in Key |-> IF k \in DOMAIN r.out THEN r.out[k] ELSE o[k]]

Init ==
  /\ results = NoResults /\ values = {}
  /\ pc = [p \in Proc |-> "idle"]
  /\ stack = [p \in Proc |-> <<>>]
  /\ passing = [p \in Proc |-> [f \in Filter |-> {}]]
  /\ cached = [p \in Proc |-> NoResults]
  /\ next = [p \in Proc |-> 1]
  /\ obj = [p \in Proc |-> NewObject]
  /\ omits = [p \in Proc |-> {}]
  /\ fresh = [p \in Proc |-> NoResults]
  /\ verdict = [p \in Proc |-> "none"]
  /\ residue = [p \in Proc |-> FALSE] /\ spoilt = FALSE /\ evals = 0 /\ evicted = 0

Runners(p) == {stack[p][i] : i \in 1..Len(stack[p])}
Current(p) == stack[p][next[p]]

-----------------------------------------------------------------------------
(***************************************************************************)
(* _result_cache_can_drop()                                                *)
(***************************************************************************)

\* Mutant: a resolve() that takes any writer of the attribute for its source.
ResolvesByName(cache) ==
  LET resolve[path \in SUBSET Filter] ==
        {f \in Filter \ path :
           /\ cache[f] # {}
           /\ \A r \in cache[f] : \A k \in DOMAIN r.inp :
                \E g \in resolve[path \cup {f}] : \E q \in cache[g] : k \in DOMAIN q.out}
  IN  resolve[{}]

\* resolve(), as the set of the runners for which it succeeds while those of path
\* are in process: every input of its cached result is, with the same value, an
\* output of a cached result that resolves too.
Resolves(cache) ==
  LET resolve[path \in SUBSET Filter] ==
        {f \in Filter \ path :
           /\ cache[f] # {}
           /\ \A r \in cache[f] : \A k \in DOMAIN r.inp :
                /\ r.inp[k] # Absent
                /\ \E g \in resolve[path \cup {f}] : \E q \in cache[g] :
                     k \in DOMAIN q.out /\ q.out[k] = r.inp[k]}
  IN  resolve[{}]

CanDrop(cache, pass) ==
  \E f \in Resolves(cache) : \E r \in cache[f] : r.score \notin pass[f]

-----------------------------------------------------------------------------
(***************************************************************************)
(* _evaluate()                                                             *)
(***************************************************************************)

\* A worker of a search gets the object.
Begin(p) ==
  /\ pc[p] = "idle" /\ evals < MaxEvals
  /\ \E s \in Stacks, t \in Thresholds :
       /\ stack' = [stack EXCEPT ![p] = s]
       /\ passing' = [passing EXCEPT ![p] = t]
  /\ pc' = [pc EXCEPT ![p] = "lookup"]
  /\ evals' = evals + 1
  /\ UNCHANGED <<results, values, cached, next, obj, omits, fresh, verdict, residue,
                 spoilt, evicted>>

\* _evaluate() returns, and its local state is gone.
Forget(p) ==
  /\ pc' = [pc EXCEPT ![p] = "idle"]
  /\ stack' = [stack EXCEPT ![p] = <<>>]
  /\ passing' = [passing EXCEPT ![p] = [f \in Filter |-> {}]]
  /\ cached' = [cached EXCEPT ![p] = NoResults]
  /\ next' = [next EXCEPT ![p] = 1]
  /\ obj' = [obj EXCEPT ![p] = NewObject]
  /\ omits' = [omits EXCEPT ![p] = {}]
  /\ fresh' = [fresh EXCEPT ![p] = NoResults]
  /\ verdict' = [verdict EXCEPT ![p] = "none"]

\* mget() of the results of all its runners, and the drop they may allow.
Lookup(p) ==
  /\ pc[p] = "lookup"
  /\ cached' = [cached EXCEPT ![p] =
                  [f \in Filter |-> IF f \in Runners(p) THEN results[f] ELSE {}]]
  /\ IF CanDrop(cached'[p], passing[p])
     THEN pc' = [pc EXCEPT ![p] = "dropped"] /\ verdict' = [verdict EXCEPT ![p] = "drop"]
     ELSE pc' = [pc EXCEPT ![p] = "run"] /\ UNCHANGED verdict
  /\ UNCHANGED <<results, values, stack, passing, next, obj, omits, fresh,
                 residue, spoilt, evals, evicted>>

\* Mutant: try_load() does not look for inputs that were absent and now are not.
LoadablePresent(p) ==
  /\ cached[p][Current(p)] # {}
  /\ \A r \in cached[p][Current(p)] :
       /\ \A k \in DOMAIN r.inp : r.inp[k] # Absent => obj[p][k] = r.inp[k]
       /\ \A k \in DOMAIN r.out : r.out[k] \in values

\* _attribute_cache_try_load(): the object has the inputs of the cached result,
\* absent ones included, and all its outputs are in the attribute cache.
Loadable(p) ==
  /\ cached[p][Current(p)] # {}
  /\ \A r \in cached[p][Current(p)] :
       /\ \A k \in DOMAIN r.inp : obj[p][k] = r.inp[k]
       /\ \A k \in DOMAIN r.out : r.out[k] \in values

\* The threshold of the runner, the next runner, or the end of the stack.
Proceed(p, r) ==
  LET ok == r.score \in passing[p][Current(p)]
      last == next[p] = Len(stack[p])
  IN  /\ obj' = [obj EXCEPT ![p] = Apply(obj[p], r)]
      /\ omits' = [omits EXCEPT ![p] = omits[p] \cup r.omit]
      /\ next' = [next EXCEPT ![p] = IF ok /\ ~last THEN next[p] + 1 ELSE next[p]]
      /\ verdict' = [verdict EXCEPT ![p] =
                       IF ~ok THEN "drop" ELSE IF last THEN "accept" ELSE "none"]
      /\ pc' = [pc EXCEPT ![p] = IF ok /\ ~last THEN "run" ELSE "update"]

Load(p) ==
  /\ pc[p] = "run" /\ Loadable(p)
  /\ \E r \in cached[p][Current(p)] : Proceed(p, r)
  /\ UNCHANGED <<results, values, stack, passing, cached, fresh, residue, spoilt,
                 evals, evicted>>

\* The filter is executed on the object.
Evaluate(p) ==
  /\ pc[p] = "run" /\ ~Loadable(p) /\ Current(p) # Fetcher
  /\ LET r == Run(Current(p), obj[p]) IN
       /\ Proceed(p, r)
       /\ fresh' = [fresh EXCEPT ![p][Current(p)] = {r}]
  /\ UNCHANGED <<results, values, stack, passing, cached, residue, spoilt, evals, evicted>>

\* The object is fetched.  The buffer for the body is emptied after a complete
\* transfer only: the body is appended to what a failed one has left.
Fetch(p) ==
  /\ pc[p] = "run" /\ ~Loadable(p) /\ Current(p) = Fetcher
  /\ LET clean == Run(Fetcher, obj[p])
         r == IF residue[p] THEN [clean EXCEPT !.out = [k \in Out[Fetcher] |-> Spoilt]]
                            ELSE clean
     IN  /\ Proceed(p, r)
         /\ fresh' = [fresh EXCEPT ![p][Fetcher] = {r}]
  /\ residue' = [residue EXCEPT ![p] = FALSE]
  /\ spoilt' = (spoilt \/ residue[p])
  /\ UNCHANGED <<results, values, stack, passing, cached, evals, evicted>>

\* ObjectLoadError: dropped as unloadable.  The transfer may have been cut.
FetchFails(p) ==
  /\ pc[p] = "run" /\ ~Loadable(p) /\ Current(p) = Fetcher
  /\ residue' \in {residue, [residue EXCEPT ![p] = TRUE]}
  /\ verdict' = [verdict EXCEPT ![p] = "lost"]
  /\ pc' = [pc EXCEPT ![p] = "update"]
  /\ UNCHANGED <<results, values, stack, passing, cached, next, obj, omits, fresh,
                 spoilt, evals, evicted>>

\* The filter died on the object, or failed for good: no result of it, but the
\* results of the runners before it are kept.
FilterFails(p) ==
  /\ pc[p] = "run" /\ ~Loadable(p) /\ Current(p) # Fetcher
  /\ verdict' = [verdict EXCEPT ![p] = "lost"]
  /\ pc' = [pc EXCEPT ![p] = "update"]
  /\ UNCHANGED <<results, values, stack, passing, cached, next, obj, omits, fresh,
                 residue, spoilt, evals, evicted>>

\* The values filter f has set that no later filter has overwritten.
Unchanged(p, f) ==
  UNION {{r.out[k] : k \in {k \in DOMAIN r.out : obj[p][k] = r.out[k]}} : r \in fresh[p][f]}

\* The finally clause: one mset() of the new results and, for the filters that
\* were slow enough, of their values; or no effect at all when Redis refuses.
Update(p) ==
  /\ pc[p] = "update"
  /\ \/ /\ results' = [f \in Filter |-> IF fresh[p][f] # {} THEN fresh[p][f]
                                                           ELSE results[f]]
        /\ \E slow \in SUBSET {f \in Filter : fresh[p][f] # {}} :
             values' = values \cup UNION {Unchanged(p, f) : f \in slow}
     \/ UNCHANGED <<results, values>>
  /\ Forget(p)
  /\ UNCHANGED <<residue, spoilt, evals, evicted>>

\* The return after a cached drop: there is nothing to update.
ReturnDrop(p) ==
  /\ pc[p] = "dropped"
  /\ Forget(p)
  /\ UNCHANGED <<results, values, residue, spoilt, evals, evicted>>

\* Redis drops entries when it is full.
Evict ==
  /\ evicted < MaxEvict /\ evicted' = evicted + 1
  /\ \/ \E f \in Filter : results[f] # {}
          /\ results' = [results EXCEPT ![f] = {}] /\ UNCHANGED values
     \/ \E v \in values : values' = values \ {v} /\ UNCHANGED results
  /\ UNCHANGED <<pc, workVars, residue, spoilt, evals>>

Next ==
  \/ \E p \in Proc : Begin(p) \/ Lookup(p) \/ Load(p) \/ Evaluate(p) \/ Fetch(p)
                     \/ FetchFails(p) \/ FilterFails(p) \/ Update(p) \/ ReturnDrop(p)
  \/ Evict

Spec == Init /\ [][Next]_vars

-----------------------------------------------------------------------------
(***************************************************************************)
(* Properties                                                              *)
(***************************************************************************)

\* What one more runner makes of the object and of what is omitted.
After(f, before) ==
  LET r == Run(f, before.obj)
  IN  [obj |-> Apply(before.obj, r), omits |-> before.omits \cup r.omit]

\* The reference: a stack run from its start on a new object without a cache,
\* as what there is after each number of runners.
Reference(s) ==
  LET after[n \in 0..Len(s)] ==
        IF n = 0 THEN [obj |-> NewObject, omits |-> {}] ELSE After(s[n], after[n - 1])
  IN  after

\* The caches never change a decision: whatever other searches with other
\* stacks and thresholds have left in them, whatever was evicted and whichever
\* filters died on the way, an object is dropped only if running the whole
\* stack drops it, and accepted only if that accepts it, with the same
\* attributes.  Excepted is an object loaded on top of the rest of another one.
DecisionRight ==
  \A p \in Proc :
    verdict[p] \in {"accept", "drop"} /\ ~spoilt =>
      LET s == stack[p]
          ref == Reference(s)
          accepted == \A i \in 1..Len(s) : Run(s[i], ref[i - 1].obj).score \in passing[p][s[i]]
      IN  /\ verdict[p] = "accept" <=> accepted
          /\ accepted => obj[p] = ref[Len(s)].obj /\ omits[p] = ref[Len(s)].omits

\* Replaying a cached result on an object has just the effect of running the
\* filter on it, to the attributes and to what is omitted.
ReplayExact ==
  [][\A p \in Proc : Load(p) /\ Current(p) # Fetcher =>
       LET r == Run(Current(p), obj[p]) IN
         obj'[p] = Apply(obj[p], r) /\ omits'[p] = omits[p] \cup r.omit]_vars
=============================================================================
