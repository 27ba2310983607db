------------------------- MODULE ResultCache_proof -------------------------
(***************************************************************************)
(* Proofs about ResultCache, for every set of filters, stacks, thresholds  *)
(* and workers, and for every function that the filters may compute.       *)
(***************************************************************************)
EXTENDS ResultCache, WellFoundedInduction, TLAPS

\* Result r is what filter f makes of the inputs recorded in it.
Faithful(f, r) ==
  /\ r.inp = [k \in In[f] |-> r.inp[k]]
  /\ r = Result(f, r.inp)

\* The shared state and the local state of the workers are functions of the
\* right domains, and a worker that runs filters is inside its stack.
Functions ==
  /\ results = [f \in Filter |-> results[f]]
  /\ pc = [p \in Proc |-> pc[p]] /\ next = [p \in Proc |-> next[p]]
  /\ stack = [p \in Proc |-> stack[p]] /\ obj = [p \in Proc |-> obj[p]]
  /\ omits = [p \in Proc |-> omits[p]]
  /\ cached = [p \in Proc |-> cached[p]] /\ fresh = [p \in Proc |-> fresh[p]]
  /\ \A p \in Proc : /\ cached[p] = [f \in Filter |-> cached[p][f]]
                     /\ fresh[p] = [f \in Filter |-> fresh[p][f]]

InStack ==
  \A p \in Proc :
    /\ pc[p] \in {"idle", "lookup", "run", "update", "dropped"}
    /\ pc[p] \in {"lookup", "run"} =>
         stack[p] \in Stacks /\ next[p] \in 1..Len(stack[p])
    /\ pc[p] = "idle" => next[p] = 1

Shape == Functions /\ InStack

\* Every result in the cache, and every one a worker has read or made, is
\* faithful; the fetcher's are left out, for a transfer on top of the rest of
\* another one is not.
Genuine ==
  \A f \in Filter \ {Fetcher} :
    /\ \A r \in results[f] : Faithful(f, r)
    /\ \A p \in Proc : \A r \in cached[p][f] \cup fresh[p][f] : Faithful(f, r)

\* Running a filter gives a faithful result.
LEMMA RunFaithful == ASSUME NEW f, NEW o PROVE Faithful(f, Run(f, o))
  BY DEF Faithful, Run, Result

\* The runner that is next is a filter.
LEMMA CurrentIsFilter ==
  ASSUME Shape, NEW p \in Proc, pc[p] = "run" PROVE Current(p) \in Filter
  BY CacheAssumption DEF Shape, InStack, Current

\* Proceed() stays inside the stack and touches no results.
LEMMA ProceedShape ==
  ASSUME Shape, NEW p \in Proc, pc[p] = "run", NEW r, Proceed(p, r),
         UNCHANGED <<results, stack, cached>>,
         fresh' = [q \in Proc |-> fresh'[q]],
         \A q \in Proc : fresh'[q] = [f \in Filter |-> fresh'[q][f]]
  PROVE  Shape'
<1>1. stack[p] \in Seq(Filter) /\ Len(stack[p]) \in Nat
  BY CacheAssumption DEF Shape, InStack
<1>2. Functions'
  BY DEF Shape, Functions, Proceed
<1>3. InStack'
  <2>1. /\ stack'[p] = stack[p] /\ pc'[p] \in {"run", "update"}
        /\ pc'[p] = "run" => next[p] # Len(stack[p]) /\ next'[p] = next[p] + 1
    BY DEF Shape, Functions, Proceed
  <2>2. stack[p] \in Stacks /\ next[p] \in 1..Len(stack[p])
    BY DEF Shape, InStack
  <2>3. pc'[p] = "run" => next'[p] \in 1..Len(stack'[p])
    BY <1>1, <2>1, <2>2
  <2>4. \A q \in Proc : q # p => /\ pc'[q] = pc[q] /\ next'[q] = next[q]
                                 /\ stack'[q] = stack[q]
    BY DEF Shape, Functions, Proceed
  <2> QED BY <2>1, <2>2, <2>3, <2>4 DEF Shape, InStack
<1> QED BY <1>2, <1>3 DEF Shape

LEMMA ShapeInit == Init => Shape /\ Genuine
  BY DEF Init, Shape, Functions, InStack, Genuine, NoResults

LEMMA ForgetShape ==
  ASSUME Shape, NEW p \in Proc, Forget(p),
         results' = [f \in Filter |-> results'[f]]
  PROVE  Shape'
<1>1. Functions'
  BY DEF Shape, Functions, Forget, NoResults
<1>2. InStack'
  BY DEF Shape, Functions, InStack, Forget
<1> QED BY <1>1, <1>2 DEF Shape

LEMMA ShapeStep == ASSUME Shape, [Next]_vars PROVE Shape'
<1>1. CASE UNCHANGED vars
  BY <1>1 DEF Shape, Functions, InStack, vars, workVars
<1>2. ASSUME NEW p \in Proc, Begin(p) PROVE Shape'
  <2>1. \A s \in Stacks : 1 \in 1..Len(s)
    BY CacheAssumption, StacksAssumption
  <2>2. Functions'
    BY <1>2 DEF Begin, Shape, Functions
  <2>3. InStack'
    BY <1>2, <2>1 DEF Begin, Shape, Functions, InStack
  <2> QED BY <2>2, <2>3 DEF Shape
<1>3. ASSUME NEW p \in Proc, Lookup(p) PROVE Shape'
  <2>1. Functions'
    BY <1>3 DEF Lookup, Shape, Functions
  <2>2. InStack'
    BY <1>3 DEF Lookup, Shape, Functions, InStack
  <2> QED BY <2>1, <2>2 DEF Shape
<1>4. ASSUME NEW p \in Proc, Load(p) PROVE Shape'
  BY <1>4, ProceedShape DEF Load, Shape, Functions
<1>5. ASSUME NEW p \in Proc, Evaluate(p) PROVE Shape'
  <2>1. /\ fresh' = [q \in Proc |-> fresh'[q]]
        /\ \A q \in Proc : fresh'[q] = [f \in Filter |-> fresh'[q][f]]
    BY <1>5 DEF Evaluate, Shape, Functions
  <2> QED BY <1>5, <2>1, ProceedShape DEF Evaluate
<1>6. ASSUME NEW p \in Proc, Fetch(p) PROVE Shape'
  <2>1. /\ fresh' = [q \in Proc |-> fresh'[q]]
        /\ \A q \in Proc : fresh'[q] = [f \in Filter |-> fresh'[q][f]]
    BY <1>6 DEF Fetch, Shape, Functions
  <2> QED BY <1>6, <2>1, ProceedShape DEF Fetch
<1>7. ASSUME NEW p \in Proc, FetchFails(p) \/ FilterFails(p) PROVE Shape'
  BY <1>7 DEF FetchFails, FilterFails, Shape, Functions, InStack
<1>8. ASSUME NEW p \in Proc, Update(p) PROVE Shape'
  <2>1. results' = [f \in Filter |-> results'[f]]
    BY <1>8 DEF Update, Shape, Functions
  <2> QED BY <1>8, <2>1, ForgetShape DEF Update
<1>9. ASSUME NEW p \in Proc, ReturnDrop(p) PROVE Shape'
  <2>1. results' = [f \in Filter |-> results'[f]]
    BY <1>9 DEF ReturnDrop, Shape, Functions
  <2> QED BY <1>9, <2>1, ForgetShape DEF ReturnDrop
<1>10. CASE Evict
  BY <1>10 DEF Evict, Shape, Functions, InStack, workVars
<1> QED
  BY <1>1, <1>2, <1>3, <1>4, <1>5, <1>6, <1>7, <1>8, <1>9, <1>10 DEF Next

LEMMA GenuineStep == ASSUME Shape, Genuine, [Next]_vars PROVE Genuine'
<1> USE DEF Shape, Functions, Genuine
<1>1. CASE UNCHANGED vars
  BY <1>1 DEF vars, workVars
<1>2. ASSUME NEW p \in Proc, Begin(p) \/ Load(p) \/ FetchFails(p) \/ FilterFails(p)
      PROVE  Genuine'
  BY <1>2 DEF Begin, Load, FetchFails, FilterFails
<1>3. ASSUME NEW p \in Proc, Lookup(p) PROVE Genuine'
  BY <1>3 DEF Lookup
<1>4. ASSUME NEW p \in Proc, Evaluate(p) PROVE Genuine'
  <2>1. Current(p) \in Filter
    BY <1>4, CurrentIsFilter DEF Evaluate
  <2>2. Faithful(Current(p), Run(Current(p), obj[p]))
    BY RunFaithful
  <2> QED BY <1>4, <2>1, <2>2 DEF Evaluate
<1>5. ASSUME NEW p \in Proc, Fetch(p) PROVE Genuine'
  BY <1>5 DEF Fetch
<1>6. ASSUME NEW p \in Proc, Forget(p),
             \A f \in Filter : results'[f] \in {results[f], fresh[p][f]}
      PROVE  Genuine'
  BY <1>6 DEF Forget, NoResults
<1>7. ASSUME NEW p \in Proc, Update(p) PROVE Genuine'
  BY <1>6, <1>7 DEF Update
<1>8. ASSUME NEW p \in Proc, ReturnDrop(p) PROVE Genuine'
  BY <1>6, <1>8 DEF ReturnDrop
<1>9. CASE Evict
  BY <1>9 DEF Evict, workVars
<1> QED
  BY <1>1, <1>2, <1>3, <1>4, <1>5, <1>7, <1>8, <1>9 DEF Next

\* A faithful result whose inputs are those of the object is what the filter
\* makes of the object.
LEMMA ReplayIsRun ==
  ASSUME NEW f, NEW o, NEW r, Faithful(f, r),
         \A k \in DOMAIN r.inp : o[k] = r.inp[k]
  PROVE  r = Run(f, o)
<1>1. r.inp = [k \in In[f] |-> o[k]]
  BY DEF Faithful
<1> QED BY <1>1 DEF Faithful, Run

\* For every set of filters, stacks and workers and whatever the filters
\* compute, replaying a cached result on an object has just the effect of
\* running the filter on it, to the attributes and to what is omitted
\* (ReplayExact, of _attribute_cache_try_load()).
THEOREM ReplayExactCorrect == Spec => ReplayExact
<1> DEFINE Step ==
      \A p \in Proc : Load(p) /\ Current(p) # Fetcher =>
        LET r == Run(Current(p), obj[p]) IN
          obj'[p] = Apply(obj[p], r) /\ omits'[p] = omits[p] \cup r.omit
<1>1. Shape /\ Genuine /\ [Next]_vars => (Shape /\ Genuine)'
  BY ShapeStep, GenuineStep
<1>2. Shape /\ Genuine /\ [Next]_vars => [Step]_vars
  <2> SUFFICES ASSUME Shape, Genuine, NEW p \in Proc, Load(p), Current(p) # Fetcher
               PROVE  LET r == Run(Current(p), obj[p]) IN
                        obj'[p] = Apply(obj[p], r) /\ omits'[p] = omits[p] \cup r.omit
    OBVIOUS
  <2>1. Current(p) \in Filter
    BY CurrentIsFilter DEF Load
  <2>2. PICK r \in cached[p][Current(p)] : Proceed(p, r)
    BY DEF Load
  <2>3. r = Run(Current(p), obj[p])
    <3>1. Faithful(Current(p), r)
      BY <2>1 DEF Genuine
    <3>2. \A k \in DOMAIN r.inp : obj[p][k] = r.inp[k]
      BY DEF Load, Loadable
    <3> QED BY <3>1, <3>2, ReplayIsRun
  <2> QED BY <2>2, <2>3 DEF Proceed, Shape, Functions
<1>3. Spec => [](Shape /\ Genuine)
  BY ShapeInit, <1>1, PTL DEF Spec
<1>4. Spec => [][Step]_vars
  BY <1>2, <1>3, PTL DEF Spec
<1> QED BY <1>4 DEF ReplayExact
-----------------------------------------------------------------------------
(***************************************************************************)
(* The reference run and the resolution of cached results are recursive    *)
(* functions.  What they compute is shown by the least counterexample, for *)
(* which the library has a first-order theorem.                            *)
(***************************************************************************)
LEMMA LeastNat ==
  ASSUME NEW S \in SUBSET Nat, S # {}
  PROVE  \E n \in S : \A m \in S : n <= m
<1>1. IsWellFoundedOn(OpToRel(<, Nat), Nat)
  BY NatLessThanWellFounded
<1>2. PICK n \in S : \A m \in S : ~(<<m, n>> \in OpToRel(<, Nat))
  BY <1>1, WFMin
<1>3. \A m \in S : ~(m < n)
  BY <1>2 DEF OpToRel
<1> QED BY <1>3

Start == [obj |-> NewObject, omits |-> {}]

\* The equation of the reference run, for the first m runners.
Unrolled(s, run, m) ==
  run = [n \in 0..m |-> IF n = 0 THEN Start ELSE After(s[n], run[n - 1])]

\* Any number of runners can be run one after the other.
LEMMA RunExists ==
  ASSUME NEW s, NEW m \in Nat
  PROVE  \E run : Unrolled(s, run, m)
<1> DEFINE Bad == {n \in Nat : ~\E run : Unrolled(s, run, n)}
<1> SUFFICES ASSUME Bad # {} PROVE FALSE
  OBVIOUS
<1>1. PICK n \in Bad : \A j \in Bad : n <= j
  BY LeastNat
<1>2. CASE n = 0
  <2>1. Unrolled(s, [j \in 0..0 |-> Start], 0)
    BY DEF Unrolled
  <2> QED BY <1>2, <2>1
<1>3. CASE n # 0
  <2>1. n - 1 \in Nat /\ n - 1 \notin Bad
    BY <1>1, <1>3
  <2>2. PICK run : Unrolled(s, run, n - 1)
    BY <2>1
  <2> DEFINE longer == [j \in 0..n |-> IF j < n THEN run[j] ELSE After(s[n], run[n - 1])]
  <2>3. ASSUME NEW j \in 0..n
        PROVE  longer[j] = IF j = 0 THEN Start ELSE After(s[j], longer[j - 1])
    <3>1. CASE j = n
      <4>1. longer[j - 1] = run[n - 1] /\ longer[j] = After(s[n], run[n - 1]) /\ j # 0
        BY <2>1, <3>1, <1>3
      <4> QED BY <3>1, <4>1
    <3>2. CASE j # n
      <4>1. j \in 0..(n - 1) /\ longer[j] = run[j] /\ (j # 0 => longer[j - 1] = run[j - 1])
        BY <2>1, <3>2
      <4> QED BY <2>2, <4>1 DEF Unrolled
    <3> QED BY <3>1, <3>2
  <2>4. Unrolled(s, longer, n)
    BY <2>3 DEF Unrolled
  <2> QED BY <2>4
<1> QED BY <1>2, <1>3

LEMMA ReferenceRuns ==
  ASSUME NEW s, Len(s) \in Nat
  PROVE  /\ Reference(s)[0] = Start
         /\ \A n \in 1..Len(s) : Reference(s)[n] = After(s[n], Reference(s)[n - 1])
<1>1. PICK run : Unrolled(s, run, Len(s))
  BY RunExists
<1>2. Reference(s) = CHOOSE after : Unrolled(s, after, Len(s))
  BY DEF Reference, Unrolled, Start
<1>3. Unrolled(s, Reference(s), Len(s))
  BY <1>1, <1>2
<1> HIDE DEF Unrolled
<1>4. ASSUME NEW n \in 0..Len(s)
      PROVE  Reference(s)[n] = IF n = 0 THEN Start ELSE After(s[n], Reference(s)[n - 1])
  BY <1>3 DEF Unrolled
<1> QED BY <1>4

\* The runners that resolve while those of path are in process, if res has the
\* answers for longer paths.
ResolveOnce(cache, res, path) ==
  {f \in Filter \ path :
     /\ cache[f] # {}
     /\ \A r \in cache[f] : \A k \in DOMAIN r.inp :
          /\ r.inp[k] # Absent
          /\ \E g \in res[path \cup {f}] : \E q \in cache[g] :
               k \in DOMAIN q.out /\ q.out[k] = r.inp[k]}

ResolveAll(cache, res) == [path \in SUBSET Filter |-> ResolveOnce(cache, res, path)]

\* resolve() is well defined: more answers give more answers, so there is a
\* least set of them.
LEMMA ResolveExists ==
  ASSUME NEW cache
  PROVE  \E res : res = ResolveAll(cache, res)
<1> DEFINE Maps == [SUBSET Filter -> SUBSET Filter]
           Closed(m) == \A path \in SUBSET Filter : ResolveOnce(cache, m, path) \subseteq m[path]
           least == [path \in SUBSET Filter |->
                       {f \in Filter : \A m \in Maps : Closed(m) => f \in m[path]}]
           once == ResolveAll(cache, least)
<1>1. ASSUME NEW a \in Maps, NEW b \in Maps,
             \A path \in SUBSET Filter : a[path] \subseteq b[path]
      PROVE  \A path \in SUBSET Filter :
               ResolveOnce(cache, a, path) \subseteq ResolveOnce(cache, b, path)
  <2> SUFFICES ASSUME NEW path \in SUBSET Filter, NEW f \in ResolveOnce(cache, a, path)
               PROVE  f \in ResolveOnce(cache, b, path)
    OBVIOUS
  <2>1. f \in Filter /\ path \cup {f} \in SUBSET Filter
    BY DEF ResolveOnce
  <2>2. a[path \cup {f}] \subseteq b[path \cup {f}]
    BY <1>1, <2>1
  <2> QED BY <2>2 DEF ResolveOnce
<1>2. least \in Maps
  OBVIOUS
<1>3. once \in Maps
  BY DEF ResolveAll, ResolveOnce
<1>4. ASSUME NEW m \in Maps, Closed(m), NEW path \in SUBSET Filter
      PROVE  least[path] \subseteq m[path]
  BY <1>4
<1>5. ASSUME NEW path \in SUBSET Filter PROVE ResolveOnce(cache, least, path) \subseteq least[path]
  <2>1. ASSUME NEW m \in Maps, Closed(m) PROVE ResolveOnce(cache, least, path) \subseteq m[path]
    <3>1. ResolveOnce(cache, least, path) \subseteq ResolveOnce(cache, m, path)
      BY <1>1, <1>2, <1>4, <2>1
    <3>2. ResolveOnce(cache, m, path) \subseteq m[path]
      BY <2>1
    <3> QED BY <3>1, <3>2
  <2>2. ResolveOnce(cache, least, path) \subseteq Filter
    BY DEF ResolveOnce
  <2> QED BY <2>1, <2>2
<1>6. \A path \in SUBSET Filter : once[path] = ResolveOnce(cache, least, path)
  BY DEF ResolveAll
<1>7. Closed(once)
  <2>1. \A path \in SUBSET Filter : once[path] \subseteq least[path]
    BY <1>5, <1>6
  <2>2. \A path \in SUBSET Filter :
          ResolveOnce(cache, once, path) \subseteq ResolveOnce(cache, least, path)
    BY <1>1, <1>2, <1>3, <2>1
  <2> QED BY <1>6, <2>2
<1>8. \A path \in SUBSET Filter : least[path] \subseteq once[path]
  BY <1>3, <1>4, <1>7
<1>9. \A path \in SUBSET Filter : least[path] = once[path]
  BY <1>5, <1>6, <1>8
<1>10. least = once
  BY <1>2, <1>3, <1>9
<1> QED BY <1>10

LEMMA ResolvesRuns ==
  ASSUME NEW cache
  PROVE  \E res : res = ResolveAll(cache, res) /\ Resolves(cache) = res[{}]
<1> DEFINE res == CHOOSE res : res = ResolveAll(cache, res)
<1>1. res = ResolveAll(cache, res)
  BY ResolveExists
<1>2. Resolves(cache) = res[{}]
  BY DEF Resolves, ResolveAll, ResolveOnce
<1> QED BY <1>1, <1>2
-----------------------------------------------------------------------------
\* What running filter f does to the object, attribute by attribute.
LEMMA AfterEffect ==
  ASSUME NEW f \in Filter, NEW before, NEW k \in Key
  PROVE  After(f, before).obj[k] =
           IF k \in Out[f] THEN Run(f, before.obj).out[k] ELSE before.obj[k]
BY DEF After, Run, Result, Apply

\* A faithful result has the inputs and outputs of its filter.
LEMMA FaithfulDomains ==
  ASSUME NEW f, NEW r, Faithful(f, r)
  PROVE  DOMAIN r.inp = In[f] /\ DOMAIN r.out = Out[f]
<1>1. r.inp = [k \in In[f] |-> r.inp[k]] /\ r = Result(f, r.inp)
  BY DEF Faithful
<1>2. DOMAIN r.inp = In[f]
  BY <1>1
<1>3. r.out = Result(f, r.inp).out
  BY <1>1
<1>4. DOMAIN Result(f, r.inp).out = Out[f]
  BY DEF Result
<1> QED BY <1>2, <1>3, <1>4

\* An attribute keeps the value of the one runner that sets it.
LEMMA ValuePersists ==
  ASSUME NEW s \in Stacks, NEW j \in 1..Len(s), NEW k \in Out[s[j]],
         NEW m \in j..Len(s)
  PROVE  Reference(s)[m].obj[k] = Reference(s)[j].obj[k]
<1> DEFINE ref == Reference(s)
           Bad == {n \in Nat : n \in j..Len(s) /\ ref[n].obj[k] # ref[j].obj[k]}
<1>1. s \in Seq(Filter) /\ Len(s) \in Nat
  BY CacheAssumption
<1>2. \A n \in 1..Len(s) : ref[n] = After(s[n], ref[n - 1])
  BY <1>1, ReferenceRuns
<1> HIDE DEF ref
<1> SUFFICES ASSUME Bad # {} PROVE FALSE
  BY <1>1 DEF ref
<1>3. PICK n \in Bad : \A i \in Bad : n <= i
  BY LeastNat
<1>4. n # j /\ n \in 1..Len(s) /\ n - 1 \in j..Len(s) /\ n - 1 \in Nat
  BY <1>1, <1>3
<1>5. ref[n - 1].obj[k] = ref[j].obj[k]
  BY <1>3, <1>4
<1>6. s[n] \in Filter /\ s[j] \in Filter /\ k \in Key /\ k \notin Out[s[n]]
  BY <1>1, <1>4, CacheAssumption, StacksAssumption
<1>7. ref[n].obj[k] = ref[n - 1].obj[k]
  <2>1. ref[n] = After(s[n], ref[n - 1])
    BY <1>2, <1>4
  <2>2. After(s[n], ref[n - 1]).obj[k] = ref[n - 1].obj[k]
    BY <1>6, AfterEffect
  <2> QED BY <2>1, <2>2
<1> QED BY <1>3, <1>5, <1>7

\* The cached result of a runner that resolves is the one it has in the
\* reference run.
LEMMA ResolvedIsReference ==
  ASSUME NEW s \in Stacks, NEW cache, NEW res, res = ResolveAll(cache, res),
         \A f \in Filter : \A r \in cache[f] : Faithful(f, r),
         \A f \in Filter : cache[f] # {} => \E i \in 1..Len(s) : f = s[i],
         NEW i \in 1..Len(s), NEW path \in SUBSET Filter, s[i] \in res[path],
         NEW r \in cache[s[i]]
  PROVE  r = Run(s[i], Reference(s)[i - 1].obj)
<1> DEFINE ref == Reference(s)
           Right(n) == \A P \in SUBSET Filter : s[n] \in res[P] =>
                         \A q \in cache[s[n]] : q = Run(s[n], ref[n - 1].obj)
           Bad == {n \in Nat : n \in 1..Len(s) /\ ~Right(n)}
<1>1. s \in Seq(Filter) /\ Len(s) \in Nat
  BY CacheAssumption
<1>2. \A n \in 1..Len(s) : ref[n] = After(s[n], ref[n - 1]) /\ s[n] \in Filter
  <2>1. \A n \in 1..Len(s) : s[n] \in Filter
    BY <1>1
  <2>2. \A n \in 1..Len(s) : ref[n] = After(s[n], ref[n - 1])
    BY <1>1, ReferenceRuns
  <2> QED BY <2>1, <2>2
<1>3. \A P \in SUBSET Filter : res[P] = ResolveOnce(cache, res, P)
  BY DEF ResolveAll
<1> HIDE DEF ref
<1> SUFFICES ASSUME Bad # {} PROVE FALSE
  <2>1. i \in Nat
    BY <1>1
  <2> QED BY <2>1 DEF ref
<1>4. PICK n \in Bad : \A m \in Bad : n <= m
  BY LeastNat
<1>5. n \in 1..Len(s)
  BY <1>4
<1>6. PICK P \in SUBSET Filter, q \in cache[s[n]] :
        s[n] \in res[P] /\ q # Run(s[n], ref[n - 1].obj)
  BY <1>4
<1> DEFINE f == s[n]
<1>7. f \in Filter /\ Faithful(f, q) /\ DOMAIN q.inp = In[f]
  <2>1. f \in Filter /\ Faithful(f, q)
    BY <1>2, <1>5, <1>6
  <2> QED BY <2>1, FaithfulDomains
<1>8. ASSUME NEW k \in DOMAIN q.inp PROVE ref[n - 1].obj[k] = q.inp[k]
  <2>1. PICK g \in res[P \cup {f}] : \E w \in cache[g] :
          k \in DOMAIN w.out /\ w.out[k] = q.inp[k]
    <3>1. s[n] \in ResolveOnce(cache, res, P)
      BY <1>3, <1>6
    <3> QED BY <1>6, <1>8, <3>1 DEF ResolveOnce
  <2>2. PICK w \in cache[g] : k \in DOMAIN w.out /\ w.out[k] = q.inp[k]
    BY <2>1
  <2>3. P \cup {f} \in SUBSET Filter /\ g \in Filter /\ g # f /\ cache[g] # {}
    <3>1. P \cup {f} \in SUBSET Filter
      BY <1>7
    <3>2. g \in ResolveOnce(cache, res, P \cup {f})
      BY <1>3, <2>1, <3>1
    <3> QED BY <3>1, <3>2 DEF ResolveOnce
  <2>4. PICK j \in 1..Len(s) : g = s[j]
    BY <2>3
  <2>5. Faithful(g, w) /\ k \in Out[g]
    <3>1. Faithful(g, w)
      BY <2>2, <2>3
    <3> QED BY <2>2, <3>1, FaithfulDomains
  <2>6. j < n
    <3>1. j # n /\ ~(n < j)
      BY <1>5, <1>7, <1>8, <2>3, <2>4, <2>5, StacksAssumption
    <3> QED BY <1>1, <1>5, <3>1
  <2>7. w = Run(g, ref[j - 1].obj)
    <3>1. j \notin Bad /\ j \in Nat
      BY <1>4, <1>5, <2>6
    <3> QED BY <2>1, <2>2, <2>3, <2>4, <3>1
  <2>8. ref[j].obj[k] = w.out[k]
    <3>1. k \in Key
      BY <2>3, <2>5, CacheAssumption
    <3>2. ref[j] = After(g, ref[j - 1])
      BY <1>2, <2>4
    <3>3. After(g, ref[j - 1]).obj[k] = Run(g, ref[j - 1].obj).out[k]
      BY <2>3, <2>5, <3>1, AfterEffect
    <3> QED BY <2>7, <3>2, <3>3
  <2>9. n - 1 \in j..Len(s)
    BY <1>1, <1>5, <2>6
  <2>10. ref[n - 1].obj[k] = ref[j].obj[k]
    BY <2>4, <2>5, <2>9, ValuePersists DEF ref
  <2> QED BY <2>2, <2>8, <2>10
<1>9. q = Run(f, ref[n - 1].obj)
  BY <1>7, <1>8, ReplayIsRun
<1> QED BY <1>6, <1>9
-----------------------------------------------------------------------------
(***************************************************************************)
(* The decisions.                                                          *)
(***************************************************************************)

\* The score of the i-th runner in the reference run passes the threshold.
Passes(s, pass, i) == Run(s[i], Reference(s)[i - 1].obj).score \in pass[s[i]]
AllPass(s, pass) == \A i \in 1..Len(s) : Passes(s, pass, i)

\* Unless an object was loaded on top of the rest of another, the fetcher's
\* results are faithful too.
FetcherGenuine ==
  ~spoilt =>
    /\ \A r \in results[Fetcher] : Faithful(Fetcher, r)
    /\ \A p \in Proc : \A r \in cached[p][Fetcher] \cup fresh[p][Fetcher] :
         Faithful(Fetcher, r)

\* The object is as it is in the reference run after n runners.
At(p, n) ==
  /\ obj[p] = Reference(stack[p])[n].obj
  /\ omits[p] = Reference(stack[p])[n].omits

\* Worker p is where the reference run is, and what it has decided is right.
WorkerRight(p) ==
  /\ pc[p] \in {"idle", "lookup"} =>
       /\ obj[p] = NewObject /\ omits[p] = {} /\ next[p] = 1 /\ verdict[p] = "none"
  /\ pc[p] # "idle" => stack[p] \in Stacks
  /\ pc[p] = "run" =>
       /\ verdict[p] = "none" /\ At(p, next[p] - 1)
       /\ \A i \in 1..(next[p] - 1) : Passes(stack[p], passing[p], i)
  /\ pc[p] = "update" =>
       /\ verdict[p] \in {"accept", "drop", "lost"}
       /\ verdict[p] = "accept" =>
            AllPass(stack[p], passing[p]) /\ At(p, Len(stack[p]))
       /\ verdict[p] = "drop" => ~AllPass(stack[p], passing[p])
  /\ pc[p] = "dropped" => verdict[p] = "drop" /\ ~AllPass(stack[p], passing[p])

WorkersRight == ~spoilt => \A p \in Proc : WorkerRight(p)

WorkFunctions ==
  /\ passing = [p \in Proc |-> passing[p]] /\ verdict = [p \in Proc |-> verdict[p]]

DecisionInv == Shape /\ WorkFunctions /\ Genuine /\ FetcherGenuine /\ WorkersRight

LEMMA WorkFunctionsStep ==
  ASSUME WorkFunctions, [Next]_vars PROVE WorkFunctions'
BY DEF WorkFunctions, Next, vars, workVars, Begin, Lookup, Load, Evaluate, Fetch,
       FetchFails, FilterFails, Update, ReturnDrop, Evict, Forget, Proceed

\* Nothing takes back that an object was spoilt.
LEMMA SpoiltStep ==
  ASSUME [Next]_vars, ~spoilt' PROVE ~spoilt
BY Zenon DEF Next, vars, workVars, Begin, Lookup, Load, Evaluate, Fetch,
       FetchFails, FilterFails, Update, ReturnDrop, Evict, Forget, Proceed

\* What the fetcher returns without a rest of another transfer.
LEMMA FetchClean ==
  ASSUME NEW p \in Proc, Fetch(p), ~spoilt'
  PROVE  LET r == Run(Fetcher, obj[p]) IN
           Proceed(p, r) /\ fresh' = [fresh EXCEPT ![p][Fetcher] = {r}]
<1>1. ~residue[p]
  BY Zenon DEF Fetch
<1> QED BY <1>1, Zenon DEF Fetch

LEMMA FetcherGenuineStep ==
  ASSUME Shape, FetcherGenuine, [Next]_vars PROVE FetcherGenuine'
<1> SUFFICES ASSUME ~spoilt' PROVE FetcherGenuine'
  BY DEF FetcherGenuine
<1> DEFINE Good == /\ \A r \in results[Fetcher] : Faithful(Fetcher, r)
                   /\ \A p \in Proc : \A r \in cached[p][Fetcher] \cup fresh[p][Fetcher] :
                        Faithful(Fetcher, r)
<1>0. Good
  BY SpoiltStep DEF FetcherGenuine
<1> SUFFICES Good'
  BY DEF FetcherGenuine
<1> USE CacheAssumption DEF Shape, Functions
<1>1. CASE UNCHANGED vars
  BY <1>0, <1>1 DEF vars, workVars
<1>2. ASSUME NEW p \in Proc, Begin(p) \/ Load(p) \/ FetchFails(p) \/ FilterFails(p)
      PROVE  Good'
  <2>1. UNCHANGED <<results, cached, fresh>>
    BY <1>2 DEF Begin, Load, FetchFails, FilterFails
  <2> QED BY <1>0, <2>1
<1>3. ASSUME NEW p \in Proc, Lookup(p) PROVE Good'
  <2>1. /\ UNCHANGED <<results, fresh>>
        /\ cached' = [cached EXCEPT ![p] =
             [f \in Filter |-> IF f \in Runners(p) THEN results[f] ELSE {}]]
    BY <1>3 DEF Lookup
  <2> QED BY <1>0, <2>1
<1>4. ASSUME NEW p \in Proc, Evaluate(p) PROVE Good'
  <2>1. Current(p) # Fetcher /\ UNCHANGED <<results, cached>>
    BY <1>4 DEF Evaluate
  <2>2. \E r : fresh' = [fresh EXCEPT ![p][Current(p)] = {r}]
    BY <1>4 DEF Evaluate
  <2> QED BY <1>0, <2>1, <2>2
<1>5. ASSUME NEW p \in Proc, Fetch(p) PROVE Good'
  <2>1. UNCHANGED <<results, cached>>
    BY <1>5 DEF Fetch
  <2>2. fresh' = [fresh EXCEPT ![p][Fetcher] = {Run(Fetcher, obj[p])}]
    BY <1>5, FetchClean
  <2>3. Faithful(Fetcher, Run(Fetcher, obj[p]))
    BY RunFaithful
  <2> QED BY <1>0, <2>1, <2>2, <2>3
<1>6. ASSUME NEW p \in Proc, Forget(p),
             \A f \in Filter : results'[f] \in {results[f], fresh[p][f]}
      PROVE  Good'
  <2>1. /\ cached' = [cached EXCEPT ![p] = NoResults]
        /\ fresh' = [fresh EXCEPT ![p] = NoResults]
    BY <1>6 DEF Forget
  <2> QED BY <1>0, <1>6, <2>1 DEF NoResults
<1>7. ASSUME NEW p \in Proc, Update(p) PROVE Good'
  BY <1>6, <1>7 DEF Update
<1>8. ASSUME NEW p \in Proc, ReturnDrop(p) PROVE Good'
  BY <1>6, <1>8 DEF ReturnDrop
<1>9. CASE Evict
  <2>1. UNCHANGED <<cached, fresh>> /\ \A f \in Filter : results'[f] \subseteq results[f]
    BY <1>9 DEF Evict, workVars
  <2> QED BY <1>0, <2>1
<1> QED
  BY <1>1, <1>2, <1>3, <1>4, <1>5, <1>7, <1>8, <1>9 DEF Next
\* Nothing of worker q has changed.
SameWorker(q) ==
  /\ pc'[q] = pc[q] /\ stack'[q] = stack[q] /\ passing'[q] = passing[q]
  /\ next'[q] = next[q] /\ obj'[q] = obj[q] /\ omits'[q] = omits[q]
  /\ verdict'[q] = verdict[q]

LEMMA SameWorkerRight ==
  ASSUME NEW q \in Proc, WorkerRight(q), SameWorker(q) PROVE WorkerRight(q)'
BY DEF WorkerRight, SameWorker, At

\* A step of p leaves the other workers alone.
LEMMA OthersSame ==
  ASSUME Shape, WorkFunctions, NEW p \in Proc, NEW q \in Proc, p # q,
         Begin(p) \/ Lookup(p) \/ Load(p) \/ Evaluate(p) \/ Fetch(p)
           \/ FetchFails(p) \/ FilterFails(p) \/ Update(p) \/ ReturnDrop(p)
  PROVE  SameWorker(q)
<1> USE DEF Shape, Functions, WorkFunctions, SameWorker
<1>1. CASE Begin(p)
  BY <1>1 DEF Begin
<1>2. CASE Lookup(p)
  BY <1>2 DEF Lookup
<1>3. ASSUME NEW r, Proceed(p, r), UNCHANGED <<stack, passing>> PROVE SameWorker(q)
  BY <1>3 DEF Proceed
<1>4. CASE Load(p) \/ Evaluate(p) \/ Fetch(p)
  BY <1>3, <1>4 DEF Load, Evaluate, Fetch
<1>5. CASE FetchFails(p) \/ FilterFails(p)
  BY <1>5 DEF FetchFails, FilterFails
<1>6. CASE Update(p) \/ ReturnDrop(p)
  BY <1>6 DEF Update, ReturnDrop, Forget
<1> QED BY <1>1, <1>2, <1>4, <1>5, <1>6

\* A worker that goes on with what its runner makes of the object keeps step
\* with the reference run, and decides as that does.
LEMMA ProceedRight ==
  ASSUME Shape, WorkFunctions, NEW p \in Proc, pc[p] = "run", WorkerRight(p),
         NEW r, r = Run(Current(p), obj[p]), Proceed(p, r),
         UNCHANGED <<stack, passing>>
  PROVE  WorkerRight(p)'
<1> DEFINE s == stack[p]
           n == next[p]
           ref == Reference(s)
           ok == r.score \in passing[p][s[n]]
<1>1. s \in Stacks /\ n \in 1..Len(s) /\ Len(s) \in Nat
  BY CacheAssumption DEF Shape, InStack
<1>2. ref[n] = After(s[n], ref[n - 1])
  BY <1>1, ReferenceRuns
<1>3. /\ obj[p] = ref[n - 1].obj /\ omits[p] = ref[n - 1].omits
      /\ \A i \in 1..(n - 1) : Passes(s, passing[p], i)
  BY DEF WorkerRight, At
<1>4. r = Run(s[n], ref[n - 1].obj)
  BY <1>3 DEF Current
<1>5. ok <=> Passes(s, passing[p], n)
  BY <1>4 DEF Passes
<1>6. obj'[p] = ref[n].obj /\ omits'[p] = ref[n].omits
  <2>1. obj'[p] = Apply(obj[p], r) /\ omits'[p] = omits[p] \cup r.omit
    BY DEF Proceed, Shape, Functions
  <2> QED BY <1>2, <1>3, <1>4, <2>1 DEF After
<1>7. /\ pc'[p] = (IF ok /\ n # Len(s) THEN "run" ELSE "update")
      /\ next'[p] = (IF ok /\ n # Len(s) THEN n + 1 ELSE n)
      /\ verdict'[p] = (IF ~ok THEN "drop" ELSE IF n = Len(s) THEN "accept" ELSE "none")
  BY DEF Proceed, Shape, Functions, WorkFunctions, Current
<1>8. stack'[p] = s /\ passing'[p] = passing[p]
  OBVIOUS
<1> HIDE DEF s, n, ref, ok
<1>9. CASE ~ok
  <2>1. ~AllPass(s, passing[p])
    BY <1>1, <1>5, <1>9 DEF AllPass
  <2> QED BY <1>1, <1>7, <1>8, <1>9, <2>1 DEF WorkerRight
<1>10. CASE ok /\ n = Len(s)
  <2>1. AllPass(s, passing[p])
    BY <1>1, <1>3, <1>5, <1>10 DEF AllPass
  <2>2. At(p, Len(stack[p]))'
    BY <1>6, <1>8, <1>10 DEF At, ref
  <2> QED BY <1>1, <1>7, <1>8, <1>10, <2>1, <2>2 DEF WorkerRight
<1>11. CASE ok /\ n # Len(s)
  <2>1. pc'[p] = "run" /\ next'[p] = n + 1 /\ verdict'[p] = "none"
    BY <1>7, <1>11
  <2>2. (n + 1) - 1 = n
    BY <1>1
  <2>3. At(p, next[p] - 1)'
    BY <1>6, <1>8, <2>1, <2>2 DEF At, ref
  <2>4. \A i \in 1..n : Passes(s, passing[p], i)
    BY <1>1, <1>3, <1>5, <1>11
  <2> QED BY <1>1, <1>8, <2>1, <2>2, <2>3, <2>4 DEF WorkerRight
<1> QED BY <1>9, <1>10, <1>11

\* What the cached results of the runners of a stack may drop, the reference
\* run of the stack drops.
LEMMA CachedDropRight ==
  ASSUME NEW s \in Stacks, NEW cache, NEW pass,
         \A f \in Filter : \A r \in cache[f] : Faithful(f, r),
         \A f \in Filter : cache[f] # {} => \E i \in 1..Len(s) : f = s[i],
         CanDrop(cache, pass)
  PROVE  ~AllPass(s, pass)
<1>1. PICK res : res = ResolveAll(cache, res) /\ Resolves(cache) = res[{}]
  BY ResolvesRuns
<1>2. PICK f \in res[{}] : \E r \in cache[f] : r.score \notin pass[f]
  BY <1>1 DEF CanDrop
<1>3. PICK r \in cache[f] : r.score \notin pass[f]
  BY <1>2
<1>4. f \in Filter
  <2>1. res[{}] = ResolveOnce(cache, res, {})
    BY <1>1 DEF ResolveAll
  <2> QED BY <1>2, <2>1 DEF ResolveOnce
<1>5. PICK i \in 1..Len(s) : f = s[i]
  BY <1>3, <1>4
<1>6. r = Run(s[i], Reference(s)[i - 1].obj)
  <2>1. {} \in SUBSET Filter /\ s[i] \in res[{}] /\ r \in cache[s[i]]
    BY <1>2, <1>3, <1>5
  <2> QED BY <1>1, <2>1, ResolvedIsReference
<1> QED BY <1>3, <1>5, <1>6 DEF AllPass, Passes

LEMMA WorkersRightStep ==
  ASSUME DecisionInv, [Next]_vars PROVE WorkersRight'
<1> SUFFICES ASSUME ~spoilt' PROVE \A p \in Proc : WorkerRight(p)'
  BY DEF WorkersRight
<1>0. ~spoilt /\ \A p \in Proc : WorkerRight(p)
  BY SpoiltStep DEF DecisionInv, WorkersRight
<1> USE DEF DecisionInv
<1>1. CASE \A q \in Proc : SameWorker(q)
  BY <1>0, <1>1, SameWorkerRight
<1>2. ASSUME NEW p \in Proc, WorkerRight(p)',
             Begin(p) \/ Lookup(p) \/ Load(p) \/ Evaluate(p) \/ Fetch(p)
               \/ FetchFails(p) \/ FilterFails(p) \/ Update(p) \/ ReturnDrop(p)
      PROVE  \A q \in Proc : WorkerRight(q)'
  BY <1>0, <1>2, OthersSame, SameWorkerRight
<1>3. CASE UNCHANGED vars \/ Evict
  BY <1>1, <1>3 DEF vars, workVars, Evict, SameWorker
<1>4. ASSUME NEW p \in Proc, Begin(p) PROVE WorkerRight(p)'
  <2>1. /\ pc[p] = "idle" /\ pc'[p] = "lookup" /\ stack'[p] \in Stacks
        /\ UNCHANGED <<obj, omits, next, verdict>>
    BY <1>4 DEF Begin, Shape, Functions
  <2> QED BY <1>0, <2>1 DEF WorkerRight
<1>5. ASSUME NEW p \in Proc, Lookup(p) PROVE WorkerRight(p)'
  <2> DEFINE cache == [f \in Filter |-> IF f \in Runners(p) THEN results[f] ELSE {}]
  <2>1. /\ pc[p] = "lookup" /\ UNCHANGED <<obj, omits, next, stack, passing>>
        /\ cached'[p] = cache
    BY <1>5 DEF Lookup, Shape, Functions
  <2>2. stack[p] \in Stacks /\ Len(stack[p]) \in Nat
    BY <2>1, CacheAssumption DEF Shape, InStack
  <2>3. CASE CanDrop(cached'[p], passing[p])
    <3>1. pc'[p] = "dropped" /\ verdict'[p] = "drop"
      BY <1>5, <2>3 DEF Lookup, Shape, Functions, WorkFunctions
    <3>2. ~AllPass(stack[p], passing[p])
      <4>1. \A f \in Filter : \A r \in cache[f] : Faithful(f, r)
        BY <1>0 DEF Genuine, FetcherGenuine
      <4>2. \A f \in Filter : cache[f] # {} => \E i \in 1..Len(stack[p]) : f = stack[p][i]
        BY DEF Runners
      <4>3. CanDrop(cache, passing[p])
        BY <2>1, <2>3
      <4> HIDE DEF cache
      <4> QED BY <2>2, <4>1, <4>2, <4>3, CachedDropRight
    <3> QED BY <2>1, <2>2, <3>1, <3>2 DEF WorkerRight
  <2>4. CASE ~CanDrop(cached'[p], passing[p])
    <3>1. pc'[p] = "run" /\ verdict' = verdict
      BY <1>5, <2>4 DEF Lookup, Shape, Functions
    <3>2. obj[p] = NewObject /\ omits[p] = {} /\ next[p] = 1 /\ verdict[p] = "none"
      BY <1>0, <2>1 DEF WorkerRight
    <3>3. Reference(stack[p])[0] = Start
      BY <2>2, ReferenceRuns
    <3>4. At(p, next[p] - 1)'
      BY <2>1, <3>2, <3>3 DEF At, Start
    <3>5. 1..(next[p] - 1) = {}
      BY <3>2
    <3> QED BY <2>1, <2>2, <3>1, <3>2, <3>4, <3>5 DEF WorkerRight
  <2> QED BY <2>3, <2>4
<1>6. ASSUME NEW p \in Proc, Load(p) PROVE WorkerRight(p)'
  <2>1. pc[p] = "run" /\ UNCHANGED <<stack, passing>>
    BY <1>6 DEF Load
  <2>2. Current(p) \in Filter
    BY <2>1, CurrentIsFilter
  <2>3. PICK r \in cached[p][Current(p)] : Proceed(p, r)
    BY <1>6 DEF Load
  <2>4. Faithful(Current(p), r)
    BY <1>0, <2>2, <2>3 DEF Genuine, FetcherGenuine
  <2>5. \A k \in DOMAIN r.inp : obj[p][k] = r.inp[k]
    BY <1>6, <2>3 DEF Load, Loadable
  <2>6. r = Run(Current(p), obj[p])
    BY <2>4, <2>5, ReplayIsRun
  <2> QED BY <1>0, <2>1, <2>3, <2>6, ProceedRight
<1>7. ASSUME NEW p \in Proc, Evaluate(p) PROVE WorkerRight(p)'
  <2>1. /\ pc[p] = "run" /\ UNCHANGED <<stack, passing>>
        /\ Proceed(p, Run(Current(p), obj[p]))
    BY <1>7 DEF Evaluate
  <2> QED BY <1>0, <2>1, ProceedRight
<1>8. ASSUME NEW p \in Proc, Fetch(p) PROVE WorkerRight(p)'
  <2>1. pc[p] = "run" /\ UNCHANGED <<stack, passing>> /\ Current(p) = Fetcher
    BY <1>8 DEF Fetch
  <2>2. Proceed(p, Run(Current(p), obj[p]))
    BY <1>8, <2>1, FetchClean
  <2> QED BY <1>0, <2>1, <2>2, ProceedRight
<1>9. ASSUME NEW p \in Proc, FetchFails(p) \/ FilterFails(p) PROVE WorkerRight(p)'
  <2>1. /\ pc[p] = "run" /\ pc'[p] = "update" /\ verdict'[p] = "lost"
        /\ UNCHANGED <<stack, passing>>
    BY <1>9 DEF FetchFails, FilterFails, Shape, Functions, WorkFunctions
  <2> QED BY <1>0, <2>1 DEF WorkerRight
<1>10. ASSUME NEW p \in Proc, Update(p) \/ ReturnDrop(p) PROVE WorkerRight(p)'
  <2>1. /\ pc'[p] = "idle" /\ next'[p] = 1 /\ obj'[p] = NewObject
        /\ omits'[p] = {} /\ verdict'[p] = "none"
    BY <1>10 DEF Update, ReturnDrop, Forget, Shape, Functions, WorkFunctions
  <2> QED BY <2>1 DEF WorkerRight
<1> QED
  BY <1>2, <1>3, <1>4, <1>5, <1>6, <1>7, <1>8, <1>9, <1>10 DEF Next

LEMMA DecisionInvariant == Spec => []DecisionInv
<1>1. Init => DecisionInv
  <2> SUFFICES ASSUME Init PROVE DecisionInv
    OBVIOUS
  <2>1. WorkFunctions
    BY DEF Init, WorkFunctions
  <2>2. FetcherGenuine
    BY CacheAssumption DEF Init, FetcherGenuine, NoResults
  <2>3. WorkersRight
    BY DEF Init, WorkersRight, WorkerRight
  <2> QED BY ShapeInit, <2>1, <2>2, <2>3 DEF DecisionInv
<1>2. DecisionInv /\ [Next]_vars => DecisionInv'
  BY ShapeStep, WorkFunctionsStep, GenuineStep, FetcherGenuineStep, WorkersRightStep
     DEF DecisionInv
<1> QED BY <1>1, <1>2, PTL DEF Spec

\* For every set of filters, stacks, thresholds and workers, whatever the
\* filters compute and whatever was evicted: with the caches an object is
\* accepted just when running the whole stack without them accepts it, with the
\* same attributes, unless its data was loaded on top of the rest of another
\* transfer (DecisionRight).
THEOREM DecisionRightCorrect == Spec => []DecisionRight
<1>1. DecisionInv => DecisionRight
  <2> SUFFICES ASSUME DecisionInv, NEW p \in Proc,
                      verdict[p] \in {"accept", "drop"}, ~spoilt
               PROVE  LET s == stack[p]
                          ref == Reference(s)
                          accepted == \A i \in 1..Len(s) :
                            Run(s[i], ref[i - 1].obj).score \in passing[p][s[i]]
                      IN  /\ verdict[p] = "accept" <=> accepted
                          /\ accepted => obj[p] = ref[Len(s)].obj
                                         /\ omits[p] = ref[Len(s)].omits
    BY DEF DecisionRight
  <2>1. WorkerRight(p)
    BY DEF DecisionInv, WorkersRight
  <2>2. pc[p] \in {"update", "dropped"}
    BY <2>1 DEF WorkerRight, DecisionInv, Shape, InStack
  <2>3. /\ verdict[p] = "accept" <=> AllPass(stack[p], passing[p])
        /\ AllPass(stack[p], passing[p]) => At(p, Len(stack[p]))
    BY <2>1, <2>2 DEF WorkerRight
  <2> QED BY <2>3 DEF AllPass, Passes, At
<1> QED BY <1>1, DecisionInvariant, PTL
=============================================================================
