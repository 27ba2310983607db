---------------------------- MODULE Proxy_proof ----------------------------
(***************************************************************************)
(* Proofs about the search proxy, for every set of servers, objects and    *)
(* training examples and any number of trainings.                          *)
(***************************************************************************)
EXTENDS Proxy, FiniteSetTheorems, WellFoundedInduction, TLAPS

(***************************************************************************)
(* The training examples                                                   *)
(***************************************************************************)

\* A non-empty set of numbers has a least one.
LEMMA LeastNat ==
  ASSUME NEW S \in SUBSET Nat, S # {} PROVE \E n \in S : \A m \in S : n <= m
<1>1. IsWellFoundedOn(OpToRel(<, Nat), Nat)
  BY NatLessThanWellFounded
<1>2. PICK n \in S : \A m \in S : ~(<<m, n>> \in OpToRel(<, Nat))
  BY <1>1, WFMin
<1>3. \A m \in S : ~(m < n)
  BY <1>2 DEF OpToRel
<1> QED BY <1>3

\* run has the lists after each of the first m examples of order.
Unrolled(lists, order, f, run, m) ==
  run = [i \in 0..m |-> IF i = 0 THEN lists ELSE AddItem(run[i - 1], order[i], f + i)]

LEMMA UnrolledExists ==
  ASSUME NEW lists, NEW order, NEW f, NEW m \in Nat
  PROVE  \E run : Unrolled(lists, order, f, run, m)
<1> DEFINE Bad == {n \in Nat : ~\E run : Unrolled(lists, order, f, run, n)}
<1> SUFFICES ASSUME Bad # {} PROVE FALSE
  OBVIOUS
<1>1. PICK n \in Bad : \A j \in Bad : n <= j
  BY LeastNat
<1>2. CASE n = 0
  <2>1. Unrolled(lists, order, f, [j \in 0..0 |-> lists], 0)
    BY DEF Unrolled
  <2> QED BY <1>2, <2>1
<1>3. CASE n # 0
  <2>1. n - 1 \in Nat /\ n - 1 \notin Bad
    BY <1>1, <1>3
  <2>2. PICK run : Unrolled(lists, order, f, run, n - 1)
    BY <2>1
  <2> DEFINE longer == [j \in 0..n |->
               IF j < n THEN run[j] ELSE AddItem(run[n - 1], order[n], f + n)]
  <2>3. ASSUME NEW j \in 0..n
        PROVE  longer[j] = IF j = 0 THEN lists ELSE AddItem(longer[j - 1], order[j], f + j)
    <3>1. CASE j = n
      <4>1. /\ longer[j - 1] = run[n - 1] /\ j # 0
            /\ longer[j] = AddItem(run[n - 1], order[n], f + n)
        BY <2>1, <3>1, <1>3
      <4> QED BY <3>1, <4>1
    <3>2. CASE j # n
      <4>1. j \in 0..(n - 1) /\ longer[j] = run[j] /\ (j # 0 => longer[j - 1] = run[j - 1])
        BY <2>1, <3>2
      <4> QED BY <2>2, <4>1 DEF Unrolled
    <3> QED BY <3>1, <3>2
  <2>4. Unrolled(lists, order, f, longer, n)
    BY <2>3 DEF Unrolled
  <2> QED BY <2>4
<1> QED BY <1>2, <1>3

\* What AddInOrder() computes, example by example.
LEMMA AddInOrderRuns ==
  ASSUME NEW lists, NEW order, NEW f, Len(order) \in Nat
  PROVE  \E run : /\ run[0] = lists
                  /\ \A n \in 1..Len(order) : run[n] = AddItem(run[n - 1], order[n], f + n)
                  /\ AddInOrder(lists, order, f) = run[Len(order)]
<1> DEFINE run == CHOOSE run : Unrolled(lists, order, f, run, Len(order))
<1>1. Unrolled(lists, order, f, run, Len(order))
  BY UnrolledExists
<1>2. AddInOrder(lists, order, f) = run[Len(order)]
  BY DEF AddInOrder, Unrolled
<1> HIDE DEF run
<1>3. ASSUME NEW n \in 0..Len(order)
      PROVE  run[n] = IF n = 0 THEN lists ELSE AddItem(run[n - 1], order[n], f + n)
  BY <1>1 DEF Unrolled
<1> QED BY <1>2, <1>3

\* The names and features of a list stand side by side, no name twice.
ListOK(list) ==
  /\ list.names \in Seq(Example) /\ list.features \in Seq(Nat)
  /\ Len(list.names) = Len(list.features)
  /\ \A i, j \in 1..Len(list.names) : list.names[i] = list.names[j] => i = j

\* The list has just the names that were sent, with the feature sent last.
Holds(list, last) ==
  \A n \in Example :
    IF last[n] = 0 THEN \A i \in 1..Len(list.names) : list.names[i] # n
    ELSE \E i \in 1..Len(list.names) : list.names[i] = n /\ list.features[i] = last[n]

ListInv(list, last) == ListOK(list) /\ Holds(list, last)

\* Position() finds the one place of a name.
LEMMA PositionRight ==
  ASSUME NEW list, ListOK(list), NEW i \in 1..Len(list.names)
  PROVE  Position(list.names, list.names[i]) = i
<1> DEFINE P == Position(list.names, list.names[i])
<1>1. DOMAIN list.names = 1..Len(list.names)
  BY DEF ListOK
<1>2. P \in DOMAIN list.names /\ list.names[P] = list.names[i]
  BY <1>1 DEF Position
<1> QED BY <1>1, <1>2 DEF ListOK

\* ItemList.add(): the feature of this name is the new one, no other changes.
LEMMA AddRight ==
  ASSUME NEW list, NEW last \in [Example -> Nat], ListInv(list, last),
         NEW n \in Example, NEW f \in Nat \ {0}
  PROVE  ListInv(Add(list, n, f), [last EXCEPT ![n] = f])
<1> DEFINE new == Add(list, n, f)
           after == [last EXCEPT ![n] = f]
           len == Len(list.names)
<1>1. /\ list.names \in Seq(Example) /\ list.features \in Seq(Nat)
      /\ len \in Nat /\ Len(list.features) = len
      /\ DOMAIN list.names = 1..len /\ DOMAIN list.features = 1..len
      /\ \A i, j \in 1..len : list.names[i] = list.names[j] => i = j
  BY DEF ListInv, ListOK
<1>2. \A m \in Example : m # n => after[m] = last[m]
  OBVIOUS
<1>3. after[n] = f /\ f # 0
  OBVIOUS
<1>4. CASE n \in Range(list.names)
  <2>1. PICK i \in 1..len : list.names[i] = n
    BY <1>1, <1>4 DEF Range
  <2>2. Position(list.names, n) = i
    BY <2>1, PositionRight DEF ListInv
  <2>3. new.names = list.names /\ new.features = [list.features EXCEPT ![i] = f]
    BY <1>4, <2>2 DEF Add
  <2>4. /\ new.features \in Seq(Nat) /\ Len(new.features) = len
        /\ new.features[i] = f
        /\ \A j \in 1..len : j # i => new.features[j] = list.features[j]
    BY <1>1, <2>1, <2>3
  <2>5. ListOK(new)
    BY <1>1, <2>3, <2>4 DEF ListOK
  <2>6. Holds(new, after)
    <3> SUFFICES ASSUME NEW m \in Example
                 PROVE  IF after[m] = 0 THEN \A j \in 1..len : list.names[j] # m
                        ELSE \E j \in 1..len : list.names[j] = m /\ new.features[j] = after[m]
      BY <2>3 DEF Holds
    <3>1. CASE m = n
      BY <1>3, <2>1, <2>4, <3>1
    <3>2. CASE m # n
      <4>1. after[m] = last[m]
        BY <1>2, <3>2
      <4>2. \A j \in 1..len : list.names[j] = m => new.features[j] = list.features[j]
        BY <2>1, <2>4, <3>2
      <4>3. IF last[m] = 0 THEN \A j \in 1..len : list.names[j] # m
            ELSE \E j \in 1..len : list.names[j] = m /\ list.features[j] = last[m]
        BY DEF ListInv, Holds
      <4> HIDE DEF new, after, len
      <4> QED BY <4>1, <4>2, <4>3
    <3> QED BY <3>1, <3>2
  <2> QED BY <2>5, <2>6 DEF ListInv
<1>5. CASE n \notin Range(list.names)
  <2>1. \A i \in 1..len : list.names[i] # n
    BY <1>1, <1>5 DEF Range
  <2>2. new.names = Append(list.names, n) /\ new.features = Append(list.features, f)
    BY <1>5 DEF Add
  <2>3. /\ new.names \in Seq(Example) /\ Len(new.names) = len + 1
        /\ new.names[len + 1] = n
        /\ \A j \in 1..len : new.names[j] = list.names[j]
    BY <1>1, <2>2
  <2>4. /\ new.features \in Seq(Nat) /\ Len(new.features) = len + 1
        /\ new.features[len + 1] = f
        /\ \A j \in 1..len : new.features[j] = list.features[j]
    BY <1>1, <2>2
  <2>5. \A j \in 1..(len + 1) : j \in 1..len \/ j = len + 1
    BY <1>1
  <2>6. ListOK(new)
    BY <1>1, <2>1, <2>3, <2>4, <2>5 DEF ListOK
  <2>7. Holds(new, after)
    <3> SUFFICES ASSUME NEW m \in Example
                 PROVE  IF after[m] = 0 THEN \A j \in 1..(len + 1) : new.names[j] # m
                        ELSE \E j \in 1..(len + 1) :
                               new.names[j] = m /\ new.features[j] = after[m]
      BY <2>3 DEF Holds
    <3>a. 1..len \subseteq 1..(len + 1) /\ len + 1 \in 1..(len + 1)
      BY <1>1
    <3>1. CASE m = n
      BY <1>3, <2>3, <2>4, <3>1, <3>a
    <3>2. CASE m # n
      <4>1. after[m] = last[m]
        BY <1>2, <3>2
      <4>2. new.names[len + 1] # m
        BY <2>3, <3>2
      <4>3. IF last[m] = 0 THEN \A j \in 1..len : list.names[j] # m
            ELSE \E j \in 1..len : list.names[j] = m /\ list.features[j] = last[m]
        BY DEF ListInv, Holds
      <4>4. CASE last[m] = 0
        BY <2>3, <2>5, <4>1, <4>2, <4>3, <4>4
      <4>5. CASE last[m] # 0
        <5>1. PICK j \in 1..len : list.names[j] = m /\ list.features[j] = last[m]
          BY <4>3, <4>5
        <5>2. new.names[j] = m /\ new.features[j] = after[m] /\ j \in 1..(len + 1)
          BY <2>3, <2>4, <3>a, <4>1, <5>1
        <5> HIDE DEF new, after, len
        <5> QED BY <4>1, <4>5, <5>2
      <4> QED BY <4>4, <4>5
    <3> QED BY <3>1, <3>2
  <2> QED BY <2>6, <2>7 DEF ListInv
<1> QED BY <1>4, <1>5

\* The lists of both labels, with what was sent last.
ListsInv(lists, last) ==
  /\ lists = [l \in Label |-> lists[l]]
  /\ last \in [Label -> [Example -> Nat]]
  /\ \A l \in Label : ListInv(lists[l], last[l])

\* Feature f was sent last for this label and name.
Put(last, l, n, f) == [last EXCEPT ![l][n] = f]

LEMMA AddItemRight ==
  ASSUME NEW lists, NEW last, ListsInv(lists, last),
         NEW l \in Label, NEW n \in Example, NEW f \in Nat \ {0}
  PROVE  ListsInv(AddItem(lists, <<l, n>>, f), Put(last, l, n, f))
<1> DEFINE new == AddItem(lists, <<l, n>>, f)
           after == Put(last, l, n, f)
<1>1. /\ new = [k \in Label |-> new[k]]
      /\ new[l] = Add(lists[l], n, f)
      /\ \A k \in Label : k # l => new[k] = lists[k]
  BY DEF AddItem, ListsInv
<1>2. /\ after \in [Label -> [Example -> Nat]]
      /\ after[l] = [last[l] EXCEPT ![n] = f]
      /\ \A k \in Label : k # l => after[k] = last[k]
  BY DEF ListsInv, Put
<1>3. ListInv(new[l], after[l])
  <2>1. last[l] \in [Example -> Nat] /\ ListInv(lists[l], last[l])
    BY DEF ListsInv
  <2>2. ListInv(Add(lists[l], n, f), [last[l] EXCEPT ![n] = f])
    BY <2>1, AddRight
  <2> QED BY <1>1, <1>2, <2>2
<1> QED BY <1>1, <1>2, <1>3 DEF ListsInv

\* What was sent last, after the first i examples of order, f having arrived
\* before them.
Sent(last, order, f, i) ==
  [l \in Label |-> [n \in Example |->
     LET places == Places(order, i, <<l, n>>)
     IN  IF places = {} THEN last[l][n] ELSE f + Last(places)]]

LEMMA AddInOrderRight ==
  ASSUME NEW lists, NEW last, ListsInv(lists, last), NEW f \in Nat,
         NEW order \in Seq(Label \X Example)
  PROVE  ListsInv(AddInOrder(lists, order, f), Sent(last, order, f, Len(order)))
<1>1. Len(order) \in Nat /\ \A i \in 1..Len(order) : order[i] \in Label \X Example
  OBVIOUS
<1>2. PICK run : /\ run[0] = lists
                 /\ \A n \in 1..Len(order) : run[n] = AddItem(run[n - 1], order[n], f + n)
                 /\ AddInOrder(lists, order, f) = run[Len(order)]
  BY <1>1, AddInOrderRuns
<1> DEFINE sent(i) == Sent(last, order, f, i)
           Bad == {i \in Nat : i <= Len(order) /\ ~ListsInv(run[i], sent(i))}
<1>3. last \in [Label -> [Example -> Nat]]
  BY DEF ListsInv
<1>4. Bad = {}
  <2> SUFFICES ASSUME Bad # {} PROVE FALSE
    OBVIOUS
  <2>1. PICK i \in Bad : \A j \in Bad : i <= j
    BY LeastNat
  <2>2. CASE i = 0
    <3>1. \A x : Places(order, 0, x) = {}
      BY DEF Places
    <3>2. sent(0) = last
      BY <1>3, <3>1 DEF Sent
    <3> QED BY <1>2, <2>1, <2>2, <3>2
  <2>3. CASE i # 0
    <3>1. i \in 1..Len(order) /\ i \in Nat \ {0} /\ i - 1 \in Nat /\ i - 1 \notin Bad
      BY <1>1, <2>1, <2>3
    <3>2. ListsInv(run[i - 1], sent(i - 1))
      BY <1>1, <2>1, <3>1
    <3>3. PICK l \in Label, n \in Example : order[i] = <<l, n>>
      BY <1>1, <3>1
    <3> DEFINE h == i - 1
               g == f + i
    <3>4. i = h + 1 /\ h \in Nat /\ g \in Nat \ {0} /\ i \in Nat
      BY <3>1
    <3>5. run[i] = AddItem(run[h], order[i], g) /\ ListsInv(run[h], sent(h))
      BY <1>2, <3>1, <3>2
    <3> HIDE DEF Bad
    <3>6. sent(i) = Put(sent(h), l, n, g)
      <4> DEFINE now == Sent(last, order, f, i)
                 was == Sent(last, order, f, h)
                 set == [was EXCEPT ![l][n] = g]
      <4>0. i \in Nat /\ h \in Nat /\ i = h + 1 /\ g = f + i /\ order[i] = <<l, n>>
        BY <3>3, <3>4
      <4> HIDE DEF h, g, Bad
      <4>1. ASSUME NEW k \in Label, NEW m \in Example PROVE now[k][m] = set[k][m]
        <5>1. \A j : j \in 1..i <=> j \in 1..h \/ j = i
          BY <4>0
        <5>2. CASE k = l /\ m = n
          <6> DEFINE places == Places(order, i, <<k, m>>)
          <6>1. i \in places /\ \A j \in places : j \in Nat /\ j <= i
            BY <4>0, <5>2 DEF Places
          <6>2. Last(places) \in places /\ \A j \in places : j <= Last(places)
            BY <6>1 DEF Last
          <6>3. Last(places) = i
            <7> DEFINE p == Last(places)
            <7>1. p \in Nat /\ p <= i /\ i <= p /\ i \in Nat
              BY <4>0, <6>1, <6>2
            <7> HIDE DEF p
            <7>2. p = i
              BY <7>1
            <7> QED BY <7>2 DEF p
          <6>4. now[k][m] = g
            BY <4>0, <6>1, <6>3 DEF Sent
          <6>5. set[k][m] = g
            BY <5>2 DEF Sent
          <6> QED BY <6>4, <6>5
        <5>3. CASE ~(k = l /\ m = n)
          <6>1. Places(order, i, <<k, m>>) = Places(order, h, <<k, m>>)
            BY <4>0, <5>1, <5>3 DEF Places
          <6>2. now[k][m] = was[k][m]
            BY <6>1 DEF Sent
          <6>3. set[k][m] = was[k][m]
            BY <5>3 DEF Sent
          <6> QED BY <6>2, <6>3
        <5> QED BY <5>2, <5>3
      <4>2. /\ now = [k \in Label |-> [m \in Example |-> now[k][m]]]
            /\ set = [k \in Label |-> [m \in Example |-> set[k][m]]]
        BY DEF Sent
      <4>3. now = set
        <5> HIDE DEF now, set
        <5> QED BY <4>1, <4>2
      <4> QED BY <4>3 DEF Put
    <3>7. ListsInv(run[i], sent(i))
      <4> HIDE DEF h, g, sent
      <4>1. ListsInv(AddItem(run[h], <<l, n>>, g), Put(sent(h), l, n, g))
        BY <3>4, <3>5, AddItemRight
      <4> QED BY <3>3, <3>5, <3>6, <4>1
    <3> QED BY <2>1, <3>7 DEF Bad
  <2> QED BY <2>2, <2>3
<1> QED BY <1>1, <1>2, <1>4

FilterInv == arrived \in Nat /\ ListsInv(items, latest)

\* addItem() and addItemList().
LEMMA AddItemsRight ==
  ASSUME FilterInv, NEW order \in Seq(Label \X Example), NEW more, AddItems(order, more)
  PROVE  FilterInv'
<1>1. /\ arrived \in Nat /\ arrived' = arrived + Len(order)
      /\ items' = AddInOrder(items, order, arrived)
  BY DEF FilterInv, AddItems
<1>2. Sent(latest, order, arrived, Len(order)) = latest'
  BY DEF Sent, AddItems
<1>3. ListsInv(items', latest')
  BY <1>1, <1>2, AddInOrderRight DEF FilterInv
<1> QED BY <1>1, <1>3 DEF FilterInv

\* ProxyFilter().
LEMMA NewFilterRight == ListsInv(NoItems, NoneSent)
<1>1. \A l \in Label : NoItems[l] = EmptyList /\ NoneSent[l] = [n \in Example |-> 0]
  BY DEF NoItems, NoneSent
<1>2. ListOK(EmptyList)
  BY DEF ListOK, EmptyList
<1>3. Holds(EmptyList, [n \in Example |-> 0])
  BY DEF Holds, EmptyList
<1> QED BY <1>1, <1>2, <1>3 DEF NoItems, NoneSent, ListsInv, ListInv

\* Only examples that arrive, and a new filter, change the lists.
LEMMA ExamplesArrive ==
  ASSUME FilterInv, [Next]_vars
  PROVE  \/ UNCHANGED <<items, latest, arrived>> \/ NewFilter
         \/ \E order \in Seq(Label \X Example), more \in BOOLEAN : AddItems(order, more)
<1> DEFINE Spared == UNCHANGED <<items, latest, arrived>>
<1>0. Batch \subseteq Seq(Label \X Example)
  <2> SUFFICES ASSUME NEW n \in 0..(MaxExamples - arrived)
               PROVE  [1..n -> Label \X Example] \subseteq Seq(Label \X Example)
    BY DEF Batch
  <2>1. n \in Nat
    BY FilterAssumption DEF FilterInv
  <2> QED BY <2>1
<1>1. CASE UNCHANGED vars
  BY <1>1 DEF vars, filterVars
<1>2. ASSUME NEW proxy \in BOOLEAN, Setup(proxy) PROVE Spared \/ NewFilter
  BY <1>2 DEF Setup, filterVars
<1>3. ASSUME NEW batch \in ZipBatch, NEW more \in BOOLEAN, SendBlobs(batch, more)
      PROVE  \/ Spared
             \/ \E order \in Seq(Label \X Example), m \in BOOLEAN : AddItems(order, m)
  <2>1. Spared \/ AddItems(batch, more)
    BY <1>3 DEF SendBlobs, filterVars
  <2>2. batch \in Seq(Label \X Example)
    BY <1>0 DEF ZipBatch
  <2> QED BY <2>1, <2>2
<1>4. ASSUME NEW batch \in Batch, Retrain(batch)
      PROVE  \E order \in Seq(Label \X Example), more \in BOOLEAN : AddItems(order, more)
  <2>1. AddItems(batch, FALSE)
    BY <1>4 DEF Retrain
  <2> QED BY <1>0, <2>1
<1>5. ASSUME Start \/ ControlFails \/ Retrained PROVE Spared \/ NewFilter
  <2>1. ASSUME Start PROVE Spared
    BY <2>1 DEF Start, filterVars
  <2>2. ASSUME ControlFails PROVE NewFilter
    BY <2>2 DEF ControlFails, Die
  <2>3. ASSUME Retrained PROVE Spared
    BY <2>3 DEF Retrained
  <2> QED BY <1>5, <2>1, <2>2, <2>3
<1>6. ASSUME NEW c \in Conn, ReceiverStep(c) \/ Stop(c) PROVE Spared
  BY <1>6 DEF ReceiverStep, Stop, Gate, Ask, GetResult, Enqueue, Receiver, filterVars
<1>7. ASSUME NEW from, NEW to, BlastThread(from, to) PROVE Spared
  BY <1>7 DEF BlastThread, filterVars
<1>8. CASE Request \/ BlastStep \/ BlastFails
  BY <1>7, <1>8 DEF Request, BlastStep, BlastFails, ClearObjects, ClearRequests,
                    SetupRequests, AddRequest, Pop, Reject, Return
<1> QED
  BY <1>1, <1>2, <1>3, <1>4, <1>5, <1>6, <1>8 DEF Next, ControlStep

LEMMA FilterInvariant == Spec => []FilterInv
<1>1. Init => FilterInv
  BY NewFilterRight DEF Init, FilterInit, FilterInv
<1>2. FilterInv /\ [Next]_vars => FilterInv'
  <2> SUFFICES ASSUME FilterInv, [Next]_vars PROVE FilterInv'
    OBVIOUS
  <2>1. CASE UNCHANGED <<items, latest, arrived>>
    BY <2>1 DEF FilterInv
  <2>2. CASE \E order \in Seq(Label \X Example), more \in BOOLEAN : AddItems(order, more)
    BY <2>2, AddItemsRight
  <2>3. CASE NewFilter
    BY <2>3, NewFilterRight DEF NewFilter, FilterInv
  <2> QED BY <2>1, <2>2, <2>3, ExamplesArrive
<1> QED BY <1>1, <1>2, PTL DEF Spec

\* ItemList.add(): for any examples, in requests of any size, in any order and
\* with repetitions, and over any number of setups that make a new ProxyFilter,
\* the classifier is trained with the feature this filter was sent last for
\* each of them.
THEOREM LatestFeatureCorrect == Spec => []LatestFeature
<1>1. FilterInv => LatestFeature
  <2> SUFFICES ASSUME FilterInv, NEW l \in Label
               PROVE  LET list == items[l] IN
                      /\ Len(list.names) = Len(list.features)
                      /\ \A n \in Example :
                           IF latest[l][n] = 0
                           THEN n \notin Range(list.names)
                           ELSE /\ n \in Range(list.names)
                                /\ list.features[Position(list.names, n)] = latest[l][n]
    BY DEF LatestFeature
  <2> DEFINE list == items[l]
  <2>1. ListOK(list) /\ Holds(list, latest[l])
    BY DEF FilterInv, ListsInv, ListInv
  <2>2. Len(list.names) = Len(list.features) /\ DOMAIN list.names = 1..Len(list.names)
    BY <2>1 DEF ListOK
  <2>3. ASSUME NEW n \in Example, latest[l][n] = 0 PROVE n \notin Range(list.names)
    BY <2>1, <2>2, <2>3 DEF Holds, Range
  <2>4. ASSUME NEW n \in Example, latest[l][n] # 0
        PROVE  /\ n \in Range(list.names)
               /\ list.features[Position(list.names, n)] = latest[l][n]
    <3>1. PICK i \in 1..Len(list.names) : list.names[i] = n /\ list.features[i] = latest[l][n]
      BY <2>1, <2>4 DEF Holds
    <3>2. Position(list.names, n) = i
      BY <2>1, <3>1, PositionRight
    <3> QED BY <2>2, <3>1, <3>2 DEF Range
  <2> QED BY <2>2, <2>3, <2>4
<1> QED BY <1>1, FilterInvariant, PTL

-----------------------------------------------------------------------------
(***************************************************************************)
(* The objects between the servers and the client                          *)
(***************************************************************************)

Fate == {"unseen", "queued", "cleared", "rejected", "returned", "unsent"}

\* The types that the accounts rest on.
AccountTypes ==
  /\ isRunning \in BOOLEAN /\ retrained \in BOOLEAN
  /\ recv \in [Conn -> {"off", "gate", "tokens", "asking", "got", "over"}]
  /\ left \in [Conn -> Nat]
  /\ queue \in Seq(Object) /\ hand \in Object \cup {NoObject}
  /\ fate \in [Object -> Fate]

\* How many objects of a server have been received, and which of them is still
\* in the hands of its receiver.
ReceivedSome ==
  \A c \in Conn : left[c] <= Found[c] /\ (recv[c] = "got" => left[c] < Found[c])

UnseenRight ==
  \A o \in Object :
    LET c == o[1] IN
    fate[o] = "unseen" <=> \/ o[2] > Found[c] - left[c]
                           \/ recv[c] = "got" /\ o[2] = Found[c] - left[c]

\* An object is queued in one place, or in the hands of the thread that answers
\* get_object.
QueuedOnce ==
  /\ \A i, j \in 1..Len(queue) : queue[i] = queue[j] => i = j
  /\ \A i \in 1..Len(queue) : queue[i] # hand
  /\ \A o \in Object :
       fate[o] = "queued" <=> hand = o \/ \E i \in 1..Len(queue) : queue[i] = o
  /\ blast = "judge" <=> hand # NoObject

\* Before start() no thread runs; a gate that is closed while they run is
\* closed by a retrain.
StartedFirst ==
  /\ ~isRunning => /\ blast = "off" /\ queue = <<>>
                   /\ \A c \in Conn : recv[c] = "off"
  /\ running \/ retrained

EndsExplained ==
  \A o \in Object : /\ fate[o] = "cleared" => retrained
                    /\ fate[o] = "rejected" => model

AccountInv ==
  /\ AccountTypes /\ ReceivedSome /\ UnseenRight /\ QueuedOnce /\ StartedFirst
  /\ EndsExplained

\* An object is a pair of a server and a number.
LEMMA Objects ==
  /\ NoObject \notin Object
  /\ \A o \in Object : /\ o = <<o[1], o[2]>> /\ o[1] \in Conn
                       /\ o[2] \in 1..Found[o[1]] /\ o[2] \in Nat
  /\ \A c \in Conn : \A n \in 1..Found[c] : <<c, n>> \in Object
<1>1. \A c \in Conn : Found[c] \in Nat
  BY ProxyAssumption
<1>2. ASSUME NEW o \in Object
      PROVE  /\ o = <<o[1], o[2]>> /\ o[1] \in Conn
             /\ o[2] \in 1..Found[o[1]] /\ o[2] \in Nat
  <2>1. PICK c \in Conn : o \in {c} \X (1..Found[c])
    BY DEF Object
  <2>2. PICK n \in 1..Found[c] : o = <<c, n>>
    BY <2>1
  <2> QED BY <1>1, <2>2
<1>3. ASSUME NEW c \in Conn, NEW n \in 1..Found[c] PROVE <<c, n>> \in Object
  <2>1. <<c, n>> \in {c} \X (1..Found[c])
    OBVIOUS
  <2> QED BY <2>1 DEF Object
<1>4. NoObject \notin Object
  BY <1>2 DEF NoObject
<1> QED BY <1>2, <1>3, <1>4

\* What an AccountInv step leaves alone.
AccountVars ==
  <<isRunning, retrained, running, model, recv, left, queue, blast, hand, fate>>

LEMMA AccountStutter == ASSUME AccountInv, UNCHANGED AccountVars PROVE AccountInv'
  BY DEF AccountVars, AccountInv, AccountTypes, ReceivedSome, UnseenRight, QueuedOnce,
         StartedFirst, EndsExplained

\* The control thread touches no object.
LEMMA ControlAccount ==
  ASSUME AccountInv, ControlStep \/ Retrained PROVE AccountInv'
<1> USE DEF AccountInv
<1>1. ASSUME NEW proxy \in BOOLEAN, Setup(proxy) PROVE AccountInv'
  <2>1. UNCHANGED AccountVars
    BY <1>1 DEF AccountVars, Setup, StartedFirst, filterVars
  <2> QED BY <2>1, AccountStutter
<1>2. CASE ControlFails
  <2>1. UNCHANGED AccountVars
    BY <1>2 DEF AccountVars, ControlFails, Die, filterVars, setupVars, threadVars
  <2> QED BY <2>1, AccountStutter
<1>3. CASE Start
  <2>1. /\ ~isRunning /\ isRunning' = TRUE /\ running' = TRUE
        /\ UNCHANGED <<retrained, model, left, queue, hand, fate>>
        /\ recv' = recv \/ recv' = [c \in Conn |-> "gate"]
        /\ blast' = blast \/ blast' = "wait"
    BY <1>3 DEF Start, filterVars
  <2>2. blast # "judge" /\ \A c \in Conn : recv[c] = "off" /\ recv'[c] # "got"
    BY <2>1 DEF StartedFirst
  <2>3. AccountTypes' /\ ReceivedSome'
    BY <2>1, <2>2 DEF AccountTypes, ReceivedSome
  <2>4. UnseenRight'
    BY <2>1, <2>2, Objects DEF UnseenRight
  <2>5. QueuedOnce' /\ StartedFirst' /\ EndsExplained'
    BY <2>1, <2>2 DEF QueuedOnce, StartedFirst, EndsExplained
  <2> QED BY <2>3, <2>4, <2>5
<1>4. ASSUME /\ UNCHANGED <<isRunning, recv, left, queue, blast, hand, fate>>
             /\ retrained' \in BOOLEAN /\ (retrained => retrained') /\ (model => model')
             /\ running' \/ retrained'
      PROVE  AccountInv'
  <2>1. AccountTypes' /\ ReceivedSome' /\ UnseenRight' /\ QueuedOnce'
    <3>1. AccountTypes'
      BY <1>4 DEF AccountTypes
    <3> QED BY <1>4, <3>1 DEF ReceivedSome, UnseenRight, QueuedOnce
  <2>2. StartedFirst' /\ EndsExplained'
    BY <1>4 DEF AccountTypes, StartedFirst, EndsExplained
  <2> QED BY <2>1, <2>2
<1>5. ASSUME NEW batch, NEW more, SendBlobs(batch, more) PROVE AccountInv'
  <2>1. /\ UNCHANGED <<isRunning, running, recv, left, queue, blast, hand, fate>>
        /\ ~isRunning /\ (model => model')
        /\ UNCHANGED retrained
    BY <1>5 DEF SendBlobs, threadVars
  <2>2. AccountTypes' /\ ReceivedSome' /\ UnseenRight' /\ QueuedOnce'
    <3>1. AccountTypes'
      BY <2>1 DEF AccountTypes
    <3> QED BY <2>1, <3>1 DEF ReceivedSome, UnseenRight, QueuedOnce
  <2>3. StartedFirst' /\ EndsExplained'
    BY <2>1 DEF AccountTypes, StartedFirst, EndsExplained
  <2> QED BY <2>2, <2>3
<1>6. ASSUME NEW batch, Retrain(batch) PROVE AccountInv'
  <2>1. /\ UNCHANGED <<isRunning, model, recv, left, queue, blast, hand, fate>>
        /\ retrained' = TRUE
    BY <1>6 DEF Retrain, threadVars, setupVars
  <2> QED BY <1>4, <2>1 DEF AccountTypes
<1>7. CASE Retrained
  <2>1. /\ UNCHANGED <<isRunning, retrained, recv, left, queue, blast, hand, fate>>
        /\ model' = TRUE /\ running' = TRUE
    BY <1>7 DEF Retrained, threadVars
  <2> QED BY <1>4, <2>1 DEF AccountTypes
<1> QED BY <1>1, <1>2, <1>3, <1>5, <1>6, <1>7 DEF ControlStep

\* A receiver that has no object, and gets none.
LEMMA ReceiverMoves ==
  ASSUME AccountInv, NEW c \in Conn, NEW from \in {"gate", "tokens", "asking"},
         NEW to \in {"tokens", "asking", "over"},
         Receiver(c, from, to), UNCHANGED <<left, queue, fate>>
  PROVE  AccountInv'
<1> USE DEF AccountInv
<1>1. /\ recv[c] = from /\ recv' = [recv EXCEPT ![c] = to]
      /\ UNCHANGED <<isRunning, retrained, running, model, left, queue, blast, hand, fate>>
  BY DEF Receiver, filterVars, setupVars
<1>2. \A d \in Conn : recv'[d] = "got" <=> recv[d] = "got"
  BY <1>1 DEF AccountTypes
<1>3. AccountTypes'
  BY <1>1 DEF AccountTypes
<1>4. ReceivedSome'
  BY <1>1, <1>2 DEF ReceivedSome
<1>5. UnseenRight'
  BY <1>1, <1>2, Objects DEF UnseenRight
<1>6. QueuedOnce' /\ EndsExplained'
  BY <1>1 DEF QueuedOnce, EndsExplained
<1>7. StartedFirst'
  BY <1>1 DEF StartedFirst, Receiver
<1> QED BY <1>3, <1>4, <1>5, <1>6, <1>7

\* A server returns its next object.
LEMMA GetResultAccount ==
  ASSUME AccountInv, NEW c \in Conn, GetResult(c) PROVE AccountInv'
<1> USE DEF AccountInv
<1>1. /\ recv[c] = "asking" /\ recv' = [recv EXCEPT ![c] = "got"]
      /\ left[c] > 0 /\ left' = [left EXCEPT ![c] = left[c] - 1]
      /\ UNCHANGED <<isRunning, retrained, running, model, queue, blast, hand, fate>>
  BY DEF GetResult, Receiver, filterVars, setupVars
<1>2. /\ recv'[c] = "got" /\ left'[c] = left[c] - 1 /\ left[c] \in Nat /\ Found[c] \in Nat
      /\ \A d \in Conn : d # c => recv'[d] = recv[d] /\ left'[d] = left[d]
  BY <1>1, ProxyAssumption DEF AccountTypes
<1>3. AccountTypes'
  BY <1>1, <1>2 DEF AccountTypes
<1>4. ReceivedSome'
  BY <1>1, <1>2 DEF ReceivedSome
<1>5. UnseenRight'
  <2> SUFFICES ASSUME NEW o \in Object
               PROVE  fate[o] = "unseen" <=>
                        \/ o[2] > Found[o[1]] - left'[o[1]]
                        \/ recv'[o[1]] = "got" /\ o[2] = Found[o[1]] - left'[o[1]]
    BY <1>1 DEF UnseenRight
  <2>1. /\ o[1] \in Conn /\ o[2] \in Nat
        /\ fate[o] = "unseen" <=> \/ o[2] > Found[o[1]] - left[o[1]]
                                  \/ recv[o[1]] = "got" /\ o[2] = Found[o[1]] - left[o[1]]
    BY Objects DEF UnseenRight
  <2>2. CASE o[1] = c
    BY <1>1, <1>2, <2>1, <2>2
  <2>3. CASE o[1] # c
    BY <1>2, <2>1, <2>3
  <2> QED BY <2>2, <2>3
<1>6. QueuedOnce' /\ EndsExplained'
  BY <1>1 DEF QueuedOnce, EndsExplained
<1>7. StartedFirst'
  BY <1>1 DEF StartedFirst
<1> QED BY <1>3, <1>4, <1>5, <1>6, <1>7

\* The receiver puts what it has got into pending_objs, where it is not yet.
LEMMA EnqueueAccount ==
  ASSUME AccountInv, NEW c \in Conn, Enqueue(c) PROVE AccountInv'
<1> USE DEF AccountInv
<1> DEFINE x == Received(c)
           len == Len(queue)
<1>1. /\ recv[c] = "got" /\ recv' = [recv EXCEPT ![c] = "gate"]
      /\ queue' = Append(queue, x) /\ fate' = [fate EXCEPT ![x] = "queued"]
      /\ UNCHANGED <<isRunning, retrained, running, model, left, blast, hand>>
  BY DEF Enqueue, Receiver, filterVars, setupVars
<1>2. /\ left[c] \in Nat /\ Found[c] \in Nat /\ left[c] < Found[c]
      /\ recv'[c] = "gate" /\ \A d \in Conn : d # c => recv'[d] = recv[d]
  BY <1>1, ProxyAssumption DEF AccountTypes, ReceivedSome
<1>3. x \in Object /\ x[1] = c /\ x[2] = Found[c] - left[c]
  BY <1>2, Objects DEF Received
<1>4. fate[x] = "unseen"
  BY <1>1, <1>3 DEF UnseenRight
<1>5. x # hand /\ \A i \in 1..len : queue[i] # x
  BY <1>3, <1>4 DEF QueuedOnce
<1>6. fate'[x] = "queued" /\ \A o \in Object : o # x => fate'[o] = fate[o]
  BY <1>1, <1>3 DEF AccountTypes
<1>7. /\ queue' \in Seq(Object) /\ len \in Nat /\ Len(queue') = len + 1
      /\ queue'[len + 1] = x /\ \A i \in 1..len : queue'[i] = queue[i]
  BY <1>1, <1>3 DEF AccountTypes
<1>8. \A i : i \in 1..(len + 1) <=> i \in 1..len \/ i = len + 1
  BY <1>7
<1>9. fate' \in [Object -> Fate]
  BY <1>1, <1>3 DEF AccountTypes, Fate
<1> HIDE DEF x, len
<1>10. AccountTypes'
  BY <1>1, <1>2, <1>7, <1>9 DEF AccountTypes
<1>11. ReceivedSome'
  BY <1>1, <1>2 DEF ReceivedSome
<1>12. UnseenRight'
  <2> SUFFICES ASSUME NEW o \in Object
               PROVE  fate'[o] = "unseen" <=>
                        \/ o[2] > Found[o[1]] - left[o[1]]
                        \/ recv'[o[1]] = "got" /\ o[2] = Found[o[1]] - left[o[1]]
    BY <1>1 DEF UnseenRight
  <2>1. /\ o = <<o[1], o[2]>> /\ o[1] \in Conn /\ o[2] \in Nat
        /\ fate[o] = "unseen" <=> \/ o[2] > Found[o[1]] - left[o[1]]
                                  \/ recv[o[1]] = "got" /\ o[2] = Found[o[1]] - left[o[1]]
    BY Objects DEF UnseenRight
  <2>2. CASE o = x
    BY <1>2, <1>3, <1>6, <2>1, <2>2
  <2>3. CASE o # x
    <3>1. o[1] = c => o[2] # Found[c] - left[c]
      BY <2>1, <2>3 DEF x, Received
    <3> QED BY <1>2, <1>6, <2>1, <2>3, <3>1
  <2> QED BY <2>2, <2>3
<1>13. QueuedOnce'
  <2>1. \A i, j \in 1..Len(queue') : queue'[i] = queue'[j] => i = j
    BY <1>5, <1>7, <1>8 DEF QueuedOnce, len
  <2>2. \A i \in 1..Len(queue') : queue'[i] # hand'
    BY <1>1, <1>5, <1>7, <1>8 DEF QueuedOnce, len
  <2>3. ASSUME NEW o \in Object
        PROVE  fate'[o] = "queued" <=>
                 hand' = o \/ \E i \in 1..Len(queue') : queue'[i] = o
    <3>1. CASE o = x
      BY <1>6, <1>7, <1>8, <3>1
    <3>2. CASE o # x
      <4>1. (\E i \in 1..Len(queue') : queue'[i] = o) <=> \E i \in 1..len : queue[i] = o
        BY <1>7, <1>8, <3>2
      <4> QED BY <1>1, <1>6, <3>2, <4>1 DEF QueuedOnce, len
    <3> QED BY <3>1, <3>2
  <2> QED BY <1>1, <2>1, <2>2, <2>3 DEF QueuedOnce
<1>14. StartedFirst'
  BY <1>1 DEF StartedFirst
<1>15. EndsExplained'
  <2>1. \A o \in Object : fate'[o] \in {"cleared", "rejected"} => fate'[o] = fate[o]
    BY <1>6
  <2> QED BY <1>1, <2>1 DEF EndsExplained
<1> QED BY <1>10, <1>11, <1>12, <1>13, <1>14, <1>15

LEMMA ReceiverAccount ==
  ASSUME AccountInv, NEW c \in Conn, ReceiverStep(c) \/ Stop(c) PROVE AccountInv'
<1>1. CASE Gate(c)
  BY <1>1, ReceiverMoves DEF Gate
<1>2. CASE Ask(c)
  BY <1>2, ReceiverMoves DEF Ask
<1>3. CASE Stop(c)
  BY <1>3, ReceiverMoves DEF Stop
<1> QED
  BY <1>1, <1>2, <1>3, GetResultAccount, EnqueueAccount DEF ReceiverStep

\* get_object() between two of its steps with an object.
LEMMA BlastMoves ==
  ASSUME AccountInv, NEW from \in {"wait", "gate", "reset", "refill"},
         NEW to \in {"gate", "reset", "refill", "fetch"},
         BlastThread(from, to), UNCHANGED <<queue, hand, fate>>
  PROVE  AccountInv'
<1> USE DEF AccountInv
<1>1. /\ blast = from /\ blast' = to
      /\ UNCHANGED <<isRunning, retrained, running, model, recv, left, queue, hand, fate>>
  BY DEF BlastThread, filterVars, setupVars
<1>2. AccountTypes' /\ ReceivedSome' /\ UnseenRight' /\ EndsExplained'
  BY <1>1 DEF AccountTypes, ReceivedSome, UnseenRight, EndsExplained
<1>3. QueuedOnce' /\ StartedFirst'
  BY <1>1 DEF QueuedOnce, StartedFirst
<1> QED BY <1>2, <1>3

\* While a retrain is on, what was received is thrown away.
LEMMA ClearAccount == ASSUME AccountInv, ClearObjects PROVE AccountInv'
<1> USE DEF AccountInv
<1>1. /\ ~running /\ blast = "gate" /\ blast' = "reset" /\ queue' = <<>>
      /\ fate' = [o \in Object |-> IF o \in Range(queue) THEN "cleared" ELSE fate[o]]
      /\ UNCHANGED <<isRunning, retrained, running, model, recv, left, hand>>
  BY DEF ClearObjects, BlastThread, filterVars, setupVars
<1>2. hand = NoObject /\ retrained /\ isRunning
  BY <1>1 DEF QueuedOnce, StartedFirst
<1>3. \A o \in Object : o \in Range(queue) <=> fate[o] = "queued"
  <2>1. DOMAIN queue = 1..Len(queue)
    BY DEF AccountTypes
  <2>2. \A o \in Object : o # hand
    BY <1>2, Objects
  <2> QED BY <2>1, <2>2 DEF QueuedOnce, Range
<1>4. \A o \in Object : fate'[o] = IF fate[o] = "queued" THEN "cleared" ELSE fate[o]
  BY <1>1, <1>3
<1>5. AccountTypes'
  <2>1. fate' \in [Object -> Fate]
    BY <1>1 DEF AccountTypes, Fate
  <2>2. queue' \in Seq(Object)
    BY <1>1
  <2> QED BY <1>1, <2>1, <2>2 DEF AccountTypes
<1>6. ReceivedSome' /\ StartedFirst'
  BY <1>1, <1>2 DEF ReceivedSome, StartedFirst
<1>7. UnseenRight'
  BY <1>1, <1>4 DEF UnseenRight
<1>8. QueuedOnce'
  <2>1. Len(queue') = 0 /\ 1..0 = {}
    BY <1>1
  <2>2. \A o \in Object : fate'[o] # "queued" /\ hand' # o
    BY <1>1, <1>2, <1>4, Objects
  <2> QED BY <1>1, <1>2, <2>1, <2>2 DEF QueuedOnce
<1>9. EndsExplained'
  BY <1>1, <1>2, <1>4 DEF EndsExplained
<1> QED BY <1>5, <1>6, <1>7, <1>8, <1>9

\* fetch_object() takes the oldest object.
LEMMA PopAccount == ASSUME AccountInv, Pop PROVE AccountInv'
<1> USE DEF AccountInv
<1>1. /\ blast = "fetch" /\ blast' = "judge" /\ queue # <<>>
      /\ hand' = Head(queue) /\ queue' = Tail(queue)
      /\ UNCHANGED <<isRunning, retrained, running, model, recv, left, fate>>
  BY DEF Pop, BlastThread, filterVars, setupVars
<1> DEFINE len == Len(queue)
<1>2. /\ len \in Nat /\ len >= 1 /\ hand' = queue[1] /\ hand' \in Object
      /\ queue' \in Seq(Object) /\ Len(queue') = len - 1
      /\ \A i \in 1..(len - 1) : queue'[i] = queue[i + 1]
  BY <1>1 DEF AccountTypes
<1>3. hand = NoObject /\ NoObject \notin Object
  BY <1>1, Objects DEF QueuedOnce
<1>4. AccountTypes'
  BY <1>1, <1>2 DEF AccountTypes
<1>5. ReceivedSome' /\ UnseenRight' /\ EndsExplained'
  BY <1>1 DEF ReceivedSome, UnseenRight, EndsExplained
<1>6. StartedFirst'
  BY <1>1 DEF StartedFirst
<1>7. QueuedOnce'
  <2>1. \A i \in 1..(len - 1) : i + 1 \in 1..len /\ i + 1 # 1
    BY <1>2
  <2>2. 1 \in 1..len /\ \A i \in 1..len : i = 1 \/ (i - 1 \in 1..(len - 1) /\ (i - 1) + 1 = i)
    BY <1>2
  <2>3. \A i, j \in 1..len : queue[i] = queue[j] => i = j
    BY DEF QueuedOnce
  <2> HIDE DEF len
  <2>4. ASSUME NEW i \in 1..(len - 1), NEW j \in 1..(len - 1), queue'[i] = queue'[j]
        PROVE  i = j
    <3>1. i + 1 = j + 1
      BY <1>2, <2>1, <2>3, <2>4
    <3> QED BY <3>1
  <2>5. \A i \in 1..(len - 1) : queue'[i] # hand'
    BY <1>2, <2>1, <2>2, <2>3
  <2>6. ASSUME NEW o \in Object
        PROVE  fate'[o] = "queued" <=>
                 hand' = o \/ \E i \in 1..(len - 1) : queue'[i] = o
    <3>1. fate[o] = "queued" <=> \E i \in 1..len : queue[i] = o
      BY <1>3 DEF QueuedOnce, len
    <3>2. ASSUME NEW i \in 1..len, queue[i] = o, i # 1
          PROVE  \E k \in 1..(len - 1) : queue'[k] = o
      BY <1>2, <2>2, <3>2
    <3>3. ASSUME NEW k \in 1..(len - 1), queue'[k] = o
          PROVE  \E i \in 1..len : queue[i] = o
      BY <1>2, <2>1, <3>3
    <3> QED BY <1>1, <1>2, <2>2, <3>1, <3>2, <3>3
  <2> QED BY <1>1, <1>2, <1>3, <2>4, <2>5, <2>6 DEF QueuedOnce
<1> QED BY <1>4, <1>5, <1>6, <1>7

\* The object in hand meets its end.
LEMMA JudgeAccount ==
  ASSUME AccountInv, NEW end \in {"rejected", "returned", "unsent"},
         NEW to \in {"fetch", "wait", "over"}, BlastThread("judge", to),
         fate' = [fate EXCEPT ![hand] = end], hand' = NoObject, UNCHANGED queue,
         end = "rejected" => model
  PROVE  AccountInv'
<1> USE DEF AccountInv
<1>1. /\ blast = "judge" /\ blast' = to
      /\ UNCHANGED <<isRunning, retrained, running, model, recv, left>>
  BY DEF BlastThread, filterVars, setupVars
<1>2. hand \in Object /\ fate[hand] = "queued"
  BY <1>1 DEF QueuedOnce, AccountTypes
<1>3. fate'[hand] = end /\ \A o \in Object : o # hand => fate'[o] = fate[o]
  BY <1>2 DEF AccountTypes
<1>4. AccountTypes'
  <2>1. fate' \in [Object -> Fate]
    BY DEF AccountTypes, Fate
  <2> QED BY <1>1, <2>1 DEF AccountTypes
<1>5. ReceivedSome' /\ StartedFirst'
  BY <1>1 DEF ReceivedSome, StartedFirst
<1>6. UnseenRight'
  <2>1. \A o \in Object : fate'[o] = "unseen" <=> fate[o] = "unseen"
    BY <1>2, <1>3
  <2> QED BY <1>1, <2>1 DEF UnseenRight
<1>7. QueuedOnce'
  <2>1. \A o \in Object : hand' # o
    BY Objects
  <2>2. ASSUME NEW o \in Object
        PROVE  fate'[o] = "queued" <=> \E i \in 1..Len(queue) : queue[i] = o
    <3>1. CASE o = hand
      BY <1>3, <3>1 DEF QueuedOnce
    <3>2. CASE o # hand
      BY <1>3, <3>2 DEF QueuedOnce
    <3> QED BY <3>1, <3>2
  <2>3. \A i \in 1..Len(queue) : queue[i] # NoObject
    BY Objects DEF AccountTypes
  <2> QED BY <1>1, <2>1, <2>2, <2>3 DEF QueuedOnce
<1>8. EndsExplained'
  BY <1>1, <1>3 DEF EndsExplained
<1> QED BY <1>4, <1>5, <1>6, <1>7, <1>8

LEMMA BlastAccount ==
  ASSUME AccountInv, Request \/ BlastStep \/ BlastFails PROVE AccountInv'
<1>1. CASE Request
  BY <1>1, BlastMoves DEF Request
<1>2. CASE ClearRequests
  BY <1>2, BlastMoves DEF ClearRequests
<1>3. CASE SetupRequests
  BY <1>3, BlastMoves DEF SetupRequests
<1>4. CASE AddRequest
  BY <1>4, BlastMoves DEF AddRequest
<1>5. CASE Reject
  BY <1>5, JudgeAccount DEF Reject
<1>6. CASE Return
  BY <1>6, JudgeAccount DEF Return
<1>7. CASE BlastFails
  BY <1>7, JudgeAccount DEF BlastFails
<1> QED
  BY <1>1, <1>2, <1>3, <1>4, <1>5, <1>6, <1>7, ClearAccount, PopAccount DEF BlastStep

LEMMA AccountInvariant == Spec => []AccountInv
<1>1. Init => AccountInv
  <2> SUFFICES ASSUME Init PROVE AccountInv
    OBVIOUS
  <2>1. AccountTypes
    <3>1. isRunning \in BOOLEAN /\ retrained \in BOOLEAN
      BY DEF Init
    <3>2. left \in [Conn -> Nat]
      BY ProxyAssumption DEF Init
    <3>3. fate \in [Object -> Fate]
      BY DEF Init, Fate
    <3> QED BY <3>1, <3>2, <3>3 DEF Init, FilterInit, AccountTypes
  <2>2. ReceivedSome
    BY ProxyAssumption DEF Init, ReceivedSome
  <2>3. UnseenRight
    <3> SUFFICES ASSUME NEW o \in Object
                 PROVE  fate[o] = "unseen" /\ o[2] > Found[o[1]] - left[o[1]]
      BY DEF UnseenRight
    <3>1. o[1] \in Conn /\ o[2] \in 1..Found[o[1]] /\ Found[o[1]] \in Nat
      BY Objects, ProxyAssumption
    <3> QED BY <3>1 DEF Init
  <2>4. QueuedOnce
    BY Objects DEF Init, QueuedOnce
  <2>5. StartedFirst /\ EndsExplained
    BY DEF Init, StartedFirst, EndsExplained
  <2> QED BY <2>1, <2>2, <2>3, <2>4, <2>5 DEF AccountInv
<1>2. AccountInv /\ [Next]_vars => AccountInv'
  <2> SUFFICES ASSUME AccountInv, [Next]_vars PROVE AccountInv'
    OBVIOUS
  <2>1. CASE UNCHANGED vars
    <3>1. UNCHANGED AccountVars
      BY <2>1 DEF AccountVars, vars, filterVars, setupVars, threadVars
    <3> QED BY <3>1, AccountStutter
  <2> QED BY <2>1, ControlAccount, ReceiverAccount, BlastAccount DEF Next
<1> QED BY <1>1, <1>2, PTL DEF Spec

\* The two deques and the threads around them: for any number of servers,
\* objects and reretrained, each object that a server has returned is in one place
\* or has met one end, is thrown away only by a retrain and rejected only by a
\* model (Accounted).
THEOREM AccountedCorrect == Spec => []Accounted
<1>1. AccountInv => Accounted
  <2> SUFFICES ASSUME AccountInv, NEW o \in Object
               PROVE  LET here == fate[o] = "queued"
                          in == {i \in DOMAIN queue : queue[i] = o}
                      IN  /\ here <=> Cardinality(in) + (IF hand = o THEN 1 ELSE 0) = 1
                          /\ o[2] <= Found[o[1]] - left[o[1]] /\ fate[o] = "unseen"
                               => recv[o[1]] = "got" /\ o = Received(o[1])
                          /\ fate[o] = "cleared" => retrained
                          /\ fate[o] = "rejected" => model
    BY DEF Accounted
  <2> DEFINE in == {i \in DOMAIN queue : queue[i] = o}
  <2> USE DEF AccountInv
  <2>1. in = {i \in 1..Len(queue) : queue[i] = o}
    BY DEF AccountTypes
  <2>2. fate[o] = "queued" <=> Cardinality(in) + (IF hand = o THEN 1 ELSE 0) = 1
    <3>1. CASE \E i \in 1..Len(queue) : queue[i] = o
      <4>1. PICK i \in 1..Len(queue) : queue[i] = o
        BY <3>1
      <4>2. in = {i} /\ hand # o /\ fate[o] = "queued"
        BY <2>1, <4>1 DEF QueuedOnce
      <4>3. Cardinality(in) = 1
        BY <4>2, FS_Singleton
      <4> HIDE DEF in
      <4> QED BY <4>2, <4>3
    <3>2. CASE ~\E i \in 1..Len(queue) : queue[i] = o
      <4>1. in = {} /\ (fate[o] = "queued" <=> hand = o)
        BY <2>1, <3>2 DEF QueuedOnce
      <4>2. Cardinality(in) = 0
        BY <4>1, FS_EmptySet
      <4> HIDE DEF in
      <4> QED BY <4>1, <4>2
    <3> QED BY <3>1, <3>2
  <2>3. /\ o = <<o[1], o[2]>> /\ o[1] \in Conn /\ o[2] \in Nat
        /\ left[o[1]] \in Nat /\ Found[o[1]] \in Nat
    BY Objects, ProxyAssumption DEF AccountTypes
  <2>4. ASSUME o[2] <= Found[o[1]] - left[o[1]], fate[o] = "unseen"
        PROVE  recv[o[1]] = "got" /\ o = Received(o[1])
    <3>1. recv[o[1]] = "got" /\ o[2] = Found[o[1]] - left[o[1]]
      BY <2>3, <2>4 DEF UnseenRight
    <3> QED BY <2>3, <3>1 DEF Received
  <2>5. /\ fate[o] = "cleared" => retrained
        /\ fate[o] = "rejected" => model
    BY DEF EndsExplained
  <2> QED BY <2>2, <2>4, <2>5
<1> QED BY <1>1, AccountInvariant, PTL

\* The rest of the proxy's state.
OtherTypes ==
  /\ link \in [Conn -> {"none", "up", "ready", "searching"}]
  /\ filters \in {"none", "sent", "short"}
  /\ blast \in {"off", "wait", "gate", "reset", "refill", "fetch", "judge", "over"}
  /\ reqs \in Nat

LEMMA OtherTypesStep == ASSUME OtherTypes, [Next]_vars PROVE OtherTypes'
<1> USE DEF OtherTypes
<1>1. Cardinality(Conn) \in Nat
  BY ProxyAssumption, FS_CardinalityType
<1>2. CASE UNCHANGED vars
  BY <1>2 DEF vars, setupVars, threadVars
<1>3. ASSUME NEW proxy \in BOOLEAN, Setup(proxy) PROVE OtherTypes'
  BY <1>1, <1>3 DEF Setup
<1>4. ASSUME NEW batch, NEW more, SendBlobs(batch, more) PROVE OtherTypes'
  <2>1. link' \in [Conn -> {"up", "ready"}] /\ UNCHANGED <<filters, blast, reqs>>
    BY <1>4 DEF SendBlobs, threadVars
  <2> QED BY <2>1
<1>5. CASE Start
  <2>1. UNCHANGED <<filters, reqs>> /\ (blast' = "wait" \/ blast' = blast)
    BY <1>5 DEF Start
  <2>2. \/ link' = [c \in Conn |-> "searching"]
        \/ \E done : link' = [c \in Conn |-> IF c \in done THEN "searching" ELSE link[c]]
    BY <1>5 DEF Start
  <2>3. link' \in [Conn -> {"none", "up", "ready", "searching"}]
    BY <2>2
  <2> QED BY <2>1, <2>3
<1>6. ASSUME NEW batch, Retrain(batch) PROVE OtherTypes'
  BY <1>6 DEF Retrain, setupVars, threadVars
<1>7. CASE ControlFails
  BY <1>7 DEF ControlFails, Die, setupVars, threadVars
<1>8. CASE Retrained
  BY <1>8 DEF Retrained, threadVars
<1>9. ASSUME NEW c \in Conn, NEW from, NEW to, Receiver(c, from, to) PROVE OtherTypes'
  BY <1>9 DEF Receiver, setupVars
<1>10. ASSUME NEW c \in Conn, ReceiverStep(c) \/ Stop(c) PROVE OtherTypes'
  BY <1>9, <1>10 DEF ReceiverStep, Stop, Gate, Ask, GetResult, Enqueue
<1>11. ASSUME NEW from,
              NEW to \in {"wait", "gate", "reset", "refill", "fetch", "judge", "over"},
              BlastThread(from, to), reqs' \in Nat
       PROVE  OtherTypes'
  BY <1>11 DEF BlastThread, setupVars
<1>12. CASE Request \/ BlastFails
  BY <1>11, <1>12 DEF Request, BlastFails
<1>13. CASE ClearObjects \/ ClearRequests \/ SetupRequests \/ AddRequest
  BY <1>1, <1>11, <1>13 DEF ClearObjects, ClearRequests, SetupRequests, AddRequest
<1>14. CASE Pop \/ Reject \/ Return
  BY <1>11, <1>14 DEF Pop, Reject, Return
<1> QED
  BY <1>2, <1>3, <1>4, <1>5, <1>6, <1>7, <1>8, <1>10, <1>12, <1>13, <1>14
     DEF Next, ControlStep, BlastStep

\* The proxy's state is type correct; in particular no step changes the fate of
\* something that is not an object, and the count of requests stays a number.
THEOREM ProxyTypeCorrect == Spec => []TypeOK
<1>1. Init => OtherTypes
  BY DEF Init, OtherTypes
<1>2. OtherTypes /\ [Next]_vars => OtherTypes'
  BY OtherTypesStep
<1>3. AccountInv /\ OtherTypes => TypeOK
  BY DEF AccountInv, AccountTypes, Fate, OtherTypes, TypeOK
<1> QED BY <1>1, <1>2, <1>3, AccountInvariant, PTL DEF Spec
=============================================================================
