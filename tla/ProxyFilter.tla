---------------------------- MODULE ProxyFilter ----------------------------
(***************************************************************************)
(* The training examples of the search proxy's classifier                  *)
(* (proxy/filter.py): three ItemLists, each a list of names beside a list  *)
(* of features, and the ensemble trained from them.  A feature is          *)
(* represented by the number of the example that brought it.               *)
(***************************************************************************)
EXTENDS Naturals, Sequences, FiniteSets, Functions

CONSTANTS
  Example,     \* names of training examples
  MaxModels,   \* the filter's argument max_models
  MaxExamples  \* bound: number of examples with a name that arrive

Label == {"positive", "negative"}

VARIABLES
  items,     \* per label, positive_items and negative_items: names and features
  unnamed,   \* init_negative_items has features
  arrived,   \* history: number of examples with a name that have arrived
  latest,    \* history: the last one this filter got for a label and name; 0: none
  full       \* length of full_models

filterVars == <<items, unnamed, arrived, latest, full>>

ASSUME FilterAssumption == MaxModels \in Nat /\ MaxExamples \in Nat

EmptyList == [names |-> <<>>, features |-> <<>>]

NoItems == [l \in Label |-> EmptyList]
NoneSent == [l \in Label |-> [n \in Example |-> 0]]

FilterInit ==
  /\ items = NoItems /\ unnamed = FALSE /\ full = 0 /\ latest = NoneSent
  /\ arrived = 0

\* ProxyFilter(): no examples, no models.
NewFilter ==
  /\ items' = NoItems /\ unnamed' = FALSE /\ full' = 0 /\ latest' = NoneSent
  /\ UNCHANGED arrived

Position(s, x) == CHOOSE i \in DOMAIN s : s[i] = x

\* Mutant: the feature of a name that is known is added once more.
AddAgain(list, n, f) ==
  IF n \in Range(list.names)
  THEN [names |-> list.names, features |-> Append(list.features, f)]
  ELSE [names |-> Append(list.names, n), features |-> Append(list.features, f)]

\* ItemList.add() of an item with a name.
Add(list, n, f) ==
  IF n \in Range(list.names)
  THEN [names |-> list.names,
        features |-> [list.features EXCEPT ![Position(list.names, n)] = f]]
  ELSE [names |-> Append(list.names, n), features |-> Append(list.features, f)]

\* The body of addItemList(): an example goes to the list of its label.
AddItem(lists, item, f) == [lists EXCEPT ![item[1]] = Add(@, item[2], f)]

\* The lists after the examples of a request, in their order; before says how
\* many had arrived.
AddInOrder(lists, order, before) ==
  LET added[i \in 0..Len(order)] ==
        IF i = 0 THEN lists ELSE AddItem(added[i - 1], order[i], before + i)
  IN  added[Len(order)]

\* The places of an example among the first m of a request, and the last of them.
Places(order, m, item) == {i \in 1..m : order[i] = item}
Last(places) == CHOOSE i \in places : \A j \in places : j <= i

\* Lists of examples with their labels, repeated as the client likes.
Batch == UNION {[1..n -> Label \X Example] : n \in 0..(MaxExamples - arrived)}

\* The examples of a zip file that have names are positive, each with its own.
ZipBatch ==
  {s \in Batch : \A i, j \in DOMAIN s : s[i][1] = "positive" /\ (s[i] = s[j] => i = j)}

\* Examples arrive: those of the zip file in send_blobs(), some without a name
\* when more says so, or those of a retrain.
AddItems(order, more) ==
  /\ arrived' = arrived + Len(order)
  /\ unnamed' = (unnamed \/ more)
  /\ items' = AddInOrder(items, order, arrived)
  /\ latest' = [l \in Label |-> [n \in Example |->
       LET places == Places(order, Len(order), <<l, n>>)
       IN  IF places = {} THEN latest[l][n] ELSE arrived + Last(places)]]

\* num_model_per_iter
PerIter == IF MaxModels \div 3 > 2 THEN MaxModels \div 3 ELSE 2

\* trainEnsemble() and sortModels(): new models join, the best are kept.
Trained == IF full + PerIter < MaxModels THEN full + PerIter ELSE MaxModels

\* getPrunedModels() takes the two best without looking; fit() needs examples
\* of both kinds.
Trainable ==
  /\ Trained > 1
  /\ items'["positive"].features # <<>>
  /\ items'["negative"].features # <<>> \/ unnamed'

\* The classifier is trained with the last feature sent for each example: the
\* two lists of an ItemList stay aligned, whatever is sent again, repeated
\* within a request or relabelled, and a new filter has none of the old examples.
LatestFeature ==
  \A l \in Label :
    LET list == items[l] IN
    /\ Len(list.names) = Len(list.features)
    /\ \A n \in Example :
         IF latest[l][n] = 0
         THEN n \notin Range(list.names)
         ELSE /\ n \in Range(list.names)
              /\ list.features[Position(list.names, n)] = latest[l][n]
=============================================================================
