---------------------------- MODULE ConnListener ----------------------------
(***************************************************************************)
(* The supervisor's matchmaker (server/listen.py, and the accept loop of   *)
(* DiamondServer.run in server/server.py): it pairs control and data       *)
(* connections by the nonce it hands out on the control connection.  One   *)
(* thread handles all of them, a batch of poll() events at a time, while   *)
(* the clients go on sending and closing.                                  *)
(*                                                                         *)
(* A nonce is as good as the search it belongs to.  NONCE_LEN bytes are    *)
(* two parts that may arrive one by one.                                   *)
(***************************************************************************)
EXTENDS Integers, Sequences, FiniteSets

CONSTANTS
  Search,     \* clients, each of which opens one control and one data connection
  MaxResets   \* bound: connections that end in a reset rather than a close

ASSUME ConstantsAssumption == MaxResets \in Nat

Conn == Search \X {"control", "data"}
IsControl(c) == c[2] = "control"
Control(c) == <<c[1], "control">>

\* The listening socket, as an element of the poll set.
Listening == <<"listening", "socket">>
NonceLen == 2

VARIABLES
  client,    \* the client's end of each connection
  sent,      \* parts of the nonce the client has sent
  got,       \* parts the server has read: len(pconn.nonce)
  accepted,  \* connections taken from the listening socket
  reg,       \* connections registered in the poll set
  named,     \* control connections entered in _nonce_to_pending
  echoed,    \* connections whose client was sent the nonce
  dead,      \* connections cleaned up because they had died
  held,      \* the list poll() returned, which keeps its connections alive
  batch,     \* its elements that are still to be handled
  phase,     \* where the supervisor is
  refused,   \* connections that connection_ok() turned away
  pairs,     \* searches whose pair accept() has returned, in order
  resets     \* connections reset so far

clientVars == <<client, sent, resets>>
serverVars == <<got, accepted, reg, named, echoed, dead, refused, pairs>>
loopVars   == <<held, batch, phase>>
vars == <<clientVars, serverVars, loopVars>>

Init ==
  /\ client = [c \in Conn |-> "new"]
  /\ sent = [c \in Conn |-> 0] /\ got = [c \in Conn |-> 0]
  /\ accepted = {} /\ reg = {} /\ named = {} /\ echoed = {} /\ dead = {}
  /\ refused = {}
  /\ held = {} /\ batch = {} /\ phase = "poll"
  /\ pairs = <<>> /\ resets = 0

-----------------------------------------------------------------------------
(***************************************************************************)
(* The client: connect(), which sends the nonce; the data connection is    *)
(* opened with the nonce that came back on the control connection.         *)
(***************************************************************************)

Connect(c) ==
  /\ client[c] = "new"
  /\ IsControl(c) \/ Control(c) \in echoed
  /\ client' = [client EXCEPT ![c] = "open"]
  /\ UNCHANGED <<sent, resets, serverVars, loopVars>>

SendPart(c) ==
  /\ client[c] = "open" /\ sent[c] < NonceLen
  /\ sent' = [sent EXCEPT ![c] = @ + 1]
  /\ UNCHANGED <<client, resets, serverVars, loopVars>>

Close(c) ==
  /\ client[c] = "open"
  /\ client' = [client EXCEPT ![c] = "closed"]
  /\ UNCHANGED <<sent, resets, serverVars, loopVars>>

Reset(c) ==
  /\ client[c] = "open" /\ resets < MaxResets
  /\ client' = [client EXCEPT ![c] = "reset"]
  /\ resets' = resets + 1
  /\ UNCHANGED <<sent, serverVars, loopVars>>

-----------------------------------------------------------------------------
(***************************************************************************)
(* ConnListener.accept() and what it calls.                                *)
(***************************************************************************)

Waiting == {c \in Conn : client[c] # "new"} \ accepted
Readable(c) == sent[c] > got[c] \/ client[c] # "open"
Ready == {c \in reg : Readable(c)}
           \cup (IF Waiting # {} THEN {Listening} ELSE {})

\* _PendingConnPollSet.poll(): everything that is ready, in some order.
Poll ==
  /\ phase = "poll" /\ Ready # {}
  /\ held' = Ready /\ batch' = Ready
  /\ phase' = "batch"
  /\ UNCHANGED <<clientVars, serverVars>>

\* accept(): the for loop ends and drops the list.
BatchDone ==
  /\ phase = "batch" /\ batch = {}
  /\ held' = {} /\ phase' = "poll"
  /\ UNCHANGED <<batch, clientVars, serverVars>>

\* _accept(): takes every waiting connection; those that connection_ok()
\* refuses are closed.
AcceptAll ==
  /\ phase = "batch" /\ Listening \in batch
  /\ batch' = batch \ {Listening}
  /\ accepted' = accepted \cup Waiting
  /\ \E ok \in SUBSET Waiting : /\ reg' = reg \cup ok
                                /\ refused' = refused \cup (Waiting \ ok)
  /\ UNCHANGED <<held, phase, got, named, echoed, dead, pairs, clientVars>>

\* Mutant: nothing but the current batch keeps a pending connection alive.
KnownInBatch(c) == c \in named \cap held

\* _nonce_to_pending.get(): it holds weak references, so it has what the poll
\* set or the list of the current batch keeps alive.
Known(c) == c \in named \cap (reg \cup held)

\* What happens to connection c of the batch.
Handling(c) == phase = "batch" /\ c \in batch /\ batch' = batch \ {c}

\* read_nonce() gets part of the nonce.
ReadPart(c) ==
  /\ Handling(c)
  /\ client[c] # "reset" /\ got[c] < sent[c] /\ sent[c] < NonceLen
  /\ got' = [got EXCEPT ![c] = sent[c]]
  /\ UNCHANGED <<held, phase, accepted, reg, named, echoed, dead, pairs,
                 refused, clientVars>>

\* Mutant: a connection that died stays in the poll set.
CleanUpNothing(c) ==
  /\ dead' = dead \cup {c}
  /\ UNCHANGED <<held, phase, accepted, reg, named, echoed, pairs, refused,
                 clientVars>>

\* _traffic(), except _ConnectionClosed.
CleanUp(c) ==
  /\ reg' = reg \ {c}
  /\ dead' = dead \cup {c}
  /\ UNCHANGED <<held, phase, accepted, named, echoed, pairs, refused,
                 clientVars>>

\* read_nonce() finds the connection closed, or readable once more after the
\* nonce.
ConnectionDied(c) ==
  /\ Handling(c)
  /\ client[c] # "reset" /\ got[c] = sent[c]
  /\ CleanUp(c) /\ UNCHANGED got

\* recv() of a connection that was reset raises an OSError that nothing on
\* the way to run() catches; after the whole nonce recv() is not called.
ConnectionReset(c) ==
  /\ Handling(c)
  /\ client[c] = "reset"
  /\ IF got[c] < NonceLen
       THEN phase' = "failed" /\ UNCHANGED <<held, serverVars, clientVars>>
       ELSE CleanUp(c) /\ UNCHANGED got

\* read_nonce() has the whole nonce.
Complete(c) ==
  /\ Handling(c)
  /\ client[c] # "reset" /\ got[c] < sent[c] /\ sent[c] = NonceLen
  /\ got' = [got EXCEPT ![c] = NonceLen]

\* send_nonce() may fail when the client has closed.
SendFails(c) ==
  /\ Complete(c) /\ client[c] # "open"
  /\ IsControl(c) \/ Known(Control(c))
  /\ CleanUp(c)

\* A control connection: answer with a fresh nonce, and remember it.
NameControl(c) ==
  /\ Complete(c) /\ IsControl(c)
  /\ echoed' = echoed \cup {c}
  /\ named' = named \cup {c}
  /\ UNCHANGED <<held, phase, accepted, reg, dead, pairs, refused, clientVars>>

\* A data connection with a nonce that is not known, or no longer known.
UnknownNonce(c) ==
  /\ Complete(c) /\ ~IsControl(c) /\ ~Known(Control(c))
  /\ reg' = reg \ {c}
  /\ UNCHANGED <<held, phase, accepted, named, echoed, dead, pairs, refused,
                 clientVars>>

\* Mutant: unregister() of a connection that is not registered is harmless.
MatchAnyway(c) ==
  /\ Complete(c) /\ ~IsControl(c) /\ Known(Control(c))
  /\ echoed' = echoed \cup {c}
  /\ reg' = reg \ {c, Control(c)}
  /\ pairs' = Append(pairs, c[1])
  /\ held' = {} /\ phase' = "start"
  /\ UNCHANGED <<accepted, named, dead, refused, clientVars>>

\* A match: both are unregistered and accept() returns, dropping the rest of
\* the batch.  If an earlier event of the batch has unregistered the control
\* connection, unregister() raises a KeyError that ends run().
Match(c) ==
  /\ Complete(c) /\ ~IsControl(c) /\ Known(Control(c))
  /\ echoed' = echoed \cup {c}
  /\ IF Control(c) \in reg
       THEN /\ reg' = reg \ {c, Control(c)}
            /\ pairs' = Append(pairs, c[1])
            /\ held' = {} /\ phase' = "start"
       ELSE /\ phase' = "failed"
            /\ UNCHANGED <<reg, pairs, held>>
  /\ UNCHANGED <<accepted, named, dead, refused, clientVars>>

\* run(): forks a child for the pair and calls accept() again.
StartChild ==
  /\ phase = "start"
  /\ phase' = "poll" /\ batch' = {}
  /\ UNCHANGED <<held, clientVars, serverVars>>

-----------------------------------------------------------------------------
ServerStep ==
  \/ Poll \/ BatchDone \/ AcceptAll \/ StartChild
  \/ \E c \in Conn :
       \/ ReadPart(c) \/ ConnectionDied(c) \/ ConnectionReset(c)
       \/ SendFails(c) \/ NameControl(c) \/ UnknownNonce(c) \/ Match(c)

ClientStep(c) == Connect(c) \/ SendPart(c)

Next == ServerStep \/ \E c \in Conn : ClientStep(c) \/ Close(c) \/ Reset(c)

Spec == Init /\ [][Next]_vars

\* The supervisor runs, and a client that has begun to connect goes on, unless
\* it closes.
Fairness == WF_vars(ServerStep) /\ \A c \in Conn : WF_vars(ClientStep(c))

FairSpec == Spec /\ Fairness

-----------------------------------------------------------------------------
TypeOK ==
  /\ client \in [Conn -> {"new", "open", "closed", "reset"}]
  /\ sent \in [Conn -> 0..NonceLen] /\ got \in [Conn -> 0..NonceLen]
  /\ accepted \subseteq Conn /\ reg \subseteq Conn /\ named \subseteq Conn
  /\ echoed \subseteq Conn /\ dead \subseteq Conn /\ refused \subseteq Conn
  /\ held \subseteq Conn \cup {Listening} /\ batch \subseteq Conn \cup {Listening}
  /\ phase \in {"poll", "batch", "start", "failed"}
  /\ pairs \in Seq(Search) /\ resets \in 0..MaxResets

Paired(s) == \E i \in DOMAIN pairs : pairs[i] = s

\* A child is forked at most once for a nonce, and never for a control
\* connection that the supervisor has already found dead, not even when both ends
\* come in the same batch.
PairedOnceAlive ==
  /\ \A i, j \in DOMAIN pairs : pairs[i] = pairs[j] => i = j
  /\ \A s \in Search : Paired(s) => <<s, "control">> \notin dead

\* The client of s has closed or reset one of its connections, or
\* connection_ok() has turned it away.
BrokenOff(s) ==
  \E c \in {<<s, "control">>, <<s, "data">>} :
    client[c] \in {"closed", "reset"} \/ c \in refused

\* Every search whose client connects and stays gets its child, though batches
\* are cut short by the pairs of other searches: its nonce is never forgotten,
\* and neither of its connections is dropped as dead or as unknown.  (Clients
\* are finitely many and what settles a search lasts, so all are settled at once
\* in the end.)
SearchPaired ==
  []<>(\A s \in Search :
         \/ Paired(s) \/ BrokenOff(s) \/ phase = "failed"
         \/ client[<<s, "control">>] = "new")

\* A pending connection whose client has gone is not kept.
GoneReleased ==
  []<>(phase = "failed" \/ \A c \in reg : client[c] = "open")
=============================================================================
