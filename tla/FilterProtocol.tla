--------------------------- MODULE FilterProtocol ---------------------------
(***************************************************************************)
(* The conversation of one worker with its filter: _FilterRunner.evaluate, *)
(* the filter connections and connect() wrappers of server/filter.py on    *)
(* one side, the filter runtime of filter/__init__.py on the other, over a *)
(* pair of pipes.  It is composed with the resource context: connecting to *)
(* a filter in a container, and the ensure-resource command, call          *)
(* ensure_resource().  The other workers are followed only there.          *)
(*                                                                         *)
(* Objects are numbered by their turn on the connection.  A message        *)
(* carries the number of the object the filter worked on when it sent it;  *)
(* nothing on the wire says so, the runner takes every message for its own *)
(* current object.  Messages are told apart by what the runner does on     *)
(* them:                                                                   *)
(*   "init"    init-success                                                *)
(*   "ask"     get-attribute, omit-attribute, get-session-variables        *)
(*   "tell"    set-attribute, update-session-variables, log, stdout        *)
(*   "ensure"  ensure-resource                                             *)
(*   "hint"    hint-large-attribute                                        *)
(*   "result"  result                                                      *)
(*   "bad"     a command or value the runner rejects                       *)
(*   "cut"     any of them, cut off by the end of the filter               *)
(***************************************************************************)
EXTENDS ResourceContext, Sequences

CONSTANTS
  Runner,      \* the worker whose conversation is followed
  FilterSig,   \* the signature of its filter's container
  PipeMax,     \* messages the pipe to the runner holds
  MaxEvals     \* bound: objects the worker evaluates

ASSUME ProtocolAssumption ==
  /\ Runner \in Worker /\ FilterSig \in Sig
  /\ PipeMax \in Nat \ {0} /\ MaxEvals \in Nat \ {0}

VARIABLES
  mode,     \* how connect() reaches the filter: "process", "socat" or "fifo"
  stage,    \* where the runner is: "idle", "connect", "reading", "ensure"
  inited,   \* _proc_initialized
  turn,     \* objects evaluated on this connection
  evals,    \* objects evaluated
  hinted,   \* a hint ended an evaluate() on this connection
  filter,   \* the filter: "none" (_proc is None), "init", "run" or "dead"
  working,  \* the object the filter works on, or is to work on first
  asked,    \* the filter waits for a reply
  out,      \* the pipe from the filter
  reply     \* the pipe to the filter: the numbers of the objects replied for

runnerVars == <<stage, inited, turn, evals, hinted>>
filterVars == <<filter, working, asked, out, reply>>
vars == <<contextVars, mode, runnerVars, filterVars>>

Transport == {"process", "socat", "fifo"}
Kind == {"init", "ask", "tell", "ensure", "hint", "result", "bad", "cut"}
Message(k) == [kind |-> k, n |-> working]

Init ==
  /\ ContextInit
  /\ mode \in Transport
  /\ FilterSig \in nvidia => mode = "process"
  /\ stage = "idle" /\ inited = FALSE /\ turn = 0 /\ evals = 0 /\ hinted = FALSE
  /\ filter = "none" /\ working = 1 /\ asked = FALSE
  /\ out = <<>> /\ reply = <<>>

\* The worker is up and not inside ensure_resource().
Running == step[Runner] = "out"

-----------------------------------------------------------------------------
(***************************************************************************)
(* The runner                                                              *)
(***************************************************************************)

\* A new connection: the pipes are empty, and the runner has sent the
\* version, the name, the arguments and the blob.
Connected ==
  /\ filter' = "init" /\ working' = 1 /\ asked' = FALSE
  /\ out' = <<>> /\ reply' = <<>>
  /\ stage' = "reading" /\ inited' = FALSE /\ turn' = 1 /\ hinted' = FALSE

\* An exception that is no _DropObject: the worker signals the control process
\* and ends.
Fatal ==
  /\ stage' = "idle"
  /\ step' = [step EXCEPT ![Runner] = "raised"]
  /\ UNCHANGED <<nvidia, kind, ctl, lock, catalog, want, made, containers, refused>>

\* evaluate() of the next object: connect() unless there is a connection.
Evaluate ==
  /\ Running /\ stage = "idle" /\ evals < MaxEvals
  /\ evals' = evals + 1
  /\ \/ /\ filter # "none"
        /\ stage' = "reading" /\ turn' = turn + 1
        /\ UNCHANGED <<contextVars, inited, hinted, filterVars>>
     \/ /\ filter = "none" /\ mode = "process"
        /\ Connected /\ UNCHANGED contextVars
     \/ /\ filter = "none" /\ mode # "process"
        /\ Call(Runner, FilterSig)
        /\ stage' = "connect"
        /\ UNCHANGED <<inited, turn, hinted, filterVars>>
  /\ UNCHANGED mode

\* Popen() or the first send() fails.
ConnectFails ==
  /\ Running /\ stage = "idle" /\ evals < MaxEvals
  /\ filter = "none" /\ mode = "process"
  /\ evals' = evals + 1
  /\ Fatal
  /\ UNCHANGED <<mode, inited, turn, hinted, filterVars>>

\* The container is there: ten attempts to connect to its port, for which the
\* handle must have an address, or a new process in it with two fifos, for which
\* its name is enough.
ConnectContainer ==
  /\ Running /\ stage = "connect"
  /\ \/ /\ mode = "socat" => catalog[Home(Runner)][FilterSig].address
        /\ Connected /\ UNCHANGED contextVars
     \/ Fatal /\ UNCHANGED <<inited, turn, hinted, filterVars>>
  /\ UNCHANGED <<mode, evals>>

Reading == Running /\ stage = "reading"

\* get_tag() and the rest of the message.
Command(k) == Reading /\ out # <<>> /\ Head(out).kind = k /\ out' = Tail(out)

OnInit ==
  /\ Command("init")
  /\ inited' = TRUE
  /\ UNCHANGED <<contextVars, mode, stage, turn, evals, hinted, filter, working,
                 asked, reply>>

\* Mutant: a set-attribute branch that acknowledges.
OnTellReplies ==
  /\ Command("tell")
  /\ reply' = IF filter = "dead" THEN reply ELSE Append(reply, turn)
  /\ UNCHANGED <<contextVars, mode, runnerVars, filter, working, asked>>

OnTell ==
  /\ Command("tell")
  /\ UNCHANGED <<contextVars, mode, runnerVars, filter, working, asked, reply>>

\* A reply for the runner's current object.  To a filter that has died it is
\* lost; send() may also raise, see Died.
OnAsk ==
  /\ Command("ask")
  /\ reply' = IF filter = "dead" THEN reply ELSE Append(reply, turn)
  /\ UNCHANGED <<contextVars, mode, runnerVars, filter, working, asked>>

\* ensure-resource in the scope of the session, and the reply afterwards.
OnEnsure ==
  /\ Command("ensure")
  /\ \E s \in Sig : Call(Runner, s)
  /\ stage' = "ensure"
  /\ UNCHANGED <<mode, inited, turn, evals, hinted, filter, working, asked, reply>>

EnsureReply ==
  /\ Running /\ stage = "ensure"
  /\ stage' = "reading"
  /\ reply' = IF filter = "dead" THEN reply ELSE Append(reply, turn)
  /\ UNCHANGED <<contextVars, mode, inited, turn, evals, hinted, filter, working,
                 asked, out>>

OnResult ==
  /\ Command("result")
  /\ stage' = "idle"
  /\ UNCHANGED <<contextVars, mode, inited, turn, evals, hinted, filter, working,
                 asked, reply>>

\* The hint resizes the pipes and breaks out of the loop as a result does.
OnHint ==
  /\ Command("hint")
  /\ stage' = "idle" /\ hinted' = TRUE
  /\ UNCHANGED <<contextVars, mode, inited, turn, evals, filter, working, asked,
                 reply>>

\* An unknown command, scope, number or array: FilterExecutionError or
\* ValueError.
OnBad ==
  /\ Command("bad")
  /\ Fatal
  /\ UNCHANGED <<mode, inited, turn, evals, hinted, filter, working, asked, reply>>

\* Mutant: an evaluate() that waits for more from a filter that has died.
AtEndMissed ==
  /\ filter = "dead" /\ mode # "fifo" /\ inited
  /\ out # <<>> => Head(out).kind = "cut"

\* The runner is at the end of what a dead filter wrote, or writes to it.  The
\* fifos were opened O_RDWR by the runner itself, so theirs has no end.
AtEnd ==
  /\ filter = "dead" /\ mode # "fifo"
  /\ out # <<>> => Head(out).kind \in {"cut", "ask"}

\* IOError: the object is dropped and the next one gets a new filter, unless
\* the filter had not even initialized.
Died ==
  /\ Reading /\ AtEnd
  /\ IF inited
     THEN /\ stage' = "idle" /\ filter' = "none" /\ out' = <<>> /\ reply' = <<>>
          /\ asked' = FALSE
          /\ UNCHANGED contextVars
     ELSE Fatal /\ UNCHANGED <<filter, out, reply, asked>>
  /\ UNCHANGED <<mode, inited, turn, evals, hinted, working>>

-----------------------------------------------------------------------------
(***************************************************************************)
(* The filter                                                              *)
(***************************************************************************)

Alive == filter \in {"init", "run"} /\ Up(Runner)
Room == Len(out) < PipeMax

Send(k) == Room /\ out' = Append(out, Message(k))

\* init-success, and the first object.
FilterReady ==
  /\ Alive /\ filter = "init" /\ ~asked
  /\ Send("init")
  /\ filter' = "run"
  /\ UNCHANGED <<contextVars, mode, runnerVars, working, asked, reply>>

\* A command that needs no reply: an attribute set, session variables updated,
\* a line for the log.
FilterTells ==
  /\ Alive /\ ~asked
  /\ Send("tell")
  /\ UNCHANGED <<contextVars, mode, runnerVars, filter, working, asked, reply>>

\* The thread that forwards the standard output, at any time.
StdoutThread ==
  /\ Alive
  /\ Send("tell")
  /\ UNCHANGED <<contextVars, mode, runnerVars, filter, working, asked, reply>>

FilterHints ==
  /\ Alive /\ ~asked
  /\ Send("hint")
  /\ UNCHANGED <<contextVars, mode, runnerVars, filter, working, asked, reply>>

\* A filter that is not written with this runtime, or passes values no number
\* can be read from.
FilterMisspeaks ==
  /\ Alive /\ ~asked
  /\ Send("bad")
  /\ UNCHANGED <<contextVars, mode, runnerVars, filter, working, asked, reply>>

\* An attribute that the object has not read before, omit(), session variables
\* or a resource: a command whose reply the filter waits for.
FilterAsks ==
  /\ Alive /\ ~asked
  /\ Send("ask") \/ Send("ensure")
  /\ asked' = TRUE
  /\ UNCHANGED <<contextVars, mode, runnerVars, filter, working, reply>>

\* A reply is read, also one that a worker left in the pipe when it ended.
FilterReads ==
  /\ filter \in {"init", "run"} /\ asked /\ reply # <<>>
  /\ asked' = FALSE /\ reply' = Tail(reply)
  /\ UNCHANGED <<contextVars, mode, runnerVars, filter, working, out>>

\* The filter returns: result, invalidate(), and a new object at once.
FilterResult ==
  /\ Alive /\ filter = "run" /\ ~asked
  /\ Send("result")
  /\ working' = working + 1
  /\ UNCHANGED <<contextVars, mode, runnerVars, filter, asked, reply>>

\* Mutant: the main loop does not invalidate the object, whose commands go out.
FilterLingersUnchecked ==
  /\ Alive /\ filter = "run" /\ ~asked /\ working > 1 /\ Room
  /\ out' = Append(out, [kind |-> "tell", n |-> working - 1])
  /\ UNCHANGED <<contextVars, mode, runnerVars, filter, working, asked, reply>>

\* The filter kept an earlier object and uses it: check_valid() raises before
\* anything is sent, and the main loop logs and ends.
FilterLingers ==
  /\ Alive /\ filter = "run" /\ ~asked /\ working > 1
  /\ Send("tell")
  /\ filter' = "dead"
  /\ UNCHANGED <<contextVars, mode, runnerVars, working, asked, reply>>

\* The filter's code raises: a message for the log, and the end.
FilterRaises ==
  /\ Alive /\ ~asked
  /\ Send("tell")
  /\ filter' = "dead"
  /\ UNCHANGED <<contextVars, mode, runnerVars, working, asked, reply>>

\* The filter is killed or crashes, perhaps in the middle of a message.
FilterDies ==
  /\ Alive
  /\ filter' = "dead"
  /\ \/ UNCHANGED out
     \/ Room /\ out' = Append(out, Message("cut"))
  /\ UNCHANGED <<contextVars, mode, runnerVars, working, asked, reply>>

\* Its worker is gone.  The filter finds out when it reads the pipe and there
\* is no reply left, or at its next write, whenever its code gets there.
FilterOrphaned ==
  /\ filter \in {"init", "run"} /\ ~Up(Runner)
  /\ asked => reply = <<>>
  /\ filter' = "dead"
  /\ UNCHANGED <<contextVars, mode, runnerVars, working, asked, out, reply>>

-----------------------------------------------------------------------------
\* ensure_resource() of the runner raised, or a command was fatal.
RunnerRaised ==
  /\ Raised(Runner)
  /\ stage' = "idle"
  /\ UNCHANGED <<mode, inited, turn, evals, hinted, filterVars>>

RunnerSteps ==
  \/ Evaluate \/ ConnectFails \/ ConnectContainer
  \/ OnInit \/ OnTell \/ OnAsk \/ OnEnsure \/ EnsureReply \/ OnResult \/ OnHint
  \/ OnBad \/ Died \/ RunnerRaised

FilterSteps ==
  \/ FilterReady \/ FilterTells \/ StdoutThread \/ FilterHints \/ FilterMisspeaks
  \/ FilterAsks \/ FilterReads \/ FilterResult
  \/ FilterLingers \/ FilterRaises \/ FilterDies \/ FilterOrphaned

\* What the context does, for the runner and for everyone else.
ContextSteps ==
  \/ Control \/ ShutdownSteps
  \/ \E w \in Worker : Ensuring(w) \/ Killed(w) \/ Terminate(w)
  \/ \E w \in Worker \ {Runner} : Raised(w) \/ \E s \in Sig : Call(w, s)

Next ==
  \/ RunnerSteps \/ FilterSteps
  \/ ContextSteps /\ UNCHANGED <<mode, runnerVars, filterVars>>

Spec == Init /\ [][Next]_vars

\* The runner goes on reading while there is something to read, or the end to
\* find.  Nothing is assumed of how long the filter's own code takes.
Fairness ==
  WF_vars(OnInit \/ OnTell \/ OnAsk \/ OnEnsure \/ OnResult \/ OnHint \/ OnBad
          \/ Died)

FairSpec == Spec /\ Fairness

-----------------------------------------------------------------------------
(***************************************************************************)
(* Properties                                                              *)
(***************************************************************************)

TypeOK ==
  /\ ContextTypeOK
  /\ mode \in Transport
  /\ stage \in {"idle", "connect", "reading", "ensure"}
  /\ inited \in BOOLEAN /\ hinted \in BOOLEAN /\ asked \in BOOLEAN
  /\ turn \in Nat /\ evals \in 0..MaxEvals
  /\ filter \in {"none", "init", "run", "dead"}
  /\ working \in Nat \ {0}
  /\ out \in Seq([kind : Kind, n : Nat \ {0}]) /\ Len(out) <= PipeMax
  /\ reply \in Seq(Nat)

\* Whatever the runner reads during an evaluate() was sent for the object of
\* that evaluate(), though the filter runs ahead of it after each result,
\* filters die and are replaced, and its standard output comes from a thread of
\* its own.  A hint is the exception: it ends evaluate() while the filter goes on
\* with the same object.
CommandsOfCurrent ==
  Reading /\ out # <<>> /\ ~hinted => Head(out).n = turn

\* The reply in the pipe answers what the filter waits for: there is never one
\* that nobody waits for, nor a second one, and none while the command is still
\* unread.  A filter that is waiting has a command in the pipe, in the hands of
\* the runner or answered: neither side waits for the other.
RepliesMatch ==
  filter \in {"init", "run"} /\ step[Runner] \notin {"raised", "dead"} =>
    LET unread == {i \in 1..Len(out) : out[i].kind \in {"ask", "ensure"}} IN
    Cardinality(unread) + Len(reply) + (IF stage = "ensure" THEN 1 ELSE 0)
      = IF asked THEN 1 ELSE 0

\* A filter that has died does not hold up its worker in a read: evaluate()
\* drops the object, fails, or is on its way through what the filter had still
\* sent.  Not so for a filter behind fifos, whose death the runner cannot see.
DeathNoticed ==
  (Reading /\ filter = "dead" /\ mode # "fifo") ~> ~Reading
=============================================================================
