----------------------------- MODULE FilterStack -----------------------------
(***************************************************************************)
(* FilterStack of server/filter.py: the order in which the filters of a    *)
(* search are executed.  Each filter has a name, the names it depends on,  *)
(* and a cache digest.                                                     *)
(***************************************************************************)
EXTENDS Integers, Sequences, SequencesExt

\* The constructor's resolve(f): the dependencies of f in their order, then f.
\* acc is the list so far, or FilterDependencyError after a cycle or a
\* dependency that is not in the stack.
Failed == [ok |-> FALSE, order |-> <<>>]

RECURSIVE Resolve(_, _, _, _)
Resolve(f, inprocess, acc, deps) ==
  IF ~acc.ok \/ f \in Range(acc.order) THEN acc
  ELSE IF f \in inprocess \/ f \notin DOMAIN deps THEN Failed
  ELSE LET visit(a, d) == Resolve(d, inprocess \cup {f}, a, deps)
           done == FoldLeft(visit, acc, deps[f])
       IN  IF done.ok THEN [ok |-> TRUE, order |-> Append(done.order, f)] ELSE Failed

\* The execution order of the filters, in the order the client named them.
Order(filters, deps) ==
  LET visit(a, f) == Resolve(f, {}, a, deps)
  IN  FoldLeft(visit, [ok |-> TRUE, order |-> <<>>], filters)

\* optimize(): of the filters with one digest, the first.
Optimize(order, digest) ==
  LET keep(a, f) == IF \E i \in 1..Len(a) : digest[a[i]] = digest[f]
                    THEN a ELSE Append(a, f)
  IN  FoldLeft(keep, <<>>, order)

=============================================================================
