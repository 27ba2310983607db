--------------------------- MODULE MCResultCache ---------------------------
(***************************************************************************)
(* P reads the data and sets a; Q reads a, sets b and omits a; R reads a   *)
(* and b and omits b.  A filter scores 1 when an attribute it needs is     *)
(* absent, else 2.                                                         *)
(***************************************************************************)
EXTENDS ResultCache, FilterStack, TLC

\* Workers are interchangeable.
Symmetry == Permutations(Proc)

MCFilter == {"fetch", "P", "Q", "R"}
MCIn  == [f \in MCFilter |-> CASE f = "fetch" -> {} [] f = "P" -> {"data"}
                               [] f = "Q" -> {"a"} [] f = "R" -> {"a", "b"}]
MCOut == [f \in MCFilter |-> CASE f = "fetch" -> {"data"} [] f = "P" -> {"a"}
                               [] f = "Q" -> {"b"} [] f = "R" -> {}]
MCOmit == [f \in MCFilter |-> CASE f = "Q" -> {"a"} [] f = "R" -> {"b"} [] OTHER -> {}]
MCAbsent == <<>>
MCSpoilt == <<"spoilt">>
MCOutVal(f, k, inp) == <<f, k, inp>>
MCScore(f, inp) == IF \E k \in DOMAIN inp : inp[k] = <<>> THEN 1 ELSE 2

\* The searches: the filters as the client lists them, and what they depend
\* on.  r and r2 are one filter under two names; the last search forgets that q
\* needs p, and the two before it cannot be ordered.
Digest == [n \in {"p", "q", "r", "r2"} |->
             CASE n = "p" -> "P" [] n = "q" -> "Q" [] OTHER -> "R"]
Searches ==
  {[list |-> <<"r", "p">>, deps |-> [n \in {"p", "r"} |->
      IF n = "r" THEN <<"p">> ELSE <<>>]],
   [list |-> <<"r2", "r", "q", "p">>, deps |-> [n \in {"p", "q", "r", "r2"} |->
      CASE n = "p" -> <<>> [] n = "q" -> <<"p">> [] OTHER -> <<"p", "q">>]],
   [list |-> <<"p", "q">>, deps |-> [n \in {"p", "q"} |->
      IF n = "p" THEN <<"q">> ELSE <<"p">>]],
   [list |-> <<"q">>, deps |-> [n \in {"q"} |-> <<"p">>]],
   [list |-> <<"r", "q">>, deps |-> [n \in {"q", "r"} |->
      IF n = "r" THEN <<"q">> ELSE <<>>]]}
MCStacks ==
  {LET names == Optimize(Order(s.list, s.deps).order, Digest)
   IN  <<"fetch">> \o [i \in 1..Len(names) |-> Digest[names[i]]] :
     s \in {s \in Searches : Order(s.list, s.deps).ok}}

ASSUME OrderAssumption ==
  MCStacks = {<<"fetch", "P", "R">>, <<"fetch", "P", "Q", "R">>, <<"fetch", "Q", "R">>}

\* One search drops what lacks an attribute R needs, the other what has it.
MCThresholds ==
  {[f \in MCFilter |-> IF f = "R" THEN t ELSE {1, 2}] : t \in {{2}, {1}}}

=============================================================================
