--------------------------- MODULE ObjectDelivery ---------------------------
(***************************************************************************)
(* What a search promises its client on the blast channel: every object of *)
(* the scope is decided once, the accepted ones are delivered once each,   *)
(* and the end of the search is announced once, after all of them.         *)
(***************************************************************************)
CONSTANT Object

VARIABLES fate,   \* what became of each object
          ended   \* the end of the search has been announced

Init ==
  /\ fate = [o \in Object |-> "pending"]
  /\ ended = FALSE

Decide(o) ==
  /\ ~ended /\ fate[o] = "pending"
  /\ \E f \in {"delivered", "dropped"} : fate' = [fate EXCEPT ![o] = f]
  /\ UNCHANGED ended

End ==
  /\ ~ended /\ \A o \in Object : fate[o] # "pending"
  /\ ended' = TRUE
  /\ UNCHANGED fate

Next == (\E o \in Object : Decide(o)) \/ End

Spec == Init /\ [][Next]_<<fate, ended>>
=============================================================================
