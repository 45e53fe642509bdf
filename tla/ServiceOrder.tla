----------------------------- MODULE ServiceOrder -----------------------------
(***************************************************************************)
(* What fully nested interrupt service promises, without priorities: the   *)
(* active levels are a stack.  A new service starts on top of every active *)
(* one, and an end of interrupt retires the one on top.  The stack is kept *)
(* as its set of members and the relation "was started on top of".         *)
(***************************************************************************)
CONSTANT Levels

VARIABLES active, over

Init == active = {} /\ over = {}

Begin(i) ==
  /\ i \in Levels \ active
  /\ active' = active \cup {i}
  /\ over' = over \cup ({i} \X active)

End(i) ==
  /\ i \in active
  /\ \A j \in active \ {i} : <<i, j>> \in over
  /\ active' = active \ {i}
  /\ over' = over \cap (active' \X active')

Reset == active' = {} /\ over' = {}

Next == (\E i \in Levels : Begin(i) \/ End(i)) \/ Reset

Spec == Init /\ [][Next]_<<active, over>>
=============================================================================
