-------------------------- MODULE OperationService --------------------------
(***************************************************************************)
(* What OperationsRunner promises its owner: an operation handed over is   *)
(* delivered to the delegate at most once, and not at all if               *)
(* cancelOperations came first.  With delivery on the owner's own thread   *)
(* no delivery is under way when cancelOperations runs; with delivery on   *)
(* the operations' threads one may be, and is completed.                   *)
(***************************************************************************)
CONSTANT Ops

VARIABLES
  onMain,   \* deliveries are made on the owner's thread; never changes
  status    \* "new", "running", "telling", "delivered" or "dropped"

vars == <<onMain, status>>

Init == onMain \in BOOLEAN /\ status = [op \in Ops |-> "new"]

Moves(op, from, to) ==
  /\ status[op] = from
  /\ status' = [status EXCEPT ![op] = to]

CancelAll ==
  /\ onMain => \A op \in Ops : status[op] # "telling"
  /\ status' = [op \in Ops |-> IF status[op] = "running" THEN "dropped"
                               ELSE status[op]]

Next ==
  /\ UNCHANGED onMain
  /\ \/ CancelAll
     \/ \E op \in Ops : \/ Moves(op, "new", "running")
                        \/ Moves(op, "running", "telling")
                        \/ Moves(op, "telling", "delivered")

Spec == Init /\ [][Next]_vars
=============================================================================
