--------------------------- MODULE RequestService ---------------------------
(***************************************************************************)
(* What ORSSerialPort.h promises of sendRequest: (lines 257-296, 352-370), *)
(* without queues, timers or threads: calls wait, one at a time is         *)
(* pending, they become pending in the order of the calls, and each is     *)
(* settled once.                                                           *)
(***************************************************************************)
EXTENDS Naturals, Sequences

VARIABLE status   \* status[i]: where the i-th sendRequest: call is

Settled  == {"answered", "timedOut", "noReply", "cancelled", "discarded"}
Statuses == {"waiting", "pending"} \cup Settled

(* The moves one call can make in a step; a call that needs no response,   *)
(* or that is answered at once by the next one's turn, passes "pending"    *)
(* within the step.                                                        *)
Moves ==
  {<<s, s>> : s \in Statuses}
    \cup ({"waiting"} \X {"pending", "noReply", "cancelled", "discarded"})
    \cup ({"pending"} \X {"answered", "timedOut", "discarded"})

Started(s) == s \in {"pending", "noReply"}
Starts(i)  == status[i] = "waiting" /\ Started(status'[i])

Init == status = <<>>

Accept == status' = Append(status, "waiting")

(* Any number of calls move, but: at most one is pending afterwards, no    *)
(* call starts while an earlier one keeps waiting, and none starts while   *)
(* the pending one stays pending.                                          *)
Progress ==
  /\ status' \in Seq(Statuses)
  /\ DOMAIN status' = DOMAIN status
  /\ \A i \in DOMAIN status : <<status[i], status'[i]>> \in Moves
  /\ \A i, j \in DOMAIN status :
       status'[i] = "pending" /\ status'[j] = "pending" => i = j
  /\ \A i, j \in DOMAIN status : i < j /\ Starts(j) => status'[i] # "waiting"
  /\ \A i, j \in DOMAIN status :
       Starts(j) => ~(status[i] = "pending" /\ status'[i] = "pending")

Spec == Init /\ [][Accept \/ Progress]_status
=============================================================================
