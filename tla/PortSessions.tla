---------------------------- MODULE PortSessions ----------------------------
(***************************************************************************)
(* The life of the port as the request queue sees it (ORSSerialPort.m,     *)
(* open 246-340, reallyClosePort 349-382): it is open or closed; after a   *)
(* close the main thread runs serialPortWasClosed:, one call at a time,    *)
(* and only when a call has returned is its reset dispatched.  These are   *)
(* the steps Open, ReallyClosePort, MainRunsWasClosed, MainReturns and     *)
(* DispatchReset of SerialRequests; here a session is named, not counted.  *)
(***************************************************************************)
CONSTANTS Sessions, HandlesClosed

VARIABLES
  portOpen,
  closeWaiting,     \* sessions whose close waits for the main thread
  inWasClosed,      \* the session serialPortWasClosed: is running for, if any
  closeReturning    \* sessions whose callback returned, reset not dispatched

vars == <<portOpen, closeWaiting, inWasClosed, closeReturning>>

Init ==
  /\ portOpen = FALSE
  /\ closeWaiting = {} /\ inWasClosed = {} /\ closeReturning = {}

Open ==
  /\ ~portOpen /\ portOpen' = TRUE
  /\ UNCHANGED <<closeWaiting, inWasClosed, closeReturning>>

ReallyClosePort ==
  /\ portOpen /\ portOpen' = FALSE
  /\ IF HandlesClosed
     THEN \E n \in Sessions \ (closeWaiting \cup inWasClosed \cup closeReturning) :
            closeWaiting' = closeWaiting \cup {n}
     ELSE UNCHANGED closeWaiting
  /\ UNCHANGED <<inWasClosed, closeReturning>>

MainRunsWasClosed ==
  /\ inWasClosed = {}
  /\ \E n \in closeWaiting :
       closeWaiting' = closeWaiting \ {n} /\ inWasClosed' = {n}
  /\ UNCHANGED <<portOpen, closeReturning>>

MainReturns ==
  /\ inWasClosed # {} /\ inWasClosed' = {}
  /\ closeReturning' = closeReturning \cup inWasClosed
  /\ UNCHANGED <<portOpen, closeWaiting>>

DispatchReset ==
  /\ \E n \in closeReturning : closeReturning' = closeReturning \ {n}
  /\ UNCHANGED <<portOpen, closeWaiting, inWasClosed>>

Next == Open \/ ReallyClosePort \/ MainRunsWasClosed \/ MainReturns
          \/ DispatchReset

Spec == Init /\ [][Next]_vars
=============================================================================
