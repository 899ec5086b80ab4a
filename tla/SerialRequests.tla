--------------------------- MODULE SerialRequests ---------------------------
(***************************************************************************)
(* The request/response half of ORSSerialPort (ORSSerialPort.m): one       *)
(* pending request, a FIFO of requests behind it, a timeout timer, all of  *)
(* them touched only by blocks and timer events of the serial dispatch     *)
(* queue requestHandlingQueue.  Client threads put blocks on that queue,   *)
(* the read source puts received data on it, delegate callbacks run as     *)
(* blocks of the main queue, and the timeout callback hops from one queue  *)
(* to the other and back.  One callback does not wait for its turn: when   *)
(* the main thread's own sendRequest: cannot write, the delegate is told   *)
(* inside the block (774-775), with the queue held.  (Told of a failed     *)
(* write on another thread, it is told by a block of the main queue that   *)
(* changes nothing here, which is left out.)                               *)
(*                                                                         *)
(* The i-th call of sendRequest: is named by the number i, so that the     *)
(* same request object may be sent again.  A response is abstracted to the *)
(* byte that completes it (SerialPackets models the matching), and the     *)
(* port to open or closed (SerialPortLifecycle models that half).          *)
(***************************************************************************)
EXTENDS Naturals, SequencesExt

CONSTANTS
  Requests,        \* ORSSerialRequest objects
  Expects,         \* the requests that have a responseDescriptor
  Timed,           \* the requests whose timeoutInterval is positive
  Bytes,           \* bytes the device sends
  Answers,         \* Answers[r]: the bytes that complete a response to r
  Chunks,          \* what one read(2) may return
  Clients, Main,   \* threads that call the public methods; Main is one
  HandlesTimeout,  \* delegate implements serialPort:requestDidTimeout:
  HandlesClosed,   \* delegate implements serialPortWasClosed:
  HandlesError,    \* delegate implements serialPort:didEncounterError:
  MaxSends, MaxChunks, MaxSessions, MaxBacklog   \* bounds of the model

ASSUME RequestsAssumption ==
  /\ Expects \subseteq Requests
  /\ Timed \subseteq Requests
  /\ Answers \in [Expects -> SUBSET Bytes]
  /\ Chunks \subseteq Seq(Bytes) \ {<<>>}
  /\ Main \in Clients
  /\ HandlesTimeout \in BOOLEAN
  /\ HandlesClosed \in BOOLEAN
  /\ HandlesError \in BOOLEAN
  /\ MaxSends \in Nat /\ MaxChunks \in Nat
  /\ MaxSessions \in Nat /\ MaxBacklog \in Nat

VARIABLES
  sent,            \* sent[i]: the request of the i-th sendRequest: call
  requestsQueue,   \* the calls waiting behind the pending one
  pendingRequest,  \* the call awaiting a response, 0 for nil
  timeoutTimer,    \* the call pendingRequestTimeoutTimer was armed for, or 0
  handlingQueue,   \* blocks of requestHandlingQueue, in order
  mainQueue,       \* blocks of the main queue, in order
  mainRunning,     \* the delegate callback the main thread is in
  blocked,         \* clients inside the dispatch_sync of sendRequest:
  inError,         \* main is told of its own failed write, inside the block
  portOpen,        \* isOpen
  sessions,        \* how often the port was opened
  closeWaiting,    \* reallyClosePort calls waiting for the main thread
  closeReturning,  \* ... whose callback returned, reset not yet dispatched
  chunks,          \* reads so far
  freshFrom,       \* ghost: first call made since the last reopening
  wire,            \* ghost: calls whose data was written, in order
  fate             \* ghost: fate[i], how the i-th call was settled

threadVars == <<mainQueue, mainRunning, blocked, inError>>
portVars   == <<portOpen, sessions, closeWaiting, closeReturning, chunks,
                freshFrom>>
queueVars  == <<requestsQueue, pendingRequest, timeoutTimer, wire, fate>>
vars == <<sent, queueVars, handlingQueue, threadVars, portVars>>

Ids   == Nat \ {0}
Fates == {"answered", "timedOut", "noReply", "cancelled", "discarded"}
Idle  == [op |-> "idle", id |-> 0]

Block == [op : {"send"}, id : Ids, client : Clients]
   \cup [op : {"cancel"}, request : Requests]
   \cup [op : {"cancelAll", "sendNext", "reset"}]
   \cup [op : {"receive"}, data : Seq(Bytes) \ {<<>>}, begun : BOOLEAN]

MainBlock == [op : {"timeout", "response", "closed"}, id : Nat]

Init ==
  /\ sent = <<>> /\ fate = <<>> /\ wire = <<>>
  /\ requestsQueue = <<>> /\ pendingRequest = 0 /\ timeoutTimer = 0
  /\ handlingQueue = <<>> /\ mainQueue = <<>> /\ mainRunning = Idle
  /\ blocked = {} /\ inError = FALSE
  /\ portOpen = FALSE /\ sessions = 0
  /\ closeWaiting = 0 /\ closeReturning = 0 /\ chunks = 0
  /\ freshFrom = 1

-----------------------------------------------------------------------------
(* What a block does to the queue and the pending request.                 *)

Settle(f, ids, how) ==
  [i \in DOMAIN f |-> IF i \in ids THEN f[i] \cup {how} ELSE f[i]]

Prefix(q, n) == SubSeq(q, 1, n)
IdsOf(q) == {q[i] : i \in DOMAIN q}

(* Mutant: only the requests before the last one sent arm the timer.       *)
ArmTimerLate(q, n, timer) ==
  IF n > 1 /\ sent[q[n - 1]] \in Timed THEN timeoutTimer' = q[n - 1]
  ELSE timeoutTimer' = timer

(* dispatch_source_create and the setter: each timed request among the     *)
(* first n of q replaces the timer, the others leave it alone.             *)
ArmTimer(q, n, timer) ==
  LET timed == {i \in DOMAIN q : i <= n /\ sent[q[i]] \in Timed}
  IN  \/ timed = {} /\ timeoutTimer' = timer
      \/ \E i \in timed : /\ \A j \in timed : j <= i
                          /\ timeoutTimer' = q[i]

(* The calls of q are sent one after the other (reallySendRequest,         *)
(* checkResponse... with nil, sendNextRequest call each other) while they  *)
(* are written and need no response; n of them are, and the next one, if   *)
(* there is one, stays pending: it needs a response, or sendData failed.   *)
SendFrom(q, timer, f) ==
  \E n \in 0..Len(q), written \in BOOLEAN :
    /\ n > 0 => portOpen
    /\ \A i \in 1..n : sent[q[i]] \notin Expects
    /\ written => /\ n < Len(q) /\ portOpen
                  /\ sent[q[n + 1]] \in Expects
    /\ pendingRequest' = IF n = Len(q) THEN 0 ELSE q[n + 1]
    /\ requestsQueue' = SubSeq(q, n + 2, Len(q))
    /\ wire' = wire \o Prefix(q, IF written THEN n + 1 ELSE n)
    /\ fate' = Settle(f, IdsOf(Prefix(q, n)), "noReply")
    /\ ArmTimer(q, n + 1, timer)

(* Mutant: a request is sent although another one is pending.              *)
SendAtOnce(id) == SendFrom(<<id>> \o requestsQueue, timeoutTimer, fate)

(* Mutant: a request is queued before the ones already waiting.            *)
SendLastFirst(id) ==
  IF pendingRequest = 0 THEN SendAtOnce(id)
  ELSE /\ requestsQueue' = <<id>> \o requestsQueue
       /\ UNCHANGED <<pendingRequest, timeoutTimer, wire, fate>>

ReallySendRequest(id) ==
  \/ /\ pendingRequest = 0
     /\ SendFrom(<<id>> \o requestsQueue, timeoutTimer, fate)
  \/ /\ pendingRequest # 0
     /\ requestsQueue' = Append(requestsQueue, id)
     /\ UNCHANGED <<pendingRequest, timeoutTimer, wire, fate>>

(* write(2) has failed in the block (411), not just found the port closed. *)
WriteFails ==
  /\ portOpen /\ pendingRequest = 0
  /\ pendingRequest' \notin IdsOf(wire') \cup {0}

Completes(byte) ==
  /\ pendingRequest # 0
  /\ sent[pendingRequest] \in Expects
  /\ byte \in Answers[sent[pendingRequest]]

Report(op) == mainQueue' = Append(mainQueue, [op |-> op, id |-> pendingRequest])

(* Mutants: a response leaves its request pending, or its timer armed.     *)
AnswerStaysPending ==
  /\ Report("response")
  /\ timeoutTimer' = 0
  /\ fate' = Settle(fate, {pendingRequest}, "answered")
  /\ UNCHANGED <<requestsQueue, pendingRequest, wire>>
AnswerKeepsTimer ==
  /\ Report("response")
  /\ SendFrom(requestsQueue, timeoutTimer,
              Settle(fate, {pendingRequest}, "answered"))

Answer ==
  /\ Report("response")
  /\ SendFrom(requestsQueue, 0, Settle(fate, {pendingRequest}, "answered"))

(* Mutants: reallyClosePort's block forgets one of its two assignments.    *)
ForgetPendingOnly == pendingRequest' = 0 /\ UNCHANGED requestsQueue
ForgetQueueOnly   == requestsQueue' = <<>> /\ UNCHANGED pendingRequest

ForgetRequests == requestsQueue' = <<>> /\ pendingRequest' = 0

-----------------------------------------------------------------------------
(* Public methods, called on any thread that is not inside one.            *)

SendRequest(c, r) ==
  /\ c \notin blocked /\ Len(sent) < MaxSends
  /\ sent' = Append(sent, r)
  /\ fate' = Append(fate, {})
  /\ handlingQueue' = Append(handlingQueue,
                        [op |-> "send", id |-> Len(sent) + 1, client |-> c])
  /\ blocked' = blocked \cup {c}
  /\ UNCHANGED <<requestsQueue, pendingRequest, timeoutTimer, wire,
                 mainQueue, mainRunning, inError, portVars>>

CancelQueuedRequest(c, r) ==
  /\ c \notin blocked /\ Len(handlingQueue) < MaxBacklog
  /\ handlingQueue' = Append(handlingQueue, [op |-> "cancel", request |-> r])
  /\ UNCHANGED <<sent, queueVars, threadVars, portVars>>

CancelAllQueuedRequests(c) ==
  /\ c \notin blocked /\ Len(handlingQueue) < MaxBacklog
  /\ handlingQueue' = Append(handlingQueue, [op |-> "cancelAll"])
  /\ UNCHANGED <<sent, queueVars, threadVars, portVars>>

(* freshFrom counts only calls made after a reopening that itself came     *)
(* after serialPortWasClosed: had returned.                                *)
Open(c) ==
  /\ c \notin blocked /\ ~portOpen /\ sessions < MaxSessions
  /\ portOpen' = TRUE
  /\ sessions' = sessions + 1
  /\ freshFrom' = IF closeWaiting = 0 /\ mainRunning.op # "closed"
                  THEN Len(sent) + 1 ELSE MaxSends + 1
  /\ UNCHANGED <<sent, queueVars, handlingQueue, threadVars,
                 closeWaiting, closeReturning, chunks>>

-----------------------------------------------------------------------------
(* Global-queue threads: the read source and reallyClosePort.              *)

ReceiveData(data) ==
  /\ portOpen /\ chunks < MaxChunks
  /\ chunks' = chunks + 1
  /\ handlingQueue' = Append(handlingQueue,
                        [op |-> "receive", data |-> data, begun |-> FALSE])
  /\ UNCHANGED <<sent, queueVars, threadVars, portOpen, sessions,
                 closeWaiting, closeReturning, freshFrom>>

ReallyClosePort ==
  /\ portOpen
  /\ portOpen' = FALSE
  /\ closeWaiting' = IF HandlesClosed THEN closeWaiting + 1 ELSE closeWaiting
  /\ UNCHANGED <<sent, queueVars, handlingQueue, threadVars,
                 sessions, closeReturning, chunks, freshFrom>>

(* Mutant: the block is dispatched without waiting for the delegate.       *)
DispatchResetEarly ==
  /\ closeReturning' = closeReturning - 1
  /\ handlingQueue' = Append(handlingQueue, [op |-> "reset"])
  /\ UNCHANGED <<sent, queueVars, threadVars,
                 portOpen, sessions, closeWaiting, chunks, freshFrom>>

DispatchReset ==
  /\ closeReturning > 0
  /\ closeReturning' = closeReturning - 1
  /\ handlingQueue' = Append(handlingQueue, [op |-> "reset"])
  /\ UNCHANGED <<sent, queueVars, threadVars,
                 portOpen, sessions, closeWaiting, chunks, freshFrom>>

-----------------------------------------------------------------------------
(* Blocks of requestHandlingQueue, one at a time.                          *)

HeadIs(op) ==
  ~inError /\ handlingQueue # <<>> /\ Head(handlingQueue).op = op

(* Mutant: the thread in dispatch_sync is not resumed.                     *)
RunSendAsync ==
  /\ HeadIs("send")
  /\ ReallySendRequest(Head(handlingQueue).id)
  /\ handlingQueue' = Tail(handlingQueue)
  /\ UNCHANGED <<sent, threadVars, portVars>>

RunSend ==
  /\ HeadIs("send")
  /\ LET call == Head(handlingQueue)
     IN  /\ ReallySendRequest(call.id)
         /\ blocked' = blocked \ {call.client}
         /\ inError' = (HandlesError /\ call.client = Main /\ WriteFails)
  /\ handlingQueue' = Tail(handlingQueue)
  /\ UNCHANGED <<sent, mainQueue, mainRunning, portVars>>

RunCancel ==
  /\ HeadIs("cancel")
  /\ LET request == Head(handlingQueue).request
         found == {i \in DOMAIN requestsQueue :
                     sent[requestsQueue[i]] = request}
         isPending == pendingRequest # 0 /\ sent[pendingRequest] = request
     IN  \/ /\ isPending \/ found = {}
            /\ UNCHANGED <<requestsQueue, fate>>
         \/ /\ ~isPending
            /\ \E i \in found :
                 /\ \A j \in found : i <= j
                 /\ requestsQueue' = RemoveAt(requestsQueue, i)
                 /\ fate' = Settle(fate, {requestsQueue[i]}, "cancelled")
  /\ handlingQueue' = Tail(handlingQueue)
  /\ UNCHANGED <<sent, pendingRequest, timeoutTimer, wire,
                 threadVars, portVars>>

RunCancelAll ==
  /\ HeadIs("cancelAll")
  /\ requestsQueue' = <<>>
  /\ fate' = Settle(fate, IdsOf(requestsQueue), "cancelled")
  /\ handlingQueue' = Tail(handlingQueue)
  /\ UNCHANGED <<sent, pendingRequest, timeoutTimer, wire,
                 threadVars, portVars>>

(* One byte of a receive block; the block stays at the head of the queue   *)
(* until its last byte is done.                                            *)
RunReceive ==
  /\ HeadIs("receive")
  /\ LET block == Head(handlingQueue)
         rest  == Tail(block.data)
     IN  /\ handlingQueue' =
              IF rest = <<>> THEN Tail(handlingQueue)
              ELSE <<[op |-> "receive", data |-> rest, begun |-> TRUE]>>
                     \o Tail(handlingQueue)
         /\ \/ /\ ~Completes(Head(block.data))
               /\ UNCHANGED <<queueVars, mainQueue>>
            \/ /\ Completes(Head(block.data))
               /\ Answer
  /\ UNCHANGED <<sent, mainRunning, blocked, inError, portVars>>

RunSendNext ==
  /\ HeadIs("sendNext")
  /\ SendFrom(requestsQueue, timeoutTimer, fate)
  /\ handlingQueue' = Tail(handlingQueue)
  /\ UNCHANGED <<sent, threadVars, portVars>>

RunReset ==
  /\ HeadIs("reset")
  /\ ForgetRequests
  /\ fate' = Settle(fate, IdsOf(requestsQueue) \cup {pendingRequest},
                    "discarded")
  /\ handlingQueue' = Tail(handlingQueue)
  /\ UNCHANGED <<sent, timeoutTimer, wire, threadVars, portVars>>

(* The timer's event handler runs on the same serial queue, so never       *)
(* between two bytes of one receive block.                                 *)
PendingRequestDidTimeout ==
  /\ timeoutTimer # 0 /\ ~inError
  /\ HeadIs("receive") => ~Head(handlingQueue).begun
  /\ LET settled == Settle(fate, {pendingRequest}, "timedOut")
     IN  \/ /\ ~HandlesTimeout
            /\ SendFrom(requestsQueue, 0, settled)
            /\ UNCHANGED mainQueue
         \/ /\ HandlesTimeout
            /\ timeoutTimer' = 0
            /\ fate' = settled
            /\ Report("timeout")
            /\ UNCHANGED <<requestsQueue, pendingRequest, wire>>
  /\ UNCHANGED <<sent, handlingQueue, mainRunning, blocked, inError, portVars>>

-----------------------------------------------------------------------------
(* The main thread: delegate callbacks.  Between the two actions of one    *)
(* callback the delegate may call any public method as client Main.        *)

MainIsFree == Main \notin blocked /\ ~inError

MainRunsBlock ==
  /\ mainRunning = Idle /\ MainIsFree /\ mainQueue # <<>>
  /\ mainRunning' = Head(mainQueue)
  /\ mainQueue' = Tail(mainQueue)
  /\ UNCHANGED <<sent, queueVars, handlingQueue, blocked, inError, portVars>>

(* performSelectorOnMainThread:@selector(serialPortWasClosed:)             *)
MainRunsWasClosed ==
  /\ mainRunning = Idle /\ MainIsFree /\ closeWaiting > 0
  /\ mainRunning' = [op |-> "closed", id |-> 0]
  /\ closeWaiting' = closeWaiting - 1
  /\ UNCHANGED <<sent, queueVars, handlingQueue, mainQueue, blocked, inError,
                 portOpen, sessions, closeReturning, chunks, freshFrom>>

(* Mutant: the queue is not moved on after requestDidTimeout:.             *)
AfterCallbackNothing(block) == handlingQueue

AfterCallback(block) ==
  IF block.op = "timeout" THEN Append(handlingQueue, [op |-> "sendNext"])
  ELSE handlingQueue

MainReturns ==
  /\ mainRunning # Idle /\ MainIsFree
  /\ mainRunning' = Idle
  /\ handlingQueue' = AfterCallback(mainRunning)
  /\ closeReturning' = IF mainRunning.op = "closed"
                       THEN closeReturning + 1 ELSE closeReturning
  /\ UNCHANGED <<sent, queueVars, mainQueue, blocked, inError,
                 portOpen, sessions, closeWaiting, chunks, freshFrom>>

(* didEncounterError: returns, and with it the block and sendRequest:.     *)
ErrorReturns ==
  /\ inError /\ Main \notin blocked
  /\ inError' = FALSE
  /\ UNCHANGED <<sent, queueVars, handlingQueue, mainQueue, mainRunning,
                 blocked, portVars>>

-----------------------------------------------------------------------------
Client(c) ==
  \/ \E r \in Requests : SendRequest(c, r) \/ CancelQueuedRequest(c, r)
  \/ CancelAllQueuedRequests(c)
  \/ Open(c)

HandlingStep ==
  \/ RunSend \/ RunCancel \/ RunCancelAll \/ RunReceive
  \/ RunSendNext \/ RunReset

MainStep == MainRunsBlock \/ MainRunsWasClosed \/ MainReturns \/ ErrorReturns

Next ==
  \/ \E c \in Clients : Client(c)
  \/ \E data \in Chunks : ReceiveData(data)
  \/ ReallyClosePort \/ DispatchReset
  \/ HandlingStep \/ PendingRequestDidTimeout \/ MainStep

Spec == Init /\ [][Next]_vars

(* libdispatch runs a queue that has work, a timer that is armed fires,    *)
(* the main run loop serves its queue and delegate methods return.         *)
(* Nothing obliges a client to call, or the device to answer.              *)
Fairness ==
  /\ WF_vars(HandlingStep)
  /\ WF_vars(PendingRequestDidTimeout)
  /\ WF_vars(MainStep)
  /\ WF_vars(DispatchReset)

FairSpec == Spec /\ Fairness

-----------------------------------------------------------------------------
SendBlocks == {k \in DOMAIN handlingQueue : handlingQueue[k].op = "send"}
Accepting  == {handlingQueue[k].id : k \in SendBlocks}

(* Every variable holds a value of its kind, and the sync callers are      *)
(* exactly the ones whose block is still on requestHandlingQueue.          *)
TypeOK ==
  /\ sent \in Seq(Requests) /\ Len(sent) <= MaxSends
  /\ requestsQueue \in Seq(Ids) /\ wire \in Seq(Ids)
  /\ pendingRequest \in Nat /\ timeoutTimer \in Nat
  /\ handlingQueue \in Seq(Block)
  /\ mainQueue \in Seq(MainBlock) /\ mainRunning \in MainBlock \cup {Idle}
  /\ blocked \subseteq Clients /\ inError \in BOOLEAN
  /\ portOpen \in BOOLEAN
  /\ sessions \in Nat /\ chunks \in Nat /\ freshFrom \in Nat
  /\ closeWaiting \in Nat /\ closeReturning \in Nat
  /\ fate \in Seq(SUBSET Fates) /\ Len(fate) = Len(sent)

(* A request only waits in requestsQueue while another one is pending.     *)
(* sendNextRequest is what moves the queue: were this false, queued        *)
(* requests would sit there until the next sendRequest: call, which would  *)
(* moreover overtake them.                                                 *)
IdleMeansEmpty == pendingRequest = 0 => requestsQueue = <<>>

(* "Requests are sent from the queue in FIFO order" (ORSSerialPort.h:362): *)
(* across threads, timeouts, cancellations, closes and reopenings the data *)
(* of the calls reaches the device in the order of the calls.              *)
Increasing(s) == \A i, j \in DOMAIN s : i < j => s[i] < s[j]
WireInOrder == Increasing(wire)

(* Why WireInOrder holds: what is written precedes what is queued, which   *)
(* precedes what is still being accepted, each of them in call order.      *)
Below(s, n) == \A i \in DOMAIN s : s[i] < n
Ahead(n)    == Below(wire, n) /\ Below(requestsQueue, n)
QueueSorted == /\ Increasing(wire)
               /\ Increasing(requestsQueue)
               /\ \A i \in DOMAIN requestsQueue : Below(wire, requestsQueue[i])
AcceptedInOrder ==
  \A k \in SendBlocks :
    /\ handlingQueue[k].id <= Len(sent)
    /\ Ahead(handlingQueue[k].id)
    /\ \A l \in SendBlocks :
         k < l => handlingQueue[k].id < handlingQueue[l].id
OrderInv ==
  /\ IdleMeansEmpty
  /\ QueueSorted
  /\ Ahead(Len(sent) + 1)
  /\ AcceptedInOrder

(* The accounting of sendRequest: calls: a call is in exactly one place,   *)
(* being accepted, queued, pending, or settled in exactly one way; none    *)
(* is lost and none is settled twice.                                      *)
EveryCallAccounted ==
  \A i \in DOMAIN sent :
    LET places == {p \in {"accepting", "queued", "pending"} :
                     \/ p = "accepting" /\ i \in Accepting
                     \/ p = "queued" /\ i \in IdsOf(requestsQueue)
                     \/ p = "pending" /\ i = pendingRequest}
    IN  \E x \in places \cup fate[i] : places \cup fate[i] = {x}

(* A request is "sent after all previous requests have received valid      *)
(* responses or have timed out" (ORSSerialPort.h:262): whatever was        *)
(* written before the pending request has been settled.                    *)
SentAfterPreviousSettled ==
  \A i \in IdsOf(wire) : i # pendingRequest => fate[i] # {}

(* The armed timer is the pending request's own, so what                   *)
(* pendingRequestDidTimeout times out is the request that was waited for.  *)
(* Two cases are left out, in which the code leaves a timer armed: a       *)
(* request that needs no response, and one that a close discarded.         *)
TimerIsPending ==
  /\ timeoutTimer # 0
  /\ sent[timeoutTimer] \in Expects
  /\ "discarded" \notin fate[timeoutTimer]
  => timeoutTimer = pendingRequest

(* A request without a positive timeoutInterval may wait for ever: "-1.0   *)
(* to wait indefinitely" (ORSSerialRequest.h:58, 75).                      *)
OnlyTimedTimeOut ==
  \A i \in DOMAIN sent : "timedOut" \in fate[i] => sent[i] \in Timed

(* pendingRequest is "the previously-sent request for which the port is    *)
(* awaiting a response, or nil" (ORSSerialPort.h:353).                     *)
PendingWasSent == pendingRequest # 0 => pendingRequest \in IdsOf(wire)

(* "When an ORSSerialPort instance is closed, its queued requests are      *)
(* cancelled, and its pending request is discarded" (ORSSerialPort.h:655): *)
(* once a close is over, no request sent before it is still pending.       *)
CloseIsOver == /\ ~portOpen /\ closeWaiting = 0 /\ closeReturning = 0
               /\ mainRunning.op # "closed"
               /\ \A k \in DOMAIN handlingQueue : handlingQueue[k].op # "reset"
ClosedPortForgets == CloseIsOver => pendingRequest \notin IdsOf(wire)

(* What a close discards are the requests of the session it closed, not    *)
(* those sent after a later reopening (ORSSerialPort.h:655-658).           *)
FreshCallsSurvive ==
  portOpen => \A i \in DOMAIN fate : i >= freshFrom => "discarded" \notin fate[i]

(* The delegate calls sendRequest: from a didEncounterError: that runs     *)
(* inside the block of another one (426, 775): its dispatch_sync waits for *)
(* the queue that it holds itself, for ever.                               *)
Reentered == inError /\ Main \in blocked

(* sendRequest: waits in dispatch_sync for requestHandlingQueue, also on   *)
(* the main thread: it returns, whatever blocks, callbacks and timer       *)
(* events are before it, unless the main thread waits for itself.          *)
SendReturns ==
  \A c \in Clients : c \in blocked ~> c \notin blocked \/ Reentered

(* With a timeout on every request the port never stays on one request,    *)
(* whether or not the device answers or the write succeeded, with the same *)
(* exception.                                                              *)
PendingLeaves ==
  \A i \in 1..MaxSends :
    pendingRequest = i ~> pendingRequest # i \/ Reentered

(* ... and every call is eventually settled.                               *)
CallsSettle ==
  \A i \in 1..MaxSends :
    (i \in DOMAIN sent)
      ~> (i \in DOMAIN fate /\ fate[i] # {}) \/ Reentered

-----------------------------------------------------------------------------
(* The status each call has for its caller.                                *)
StatusOf(i) ==
  IF fate[i] # {} THEN CHOOSE how \in fate[i] : TRUE
  ELSE IF i = pendingRequest THEN "pending" ELSE "waiting"

Service == INSTANCE RequestService WITH
             status <- [i \in DOMAIN sent |-> StatusOf(i)]

(* Without a requestDidTimeout: callback, the queue, the timer and the     *)
(* threads together are the service the header promises.                   *)
ImplementsService == Service!Spec
=============================================================================
