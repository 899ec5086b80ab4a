-------------------------- MODULE OperationsRunner --------------------------
(***************************************************************************)
(* OperationsRunner (OperationsRunner.m:193-408) and the operations it     *)
(* runs, ConcurrentOperation and WebFetcher: the set of operations behind  *)
(* its serial queue, an operation's life on its thread from start to the   *)
(* KVO notification of isFinished, the delivery to the delegate, and       *)
(* cancellation, of one operation or of all.                               *)
(*                                                                         *)
(* The owner sends every message from one thread (OperationsRunner.h:102), *)
(* the main thread; its delegate is called there or, with msgDelOn set to  *)
(* msgDelOnAnyThread, on the thread of the operation.                      *)
(***************************************************************************)
EXTENDS Naturals, FiniteSets, SequencesExt

CONSTANTS
  Ops,            \* operations, each run at most once
  MaxOps          \* bound of maxConcurrentOperationCount

ASSUME RunnerAssumption == MaxOps \in Nat \ {0}

VARIABLES
  \* the runner
  onMain,           \* msgDelOn is msgDelOnMainThread; set once
  maxOps,           \* the number of operations that may run at a time; set once
  operations,       \* its set
  observed,         \* operations whose isFinished it observes
  operationsQueue,  \* blocks of the serial queue, in order
  mainQueue,        \* operations whose _operationFinished: is due on main
  \* the operations
  fetchers,         \* those that are WebFetchers; never changes
  cancelled, executing, finished,   \* operations with the flag set
  threaded,         \* operations whose property thread is set
  thread,           \* thread[op]: where its thread is
  performs,         \* performs[op]: finish messages to that thread
  \* the owner
  owner,            \* what the owner's thread is in
  given,            \* ghost: operations passed to runOperation:
  delivered,        \* ghost: how often the delegate got each
  lost              \* ghost: operations whose finish went to no thread

settings   == <<onMain, maxOps, fetchers>>
runnerVars == <<settings, operations, observed, operationsQueue, mainQueue>>
flagVars   == <<cancelled, executing, finished, threaded>>
vars == <<runnerVars, flagVars, thread, performs, owner, given, delivered, lost>>

Block(kind, op) == [kind |-> kind, op |-> op]
None == "none"
OwnerIdle == [at |-> "idle", op |-> None, left |-> {}]

Init ==
  /\ onMain \in BOOLEAN /\ maxOps \in 1..MaxOps /\ fetchers \in SUBSET Ops
  /\ operations = {} /\ observed = {}
  /\ operationsQueue = <<>> /\ mainQueue = <<>>
  /\ cancelled = {} /\ executing = {} /\ finished = {} /\ threaded = {}
  /\ thread = [op \in Ops |-> "none"]
  /\ performs = [op \in Ops |-> 0]
  /\ owner = OwnerIdle
  /\ given = {} /\ delivered = [op \in Ops |-> 0] /\ lost = {}

At(op, step) == thread[op] = step
Goto(op, step) == thread' = [thread EXCEPT ![op] = step]
InNSOperationQueue == { op \in Ops : thread[op] # "none" } \ finished

-----------------------------------------------------------------------------
(* A block of operationsQueue runs when it has come to the head.           *)

Runs(kind, op) ==
  /\ operationsQueue # <<>> /\ Head(operationsQueue) = Block(kind, op)
  /\ operationsQueue' = Tail(operationsQueue)

Dispatch(kind, op) == operationsQueue' = Append(operationsQueue, Block(kind, op))

-----------------------------------------------------------------------------
(* The owner: runOperation:withMsg:, cancelOperations, [op cancel].        *)

RunOperation(op) ==
  /\ owner.at = "idle" /\ op \notin given
  /\ given' = given \cup {op}
  /\ Dispatch("add", op)
  /\ UNCHANGED <<settings, operations, observed, mainQueue, flagVars, thread, performs,
                 owner, delivered, lost>>

(* Mutant: isFinished is not observed.                                     *)
AddUnobserved(op) ==
  /\ Runs("add", op)
  /\ operations' = operations \cup {op}
  /\ Goto(op, "waiting")
  /\ UNCHANGED <<settings, observed, mainQueue, flagVars, performs, owner, given,
                 delivered, lost>>

AddOperation(op) ==
  /\ Runs("add", op)
  /\ observed' = observed \cup {op}
  /\ operations' = operations \cup {op}
  /\ Goto(op, "waiting")
  /\ UNCHANGED <<settings, mainQueue, flagVars, performs, owner, given, delivered, lost>>

CancelOperations ==
  /\ owner.at = "idle" /\ given # {}
  /\ Dispatch("cancelAll", None)
  /\ owner' = [OwnerIdle EXCEPT !.at = "emptying"]
  /\ UNCHANGED <<settings, operations, observed, mainQueue, flagVars, thread, performs,
                 given, delivered, lost>>

(* Mutant: the observers are removed, the operations stay in the set.      *)
KeepOperations ==
  /\ Runs("cancelAll", None)
  /\ observed' = observed \ operations
  /\ owner' = [owner EXCEPT !.at = "cancelling", !.left = InNSOperationQueue]
  /\ UNCHANGED <<settings, operations, mainQueue, flagVars, thread, performs, given,
                 delivered, lost>>

EmptyOperations ==
  /\ Runs("cancelAll", None)
  /\ observed' = observed \ operations
  /\ operations' = {}
  /\ owner' = [owner EXCEPT !.at = "cancelling", !.left = InNSOperationQueue]
  /\ UNCHANGED <<settings, mainQueue, flagVars, thread, performs, given, delivered, lost>>

CancelOne(op) ==
  /\ owner.at = "idle" /\ op \in given \ (cancelled \cup finished)
  /\ owner' = [at |-> "cancelOne", op |-> None, left |-> {op}]
  /\ UNCHANGED <<runnerVars, flagVars, thread, performs, given, delivered, lost>>

(* [super cancel], which does nothing to a finished operation.             *)
CancelSetsFlag(op) ==
  /\ owner.at \in {"cancelling", "cancelOne"} /\ op \in owner.left
  /\ owner.op = None
  /\ cancelled' = cancelled \cup ({op} \ finished)
  /\ owner' = [owner EXCEPT !.op = op, !.left = @ \ {op}]
  /\ UNCHANGED <<runnerVars, executing, finished, threaded, thread, performs,
                 given, delivered, lost>>

(* performSelector:onThread: with no thread does nothing.                  *)
SendFinish(op) ==
  IF op \in threaded
  THEN performs' = [performs EXCEPT ![op] = @ + 1] /\ UNCHANGED lost
  ELSE lost' = lost \cup {op} /\ UNCHANGED performs

(* Mutant: cancel only sets the flag.                                      *)
CancelOnlyFlags ==
  /\ owner.at \in {"cancelling", "cancelOne"} /\ owner.op # None
  /\ owner' = [owner EXCEPT !.op = None]
  /\ UNCHANGED <<runnerVars, flagVars, thread, performs, given, delivered, lost>>

(* An operation that start has let through but that is not executing yet   *)
(* gets no message either, and will not look at isCancelled again.  The    *)
(* cancel of a WebFetcher (WebFetcher.m:59-65) then sends finish once more *)
(* and cancel to its connection, both to the thread that it has not set:   *)
(* they change nothing.                                                    *)
CancelSendsFinish ==
  /\ owner.at \in {"cancelling", "cancelOne"} /\ owner.op # None
  /\ IF owner.op \in executing THEN SendFinish(owner.op)
     ELSE /\ lost' = IF At(owner.op, "starting") THEN lost \cup {owner.op} ELSE lost
          /\ UNCHANGED performs
  /\ owner' = [owner EXCEPT !.op = None]
  /\ UNCHANGED <<runnerVars, flagVars, thread, given, delivered>>

CancelReturns ==
  /\ owner.left = {} /\ owner.op = None
  /\ \/ owner.at = "cancelOne"
     \/ owner.at = "cancelling" /\ InNSOperationQueue = {}
  /\ owner' = OwnerIdle
  /\ UNCHANGED <<runnerVars, flagVars, thread, performs, given, delivered, lost>>

-----------------------------------------------------------------------------
(* start, setup and the run loop, on the operation's thread.               *)

(* An NSOperationQueue has the place of an operation free again as soon as *)
(* isFinished is YES, whatever its thread still does.                      *)
Occupied == { op \in InNSOperationQueue : ~At(op, "waiting") }

Start(op) ==
  /\ At(op, "waiting") /\ Cardinality(Occupied) < maxOps
  /\ IF op \in cancelled
     THEN finished' = finished \cup {op} /\ Goto(op, "notify")
     ELSE Goto(op, "starting") /\ UNCHANGED finished
  /\ UNCHANGED <<runnerVars, cancelled, executing, threaded, performs, owner,
                 given, delivered, lost>>

BeginExecuting(op) ==
  /\ At(op, "starting")
  /\ executing' = executing \cup {op}
  /\ Goto(op, "executing")
  /\ UNCHANGED <<runnerVars, cancelled, finished, threaded, performs, owner,
                 given, delivered, lost>>

(* WebFetcher's setup does not call super, which would set thread.         *)
SetThread(op) == threaded' = threaded \cup ({op} \ fetchers)

Setup(op) ==
  /\ At(op, "executing")
  /\ SetThread(op)
  /\ Goto(op, "loop")
  /\ UNCHANGED <<runnerVars, cancelled, executing, finished, performs, owner,
                 given, delivered, lost>>

finish(op) ==
  /\ executing' = executing \ {op}
  /\ finished' = finished \cup {op}
  /\ Goto(op, "notify")

SetupFails(op) ==
  /\ At(op, "executing")
  /\ SetThread(op)
  /\ finish(op)
  /\ UNCHANGED <<runnerVars, cancelled, performs, owner, given, delivered, lost>>

(* A WebFetcher whose data is complete looks at isCancelled first.         *)
Completed(op) ==
  /\ At(op, "loop") /\ (op \in fetchers => op \notin cancelled)
  /\ SendFinish(op)
  /\ Goto(op, "worked")
  /\ UNCHANGED <<runnerVars, flagVars, owner, given, delivered>>

Failed(op) ==
  /\ At(op, "loop")
  /\ IF op \in fetchers
     THEN SendFinish(op) /\ Goto(op, "worked") /\ UNCHANGED <<executing, finished>>
     ELSE finish(op) /\ UNCHANGED <<performs, lost>>
  /\ UNCHANGED <<runnerVars, cancelled, threaded, owner, given, delivered>>

(* Mutant: finish also runs when nobody has sent it.                       *)
RunLoopFinishesUnasked(op) ==
  /\ thread[op] \in {"loop", "worked", "leaving"}
  /\ performs' = [performs EXCEPT ![op] = @ - 1]
  /\ finish(op)
  /\ UNCHANGED <<runnerVars, cancelled, threaded, owner, given, delivered, lost>>

(* Performs left over when the loop has seen isFinished are never run.     *)
RunLoopFinishes(op) ==
  /\ thread[op] \in {"loop", "worked", "leaving"} /\ performs[op] > 0
  /\ performs' = [performs EXCEPT ![op] = @ - 1]
  /\ finish(op)
  /\ UNCHANGED <<runnerVars, cancelled, threaded, owner, given, delivered, lost>>

LeaveRunLoop(op) ==
  /\ At(op, "leaving")
  /\ performs' = [performs EXCEPT ![op] = 0]
  /\ Goto(op, "done")
  /\ UNCHANGED <<runnerVars, flagVars, owner, given, delivered, lost>>

-----------------------------------------------------------------------------
(* The KVO notification of isFinished, still on the operation's thread.    *)

ObserveFinished(op) ==
  /\ At(op, "notify")
  /\ IF op \in observed
     THEN Dispatch("check", op) /\ Goto(op, "checking")
     ELSE Goto(op, "leaving") /\ UNCHANGED operationsQueue
  /\ UNCHANGED <<settings, operations, observed, mainQueue, flagVars, performs,
                 owner, given, delivered, lost>>

CheckContained(op) ==
  /\ Runs("check", op)
  /\ Goto(op, IF op \in operations THEN "found" ELSE "leaving")
  /\ UNCHANGED <<settings, operations, observed, mainQueue, flagVars, performs,
                 owner, given, delivered, lost>>

OperationDidFinish(op) ==
  /\ At(op, "found")
  /\ \/ /\ op \in cancelled
        /\ Goto(op, "leaving")
        /\ UNCHANGED <<operationsQueue, mainQueue>>
     \/ /\ op \notin cancelled /\ onMain
        /\ mainQueue' = Append(mainQueue, op)
        /\ Goto(op, "leaving")
        /\ UNCHANGED operationsQueue
     \/ /\ op \notin cancelled /\ ~onMain
        /\ Dispatch("remove", op) /\ Goto(op, "removing")
        /\ UNCHANGED mainQueue
  /\ UNCHANGED <<settings, operations, observed, flagVars, performs, owner, given,
                 delivered, lost>>

-----------------------------------------------------------------------------
(* _operationFinished:, on the main thread or on the operation's.          *)

MainPerforms ==
  /\ owner.at = "idle" /\ mainQueue # <<>>
  /\ mainQueue' = Tail(mainQueue)
  /\ Dispatch("remove", Head(mainQueue))
  /\ owner' = [OwnerIdle EXCEPT !.at = "removing", !.op = Head(mainQueue)]
  /\ UNCHANGED <<settings, operations, observed, flagVars, thread, performs, given,
                 delivered, lost>>

(* Where the caller of _operationFinished: goes on.                        *)
Continue(op, tell) ==
  IF onMain
  THEN /\ owner' = IF tell THEN [owner EXCEPT !.at = "telling"] ELSE OwnerIdle
       /\ UNCHANGED thread
  ELSE Goto(op, IF tell THEN "telling" ELSE "leaving") /\ UNCHANGED owner

(* Mutant: whether it was cancelled in the meantime is not looked at.      *)
RemoveUnchecked(op) ==
  /\ Runs("remove", op)
  /\ observed' = observed \ {op}
  /\ operations' = operations \ {op}
  /\ Continue(op, TRUE)
  /\ UNCHANGED <<settings, mainQueue, flagVars, performs, given, delivered, lost>>

(* Mutant: the operation stays in the set when it is delivered.            *)
RemoveNothing(op) ==
  /\ Runs("remove", op)
  /\ Continue(op, op \in operations)
  /\ UNCHANGED <<settings, operations, observed, mainQueue, flagVars, performs,
                 given, delivered, lost>>

RemoveOperation(op) ==
  /\ Runs("remove", op)
  /\ observed' = observed \ {op}
  /\ operations' = operations \ {op}
  /\ Continue(op, op \in operations)
  /\ UNCHANGED <<settings, mainQueue, flagVars, performs, given, delivered, lost>>

Telling(op) ==
  \/ At(op, "telling")
  \/ owner.at = "telling" /\ owner.op = op

TellDelegate(op) ==
  /\ Telling(op)
  /\ delivered' = [delivered EXCEPT ![op] = @ + 1]
  /\ Continue(op, FALSE)
  /\ UNCHANGED <<runnerVars, flagVars, performs, given, lost>>

-----------------------------------------------------------------------------
OnSerialQueue(op) == AddOperation(op) \/ CheckContained(op) \/ RemoveOperation(op)

OnThread(op) ==
  \/ BeginExecuting(op) \/ Setup(op) \/ SetupFails(op)
  \/ RunLoopFinishes(op) \/ LeaveRunLoop(op)
  \/ ObserveFinished(op) \/ OperationDidFinish(op)
  \/ TellDelegate(op)

OnOwner ==
  \/ CancelSendsFinish \/ CancelReturns \/ MainPerforms
  \/ \E op \in Ops : CancelSetsFlag(op)

Next ==
  \/ EmptyOperations \/ OnOwner \/ CancelOperations
  \/ \E op \in Ops :
       \/ RunOperation(op) \/ CancelOne(op)
       \/ Start(op) \/ Completed(op) \/ Failed(op)
       \/ OnSerialQueue(op) \/ OnThread(op)

Spec == Init /\ [][Next]_vars

(* libdispatch runs what is queued, NSOperationQueue starts what waits     *)
(* when a place is free, threads run, and the main thread returns to its   *)
(* run loop.  The work of an operation ends, unless it was cancelled: a    *)
(* cancelled operation may drop its work.                                  *)
Fairness ==
  /\ WF_vars(EmptyOperations) /\ WF_vars(OnOwner)
  /\ \A op \in Ops :
       /\ WF_vars(OnSerialQueue(op)) /\ WF_vars(OnThread(op))
       /\ WF_vars(Start(op))
       /\ WF_vars(op \notin cancelled /\ (Completed(op) \/ Failed(op)))

FairSpec == Spec /\ Fairness

-----------------------------------------------------------------------------
(* Every variable has its type.                                            *)
Blocks == [kind : {"add", "check", "remove"}, op : Ops] \cup {Block("cancelAll", None)}

TypeOK ==
  /\ onMain \in BOOLEAN /\ maxOps \in 1..MaxOps /\ fetchers \subseteq Ops
  /\ operations \subseteq Ops /\ observed \subseteq Ops /\ given \subseteq Ops
  /\ operationsQueue \in Seq(Blocks) /\ mainQueue \in Seq(Ops)
  /\ cancelled \subseteq Ops /\ executing \subseteq Ops /\ finished \subseteq Ops
  /\ threaded \subseteq Ops /\ lost \subseteq Ops
  /\ thread \in [Ops -> {"none", "waiting", "starting", "executing", "loop",
                         "worked", "notify", "checking", "found", "removing",
                         "telling", "leaving", "done"}]
  /\ performs \in [Ops -> Nat] /\ delivered \in [Ops -> Nat]
  /\ owner \in [at : {"idle", "emptying", "cancelling", "cancelOne", "removing",
                      "telling"},
                op : Ops \cup {None}, left : SUBSET Ops]

(* When nothing is under way, what is still in the set are operations that *)
(* were cancelled one by one (the early return of 325): every other way an *)
(* operation can end takes it out of the set and stops observing it.       *)
Quiet ==
  /\ owner.at = "idle" /\ operationsQueue = <<>> /\ mainQueue = <<>>
  /\ \A op \in Ops : thread[op] \in {"none", "done"}

LeftoversWereCancelled ==
  Quiet => operations \subseteq cancelled /\ observed = operations

(* What the owner sees of an operation.                                    *)
Status(op) ==
  IF op \notin given THEN "new"
  ELSE IF delivered[op] = 1 THEN "delivered"
  ELSE IF delivered[op] > 1 THEN "delivered again"
  ELSE IF Telling(op) THEN "telling"
  ELSE IF op \in operations \/ Contains(operationsQueue, Block("add", op)) THEN "running"
  ELSE "dropped"

Service == INSTANCE OperationService WITH
  status <- [op \in Ops |-> Status(op)]

(* The runner implements OperationService: no operation is delivered after *)
(* cancelOperations, whatever is finishing or queued for delivery at that  *)
(* time (315-325, 356-363), and none twice, although finish, and with it   *)
(* the notification, may run twice (cancel and completed both send it).    *)
ImplementsService == Service!Spec

(* cancelOperations returns (waitUntilAllOperationsAreFinished, 296),      *)
(* unless a finish message was sent to an operation without a thread.      *)
CancelEnds ==
  (owner.at \in {"emptying", "cancelling"}) ~> (owner.at = "idle" \/ lost # {})

(* Every operation is delivered, dropped or was cancelled, unless its      *)
(* finish message was lost.                                                *)
RunsSettle ==
  \A op \in Ops : (op \in given) ~>
    (Status(op) \in {"delivered", "dropped"} \/ op \in cancelled \/ lost # {})

(* A fetch that completed or failed is finished: "we need a tad delay to   *)
(* let the completed return before the KVO message kicks in"               *)
(* (WebFetcher.m:68).                                                      *)
CompletedFinishes ==
  \A op \in Ops : At(op, "worked") ~> (op \in finished)
=============================================================================
