----------------------- MODULE OperationsRunner_proofs -----------------------
(***************************************************************************)
(* Proofs about OperationsRunner, for any number of operations and of      *)
(* places for them: types, the refinement of OperationService, and what is *)
(* left in the set.                                                        *)
(***************************************************************************)
EXTENDS OperationsRunner, TLAPS

USE RunnerAssumption

-----------------------------------------------------------------------------
(* A queue in which no block comes twice and none adds an operation after  *)
(* one that empties the set, and how it grows and shrinks.                 *)
Elems(s) == { s[i] : i \in 1..Len(s) }

Ordered(q) ==
  \A i, j \in 1..Len(q) :
    i < j => q[i] # q[j] /\ (q[i].kind = "cancelAll" => q[j].kind # "add")

(* A new block put behind the others keeps the queue ordered.              *)
LEMMA AppendBlock ==
  ASSUME NEW S, NEW q \in Seq(S), NEW b \in S, Ordered(q), b \notin Elems(q),
         b.kind = "add" => \A c \in Elems(q) : c.kind # "cancelAll"
  PROVE  /\ Append(q, b) \in Seq(S) /\ Ordered(Append(q, b))
         /\ Elems(Append(q, b)) = Elems(q) \cup {b}
<1>1. /\ Append(q, b) \in Seq(S) /\ Len(Append(q, b)) = Len(q) + 1
      /\ \A i \in 1..Len(q) : Append(q, b)[i] = q[i]
      /\ Append(q, b)[Len(q) + 1] = b
  OBVIOUS
<1>2. Ordered(Append(q, b))
  <2> SUFFICES ASSUME NEW i \in 1..(Len(q) + 1), NEW j \in 1..(Len(q) + 1), i < j
               PROVE  /\ Append(q, b)[i] # Append(q, b)[j]
                      /\ Append(q, b)[i].kind = "cancelAll" => Append(q, b)[j].kind # "add"
    BY <1>1 DEF Ordered
  <2>1. i \in 1..Len(q) /\ Append(q, b)[i] = q[i] /\ q[i] \in Elems(q)
    BY <1>1 DEF Elems
  <2>2. CASE j \in 1..Len(q)
    BY <1>1, <2>1, <2>2 DEF Ordered
  <2>3. CASE j = Len(q) + 1
    BY <1>1, <2>1, <2>3
  <2> QED BY <2>2, <2>3
<1>3. Elems(Append(q, b)) = Elems(q) \cup {b}
  BY <1>1 DEF Elems
<1> QED BY <1>1, <1>2, <1>3

(* The head block comes once: running it takes it out of the queue.        *)
LEMMA TailBlock ==
  ASSUME NEW S, NEW q \in Seq(S), q # <<>>, Ordered(q)
  PROVE  /\ Tail(q) \in Seq(S) /\ Ordered(Tail(q)) /\ Head(q) \in S
         /\ Elems(Tail(q)) = Elems(q) \ {Head(q)} /\ Head(q) \in Elems(q)
         /\ Head(q).kind = "cancelAll" => \A c \in Elems(Tail(q)) : c.kind # "add"
<1>1. /\ Tail(q) \in Seq(S) /\ Len(Tail(q)) = Len(q) - 1 /\ Len(q) > 0
      /\ \A i \in 1..(Len(q) - 1) : Tail(q)[i] = q[i + 1]
      /\ Head(q) = q[1] /\ q[1] \in S
  OBVIOUS
<1>2. Ordered(Tail(q))
  <2> SUFFICES ASSUME NEW i \in 1..(Len(q) - 1), NEW j \in 1..(Len(q) - 1), i < j
               PROVE  /\ q[i + 1] # q[j + 1]
                      /\ q[i + 1].kind = "cancelAll" => q[j + 1].kind # "add"
    BY <1>1 DEF Ordered
  <2>1. i + 1 \in 1..Len(q) /\ j + 1 \in 1..Len(q) /\ i + 1 < j + 1
    BY <1>1
  <2> QED BY <2>1 DEF Ordered
<1>3. \A i \in 1..(Len(q) - 1) :
        q[i + 1] # q[1] /\ (q[1].kind = "cancelAll" => q[i + 1].kind # "add")
  <2> SUFFICES ASSUME NEW i \in 1..(Len(q) - 1)
               PROVE  q[i + 1] # q[1] /\ (q[1].kind = "cancelAll" => q[i + 1].kind # "add")
    OBVIOUS
  <2>1. 1 \in 1..Len(q) /\ i + 1 \in 1..Len(q) /\ 1 < i + 1
    BY <1>1
  <2> QED BY <2>1 DEF Ordered
<1>4. Elems(Tail(q)) = Elems(q) \ {Head(q)}
  <2>1. \A x \in Elems(Tail(q)) : x \in Elems(q) /\ x # Head(q)
    <3> SUFFICES ASSUME NEW i \in 1..(Len(q) - 1)
                 PROVE  q[i + 1] \in Elems(q) /\ q[i + 1] # q[1]
      BY <1>1 DEF Elems
    <3>1. i + 1 \in 1..Len(q)
      BY <1>1
    <3> QED BY <1>3, <3>1 DEF Elems
  <2>2. \A x \in Elems(q) \ {Head(q)} : x \in Elems(Tail(q))
    <3> SUFFICES ASSUME NEW i \in 1..Len(q), q[i] # q[1] PROVE q[i] \in Elems(Tail(q))
      BY <1>1 DEF Elems
    <3>1. i - 1 \in 1..(Len(q) - 1) /\ (i - 1) + 1 = i
      BY <1>1
    <3>2. Tail(q)[i - 1] = q[i]
      BY <1>1, <3>1
    <3> QED BY <1>1, <3>1, <3>2 DEF Elems
  <2> QED BY <2>1, <2>2
<1>5. Head(q) \in Elems(q)
  BY <1>1 DEF Elems
<1>6. Head(q).kind = "cancelAll" => \A c \in Elems(Tail(q)) : c.kind # "add"
  BY <1>1, <1>3 DEF Elems
<1> QED BY <1>1, <1>2, <1>4, <1>5, <1>6

-----------------------------------------------------------------------------
(* What is behind the promise of the service.  A block of the serial queue *)
(* belongs to what an operation's thread or the owner is waiting for; an   *)
(* operation is in the set from its add block until it is taken out to be  *)
(* delivered or by cancelOperations, and never comes back.                 *)
Fits(b) ==
  /\ b.kind = "add" => b.op \in given /\ thread[b.op] = "none"
  /\ b.kind = "check" => thread[b.op] = "checking"
  /\ b.kind = "remove" => IF onMain THEN owner.at = "removing" /\ owner.op = b.op
                          ELSE thread[b.op] = "removing"
  /\ b.kind = "cancelAll" => owner.at = "emptying"

QueueInv == Ordered(operationsQueue) /\ \A b \in Elems(operationsQueue) : Fits(b)

SetInv ==
  \A op \in Ops :
    /\ op \notin given => thread[op] = "none"
    /\ thread[op] = "none" => /\ op \notin operations /\ delivered[op] = 0
                              /\ op \notin Elems(mainQueue)
    /\ delivered[op] \in {0, 1}
    /\ delivered[op] = 1 => op \notin operations
    /\ Telling(op) => delivered[op] = 0 /\ thread[op] # "none" /\ op \notin operations
    /\ thread[op] \in {"removing", "telling"} => ~onMain

OwnerInv ==
  /\ owner.at \in {"removing", "telling"} => onMain /\ owner.op \in Ops /\ thread[owner.op] # "none"
  /\ mainQueue # <<>> => onMain

IInv == TypeOK /\ QueueInv /\ SetInv /\ OwnerInv

(* How the serial queue keeps its invariant, and the main queue its type.  *)
LEMMA DispatchInv ==
  ASSUME IInv, NEW b \in Blocks, b \notin Elems(operationsQueue),
         operationsQueue' = Append(operationsQueue, b), Fits(b)',
         \A c \in Elems(operationsQueue) : Fits(c)',
         b.kind = "add" => \A c \in Elems(operationsQueue) : c.kind # "cancelAll"
  PROVE  /\ operationsQueue' \in Seq(Blocks) /\ QueueInv'
         /\ Elems(operationsQueue)' = Elems(operationsQueue) \cup {b}
<1>1. operationsQueue \in Seq(Blocks) /\ Ordered(operationsQueue)
  BY DEF IInv, TypeOK, QueueInv
<1>2. /\ operationsQueue' \in Seq(Blocks) /\ Ordered(operationsQueue')
      /\ Elems(operationsQueue') = Elems(operationsQueue) \cup {b}
  BY <1>1, AppendBlock
<1>3. Elems(operationsQueue)' = Elems(operationsQueue) \cup {b} /\ Ordered(operationsQueue)'
  BY <1>2 DEF Elems, Ordered
<1> QED BY <1>2, <1>3 DEF QueueInv

(* The block at the head is waited for, and running it takes it out.       *)
LEMMA RunsInv ==
  ASSUME IInv, NEW kind, NEW op, Runs(kind, op)
  PROVE  /\ operationsQueue' \in Seq(Blocks) /\ Block(kind, op) \in Elems(operationsQueue)
         /\ Block(kind, op) \in Blocks /\ Fits(Block(kind, op))
         /\ Elems(operationsQueue)' = Elems(operationsQueue) \ {Block(kind, op)}
         /\ kind = "cancelAll" => \A c \in Elems(operationsQueue)' : c.kind # "add"
         /\ (\A c \in Elems(operationsQueue)' : Fits(c)') => QueueInv'
<1>1. /\ operationsQueue \in Seq(Blocks) /\ Ordered(operationsQueue) /\ operationsQueue # <<>>
      /\ Head(operationsQueue) = Block(kind, op) /\ operationsQueue' = Tail(operationsQueue)
  BY DEF IInv, TypeOK, QueueInv, Runs
<1>2. /\ operationsQueue' \in Seq(Blocks) /\ Ordered(operationsQueue')
      /\ Elems(operationsQueue') = Elems(operationsQueue) \ {Block(kind, op)}
      /\ Block(kind, op) \in Elems(operationsQueue) /\ Block(kind, op) \in Blocks
      /\ Block(kind, op).kind = "cancelAll" => \A c \in Elems(operationsQueue') : c.kind # "add"
  BY <1>1, TailBlock
<1>3. Elems(operationsQueue)' = Elems(operationsQueue') /\ Ordered(operationsQueue)'
  BY <1>2 DEF Elems, Ordered
<1> QED BY <1>2, <1>3 DEF QueueInv, IInv, Block

(* What is in the serial queue is a block somebody waits for.              *)
LEMMA BlocksAre == ASSUME IInv, NEW b \in Elems(operationsQueue)
                  PROVE  b \in Blocks /\ Fits(b)
  BY DEF IInv, TypeOK, QueueInv, Elems

(* A step that leaves the queue alone and the waits of its blocks.         *)
LEMMA SameQueue ==
  ASSUME IInv, operationsQueue' = operationsQueue,
         \A c \in Elems(operationsQueue) : Fits(c)'
  PROVE  QueueInv' /\ Elems(operationsQueue)' = Elems(operationsQueue)
<1>1. Elems(operationsQueue)' = Elems(operationsQueue) /\ Ordered(operationsQueue)'
  BY DEF Elems, Ordered, IInv, QueueInv
<1> QED BY <1>1 DEF QueueInv

(* Appending adds one element.                                             *)
LEMMA QueueGrows ==
  ASSUME NEW S, NEW s \in Seq(S), NEW e \in S
  PROVE  /\ Append(s, e) \in Seq(S) /\ Elems(Append(s, e)) = Elems(s) \cup {e}
<1>1. /\ Append(s, e) \in Seq(S) /\ Len(Append(s, e)) = Len(s) + 1
      /\ \A i \in 1..Len(s) : Append(s, e)[i] = s[i]
      /\ Append(s, e)[Len(s) + 1] = e
  OBVIOUS
<1> QED BY <1>1 DEF Elems

(* The tail of the main queue holds what is not its head.                  *)
LEMMA MainQueueShrinks ==
  ASSUME NEW s \in Seq(Ops), s # <<>>
  PROVE  /\ Tail(s) \in Seq(Ops) /\ Head(s) \in Ops /\ Head(s) \in Elems(s)
         /\ Elems(Tail(s)) \subseteq Elems(s) /\ Elems(s) \subseteq Elems(Tail(s)) \cup {Head(s)}
<1>1. /\ Tail(s) \in Seq(Ops) /\ Len(Tail(s)) = Len(s) - 1 /\ Len(s) > 0
      /\ \A i \in 1..(Len(s) - 1) : Tail(s)[i] = s[i + 1]
      /\ Head(s) = s[1] /\ s[1] \in Ops
  OBVIOUS
<1>2. \A i \in 1..Len(s) : s[i] \in Elems(Tail(s)) \cup {Head(s)}
  <2> SUFFICES ASSUME NEW i \in 1..Len(s), i # 1 PROVE s[i] \in Elems(Tail(s))
    BY <1>1
  <2>1. i - 1 \in 1..(Len(s) - 1) /\ (i - 1) + 1 = i
    BY <1>1
  <2>2. Tail(s)[i - 1] = s[i]
    BY <1>1, <2>1
  <2> QED BY <1>1, <2>1, <2>2 DEF Elems
<1> QED BY <1>1, <1>2 DEF Elems

(* The invariant holds initially.                                          *)
LEMMA InitInv == Init => IInv
<1> SUFFICES ASSUME Init PROVE IInv
  OBVIOUS
<1> USE DEF Init, OwnerIdle
<1>1. /\ operationsQueue \in Seq(Blocks) /\ mainQueue \in Seq(Ops)
      /\ Elems(operationsQueue) = {} /\ Elems(mainQueue) = {} /\ Ordered(operationsQueue)
  BY DEF Elems, Ordered
<1>2. TypeOK
  BY <1>1 DEF TypeOK
<1>3. QueueInv /\ SetInv /\ OwnerInv
  BY <1>1 DEF QueueInv, SetInv, OwnerInv, Telling, At
<1> QED BY <1>2, <1>3 DEF IInv

(* A step of an operation's thread from one place to another that no block *)
(* of the serial queue depends on.                                         *)
LEMMA ThreadMoves ==
  ASSUME IInv, TypeOK', NEW op \in Ops, NEW to, Goto(op, to),
         thread[op] \notin {"none", "checking", "removing", "telling"},
         to \notin {"none", "removing", "telling"},
         UNCHANGED <<onMain, operations, operationsQueue, mainQueue, owner, given, delivered>>
  PROVE  IInv'
<1>1. thread' = [thread EXCEPT ![op] = to] /\ thread'[op] = to
  BY DEF Goto, IInv, TypeOK
<1>2. QueueInv'
  <2>1. ASSUME NEW c \in Elems(operationsQueue) PROVE Fits(c)'
    BY <1>1, BlocksAre DEF Fits, IInv, TypeOK
  <2> QED BY <2>1, SameQueue
<1>3. SetInv'
  BY <1>1 DEF IInv, TypeOK, SetInv, Telling, At, Elems
<1>4. OwnerInv'
  BY <1>1 DEF IInv, TypeOK, OwnerInv
<1> QED BY <1>2, <1>3, <1>4 DEF IInv

(* A finish message is counted or lost.                                    *)
LEMMA SendFinishType ==
  ASSUME IInv, NEW op \in Ops, SendFinish(op)
  PROVE  performs' \in [Ops -> Nat] /\ lost' \subseteq Ops
<1>1. CASE op \in threaded
  BY <1>1 DEF SendFinish, IInv, TypeOK
<1>2. CASE op \notin threaded
  BY <1>2 DEF SendFinish, IInv, TypeOK
<1> QED BY <1>1, <1>2

(* The steps of a thread outside of the notification keep the invariant.   *)
LEMMA ThreadInv ==
  ASSUME IInv, NEW op \in Ops,
         \/ Start(op) \/ BeginExecuting(op) \/ Setup(op) \/ SetupFails(op) \/ Completed(op)
         \/ Failed(op) \/ RunLoopFinishes(op) \/ LeaveRunLoop(op)
  PROVE  IInv'
<1> USE DEF runnerVars, settings, flagVars, At
<1>1. CASE Start(op)
  <2>1. \E to \in {"notify", "starting"} : Goto(op, to)
    BY <1>1 DEF Start
  <2>2. /\ finished' \subseteq Ops
        /\ UNCHANGED <<runnerVars, cancelled, executing, threaded, performs, owner,
                       given, delivered, lost>>
    BY <1>1 DEF Start, IInv, TypeOK
  <2>3. TypeOK'
    BY <2>1, <2>2 DEF IInv, TypeOK, Goto
  <2> QED BY <1>1, <2>1, <2>2, <2>3, ThreadMoves DEF Start
<1>2. CASE BeginExecuting(op)
  BY <1>2, ThreadMoves DEF BeginExecuting, IInv, TypeOK, Goto
<1>3. CASE Setup(op)
  BY <1>3, ThreadMoves DEF Setup, SetThread, IInv, TypeOK, Goto
<1>4. CASE SetupFails(op)
  BY <1>4, ThreadMoves DEF SetupFails, finish, SetThread, IInv, TypeOK, Goto
<1>5. CASE Completed(op)
  <2>1. TypeOK'
    BY <1>5, SendFinishType DEF Completed, IInv, TypeOK, Goto
  <2> QED BY <1>5, <2>1, ThreadMoves DEF Completed
<1>6. CASE Failed(op)
  <2>1. CASE op \in fetchers
    <3>1. TypeOK'
      BY <1>6, <2>1, SendFinishType DEF Failed, IInv, TypeOK, Goto
    <3> QED BY <1>6, <2>1, <3>1, ThreadMoves DEF Failed
  <2>2. CASE op \notin fetchers
    <3>1. TypeOK'
      BY <1>6, <2>2 DEF Failed, finish, IInv, TypeOK, Goto
    <3> QED BY <1>6, <2>2, <3>1, ThreadMoves DEF Failed, finish
  <2> QED BY <2>1, <2>2
<1>7. CASE RunLoopFinishes(op)
  <2>1. performs' \in [Ops -> Nat]
    BY <1>7 DEF RunLoopFinishes, IInv, TypeOK
  <2>2. TypeOK'
    BY <1>7, <2>1 DEF RunLoopFinishes, finish, IInv, TypeOK, Goto
  <2> QED BY <1>7, <2>2, ThreadMoves DEF RunLoopFinishes, finish
<1>8. CASE LeaveRunLoop(op)
  BY <1>8, ThreadMoves DEF LeaveRunLoop, IInv, TypeOK, Goto
<1> QED BY <1>1, <1>2, <1>3, <1>4, <1>5, <1>6, <1>7, <1>8

(* A step of the owner that no block of the serial queue depends on.       *)
LEMMA OwnerMoves ==
  ASSUME IInv, TypeOK', owner.at \notin {"emptying", "removing", "telling"},
         owner'.at \notin {"removing", "telling"},
         UNCHANGED <<onMain, operations, operationsQueue, mainQueue, thread, given, delivered>>
  PROVE  IInv'
<1>1. QueueInv'
  <2>1. ASSUME NEW c \in Elems(operationsQueue) PROVE Fits(c)'
    BY BlocksAre DEF Fits
  <2> QED BY <2>1, SameQueue
<1>2. SetInv'
  BY DEF IInv, SetInv, Telling, At, Elems
<1>3. OwnerInv'
  BY DEF IInv, OwnerInv
<1> QED BY <1>1, <1>2, <1>3 DEF IInv

(* The steps of a cancellation behind the emptying of the set keep it.     *)
LEMMA OwnerStepsInv ==
  ASSUME IInv, \/ CancelSendsFinish \/ CancelReturns
               \/ \E op \in Ops : CancelSetsFlag(op) \/ CancelOne(op)
  PROVE  IInv'
<1> USE DEF runnerVars, settings, flagVars, At, OwnerIdle
<1>1. CASE CancelSendsFinish
  <2>1. owner.op \in Ops
    BY <1>1 DEF CancelSendsFinish, IInv, TypeOK
  <2>2. performs' \in [Ops -> Nat] /\ lost' \subseteq Ops
    BY <1>1, <2>1, SendFinishType DEF CancelSendsFinish, IInv, TypeOK
  <2>3. TypeOK' /\ owner'.at = owner.at
    BY <1>1, <2>2 DEF CancelSendsFinish, IInv, TypeOK
  <2> QED BY <1>1, <2>3, OwnerMoves DEF CancelSendsFinish
<1>2. CASE CancelReturns
  <2>1. TypeOK'
    BY <1>2 DEF CancelReturns, IInv, TypeOK
  <2> QED BY <1>2, <2>1, OwnerMoves DEF CancelReturns
<1>3. ASSUME NEW op \in Ops, CancelSetsFlag(op) PROVE IInv'
  <2>1. TypeOK' /\ owner'.at = owner.at
    BY <1>3 DEF CancelSetsFlag, IInv, TypeOK
  <2> QED BY <1>3, <2>1, OwnerMoves DEF CancelSetsFlag
<1>4. ASSUME NEW op \in Ops, CancelOne(op) PROVE IInv'
  <2>1. TypeOK'
    BY <1>4 DEF CancelOne, IInv, TypeOK
  <2> QED BY <1>4, <2>1, OwnerMoves DEF CancelOne
<1> QED BY <1>1, <1>2, <1>3, <1>4

(* The steps that put a block into the serial queue.                       *)
LEMMA DispatchesInv ==
  ASSUME IInv, \/ CancelOperations \/ MainPerforms
               \/ \E op \in Ops : RunOperation(op) \/ ObserveFinished(op) \/ OperationDidFinish(op)
  PROVE  IInv'
<1> USE DEF settings, flagVars, At, OwnerIdle
<1>1. CASE CancelOperations
  <2> DEFINE b == Block("cancelAll", None)
  <2>1. b \in Blocks /\ b.kind = "cancelAll"
    BY DEF Blocks, Block
  <2>2. b \notin Elems(operationsQueue)
    BY <1>1, <2>1, BlocksAre DEF CancelOperations, Fits
  <2>3. owner' = [at |-> "emptying", op |-> None, left |-> {}] /\ owner.at = "idle"
    BY <1>1 DEF CancelOperations
  <2>4. Fits(b)' /\ \A c \in Elems(operationsQueue) : Fits(c)'
    BY <1>1, <2>1, <2>3, BlocksAre DEF CancelOperations, Fits, IInv, TypeOK
  <2>5. operationsQueue' \in Seq(Blocks) /\ QueueInv'
    BY <1>1, <2>1, <2>2, <2>4, DispatchInv DEF CancelOperations, Dispatch
  <2>6. TypeOK' /\ OwnerInv'
    BY <1>1, <2>3, <2>5 DEF CancelOperations, IInv, TypeOK, OwnerInv
  <2>7. SetInv'
    BY <1>1, <2>3 DEF CancelOperations, IInv, TypeOK, SetInv, Telling, Elems
  <2> QED BY <2>5, <2>6, <2>7 DEF IInv
<1>2. CASE MainPerforms
  <2>0. mainQueue # <<>> /\ owner.at = "idle"
    BY <1>2 DEF MainPerforms
  <2>1. PICK op \in Ops : /\ op = Head(mainQueue) /\ op \in Elems(mainQueue)
                          /\ Tail(mainQueue) \in Seq(Ops)
                          /\ Elems(Tail(mainQueue)) \subseteq Elems(mainQueue)
    BY <1>2, MainQueueShrinks DEF MainPerforms, IInv, TypeOK
  <2>2. /\ onMain /\ thread[op] # "none" /\ owner.at = "idle" /\ mainQueue' = Tail(mainQueue)
        /\ UNCHANGED <<settings, operations, observed, flagVars, thread, performs, given,
                       delivered, lost>>
    <3>1. onMain /\ thread[op] # "none"
      BY <2>0, <2>1 DEF IInv, SetInv, OwnerInv
    <3> QED BY <1>2, <3>1 DEF MainPerforms
  <2>3. owner' = [at |-> "removing", op |-> op, left |-> {}]
    BY <1>2, <2>1 DEF MainPerforms
  <2>4. Block("remove", op) \in Blocks
    BY DEF Blocks, Block
  <2>5. Block("remove", op) \notin Elems(operationsQueue)
    BY <2>2, BlocksAre DEF Fits, Block
  <2>6. Fits(Block("remove", op))' /\ \A c \in Elems(operationsQueue) : Fits(c)'
    BY <2>2, <2>3, BlocksAre DEF Fits, Block
  <2>7. operationsQueue' \in Seq(Blocks) /\ QueueInv'
    BY <1>2, <2>1, <2>4, <2>5, <2>6, DispatchInv DEF MainPerforms, Dispatch, Block
  <2>8. TypeOK' /\ OwnerInv'
    BY <2>1, <2>2, <2>3, <2>7 DEF IInv, TypeOK, OwnerInv
  <2>9. Elems(mainQueue)' \subseteq Elems(mainQueue)
    BY <2>1, <2>2 DEF Elems
  <2>10. SetInv'
    BY <2>2, <2>3, <2>9 DEF IInv, TypeOK, SetInv, Telling
  <2> QED BY <2>7, <2>8, <2>10 DEF IInv
<1>3. ASSUME NEW op \in Ops, RunOperation(op) PROVE IInv'
  <2>1. Block("add", op) \in Blocks
    BY DEF Blocks, Block
  <2>2. /\ owner.at = "idle" /\ op \notin given /\ thread[op] = "none" /\ given' = given \cup {op}
        /\ UNCHANGED <<settings, operations, observed, mainQueue, flagVars, thread, performs,
                       owner, delivered, lost>>
    BY <1>3 DEF RunOperation, IInv, SetInv
  <2>3. /\ Block("add", op) \notin Elems(operationsQueue)
        /\ \A c \in Elems(operationsQueue) : c.kind # "cancelAll"
    BY <2>2, BlocksAre DEF Fits, Block
  <2>4. Fits(Block("add", op))' /\ \A c \in Elems(operationsQueue) : Fits(c)'
    BY <2>2, BlocksAre DEF Fits, Block
  <2>5. operationsQueue' \in Seq(Blocks) /\ QueueInv'
    BY <1>3, <2>1, <2>3, <2>4, DispatchInv DEF RunOperation, Dispatch
  <2>6. TypeOK' /\ OwnerInv'
    BY <2>2, <2>5 DEF IInv, TypeOK, OwnerInv
  <2>7. SetInv'
    BY <2>2 DEF IInv, TypeOK, SetInv, Telling, Elems
  <2> QED BY <2>5, <2>6, <2>7 DEF IInv
<1>4. ASSUME NEW op \in Ops, ObserveFinished(op) PROVE IInv'
  <2>1. CASE op \notin observed
    <3>1. TypeOK'
      BY <1>4, <2>1 DEF ObserveFinished, Goto, IInv, TypeOK
    <3> QED BY <1>4, <2>1, <3>1, ThreadMoves DEF ObserveFinished
  <2>2. CASE op \in observed
    <3>1. Block("check", op) \in Blocks
      BY DEF Blocks, Block
    <3>2. /\ thread[op] = "notify" /\ thread' = [thread EXCEPT ![op] = "checking"]
          /\ UNCHANGED <<settings, operations, observed, mainQueue, flagVars, performs,
                         owner, given, delivered, lost>>
      BY <1>4, <2>2 DEF ObserveFinished, Goto
    <3>3. Block("check", op) \notin Elems(operationsQueue)
      BY <3>2, BlocksAre DEF Fits, Block
    <3>4. Fits(Block("check", op))' /\ \A c \in Elems(operationsQueue) : Fits(c)'
      BY <3>2, BlocksAre DEF Fits, Block, IInv, TypeOK
    <3>5. operationsQueue' \in Seq(Blocks) /\ QueueInv'
      BY <1>4, <2>2, <3>1, <3>3, <3>4, DispatchInv DEF ObserveFinished, Dispatch, Block
    <3>6. TypeOK' /\ OwnerInv'
      BY <3>2, <3>5 DEF IInv, TypeOK, OwnerInv
    <3>7. SetInv'
      BY <3>2 DEF IInv, TypeOK, SetInv, Telling, Elems
    <3> QED BY <3>5, <3>6, <3>7 DEF IInv
  <2> QED BY <2>1, <2>2
<1>5. ASSUME NEW op \in Ops, OperationDidFinish(op) PROVE IInv'
  <2> USE DEF Goto
  <2>1. /\ thread[op] = "found"
        /\ UNCHANGED <<settings, operations, observed, flagVars, performs, owner, given,
                       delivered, lost>>
    BY <1>5 DEF OperationDidFinish
  <2>2. CASE op \in cancelled
    <3>1. TypeOK'
      BY <1>5, <2>2 DEF OperationDidFinish, IInv, TypeOK
    <3> QED BY <1>5, <2>2, <3>1, ThreadMoves DEF OperationDidFinish
  <2>3. CASE op \notin cancelled /\ onMain
    <3>1. /\ mainQueue' = Append(mainQueue, op) /\ thread' = [thread EXCEPT ![op] = "leaving"]
          /\ operationsQueue' = operationsQueue
      BY <1>5, <2>3 DEF OperationDidFinish
    <3>2. mainQueue' \in Seq(Ops) /\ Elems(mainQueue') = Elems(mainQueue) \cup {op}
      BY <3>1, QueueGrows DEF IInv, TypeOK
    <3>3. Elems(mainQueue)' = Elems(mainQueue) \cup {op}
      BY <3>2 DEF Elems
    <3>4. \A c \in Elems(operationsQueue) : Fits(c)'
      BY <2>1, <3>1, BlocksAre DEF Fits, IInv, TypeOK
    <3>5. TypeOK' /\ OwnerInv' /\ QueueInv'
      BY <2>1, <2>3, <3>1, <3>2, <3>4, SameQueue DEF IInv, TypeOK, OwnerInv
    <3>6. SetInv'
      BY <2>1, <3>1, <3>3 DEF IInv, TypeOK, SetInv, Telling
    <3> QED BY <3>5, <3>6 DEF IInv
  <2>4. CASE op \notin cancelled /\ ~onMain
    <3>1. Block("remove", op) \in Blocks
      BY DEF Blocks, Block
    <3>2. /\ mainQueue' = mainQueue /\ thread' = [thread EXCEPT ![op] = "removing"]
          /\ operationsQueue' = Append(operationsQueue, Block("remove", op))
      BY <1>5, <2>4 DEF OperationDidFinish, Dispatch
    <3>3. Block("remove", op) \notin Elems(operationsQueue)
      BY <2>1, <2>4, BlocksAre DEF Fits, Block
    <3>4. Fits(Block("remove", op))' /\ \A c \in Elems(operationsQueue) : Fits(c)'
      BY <2>1, <2>4, <3>2, BlocksAre DEF Fits, Block, IInv, TypeOK
    <3>5. operationsQueue' \in Seq(Blocks) /\ QueueInv'
      BY <3>1, <3>2, <3>3, <3>4, DispatchInv DEF Block
    <3>6. TypeOK' /\ OwnerInv'
      BY <2>1, <3>2, <3>5 DEF IInv, TypeOK, OwnerInv
    <3>7. SetInv'
      BY <2>1, <2>4, <3>2 DEF IInv, TypeOK, SetInv, Telling, Elems
    <3> QED BY <3>5, <3>6, <3>7 DEF IInv
  <2> QED BY <2>2, <2>3, <2>4 DEF IInv, TypeOK
<1> QED BY <1>1, <1>2, <1>3, <1>4, <1>5

(* The blocks of the serial queue.                                         *)
LEMMA BlocksInv ==
  ASSUME IInv, \/ EmptyOperations
               \/ \E op \in Ops : AddOperation(op) \/ CheckContained(op)
  PROVE  IInv'
<1> USE DEF settings, flagVars, At
<1>1. CASE EmptyOperations
  <2>1. /\ owner.at = "emptying" /\ operationsQueue' \in Seq(Blocks)
        /\ Elems(operationsQueue)' = Elems(operationsQueue) \ {Block("cancelAll", None)}
        /\ (\A c \in Elems(operationsQueue)' : Fits(c)') => QueueInv'
    BY <1>1, RunsInv DEF EmptyOperations, Fits, Block
  <2>2. /\ owner' = [owner EXCEPT !.at = "cancelling", !.left = InNSOperationQueue]
        /\ operations' = {}
        /\ UNCHANGED <<settings, mainQueue, flagVars, thread, performs, given, delivered, lost>>
    BY <1>1 DEF EmptyOperations
  <2>3. owner'.at = "cancelling" /\ owner'.op = owner.op
    BY <2>2 DEF IInv, TypeOK
  <2>4. ASSUME NEW c \in Elems(operationsQueue)' PROVE Fits(c)'
    <3>1. c \in Blocks /\ c # Block("cancelAll", None) /\ Fits(c)
      BY <2>1, BlocksAre
    <3>2. c.kind # "cancelAll" /\ (c.kind = "remove" => ~onMain)
      BY <2>1, <3>1 DEF Blocks, Block, Fits
    <3> QED BY <2>2, <2>3, <3>1, <3>2 DEF Fits
  <2>5. InNSOperationQueue \subseteq Ops
    BY DEF InNSOperationQueue
  <2>6. TypeOK' /\ OwnerInv'
    <3>1. observed' \subseteq Ops
      BY <1>1 DEF EmptyOperations, IInv, TypeOK
    <3>2. owner' \in [at : {"cancelling"}, op : Ops \cup {None}, left : SUBSET Ops]
      BY <2>2, <2>5 DEF IInv, TypeOK
    <3> QED BY <2>1, <2>2, <2>3, <3>1, <3>2 DEF IInv, TypeOK, OwnerInv
  <2>7. SetInv'
    BY <2>2, <2>3 DEF IInv, TypeOK, SetInv, Telling, Elems
  <2> QED BY <2>1, <2>4, <2>6, <2>7 DEF IInv
<1>2. ASSUME NEW op \in Ops, AddOperation(op) PROVE IInv'
  <2>1. /\ op \in given /\ thread[op] = "none" /\ operationsQueue' \in Seq(Blocks)
        /\ Elems(operationsQueue)' = Elems(operationsQueue) \ {Block("add", op)}
        /\ (\A c \in Elems(operationsQueue)' : Fits(c)') => QueueInv'
    <3>1. Runs("add", op)
      BY <1>2 DEF AddOperation
    <3>2. Fits(Block("add", op))
      BY <3>1, RunsInv
    <3> QED BY <3>1, <3>2, RunsInv DEF Fits, Block
  <2>2. /\ thread' = [thread EXCEPT ![op] = "waiting"] /\ operations' = operations \cup {op}
        /\ observed' = observed \cup {op}
        /\ UNCHANGED <<settings, mainQueue, flagVars, performs, owner, given, delivered, lost>>
    BY <1>2 DEF AddOperation, Goto
  <2>3. ASSUME NEW c \in Elems(operationsQueue)' PROVE Fits(c)'
    <3>1. c \in Blocks /\ c # Block("add", op) /\ Fits(c)
      BY <2>1, BlocksAre
    <3>2. ~(c.kind = "add" /\ c.op = op)
      BY <3>1 DEF Blocks, Block
    <3> QED BY <2>1, <2>2, <3>1, <3>2 DEF Fits, IInv, TypeOK
  <2>4. TypeOK' /\ OwnerInv'
    BY <2>1, <2>2 DEF IInv, TypeOK, OwnerInv
  <2>5. SetInv'
    BY <2>1, <2>2 DEF IInv, TypeOK, SetInv, OwnerInv, Telling, Elems
  <2> QED BY <2>1, <2>3, <2>4, <2>5 DEF IInv
<1>3. ASSUME NEW op \in Ops, CheckContained(op) PROVE IInv'
  <2>1. /\ thread[op] = "checking" /\ operationsQueue' \in Seq(Blocks)
        /\ Elems(operationsQueue)' = Elems(operationsQueue) \ {Block("check", op)}
        /\ (\A c \in Elems(operationsQueue)' : Fits(c)') => QueueInv'
    <3>1. Runs("check", op)
      BY <1>3 DEF CheckContained
    <3>2. Fits(Block("check", op))
      BY <3>1, RunsInv
    <3> QED BY <3>1, <3>2, RunsInv DEF Fits, Block
  <2>2. PICK to \in {"found", "leaving"} : thread' = [thread EXCEPT ![op] = to]
    BY <1>3 DEF CheckContained, Goto
  <2>3. UNCHANGED <<settings, operations, observed, mainQueue, flagVars, performs,
                    owner, given, delivered, lost>>
    BY <1>3 DEF CheckContained
  <2>4. ASSUME NEW c \in Elems(operationsQueue)' PROVE Fits(c)'
    <3>1. c \in Blocks /\ c # Block("check", op) /\ Fits(c)
      BY <2>1, BlocksAre
    <3>2. ~(c.kind = "check" /\ c.op = op)
      BY <3>1 DEF Blocks, Block
    <3> QED BY <2>1, <2>2, <2>3, <3>1, <3>2 DEF Fits, IInv, TypeOK
  <2>5. TypeOK' /\ OwnerInv'
    BY <2>1, <2>2, <2>3 DEF IInv, TypeOK, OwnerInv
  <2>6. SetInv'
    BY <2>1, <2>2, <2>3 DEF IInv, TypeOK, SetInv, Telling, Elems
  <2> QED BY <2>1, <2>4, <2>5, <2>6 DEF IInv
<1> QED BY <1>1, <1>2, <1>3

(* Where _operationFinished: is running, and where it goes on.             *)
LEMMA RemoveOperationInv ==
  ASSUME IInv, NEW op \in Ops, RemoveOperation(op)
  PROVE  IInv'
<1> USE DEF settings, flagVars, At
<1>1. /\ IF onMain THEN owner.at = "removing" /\ owner.op = op ELSE thread[op] = "removing"
      /\ operationsQueue' \in Seq(Blocks)
      /\ Elems(operationsQueue)' = Elems(operationsQueue) \ {Block("remove", op)}
      /\ (\A c \in Elems(operationsQueue)' : Fits(c)') => QueueInv'
  <2>1. Runs("remove", op)
    BY DEF RemoveOperation
  <2>2. Fits(Block("remove", op))
    BY <2>1, RunsInv
  <2> QED BY <2>1, <2>2, RunsInv DEF Fits, Block
<1>2. /\ observed' = observed \ {op} /\ operations' = operations \ {op}
      /\ UNCHANGED <<settings, mainQueue, flagVars, performs, given, delivered, lost>>
  BY DEF RemoveOperation
<1>3. ASSUME NEW c \in Elems(operationsQueue)'
      PROVE  c \in Blocks /\ Fits(c) /\ ~(c.kind = "remove" /\ c.op = op)
  <2>1. c \in Blocks /\ c # Block("remove", op) /\ Fits(c)
    BY <1>1, BlocksAre
  <2> QED BY <2>1 DEF Blocks, Block
<1>4. op \in operations => delivered[op] = 0
  BY DEF IInv, SetInv
<1>5. CASE onMain
  <2>1. PICK at \in {"telling", "idle"} :
          /\ owner'.at = at /\ owner' \in [at : {"idle", "telling"}, op : Ops \cup {None},
                                           left : SUBSET Ops]
          /\ at = "telling" => op \in operations /\ owner'.op = op
    <3>1. CASE op \in operations
      <4>1. owner' = [owner EXCEPT !.at = "telling"]
        BY <1>5, <3>1 DEF RemoveOperation, Continue
      <4> QED BY <1>1, <1>5, <3>1, <4>1 DEF IInv, TypeOK
    <3>2. CASE op \notin operations
      <4>1. owner' = OwnerIdle
        BY <1>5, <3>2 DEF RemoveOperation, Continue
      <4> QED BY <4>1 DEF OwnerIdle
    <3> QED BY <3>1, <3>2
  <2>2. thread' = thread /\ thread[op] # "none" /\ onMain
    BY <1>1, <1>5 DEF RemoveOperation, Continue, IInv, OwnerInv
  <2>3. ASSUME NEW c \in Elems(operationsQueue)' PROVE Fits(c)'
    BY <1>1, <1>2, <1>3, <2>1, <2>2 DEF Fits
  <2>4. TypeOK' /\ OwnerInv'
    BY <1>1, <1>2, <2>1, <2>2 DEF IInv, TypeOK, OwnerInv
  <2>5. SetInv'
    BY <1>2, <1>4, <2>1, <2>2 DEF IInv, TypeOK, SetInv, Telling, Elems
  <2> QED BY <1>1, <2>3, <2>4, <2>5 DEF IInv
<1>6. CASE ~onMain
  <2>1. PICK to \in {"telling", "leaving"} :
          thread' = [thread EXCEPT ![op] = to] /\ (to = "telling" => op \in operations)
    BY <1>6 DEF RemoveOperation, Continue, Goto
  <2>2. owner' = owner /\ thread[op] = "removing" /\ owner.at \notin {"removing", "telling"}
    BY <1>1, <1>6 DEF RemoveOperation, Continue, IInv, OwnerInv
  <2>3. ASSUME NEW c \in Elems(operationsQueue)' PROVE Fits(c)'
    BY <1>2, <1>3, <1>6, <2>1, <2>2 DEF Fits, IInv, TypeOK
  <2>4. TypeOK' /\ OwnerInv'
    BY <1>1, <1>2, <1>6, <2>1, <2>2 DEF IInv, TypeOK, OwnerInv
  <2>5. SetInv'
    BY <1>2, <1>4, <1>6, <2>1, <2>2 DEF IInv, TypeOK, SetInv, Telling, Elems
  <2> QED BY <1>1, <2>3, <2>4, <2>5 DEF IInv
<1> QED BY <1>5, <1>6

(* The delegate is told once: the one telling has not told it yet.         *)
LEMMA TellDelegateInv ==
  ASSUME IInv, NEW op \in Ops, TellDelegate(op)
  PROVE  IInv' /\ delivered' = [delivered EXCEPT ![op] = 1] /\ ~Telling(op)'
<1> USE DEF runnerVars, settings, flagVars, At
<1>1. /\ Telling(op) /\ delivered[op] = 0 /\ op \notin operations /\ thread[op] # "none"
  BY DEF TellDelegate, IInv, SetInv
<1>2. /\ delivered' = [delivered EXCEPT ![op] = 1]
      /\ UNCHANGED <<settings, operations, observed, operationsQueue, mainQueue, flagVars,
                     performs, given, lost>>
  BY <1>1 DEF TellDelegate
<1>3. CASE onMain
  <2>1. owner.at = "telling" /\ owner.op = op /\ owner' = OwnerIdle /\ thread' = thread
    BY <1>1, <1>3 DEF TellDelegate, Telling, Continue, IInv, SetInv
  <2>2. ASSUME NEW c \in Elems(operationsQueue) PROVE Fits(c)'
    BY <1>2, <1>3, <2>1, BlocksAre DEF Fits
  <2>3. TypeOK' /\ OwnerInv' /\ QueueInv'
    BY <1>2, <2>1, <2>2, SameQueue DEF IInv, TypeOK, OwnerInv, OwnerIdle
  <2>4. owner'.at = "idle" /\ delivered' \in [Ops -> Nat] /\ delivered'[op] = 1
    BY <1>2, <2>1 DEF OwnerIdle, IInv, TypeOK
  <2>5. \A q \in Ops : ~Telling(q)'
    BY <1>3, <2>1, <2>4 DEF Telling, IInv, SetInv
  <2>6. SetInv'
    BY <1>1, <1>2, <1>3, <2>1, <2>4, <2>5 DEF IInv, TypeOK, SetInv, Elems
  <2> QED BY <1>2, <2>3, <2>5, <2>6 DEF IInv
<1>4. CASE ~onMain
  <2>1. /\ owner.at # "telling" /\ thread[op] = "telling" /\ owner' = owner
        /\ thread' = [thread EXCEPT ![op] = "leaving"]
    BY <1>1, <1>4 DEF TellDelegate, Telling, Continue, Goto, IInv, OwnerInv
  <2>2. ASSUME NEW c \in Elems(operationsQueue) PROVE Fits(c)'
    BY <1>2, <1>4, <2>1, BlocksAre DEF Fits, IInv, TypeOK
  <2>3. TypeOK' /\ OwnerInv' /\ QueueInv'
    BY <1>2, <1>4, <2>1, <2>2, SameQueue DEF IInv, TypeOK, OwnerInv
  <2>4. SetInv' /\ ~Telling(op)'
    BY <1>1, <1>2, <1>4, <2>1 DEF IInv, TypeOK, SetInv, Telling, Elems
  <2> QED BY <1>2, <2>3, <2>4 DEF IInv
<1> QED BY <1>3, <1>4

(* Every step keeps the invariant.                                         *)
LEMMA InvStep == IInv /\ [Next]_vars => IInv'
<1> SUFFICES ASSUME IInv, [Next]_vars PROVE IInv'
  OBVIOUS
<1>1. CASE UNCHANGED vars
  BY <1>1 DEF vars, runnerVars, settings, flagVars, IInv, TypeOK, QueueInv, SetInv, OwnerInv,
              Ordered, Elems, Fits, Telling, At
<1> QED BY <1>1, ThreadInv, OwnerStepsInv, DispatchesInv, BlocksInv, RemoveOperationInv,
           TellDelegateInv DEF Next, OnOwner, OnSerialQueue, OnThread

(* Every reachable state is well-typed, each block of the serial queue is  *)
(* waited for, and what is being delivered has left the set.               *)
THEOREM InvCorrect == Spec => []IInv
  BY InitInv, InvStep, PTL DEF Spec

-----------------------------------------------------------------------------
(* What the owner sees of an operation changes when it is handed over,     *)
(* taken out of the set, and told to the delegate.                         *)
Pending(op) == op \in operations \/ Block("add", op) \in Elems(operationsQueue)

(* The status in terms of the elements of the queue.                       *)
LEMMA StatusIs ==
  ASSUME NEW op \in Ops
  PROVE  Status(op) = IF op \notin given THEN "new"
                      ELSE IF delivered[op] = 1 THEN "delivered"
                      ELSE IF delivered[op] > 1 THEN "delivered again"
                      ELSE IF Telling(op) THEN "telling"
                      ELSE IF Pending(op) THEN "running"
                      ELSE "dropped"
<1>1. Contains(operationsQueue, Block("add", op)) <=> Block("add", op) \in Elems(operationsQueue)
  BY DEF Contains, Elems
<1> QED BY <1>1 DEF Status, Pending

(* What the status of an operation depends on.                             *)
LEMMA StatusSame ==
  ASSUME NEW op \in Ops, op \in given' <=> op \in given, delivered'[op] = delivered[op],
         Telling(op)' <=> Telling(op), Pending(op)' <=> Pending(op)
  PROVE  Status(op)' = Status(op)
<1>1. Contains(operationsQueue, Block("add", op)) <=> Block("add", op) \in Elems(operationsQueue)
  BY DEF Contains, Elems
<1>2. Contains(operationsQueue, Block("add", op))' <=> (Block("add", op) \in Elems(operationsQueue))'
  BY DEF Contains, Elems
<1> QED BY <1>1, <1>2 DEF Status, Pending

(* A step that changes no status is no step of the service.                *)
LEMMA StutterStep ==
  ASSUME onMain' = onMain, \A op \in Ops : Status(op)' = Status(op)
  PROVE  UNCHANGED Service!vars
  BY DEF Service!vars

(* A step that moves one operation on is a step of the service.            *)
LEMMA MoveStep ==
  ASSUME NEW op \in Ops, NEW to, onMain' = onMain, Status(op)' = to,
         \A q \in Ops \ {op} : Status(q)' = Status(q),
         <<Status(op), to>> \in {<<"new", "running">>, <<"running", "telling">>,
                                 <<"telling", "delivered">>}
  PROVE  Service!Next
<1> DEFINE status == [q \in Ops |-> Status(q)]
<1>1. status' = [status EXCEPT ![op] = to]
  OBVIOUS
<1>2. Service!Moves(op, Status(op), to)
  BY <1>1 DEF Service!Moves
<1> QED BY <1>2 DEF Service!Next

(* What the owner sees of the runner stays the same.                       *)
LEMMA UnseenStep ==
  ASSUME UNCHANGED <<onMain, given, delivered>>,
         \A op \in Ops : (Telling(op)' <=> Telling(op)) /\ (Pending(op)' <=> Pending(op))
  PROVE  UNCHANGED Service!vars
<1>1. \A op \in Ops : Status(op)' = Status(op)
  BY StatusSame
<1> QED BY <1>1, StutterStep

(* The steps of an operation's thread, of the owner, and the blocks and    *)
(* dispatches the owner does not see.                                      *)
LEMMA ThreadUnseen ==
  ASSUME IInv, NEW op \in Ops,
         \/ Start(op) \/ BeginExecuting(op) \/ Setup(op) \/ SetupFails(op) \/ Completed(op)
         \/ Failed(op) \/ RunLoopFinishes(op) \/ LeaveRunLoop(op)
  PROVE  UNCHANGED Service!vars
<1> USE DEF runnerVars, settings, flagVars, At
<1>1. UNCHANGED <<onMain, given, delivered, operations, operationsQueue, owner>>
  BY DEF Start, BeginExecuting, Setup, SetupFails, Completed, Failed, RunLoopFinishes,
         LeaveRunLoop
<1>2. \E to : to # "telling" /\ Goto(op, to)
  BY DEF Start, BeginExecuting, Setup, SetupFails, Completed, Failed, RunLoopFinishes,
         LeaveRunLoop, finish
<1>3. thread[op] # "telling"
  BY DEF Start, BeginExecuting, Setup, SetupFails, Completed, Failed, RunLoopFinishes,
         LeaveRunLoop
<1>4. \A q \in Ops : (Telling(q)' <=> Telling(q)) /\ (Pending(q)' <=> Pending(q))
  BY <1>1, <1>2, <1>3 DEF Telling, Goto, Pending, Elems, IInv, TypeOK
<1> QED BY <1>1, <1>4, UnseenStep

(* A cancellation behind the emptying of the set is not seen.              *)
LEMMA OwnerUnseen ==
  ASSUME IInv, \/ CancelSendsFinish \/ CancelReturns
               \/ \E op \in Ops : CancelSetsFlag(op) \/ CancelOne(op)
  PROVE  UNCHANGED Service!vars
<1> USE DEF runnerVars, settings, flagVars, At, OwnerIdle
<1>1. UNCHANGED <<onMain, given, delivered, operations, operationsQueue, thread>>
  BY DEF CancelSendsFinish, CancelReturns, CancelSetsFlag, CancelOne
<1>2. owner.at # "telling" /\ owner'.at # "telling"
  <2>1. owner.at # "telling"
    BY DEF CancelSendsFinish, CancelReturns, CancelSetsFlag, CancelOne
  <2>2. CASE CancelSendsFinish \/ \E op \in Ops : CancelSetsFlag(op)
    <3>1. owner'.at = owner.at
      BY <2>2 DEF CancelSendsFinish, CancelSetsFlag, IInv, TypeOK
    <3> QED BY <2>1, <3>1
  <2>3. CASE CancelReturns \/ \E op \in Ops : CancelOne(op)
    BY <2>1, <2>3 DEF CancelReturns, CancelOne
  <2> QED BY <2>1, <2>2, <2>3
<1>3. \A q \in Ops : (Telling(q)' <=> Telling(q)) /\ (Pending(q)' <=> Pending(q))
  BY <1>1, <1>2 DEF Telling, Pending, Elems
<1> QED BY <1>1, <1>3, UnseenStep

(* Only an add block makes an operation pending.                           *)
LEMMA DispatchPending ==
  ASSUME IInv, NEW b \in Blocks, operationsQueue' = Append(operationsQueue, b),
         operations' = operations, NEW op \in Ops, b # Block("add", op)
  PROVE  Pending(op)' <=> Pending(op)
<1>1. Elems(operationsQueue') = Elems(operationsQueue) \cup {b}
  BY QueueGrows DEF IInv, TypeOK
<1>2. Elems(operationsQueue)' = Elems(operationsQueue) \cup {b}
  BY <1>1 DEF Elems
<1> QED BY <1>2 DEF Pending

(* Blocks that are put into the queue, add blocks apart, are not seen.     *)
LEMMA DispatchesUnseen ==
  ASSUME IInv, \/ CancelOperations \/ MainPerforms
               \/ \E op \in Ops : ObserveFinished(op) \/ OperationDidFinish(op)
  PROVE  UNCHANGED Service!vars
<1> USE DEF settings, flagVars, At, OwnerIdle
<1>1. UNCHANGED <<onMain, given, delivered, operations>>
  BY DEF CancelOperations, MainPerforms, ObserveFinished, OperationDidFinish
<1>2. \A q \in Ops : Telling(q)' <=> Telling(q)
  <2>1. CASE CancelOperations \/ MainPerforms
    <3>1. thread' = thread /\ owner.at = "idle" /\ owner'.at \in {"emptying", "removing"}
      BY <2>1 DEF CancelOperations, MainPerforms
    <3> QED BY <3>1 DEF Telling
  <2>2. CASE \E op \in Ops : ObserveFinished(op) \/ OperationDidFinish(op)
    <3>1. PICK op \in Ops : ObserveFinished(op) \/ OperationDidFinish(op)
      BY <2>2
    <3>2. owner' = owner /\ thread[op] # "telling" /\ \E to : to # "telling" /\ Goto(op, to)
      BY <3>1 DEF ObserveFinished, OperationDidFinish
    <3> QED BY <3>2 DEF Telling, Goto, IInv, TypeOK
  <2> QED BY <2>1, <2>2
<1>3. \A q \in Ops : Pending(q)' <=> Pending(q)
  <2>1. \/ operationsQueue' = operationsQueue
        \/ \E kind \in {"cancelAll", "check", "remove"} : \E op \in Ops \cup {None} :
             Block(kind, op) \in Blocks /\ Dispatch(kind, op)
    <3>1. CASE CancelOperations
      BY <3>1 DEF CancelOperations, Blocks
    <3>2. CASE MainPerforms
      <4>1. Head(mainQueue) \in Ops
        BY <3>2, MainQueueShrinks DEF MainPerforms, IInv, TypeOK
      <4>2. Block("remove", Head(mainQueue)) \in Blocks
        BY <4>1 DEF Blocks, Block
      <4> QED BY <3>2, <4>1, <4>2 DEF MainPerforms
    <3>3. ASSUME NEW op \in Ops, ObserveFinished(op) \/ OperationDidFinish(op)
          PROVE  \/ operationsQueue' = operationsQueue
                 \/ Dispatch("check", op) \/ Dispatch("remove", op)
      BY <3>3 DEF ObserveFinished, OperationDidFinish
    <3>4. \A op \in Ops : Block("check", op) \in Blocks /\ Block("remove", op) \in Blocks
      BY DEF Blocks, Block
    <3> QED BY <3>1, <3>2, <3>3, <3>4
  <2>2. CASE operationsQueue' = operationsQueue
    BY <1>1, <2>2 DEF Pending, Elems
  <2>3. ASSUME NEW kind \in {"cancelAll", "check", "remove"}, NEW op \in Ops \cup {None},
               Block(kind, op) \in Blocks, Dispatch(kind, op), NEW q \in Ops
        PROVE  Pending(q)' <=> Pending(q)
    <3>1. Block(kind, op) # Block("add", q)
      BY DEF Block
    <3> QED BY <1>1, <2>3, <3>1, DispatchPending DEF Dispatch
  <2> QED BY <2>1, <2>2, <2>3
<1> QED BY <1>1, <1>2, <1>3, UnseenStep

(* An add block becomes membership of the set, a check changes nothing.    *)
LEMMA BlocksUnseen ==
  ASSUME IInv, NEW op \in Ops, AddOperation(op) \/ CheckContained(op)
  PROVE  UNCHANGED Service!vars
<1> USE DEF settings, flagVars, At
<1>1. UNCHANGED <<onMain, given, delivered, owner>>
  BY DEF AddOperation, CheckContained
<1>2. \A q \in Ops : Telling(q)' <=> Telling(q)
  <2>1. \E to : to # "telling" /\ Goto(op, to)
    BY DEF AddOperation, CheckContained
  <2>2. thread[op] # "telling"
    <3>1. CASE AddOperation(op)
      <4>1. Runs("add", op)
        BY <3>1 DEF AddOperation
      <4>2. Fits(Block("add", op))
        BY <4>1, RunsInv
      <4> QED BY <4>2 DEF Fits, Block
    <3>2. CASE CheckContained(op)
      <4>1. Runs("check", op)
        BY <3>2 DEF CheckContained
      <4>2. Fits(Block("check", op))
        BY <4>1, RunsInv
      <4> QED BY <4>2 DEF Fits, Block
    <3> QED BY <3>1, <3>2
  <2> QED BY <1>1, <2>1, <2>2 DEF Telling, Goto, IInv, TypeOK
<1>3. \A q \in Ops : Pending(q)' <=> Pending(q)
  <2>1. CASE AddOperation(op)
    <3>1. Runs("add", op) /\ operations' = operations \cup {op}
      BY <2>1 DEF AddOperation
    <3>2. /\ Elems(operationsQueue)' = Elems(operationsQueue) \ {Block("add", op)}
          /\ Block("add", op) \in Elems(operationsQueue)
      BY <3>1, RunsInv
    <3>3. \A q \in Ops : q # op => Block("add", q) # Block("add", op)
      BY DEF Block
    <3> QED BY <3>1, <3>2, <3>3 DEF Pending
  <2>2. CASE CheckContained(op)
    <3>1. Runs("check", op) /\ operations' = operations
      BY <2>2 DEF CheckContained
    <3>2. Elems(operationsQueue)' = Elems(operationsQueue) \ {Block("check", op)}
      BY <3>1, RunsInv
    <3>3. \A q \in Ops : Block("add", q) # Block("check", op)
      BY DEF Block
    <3> QED BY <3>1, <3>2, <3>3 DEF Pending
  <2> QED BY <2>1, <2>2
<1> QED BY <1>1, <1>2, <1>3, UnseenStep

(* The steps the owner sees.                                               *)
LEMMA RunOperationMoves ==
  ASSUME IInv, NEW op \in Ops, RunOperation(op)
  PROVE  Service!Next
<1> USE DEF settings, flagVars, At
<1>1. /\ op \notin given /\ given' = given \cup {op} /\ operations' = operations
      /\ UNCHANGED <<onMain, thread, owner, delivered>> /\ Dispatch("add", op)
  BY DEF RunOperation
<1>2. thread[op] = "none" /\ delivered[op] = 0 /\ ~Telling(op)
  BY <1>1 DEF IInv, SetInv
<1>3. Block("add", op) \in Blocks
  BY DEF Blocks, Block
<1>4. Pending(op)'
  <2>1. Block("add", op) \in Elems(operationsQueue')
    BY <1>1, <1>3, QueueGrows DEF Dispatch, IInv, TypeOK
  <2> QED BY <2>1 DEF Pending, Elems
<1>5. \A q \in Ops : Telling(q)' <=> Telling(q)
  BY <1>1 DEF Telling
<1>6. ASSUME NEW q \in Ops \ {op} PROVE Status(q)' = Status(q)
  <2>1. Block("add", op) # Block("add", q)
    BY DEF Block
  <2>2. Pending(q)' <=> Pending(q)
    BY <1>1, <1>3, <2>1, DispatchPending DEF Dispatch
  <2> QED BY <1>1, <1>5, <2>2, StatusSame
<1>7. Status(op) = "new"
  BY <1>1, StatusIs
<1>8. Status(op)' = "running"
  <2>1. Contains(operationsQueue, Block("add", op))' \/ op \in operations'
    BY <1>4 DEF Pending, Contains, Elems
  <2>2. op \in given' /\ delivered'[op] = 0 /\ ~Telling(op)'
    BY <1>1, <1>2, <1>5
  <2> QED BY <2>1, <2>2 DEF Status
<1> QED BY <1>1, <1>6, <1>7, <1>8, MoveStep

(* Emptying the set drops every operation that runs in one step.           *)
LEMMA EmptyOperationsMoves ==
  ASSUME IInv, EmptyOperations
  PROVE  Service!Next
<1> USE DEF settings, flagVars, At
<1>1. /\ Runs("cancelAll", None) /\ operations' = {} /\ UNCHANGED <<onMain, thread, given, delivered>>
      /\ owner' = [owner EXCEPT !.at = "cancelling", !.left = InNSOperationQueue]
  BY DEF EmptyOperations
<1>2. \A c \in Elems(operationsQueue)' : c.kind # "add"
  BY <1>1, RunsInv
<1>3. owner.at = "emptying"
  <2>1. Fits(Block("cancelAll", None))
    BY <1>1, RunsInv
  <2> QED BY <2>1 DEF Fits, Block
<1>4. owner'.at = "cancelling"
  BY <1>1 DEF IInv, TypeOK
<1>5. \A q \in Ops : (Telling(q)' <=> Telling(q)) /\ ~Pending(q)'
  BY <1>1, <1>2, <1>3, <1>4 DEF Telling, Pending, Block
<1>6. onMain => \A q \in Ops : ~Telling(q)
  BY <1>3 DEF Telling, IInv, SetInv
<1>7. ASSUME NEW q \in Ops
      PROVE  Status(q)' = IF Status(q) = "running" THEN "dropped" ELSE Status(q)
  <2>1. ~Contains(operationsQueue, Block("add", q))' /\ q \notin operations'
    BY <1>5 DEF Pending, Contains, Elems
  <2>2. Status(q)' = IF q \notin given THEN "new"
                     ELSE IF delivered[q] = 1 THEN "delivered"
                     ELSE IF delivered[q] > 1 THEN "delivered again"
                     ELSE IF Telling(q) THEN "telling" ELSE "dropped"
    BY <1>1, <1>5, <2>1 DEF Status
  <2>3. delivered[q] \in {0, 1}
    BY DEF IInv, SetInv
  <2> QED BY <2>2, <2>3, StatusIs
<1>8. onMain => \A q \in Ops : Status(q) # "telling"
  BY <1>6, StatusIs
<1>9. [q \in Ops |-> Status(q)]' =
        [q \in Ops |-> IF [x \in Ops |-> Status(x)][q] = "running" THEN "dropped"
                       ELSE [x \in Ops |-> Status(x)][q]]
  BY <1>7
<1>10. Service!CancelAll
  BY <1>8, <1>9 DEF Service!CancelAll
<1> QED BY <1>1, <1>10 DEF Service!Next

(* An operation taken out of the set is about to be delivered.             *)
LEMMA RemoveOperationMoves ==
  ASSUME IInv, NEW op \in Ops, RemoveOperation(op)
  PROVE  [Service!Next]_(Service!vars)
<1> USE DEF settings, flagVars, At
<1>1. /\ Runs("remove", op) /\ operations' = operations \ {op}
      /\ UNCHANGED <<onMain, given, delivered>> /\ Continue(op, op \in operations)
  BY DEF RemoveOperation
<1>2. IF onMain THEN owner.at = "removing" /\ owner.op = op ELSE thread[op] = "removing"
  <2>1. Fits(Block("remove", op))
    BY <1>1, RunsInv
  <2> QED BY <2>1 DEF Fits, Block
<1>3. \A q \in Ops : Block("add", q) \in Elems(operationsQueue)' <=> Block("add", q) \in Elems(operationsQueue)
  <2>1. Elems(operationsQueue)' = Elems(operationsQueue) \ {Block("remove", op)}
    BY <1>1, RunsInv
  <2>2. \A q \in Ops : Block("add", q) # Block("remove", op)
    BY DEF Block
  <2> QED BY <2>1, <2>2
<1>4. \A q \in Ops \ {op} : Pending(q)' <=> Pending(q)
  BY <1>1, <1>3 DEF Pending
<1>5. ~Telling(op) /\ thread[op] # "none"
  BY <1>2 DEF Telling, IInv, SetInv, OwnerInv
<1>6. \A q \in Ops \ {op} : Telling(q)' <=> Telling(q)
  <2>1. CASE onMain
    BY <1>1, <1>2, <2>1 DEF Continue, Telling, OwnerIdle, IInv, TypeOK
  <2>2. CASE ~onMain
    BY <1>1, <2>2 DEF Continue, Telling, Goto, IInv, TypeOK
  <2> QED BY <2>1, <2>2
<1>7. Telling(op)' <=> op \in operations
  <2>1. CASE onMain /\ op \in operations
    BY <1>1, <1>2, <2>1 DEF Continue, Telling, IInv, TypeOK
  <2>2. CASE onMain /\ op \notin operations
    <3>1. owner'.at = "idle" /\ thread' = thread
      BY <1>1, <2>2 DEF Continue, OwnerIdle
    <3> QED BY <1>5, <2>2, <3>1 DEF Telling
  <2>3. CASE ~onMain
    <3>1. owner' = owner /\ thread' = [thread EXCEPT ![op] = IF op \in operations THEN "telling" ELSE "leaving"]
      BY <1>1, <2>3 DEF Continue, Goto
    <3>2. owner.at # "telling"
      BY <2>3 DEF IInv, OwnerInv
    <3> QED BY <3>1, <3>2 DEF Telling, IInv, TypeOK
  <2> QED BY <2>1, <2>2, <2>3
<1>8. \A q \in Ops \ {op} : Status(q)' = Status(q)
  BY <1>1, <1>4, <1>6, StatusSame
<1>9. CASE op \in operations
  <2>1. delivered[op] = 0 /\ op \in given /\ Pending(op)
    BY <1>5, <1>9 DEF IInv, SetInv, Pending
  <2>2. Status(op) = "running"
    <3>1. ~(delivered[op] = 1) /\ ~(delivered[op] > 1)
      BY <2>1
    <3> QED BY <1>5, <2>1, <3>1, StatusIs
  <2>3. Status(op)' = "telling"
    BY <1>1, <1>7, <1>9, <2>1 DEF Status
  <2> QED BY <1>1, <1>8, <2>2, <2>3, MoveStep
<1>10. CASE op \notin operations
  <2>1. Pending(op)' <=> Pending(op)
    BY <1>1, <1>3, <1>10 DEF Pending
  <2>2. Status(op)' = Status(op)
    BY <1>1, <1>5, <1>7, <1>10, <2>1, StatusSame
  <2>3. UNCHANGED Service!vars
    BY <1>1, <1>8, <2>2, StutterStep
  <2> QED BY <2>3
<1> QED BY <1>9, <1>10

(* An operation about to be delivered is delivered.                        *)
LEMMA TellDelegateMoves ==
  ASSUME IInv, NEW op \in Ops, TellDelegate(op)
  PROVE  Service!Next
<1> USE DEF runnerVars, settings, flagVars, At
<1>1. /\ Telling(op) /\ UNCHANGED <<onMain, given, operations, operationsQueue>>
      /\ Continue(op, FALSE)
  BY DEF TellDelegate
<1>2. delivered' = [delivered EXCEPT ![op] = 1] /\ delivered[op] = 0 /\ op \in given
  BY <1>1, TellDelegateInv DEF IInv, SetInv
<1>3. \A q \in Ops \ {op} : Telling(q)' <=> Telling(q)
  <2>1. CASE onMain
    <3>1. owner.at = "telling" /\ owner.op = op
      BY <1>1, <2>1 DEF Telling, IInv, SetInv
    <3> QED BY <1>1, <2>1, <3>1 DEF Continue, Telling, OwnerIdle
  <2>2. CASE ~onMain
    BY <1>1, <2>2 DEF Continue, Telling, Goto, IInv, TypeOK
  <2> QED BY <2>1, <2>2
<1>4. \A q \in Ops \ {op} : Status(q)' = Status(q)
  <2>1. \A q \in Ops \ {op} : delivered'[q] = delivered[q] /\ (Pending(q)' <=> Pending(q))
    BY <1>1, <1>2 DEF Pending, Elems, IInv, TypeOK
  <2> QED BY <1>1, <1>3, <2>1, StatusSame
<1>5. Status(op) = "telling"
  <2>1. ~(delivered[op] = 1) /\ ~(delivered[op] > 1)
    BY <1>2
  <2> QED BY <1>1, <1>2, <2>1, StatusIs
<1>6. Status(op)' = "delivered"
  <2>1. delivered'[op] = 1 /\ op \in given'
    BY <1>1, <1>2 DEF IInv, TypeOK
  <2> QED BY <2>1 DEF Status
<1> QED BY <1>1, <1>4, <1>5, <1>6, MoveStep

(* The runner does what its header promises, for any number of operations  *)
(* and of threads: no operation is delivered after cancelOperations, and   *)
(* none twice, wherever in its run it is cancelled.                        *)
THEOREM Refinement == Spec => ImplementsService
<1>1. Init => Service!Init
  <2> SUFFICES ASSUME Init PROVE Service!Init
    OBVIOUS
  <2>1. \A op \in Ops : Status(op) = "new"
    BY DEF Init, Status
  <2>2. [op \in Ops |-> Status(op)] = [op \in Ops |-> "new"] /\ onMain \in BOOLEAN
    BY <2>1 DEF Init
  <2> QED BY <2>2 DEF Service!Init
<1>2. IInv /\ [Next]_vars => [Service!Next]_(Service!vars)
  <2> SUFFICES ASSUME IInv, [Next]_vars PROVE [Service!Next]_(Service!vars)
    OBVIOUS
  <2>1. CASE EmptyOperations \/ \E op \in Ops : RunOperation(op) \/ TellDelegate(op)
    BY <2>1, EmptyOperationsMoves, RunOperationMoves, TellDelegateMoves
  <2>2. CASE \E op \in Ops : RemoveOperation(op)
    BY <2>2, RemoveOperationMoves
  <2>3. CASE \E op \in Ops : \/ Start(op) \/ BeginExecuting(op) \/ Setup(op) \/ SetupFails(op)
                             \/ Completed(op) \/ Failed(op) \/ RunLoopFinishes(op)
                             \/ LeaveRunLoop(op)
    BY <2>3, ThreadUnseen
  <2>4. CASE \/ CancelSendsFinish \/ CancelReturns
             \/ \E op \in Ops : CancelSetsFlag(op) \/ CancelOne(op)
    BY <2>4, OwnerUnseen
  <2>5. CASE \/ CancelOperations \/ MainPerforms
             \/ \E op \in Ops : ObserveFinished(op) \/ OperationDidFinish(op)
    BY <2>5, DispatchesUnseen
  <2>6. CASE \E op \in Ops : AddOperation(op) \/ CheckContained(op)
    BY <2>6, BlocksUnseen
  <2>7. CASE UNCHANGED vars
    <3>1. \A op \in Ops : (Telling(op)' <=> Telling(op)) /\ (Pending(op)' <=> Pending(op))
      BY <2>7 DEF vars, runnerVars, Telling, At, Pending, Elems
    <3> QED BY <2>7, <3>1, UnseenStep DEF vars, runnerVars, settings
  <2> QED BY <2>1, <2>2, <2>3, <2>4, <2>5, <2>6, <2>7
           DEF Next, OnOwner, OnSerialQueue, OnThread
<1> QED BY <1>1, <1>2, InvCorrect, PTL DEF Spec, ImplementsService, Service!Spec

(* Every reachable state is well-typed.                                    *)
THEOREM TypeCorrect == Spec => []TypeOK
<1>1. IInv => TypeOK
  BY DEF IInv
<1> QED BY <1>1, InvCorrect, PTL

-----------------------------------------------------------------------------
(* What keeps the set from filling up: an operation is observed exactly    *)
(* while it is in the set, and one that is there and was not cancelled is  *)
(* on its way to the block that takes it out.                              *)
Awaited(op) ==
  \/ thread[op] \notin {"none", "leaving", "done"}
  \/ op \in Elems(mainQueue)
  \/ owner.at = "removing" /\ owner.op = op

LeftoverInv ==
  observed = operations /\ \A op \in operations \ cancelled : Awaited(op)

(* The set and the waits stay, or what waits for one operation moves on.   *)
LEMMA StillAwaited ==
  ASSUME LeftoverInv, UNCHANGED <<observed, operations>>, cancelled \subseteq cancelled',
         \A op \in operations \ cancelled' : Awaited(op) => Awaited(op)'
  PROVE  LeftoverInv'
  BY DEF LeftoverInv

(* A step of an operation's thread to a place that is not after the end.   *)
LEMMA ThreadAwaits ==
  ASSUME IInv, LeftoverInv, NEW op \in Ops, NEW to, Goto(op, to),
         \/ to \notin {"none", "leaving", "done"}
         \/ thread[op] \in {"leaving", "done"}
         \/ op \notin operations
         \/ op \in Elems(mainQueue)',
         UNCHANGED <<observed, operations, cancelled, owner>>,
         Elems(mainQueue) \subseteq Elems(mainQueue)'
  PROVE  LeftoverInv'
<1>1. \A q \in Ops : thread'[q] = IF q = op THEN to ELSE thread[q]
  BY DEF Goto, IInv, TypeOK
<1>2. operations \subseteq Ops
  BY DEF IInv, TypeOK
<1>3. \A q \in operations \ cancelled' : Awaited(q) => Awaited(q)'
  BY <1>1, <1>2 DEF Awaited
<1> QED BY <1>3, StillAwaited

(* The steps of an operation's thread.                                     *)
LEMMA ThreadLeftovers ==
  ASSUME IInv, LeftoverInv, NEW op \in Ops,
         \/ Start(op) \/ BeginExecuting(op) \/ Setup(op) \/ SetupFails(op) \/ Completed(op)
         \/ Failed(op) \/ RunLoopFinishes(op) \/ LeaveRunLoop(op)
  PROVE  LeftoverInv'
<1> USE DEF runnerVars, settings, flagVars, At
<1>1. UNCHANGED <<observed, operations, cancelled, owner, mainQueue>>
  BY DEF Start, BeginExecuting, Setup, SetupFails, Completed, Failed, RunLoopFinishes,
         LeaveRunLoop
<1>2. Elems(mainQueue)' = Elems(mainQueue)
  BY <1>1 DEF Elems
<1>3. \E to : Goto(op, to) /\ (to \notin {"none", "leaving", "done"} \/ thread[op] = "leaving")
  BY DEF Start, BeginExecuting, Setup, SetupFails, Completed, Failed, RunLoopFinishes,
         LeaveRunLoop, finish
<1> QED BY <1>1, <1>2, <1>3, ThreadAwaits

(* The KVO notification: an operation in the set is observed, its check    *)
(* finds it there, and its delivery is queued unless it was cancelled.     *)
LEMMA NotificationLeftovers ==
  ASSUME IInv, LeftoverInv, NEW op \in Ops,
         ObserveFinished(op) \/ CheckContained(op) \/ OperationDidFinish(op)
  PROVE  LeftoverInv'
<1> USE DEF settings, flagVars, At
<1>1. UNCHANGED <<observed, operations, cancelled, owner>>
  BY DEF ObserveFinished, CheckContained, OperationDidFinish
<1>2. CASE ObserveFinished(op) \/ CheckContained(op)
  <2>1. Elems(mainQueue)' = Elems(mainQueue)
    BY <1>2 DEF ObserveFinished, CheckContained, Elems
  <2>2. \E to : Goto(op, to) /\ (to \in {"checking", "found"} \/ op \notin operations)
    BY <1>2 DEF ObserveFinished, CheckContained, LeftoverInv
  <2> QED BY <1>1, <2>1, <2>2, ThreadAwaits
<1>3. CASE OperationDidFinish(op)
  <2>1. CASE op \in cancelled
    <3>1. mainQueue' = mainQueue /\ \A q \in Ops \ {op} : thread'[q] = thread[q]
      BY <1>3, <2>1 DEF OperationDidFinish, Goto, IInv, TypeOK
    <3>2. \A q \in operations \ cancelled' : Awaited(q) => Awaited(q)'
      BY <1>1, <2>1, <3>1 DEF Awaited, Elems, IInv, TypeOK
    <3> QED BY <1>1, <3>2, StillAwaited
  <2>2. CASE op \notin cancelled /\ onMain
    <3>1. mainQueue' = Append(mainQueue, op) /\ Goto(op, "leaving")
      BY <1>3, <2>2 DEF OperationDidFinish
    <3>2. Elems(Append(mainQueue, op)) = Elems(mainQueue) \cup {op}
      BY QueueGrows DEF IInv, TypeOK
    <3>3. Elems(mainQueue)' = Elems(mainQueue) \cup {op}
      BY <3>1, <3>2 DEF Elems
    <3> QED BY <1>1, <3>1, <3>3, ThreadAwaits
  <2>3. CASE op \notin cancelled /\ ~onMain
    <3>1. mainQueue' = mainQueue /\ Goto(op, "removing")
      BY <1>3, <2>3 DEF OperationDidFinish
    <3>2. Elems(mainQueue)' = Elems(mainQueue)
      BY <3>1 DEF Elems
    <3> QED BY <1>1, <3>1, <3>2, ThreadAwaits
  <2> QED BY <2>1, <2>2, <2>3
<1> QED BY <1>2, <1>3

(* The steps of the owner, which leave the set and the threads alone.      *)
LEMMA OwnerLeftovers ==
  ASSUME IInv, LeftoverInv,
         \/ CancelSendsFinish \/ CancelReturns \/ CancelOperations \/ MainPerforms
         \/ \E op \in Ops : RunOperation(op) \/ CancelSetsFlag(op) \/ CancelOne(op)
  PROVE  LeftoverInv'
<1> USE DEF runnerVars, settings, flagVars, OwnerIdle
<1>1. UNCHANGED <<observed, operations, thread>> /\ cancelled \subseteq cancelled'
  BY DEF CancelSendsFinish, CancelReturns, CancelOperations, MainPerforms, RunOperation,
         CancelSetsFlag, CancelOne
<1>2. CASE MainPerforms
  <2>1. /\ owner.at = "idle" /\ mainQueue # <<>> /\ mainQueue' = Tail(mainQueue)
        /\ owner' = [at |-> "removing", op |-> Head(mainQueue), left |-> {}]
    BY <1>2 DEF MainPerforms
  <2>2. Elems(mainQueue) \subseteq Elems(Tail(mainQueue)) \cup {Head(mainQueue)}
    BY <2>1, MainQueueShrinks DEF IInv, TypeOK
  <2>3. Elems(mainQueue)' = Elems(Tail(mainQueue))
    BY <2>1 DEF Elems
  <2>4. \A q : Awaited(q) => Awaited(q)'
    BY <1>1, <2>1, <2>2, <2>3 DEF Awaited
  <2> QED BY <1>1, <2>4, StillAwaited
<1>3. CASE \/ CancelSendsFinish \/ CancelReturns \/ CancelOperations
           \/ \E op \in Ops : RunOperation(op) \/ CancelSetsFlag(op) \/ CancelOne(op)
  <2>1. mainQueue' = mainQueue /\ (owner' = owner \/ owner.at # "removing")
    BY <1>3 DEF CancelSendsFinish, CancelReturns, CancelOperations, RunOperation,
                CancelSetsFlag, CancelOne
  <2>2. \A q : Awaited(q) => Awaited(q)'
    BY <1>1, <2>1 DEF Awaited, Elems
  <2> QED BY <1>1, <2>2, StillAwaited
<1> QED BY <1>2, <1>3

(* The steps that change the set: an operation enters it observed and      *)
(* about to start, leaves it and stops being observed together.            *)
LEMMA SetLeftovers ==
  ASSUME IInv, LeftoverInv,
         \/ EmptyOperations
         \/ \E op \in Ops : AddOperation(op) \/ RemoveOperation(op) \/ TellDelegate(op)
  PROVE  LeftoverInv'
<1> USE DEF settings, flagVars, At
<1>1. CASE EmptyOperations
  BY <1>1 DEF EmptyOperations, LeftoverInv
<1>2. ASSUME NEW op \in Ops, AddOperation(op) PROVE LeftoverInv'
  <2>1. \A q \in Ops : thread'[q] = IF q = op THEN "waiting" ELSE thread[q]
    BY <1>2 DEF AddOperation, Goto, IInv, TypeOK
  <2>2. /\ observed' = observed \cup {op} /\ operations' = operations \cup {op}
        /\ UNCHANGED <<mainQueue, cancelled, owner>> /\ operations \subseteq Ops
    BY <1>2 DEF AddOperation, IInv, TypeOK
  <2>3. \A q \in operations' \ cancelled' : Awaited(q)'
    BY <2>1, <2>2 DEF LeftoverInv, Awaited, Elems
  <2> QED BY <2>2, <2>3 DEF LeftoverInv
<1>3. ASSUME NEW op \in Ops, RemoveOperation(op) PROVE LeftoverInv'
  <2>1. IF onMain THEN owner.at = "removing" /\ owner.op = op ELSE thread[op] = "removing"
    <3>1. Fits(Block("remove", op))
      BY <1>3, RunsInv DEF RemoveOperation
    <3> QED BY <3>1 DEF Fits, Block
  <2>2. /\ observed' = observed \ {op} /\ operations' = operations \ {op}
        /\ UNCHANGED <<mainQueue, cancelled>> /\ operations \subseteq Ops
    BY <1>3 DEF RemoveOperation, IInv, TypeOK
  <2>3. \A q \in Ops \ {op} : /\ thread'[q] = thread[q]
                              /\ owner.at = "removing" /\ owner.op = q => owner' = owner
    BY <1>3, <2>1 DEF RemoveOperation, Continue, Goto, IInv, TypeOK
  <2>4. \A q \in operations' \ cancelled' : Awaited(q)'
    BY <2>2, <2>3 DEF LeftoverInv, Awaited, Elems
  <2> QED BY <2>2, <2>4 DEF LeftoverInv
<1>4. ASSUME NEW op \in Ops, TellDelegate(op) PROVE LeftoverInv'
  <2>1. UNCHANGED <<observed, operations, cancelled, mainQueue>> /\ op \notin operations
    BY <1>4 DEF TellDelegate, runnerVars, IInv, SetInv
  <2>2. \A q \in Ops \ {op} : thread'[q] = thread[q]
    BY <1>4 DEF TellDelegate, Continue, Goto, IInv, TypeOK
  <2>3. owner' = owner \/ owner.at # "removing"
    BY <1>4 DEF TellDelegate, Telling, Continue, IInv, SetInv
  <2>4. \A q \in operations \ cancelled' : Awaited(q) => Awaited(q)'
    BY <2>1, <2>2, <2>3 DEF Awaited, Elems, IInv, TypeOK
  <2> QED BY <2>1, <2>4, StillAwaited
<1> QED BY <1>1, <1>2, <1>3, <1>4

(* Nothing under way: what is left in the set was cancelled, one by one,   *)
(* and is what is observed.                                                *)
THEOREM LeftoversCorrect == Spec => []LeftoversWereCancelled
<1>1. Init => LeftoverInv
  BY DEF Init, LeftoverInv
<1>2. IInv /\ LeftoverInv /\ [Next]_vars => LeftoverInv'
  <2> SUFFICES ASSUME IInv, LeftoverInv, [Next]_vars PROVE LeftoverInv'
    OBVIOUS
  <2>1. CASE UNCHANGED vars
    BY <2>1 DEF vars, runnerVars, settings, flagVars, LeftoverInv, Awaited, Elems
  <2> QED BY <2>1, ThreadLeftovers, NotificationLeftovers, OwnerLeftovers, SetLeftovers
          DEF Next, OnOwner, OnSerialQueue, OnThread
<1>3. IInv /\ LeftoverInv => LeftoversWereCancelled
  BY DEF LeftoverInv, Awaited, LeftoversWereCancelled, Quiet, Elems, IInv, TypeOK
<1> QED BY <1>1, <1>2, <1>3, InvCorrect, PTL DEF Spec
=============================================================================
