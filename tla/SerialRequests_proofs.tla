------------------------ MODULE SerialRequests_proofs ------------------------
(***************************************************************************)
(* Proofs about SerialRequests, for any requests, clients, reads and       *)
(* bounds, whatever the delegate implements.                               *)
(***************************************************************************)
EXTENDS SerialRequests, SequenceTheorems, TLAPS

USE RequestsAssumption DEF Ids

-----------------------------------------------------------------------------
(* Settling calls keeps the record's type and length.                      *)
LEMMA SettleType ==
  ASSUME NEW f \in Seq(SUBSET Fates), NEW ids, NEW how \in Fates
  PROVE  /\ Settle(f, ids, how) \in Seq(SUBSET Fates)
         /\ Len(Settle(f, ids, how)) = Len(f)
  BY DEF Settle

(* What SendFrom leaves: well-typed variables, and nothing queued when     *)
(* nothing is pending.                                                     *)
LEMMA SendFromType ==
  ASSUME TypeOK, NEW q \in Seq(Ids), NEW timer \in Nat,
         NEW f \in Seq(SUBSET Fates), SendFrom(q, timer, f)
  PROVE  /\ requestsQueue' \in Seq(Ids)
         /\ wire' \in Seq(Ids)
         /\ pendingRequest' \in Nat
         /\ timeoutTimer' \in Nat
         /\ fate' \in Seq(SUBSET Fates)
         /\ Len(fate') = Len(f)
         /\ pendingRequest' = 0 => requestsQueue' = <<>>
<1>1. PICK n \in 0..Len(q), written \in BOOLEAN :
        /\ written => n < Len(q)
        /\ pendingRequest' = IF n = Len(q) THEN 0 ELSE q[n + 1]
        /\ requestsQueue' = SubSeq(q, n + 2, Len(q))
        /\ wire' = wire \o Prefix(q, IF written THEN n + 1 ELSE n)
        /\ fate' = Settle(f, IdsOf(Prefix(q, n)), "noReply")
        /\ ArmTimer(q, n + 1, timer)
  BY DEF SendFrom
<1>2. requestsQueue' \in Seq(Ids)
  <2>1. CASE n = Len(q)
    BY <1>1, <2>1, SubSeqEmpty, EmptySeq
  <2>2. CASE n < Len(q)
    BY <1>1, <2>2, SubSeqProperties
  <2> QED BY <2>1, <2>2
<1>3. wire' \in Seq(Ids)
  <2>1. Prefix(q, IF written THEN n + 1 ELSE n) \in Seq(Ids)
    BY <1>1, SubSeqProperties DEF Prefix
  <2> QED BY <1>1, <2>1, ConcatProperties DEF TypeOK
<1>4. pendingRequest' \in Nat
  BY <1>1
<1>5. timeoutTimer' \in Nat
  BY <1>1 DEF ArmTimer
<1>6. fate' \in Seq(SUBSET Fates) /\ Len(fate') = Len(f)
  BY <1>1, SettleType DEF Fates
<1>7. pendingRequest' = 0 => requestsQueue' = <<>>
  BY <1>1
<1> QED BY <1>2, <1>3, <1>4, <1>5, <1>6, <1>7

-----------------------------------------------------------------------------
(* The queue variables stay well-typed when calls are sent from q.         *)
LEMMA SendRequestType ==
  ASSUME TypeOK, NEW id \in Ids, ReallySendRequest(id)
  PROVE  /\ requestsQueue' \in Seq(Ids)
         /\ wire' \in Seq(Ids)
         /\ pendingRequest' \in Nat
         /\ timeoutTimer' \in Nat
         /\ fate' \in Seq(SUBSET Fates)
         /\ Len(fate') = Len(fate)
<1>1. CASE /\ pendingRequest = 0
           /\ SendFrom(<<id>> \o requestsQueue, timeoutTimer, fate)
  <2>1. <<id>> \o requestsQueue \in Seq(Ids)
    BY DEF TypeOK
  <2>2. timeoutTimer \in Nat /\ fate \in Seq(SUBSET Fates)
    BY DEF TypeOK
  <2> QED BY <1>1, <2>1, <2>2, SendFromType
<1>2. CASE /\ requestsQueue' = Append(requestsQueue, id)
           /\ UNCHANGED <<pendingRequest, timeoutTimer, wire, fate>>
  BY <1>2 DEF TypeOK
<1> QED BY <1>1, <1>2 DEF ReallySendRequest

(* TypeOK is an invariant: every reachable state is well-typed.            *)
THEOREM TypeCorrect == Spec => []TypeOK
<1>1. Init => TypeOK
  <2> SUFFICES ASSUME Init PROVE TypeOK
    OBVIOUS
  <2>1. <<>> \in Seq(Requests) /\ <<>> \in Seq(Ids) /\ <<>> \in Seq(Block)
    BY EmptySeq
  <2>2. <<>> \in Seq(MainBlock) /\ <<>> \in Seq(SUBSET Fates)
    BY EmptySeq
  <2>3. Len(sent) <= MaxSends /\ Len(fate) = Len(sent)
    BY EmptySeq DEF Init
  <2> QED BY <2>1, <2>2, <2>3 DEF Init, TypeOK
<1>2. TypeOK /\ [Next]_vars => TypeOK'
  <2> SUFFICES ASSUME TypeOK, [Next]_vars
               PROVE  TypeOK'
    OBVIOUS
  <2>1. ASSUME NEW c \in Clients, NEW r \in Requests, SendRequest(c, r)
        PROVE  TypeOK'
    <3>1. [op |-> "send", id |-> Len(sent) + 1, client |-> c] \in Block
      BY DEF TypeOK, Block
    <3>2. Append(fate, {}) \in Seq(SUBSET Fates)
      BY DEF TypeOK
    <3> QED BY <2>1, <3>1, <3>2 DEF SendRequest, TypeOK, portVars
  <2>2. ASSUME NEW c \in Clients, NEW r \in Requests, CancelQueuedRequest(c, r)
        PROVE  TypeOK'
    <3>1. [op |-> "cancel", request |-> r] \in Block
      BY DEF Block
    <3> QED BY <2>2, <3>1
            DEF CancelQueuedRequest, TypeOK, portVars, queueVars, threadVars
  <2>3. ASSUME NEW c \in Clients, CancelAllQueuedRequests(c)
        PROVE  TypeOK'
    <3>1. [op |-> "cancelAll"] \in Block
      BY DEF Block
    <3> QED BY <2>3, <3>1
            DEF CancelAllQueuedRequests, TypeOK, portVars, queueVars, threadVars
  <2>4. ASSUME NEW c \in Clients, Open(c)
        PROVE  TypeOK'
    BY <2>4 DEF Open, TypeOK, queueVars, threadVars
  <2>5. ASSUME NEW data \in Chunks, ReceiveData(data)
        PROVE  TypeOK'
    <3>1. [op |-> "receive", data |-> data, begun |-> FALSE] \in Block
      BY DEF Block
    <3> QED BY <2>5, <3>1 DEF ReceiveData, TypeOK, queueVars, threadVars
  <2>6. CASE ReallyClosePort
    <3>1. closeWaiting' \in Nat
      BY <2>6 DEF ReallyClosePort, TypeOK
    <3> QED BY <2>6, <3>1 DEF ReallyClosePort, TypeOK, queueVars, threadVars
  <2>7. CASE DispatchReset
    <3>1. [op |-> "reset"] \in Block
      BY DEF Block
    <3> QED BY <2>7, <3>1 DEF DispatchReset, TypeOK, queueVars, threadVars
  <2>8. CASE RunSend
    <3>1. /\ Head(handlingQueue).id \in Ids
          /\ Tail(handlingQueue) \in Seq(Block)
      <4>1. /\ Head(handlingQueue) \in Block
            /\ Head(handlingQueue).op = "send"
            /\ Tail(handlingQueue) \in Seq(Block)
        BY <2>8, HeadTailProperties DEF RunSend, HeadIs, TypeOK
      <4> QED BY <4>1 DEF Block
    <3>2. ReallySendRequest(Head(handlingQueue).id)
      BY <2>8 DEF RunSend
    <3> QED BY <2>8, <3>1, <3>2, SendRequestType
            DEF RunSend, TypeOK, portVars
  <2>9. CASE RunCancel
    <3>1. /\ requestsQueue' \in Seq(Ids)
          /\ fate' \in Seq(SUBSET Fates) /\ Len(fate') = Len(fate)
      <4>1. CASE UNCHANGED <<requestsQueue, fate>>
        BY <4>1 DEF TypeOK
      <4>2. ASSUME NEW i \in DOMAIN requestsQueue,
                   requestsQueue' = RemoveAt(requestsQueue, i),
                   fate' = Settle(fate, {requestsQueue[i]}, "cancelled")
            PROVE  /\ requestsQueue' \in Seq(Ids)
                   /\ fate' \in Seq(SUBSET Fates) /\ Len(fate') = Len(fate)
        <5>1. \A j \in 1..Len(requestsQueue) : requestsQueue[j] \in Ids
          BY ElementOfSeq DEF TypeOK
        <5>5. Len(requestsQueue) \in Nat /\ DOMAIN requestsQueue = 1..Len(requestsQueue)
          BY LenProperties DEF TypeOK
        <5>6. PICK k \in Int, l \in Int : k = i - 1 /\ l = i + 1
          BY <4>2, <5>5
        <5>7. SubSeq(requestsQueue, 1, k) \in Seq(Ids)
          <6>1. \A j \in 1..k : requestsQueue[j] \in Ids
            BY <4>2, <5>1, <5>5, <5>6
          <6> QED BY <6>1, SubSeqProperties
        <5>8. SubSeq(requestsQueue, l, Len(requestsQueue)) \in Seq(Ids)
          <6>1. Len(requestsQueue) \in Int /\ \A j \in l..Len(requestsQueue) : requestsQueue[j] \in Ids
            BY <4>2, <5>1, <5>5, <5>6
          <6> QED BY <6>1, SubSeqProperties
        <5>2. requestsQueue' \in Seq(Ids)
          BY <4>2, <5>6, <5>7, <5>8, ConcatProperties DEF RemoveAt
        <5>3. fate \in Seq(SUBSET Fates) /\ "cancelled" \in Fates
          BY DEF TypeOK, Fates
        <5>4. fate' \in Seq(SUBSET Fates) /\ Len(fate') = Len(fate)
          BY <4>2, <5>3, SettleType
        <5> QED BY <5>2, <5>4
      <4> QED BY <2>9, <4>1, <4>2 DEF RunCancel
    <3>3. Tail(handlingQueue) \in Seq(Block)
      BY <2>9 DEF RunCancel, HeadIs, TypeOK
    <3> QED BY <2>9, <3>1, <3>3
            DEF RunCancel, TypeOK, portVars, threadVars
  <2>10. CASE RunCancelAll
    <3>1. fate' \in Seq(SUBSET Fates) /\ Len(fate') = Len(fate)
      BY <2>10, SettleType DEF RunCancelAll, TypeOK, Fates
    <3>2. Tail(handlingQueue) \in Seq(Block)
      BY <2>10 DEF RunCancelAll, HeadIs, TypeOK
    <3> QED BY <2>10, <3>1, <3>2
            DEF RunCancelAll, TypeOK, portVars, threadVars
  <2>11. CASE RunReceive
    <3> DEFINE block == Head(handlingQueue)
               rest  == Tail(block.data)
    <3>1. /\ Tail(handlingQueue) \in Seq(Block)
          /\ block.data \in Seq(Bytes) \ {<<>>}
      <4>1. /\ block \in Block /\ block.op = "receive"
            /\ Tail(handlingQueue) \in Seq(Block)
        BY <2>11, HeadTailProperties DEF RunReceive, HeadIs, TypeOK
      <4> QED BY <4>1 DEF Block
    <3>2. rest \in Seq(Bytes)
      BY <3>1
    <3>3. rest # <<>> =>
            [op |-> "receive", data |-> rest, begun |-> TRUE] \in Block
      BY <3>2 DEF Block
    <3>4. handlingQueue' \in Seq(Block)
      BY <2>11, <3>1, <3>3 DEF RunReceive
    <3>5. CASE UNCHANGED <<queueVars, mainQueue>>
      BY <2>11, <3>4, <3>5 DEF RunReceive, TypeOK, portVars, queueVars
    <3>6. CASE Answer
      <4>1. Settle(fate, {pendingRequest}, "answered") \in Seq(SUBSET Fates)
            /\ Len(Settle(fate, {pendingRequest}, "answered")) = Len(fate)
        BY SettleType DEF TypeOK, Fates
      <4>2. mainQueue' \in Seq(MainBlock)
        BY <3>6 DEF Answer, Report, TypeOK, MainBlock
      <4>3. /\ requestsQueue' \in Seq(Ids) /\ wire' \in Seq(Ids)
            /\ pendingRequest' \in Nat /\ timeoutTimer' \in Nat
            /\ fate' \in Seq(SUBSET Fates) /\ Len(fate') = Len(fate)
        BY <3>6, <4>1, SendFromType DEF Answer, TypeOK
      <4> QED BY <2>11, <3>4, <4>2, <4>3 DEF RunReceive, TypeOK, portVars
    <3> QED BY <2>11, <3>5, <3>6 DEF RunReceive
  <2>12. CASE RunSendNext
    <3>1. Tail(handlingQueue) \in Seq(Block)
      BY <2>12 DEF RunSendNext, HeadIs, TypeOK
    <3>2. /\ requestsQueue' \in Seq(Ids) /\ wire' \in Seq(Ids)
          /\ pendingRequest' \in Nat /\ timeoutTimer' \in Nat
          /\ fate' \in Seq(SUBSET Fates) /\ Len(fate') = Len(fate)
      BY <2>12, SendFromType DEF RunSendNext, TypeOK
    <3> QED BY <2>12, <3>1, <3>2 DEF RunSendNext, TypeOK, portVars, threadVars
  <2>13. CASE RunReset
    <3>1. fate' \in Seq(SUBSET Fates) /\ Len(fate') = Len(fate)
      BY <2>13, SettleType DEF RunReset, TypeOK, Fates
    <3>2. Tail(handlingQueue) \in Seq(Block)
      BY <2>13 DEF RunReset, HeadIs, TypeOK
    <3> QED BY <2>13, <3>1, <3>2
            DEF RunReset, ForgetRequests, TypeOK, portVars, threadVars
  <2>14. CASE PendingRequestDidTimeout
    <3> DEFINE settled == Settle(fate, {pendingRequest}, "timedOut")
    <3>1. settled \in Seq(SUBSET Fates) /\ Len(settled) = Len(fate)
      BY SettleType DEF TypeOK, Fates
    <3> HIDE DEF settled
    <3>2. CASE SendFrom(requestsQueue, 0, settled) /\ UNCHANGED mainQueue
      <4>1. /\ requestsQueue' \in Seq(Ids) /\ wire' \in Seq(Ids)
            /\ pendingRequest' \in Nat /\ timeoutTimer' \in Nat
            /\ fate' \in Seq(SUBSET Fates) /\ Len(fate') = Len(fate)
        BY <3>1, <3>2, SendFromType DEF TypeOK
      <4> QED BY <2>14, <3>2, <4>1
              DEF PendingRequestDidTimeout, TypeOK, portVars
    <3>3. CASE /\ timeoutTimer' = 0 /\ fate' = settled /\ Report("timeout")
               /\ UNCHANGED <<requestsQueue, pendingRequest, wire>>
      <4>1. mainQueue' \in Seq(MainBlock)
        BY <3>3 DEF Report, TypeOK, MainBlock
      <4> QED BY <2>14, <3>1, <3>3, <4>1
              DEF PendingRequestDidTimeout, TypeOK, portVars
    <3> QED BY <2>14, <3>2, <3>3 DEF PendingRequestDidTimeout, settled
  <2>15. CASE MainRunsBlock
    BY <2>15 DEF MainRunsBlock, TypeOK, portVars, queueVars
  <2>16. CASE MainRunsWasClosed
    BY <2>16 DEF MainRunsWasClosed, TypeOK, queueVars, MainBlock
  <2>17. CASE MainReturns
    <3>1. [op |-> "sendNext"] \in Block
      BY DEF Block
    <3>2. handlingQueue' \in Seq(Block)
      BY <2>17, <3>1 DEF MainReturns, AfterCallback, TypeOK
    <3> QED BY <2>17, <3>2 DEF MainReturns, TypeOK, queueVars
  <2>18. CASE UNCHANGED vars
    BY <2>18 DEF vars, TypeOK, portVars, queueVars, threadVars
  <2>19. CASE ErrorReturns
    BY <2>19 DEF ErrorReturns, TypeOK, portVars, queueVars
  <2> QED BY <2>1, <2>2, <2>3, <2>4, <2>5, <2>6, <2>7, <2>8, <2>9, <2>10,
             <2>11, <2>12, <2>13, <2>14, <2>15, <2>16, <2>17, <2>18,
             <2>19
          DEF Next, Client, HandlingStep, MainStep
<1> QED BY <1>1, <1>2, PTL DEF Spec

-----------------------------------------------------------------------------
(* The length and the elements of a concatenation.                        *)
LEMMA ConcatType ==
  ASSUME NEW w \in Seq(Ids), NEW p \in Seq(Ids), NEW v, v = w \o p
  PROVE  v \in Seq(Ids) /\ Len(v) = Len(w) + Len(p)
  BY ConcatProperties

LEMMA ConcatAt ==
  ASSUME NEW w \in Seq(Ids), NEW p \in Seq(Ids), NEW v, v = w \o p,
         NEW i \in 1..(Len(w) + Len(p))
  PROVE  v[i] = IF i <= Len(w) THEN w[i] ELSE p[i - Len(w)]
  BY ConcatProperties

(* Appending a prefix of q, all of which lies after w, keeps w in order.   *)
LEMMA AppendPrefix ==
  ASSUME NEW w \in Seq(Ids), NEW q \in Seq(Ids), NEW m \in 0..Len(q), NEW v,
         v = w \o Prefix(q, m), Increasing(w), Increasing(q),
         \A i \in DOMAIN q : Below(w, q[i])
  PROVE  /\ Increasing(v)
         /\ \A j \in DOMAIN q : j > m => Below(v, q[j])
         /\ \A k \in Nat : Below(w, k) /\ Below(q, k) => Below(v, k)
<1>1. /\ Prefix(q, m) \in Seq(Ids) /\ Len(Prefix(q, m)) = m
      /\ \A i \in 1..m : Prefix(q, m)[i] = q[i]
  <2>1. \A i \in 1..m : q[i] \in Ids
    BY ElementOfSeq
  <2> QED BY <2>1, SubSeqProperties DEF Prefix
<1>2. /\ v \in Seq(Ids) /\ Len(v) = Len(w) + m
      /\ \A i \in 1..(Len(w) + m) :
           v[i] = IF i <= Len(w) THEN w[i] ELSE Prefix(q, m)[i - Len(w)]
  <2> DEFINE p == Prefix(q, m)
  <2>1. p \in Seq(Ids) /\ Len(p) = m /\ v = w \o p
    BY <1>1
  <2> HIDE DEF p
  <2>2. v \in Seq(Ids) /\ Len(v) = Len(w) + m
    BY <2>1, ConcatType
  <2>3. ASSUME NEW i \in 1..(Len(w) + m)
        PROVE  v[i] = IF i <= Len(w) THEN w[i] ELSE p[i - Len(w)]
    <3>1. i \in 1..(Len(w) + Len(p))
      BY <2>1
    <3> QED BY <2>1, <3>1, ConcatAt
  <2> QED BY <2>2, <2>3 DEF p
<1>3. /\ DOMAIN w = 1..Len(w) /\ Len(w) \in Nat
      /\ DOMAIN q = 1..Len(q) /\ Len(q) \in Nat
      /\ DOMAIN v = 1..(Len(w) + m)
      /\ \A i \in DOMAIN w : w[i] \in Nat
      /\ \A i \in DOMAIN q : q[i] \in Nat
  BY <1>2, LenProperties, ElementOfSeq
<1>4. \A i \in DOMAIN v :
        \/ i \in DOMAIN w /\ v[i] = w[i]
        \/ i > Len(w) /\ i - Len(w) \in 1..m /\ v[i] = q[i - Len(w)]
  BY <1>1, <1>2, <1>3
<1>5. Increasing(v)
  <2> SUFFICES ASSUME NEW i \in DOMAIN v, NEW j \in DOMAIN v, i < j
               PROVE  v[i] < v[j]
    BY DEF Increasing
  <2>1. CASE j \in DOMAIN w /\ v[j] = w[j]
    <3>1. i \in DOMAIN w /\ v[i] = w[i]
      BY <1>3, <1>4, <2>1
    <3> QED BY <2>1, <3>1 DEF Increasing
  <2>2. CASE j - Len(w) \in 1..m /\ v[j] = q[j - Len(w)]
    <3>1. j - Len(w) \in DOMAIN q
      BY <1>3, <2>2
    <3>2. CASE i \in DOMAIN w /\ v[i] = w[i]
      BY <2>2, <3>1, <3>2 DEF Below
    <3>3. CASE i - Len(w) \in 1..m /\ v[i] = q[i - Len(w)]
      <4>1. i - Len(w) \in DOMAIN q /\ i - Len(w) < j - Len(w)
        BY <1>3, <3>3
      <4> QED BY <2>2, <3>1, <3>3, <4>1 DEF Increasing
    <3> QED BY <1>4, <3>2, <3>3
  <2> QED BY <1>4, <2>1, <2>2
<1>6. ASSUME NEW j \in DOMAIN q, j > m
      PROVE  Below(v, q[j])
  <2> SUFFICES ASSUME NEW i \in DOMAIN v
               PROVE  v[i] < q[j]
    BY DEF Below
  <2>1. CASE i \in DOMAIN w /\ v[i] = w[i]
    BY <2>1 DEF Below
  <2>2. CASE i - Len(w) \in 1..m /\ v[i] = q[i - Len(w)]
    <3>1. i - Len(w) \in DOMAIN q /\ i - Len(w) < j
      BY <1>3, <1>6, <2>2
    <3> QED BY <2>2, <3>1 DEF Increasing
  <2> QED BY <1>4, <2>1, <2>2
<1>7. ASSUME NEW k \in Nat, Below(w, k), Below(q, k)
      PROVE  Below(v, k)
  <2> SUFFICES ASSUME NEW i \in DOMAIN v PROVE v[i] < k
    BY DEF Below
  <2>1. CASE i \in DOMAIN w /\ v[i] = w[i]
    BY <1>7, <2>1 DEF Below
  <2>2. CASE i - Len(w) \in 1..m /\ v[i] = q[i - Len(w)]
    <3>1. i - Len(w) \in DOMAIN q
      BY <1>3, <2>2
    <3> QED BY <1>7, <2>2, <3>1 DEF Below
  <2> QED BY <1>4, <2>1, <2>2
<1> QED BY <1>5, <1>6, <1>7

(* What is left of q after its first n elements are gone.                  *)
IsRest(r, q, n) == r = SubSeq(q, n + 1, Len(q))

LEMMA DropPrefix ==
  ASSUME NEW q \in Seq(Ids), NEW n \in Nat, Increasing(q), NEW r, IsRest(r, q, n)
  PROVE  /\ r \in Seq(Ids)
         /\ Increasing(r)
         /\ \A i \in DOMAIN r : n + i \in DOMAIN q /\ r[i] = q[n + i]
<1> PICK k \in Int : k = n + 1
  OBVIOUS
<1>0. r = SubSeq(q, k, Len(q))
  BY DEF IsRest
<1>1. /\ DOMAIN q = 1..Len(q) /\ Len(q) \in Nat
      /\ \A i \in 1..Len(q) : q[i] \in Ids
  BY LenProperties, ElementOfSeq
<1>2. CASE n >= Len(q)
  <2>1. r = <<>>
    BY <1>0, <1>1, <1>2, SubSeqEmpty
  <2>2. r \in Seq(Ids) /\ DOMAIN r = {}
    BY <2>1, EmptySeq
  <2> QED BY <2>2 DEF Increasing
<1>3. CASE n < Len(q)
  <2>1. \A i \in (n + 1)..Len(q) : q[i] \in Ids
    BY <1>1
  <2>2. /\ r \in Seq(Ids) /\ Len(r) = Len(q) - n
        /\ \A i \in 1..(Len(q) - n) : r[i] = q[n + i]
    <3>1. n + 1 \in Int /\ Len(q) \in Int /\ Len(q) - (n + 1) + 1 = Len(q) - n
      BY <1>1
    <3>2. /\ r \in Seq(Ids)
          /\ Len(r) = IF n + 1 <= Len(q) THEN Len(q) - (n + 1) + 1 ELSE 0
          /\ \A i \in 1..(Len(q) - (n + 1) + 1) : r[i] = q[(n + 1) + i - 1]
      <4>1. k \in Int /\ \A i \in k..Len(q) : q[i] \in Ids
        BY <2>1, <3>1
      <4>2. /\ r \in Seq(Ids)
            /\ Len(r) = IF k <= Len(q) THEN Len(q) - k + 1 ELSE 0
            /\ \A i \in 1..(Len(q) - k + 1) : r[i] = q[k + i - 1]
        BY <1>0, <3>1, <4>1, SubSeqProperties
      <4> QED BY <4>2
    <3>3. Len(r) = Len(q) - n
      <4>1. n + 1 <= Len(q)
        BY <1>1, <1>3
      <4>2. Len(r) = Len(q) - (n + 1) + 1
        BY <3>2, <4>1
      <4> QED BY <3>1, <4>2
    <3>4. ASSUME NEW i \in 1..(Len(q) - n)
          PROVE  r[i] = q[n + i]
      <4>1. i \in 1..(Len(q) - (n + 1) + 1) /\ (n + 1) + i - 1 = n + i
        BY <1>1
      <4> QED BY <3>2, <4>1
    <3> QED BY <3>2, <3>3, <3>4
  <2>3. DOMAIN r = 1..(Len(q) - n)
    BY <2>2, LenProperties
  <2>4. ASSUME NEW i \in DOMAIN r
        PROVE  n + i \in DOMAIN q /\ r[i] = q[n + i]
    <3>1. i \in 1..(Len(q) - n)
      BY <2>3
    <3>2. n + i \in 1..Len(q)
      BY <1>1, <3>1
    <3> QED BY <1>1, <2>2, <3>1, <3>2
  <2>5. Increasing(r)
    BY <1>1, <2>3, <2>4 DEF Increasing
  <2> QED BY <2>2, <2>4, <2>5
<1> QED BY <1>1, <1>2, <1>3

(* Sending from an increasing q that lies after everything written leaves  *)
(* wire and requestsQueue sorted, and adds nothing but elements of q.      *)
LEMMA SendFromOrder ==
  ASSUME TypeOK, NEW q \in Seq(Ids), NEW timer \in Nat,
         NEW f \in Seq(SUBSET Fates), SendFrom(q, timer, f),
         Increasing(wire), Increasing(q),
         \A i \in DOMAIN q : Below(wire, q[i])
  PROVE  /\ QueueSorted'
         /\ \A k \in Nat : Below(wire, k) /\ Below(q, k) => Ahead(k)'
<1>1. PICK n \in 0..Len(q), written \in BOOLEAN :
        /\ written => n < Len(q)
        /\ requestsQueue' = SubSeq(q, n + 2, Len(q))
        /\ wire' = wire \o Prefix(q, IF written THEN n + 1 ELSE n)
  BY DEF SendFrom
<1> DEFINE m == IF written THEN n + 1 ELSE n
<1>2. m \in 0..Len(q) /\ m < n + 2 /\ wire' = wire \o Prefix(q, m)
  BY <1>1
<1> HIDE DEF m
<1>3. /\ Increasing(wire')
      /\ \A j \in DOMAIN q : j > m => Below(wire', q[j])
      /\ \A k \in Nat : Below(wire, k) /\ Below(q, k) => Below(wire', k)
  BY <1>2, AppendPrefix DEF TypeOK
<1>4. /\ Increasing(requestsQueue')
      /\ \A i \in DOMAIN requestsQueue' :
           n + 1 + i \in DOMAIN q /\ requestsQueue'[i] = q[n + 1 + i]
      /\ \A i \in DOMAIN requestsQueue' : i \in Nat \ {0}
  <2>1. PICK l \in Nat : l = n + 1 /\ IsRest(requestsQueue', q, l)
    <3>1. n + 1 \in Nat /\ n + 2 = (n + 1) + 1
      BY <1>1
    <3> QED BY <1>1, <3>1 DEF IsRest
  <2>2. requestsQueue' \in Seq(Ids) /\ Increasing(requestsQueue')
    BY <2>1, DropPrefix
  <2>4. \A i \in DOMAIN requestsQueue' :
          n + 1 + i \in DOMAIN q /\ requestsQueue'[i] = q[n + 1 + i]
    <3>1. \A i \in DOMAIN requestsQueue' : l + i \in DOMAIN q /\ requestsQueue'[i] = q[l + i]
      BY <2>1, DropPrefix
    <3> QED BY <2>1, <3>1
  <2>3. \A i \in DOMAIN requestsQueue' : i \in Nat \ {0}
    BY <2>2, LenProperties
  <2> QED BY <2>2, <2>3, <2>4
<1>5. \A i \in DOMAIN requestsQueue' : Below(wire', requestsQueue'[i])
  <2> SUFFICES ASSUME NEW i \in DOMAIN requestsQueue'
               PROVE  Below(wire', requestsQueue'[i])
    OBVIOUS
  <2>1. i \in Nat \ {0} /\ n + 1 + i \in DOMAIN q /\ requestsQueue'[i] = q[n + 1 + i]
    BY <1>4
  <2>2. n + 1 + i > m
    BY <1>2, <2>1
  <2> QED BY <1>3, <2>1, <2>2
<1>6. \A k \in Nat : Below(wire, k) /\ Below(q, k) => Below(requestsQueue', k)
  BY <1>4 DEF Below
<1>7. \A k \in Nat : Below(wire, k) /\ Below(q, k) => Ahead(k)'
  BY <1>3, <1>6 DEF Ahead, Below
<1> QED BY <1>3, <1>4, <1>5, <1>7 DEF QueueSorted, Increasing, Below

-----------------------------------------------------------------------------
(* The send blocks of requestHandlingQueue hold positive call numbers.     *)
LEMMA SendBlockId ==
  ASSUME TypeOK, NEW k \in SendBlocks
  PROVE  handlingQueue[k].id \in Ids /\ k \in 1..Len(handlingQueue)
<1>1. /\ k \in 1..Len(handlingQueue)
      /\ handlingQueue[k] \in Block /\ handlingQueue[k].op = "send"
  BY LenProperties, ElementOfSeq DEF TypeOK, SendBlocks
<1> QED BY <1>1 DEF Block

(* Acceptance order survives any step whose send blocks are blocks of the  *)
(* old queue, moved by a fixed shift.                                      *)
LEMMA AcceptedKept ==
  ASSUME TypeOK, AcceptedInOrder, sent' = sent, NEW shift \in {0, 1},
         \A k \in SendBlocks' : /\ k \in Nat
                               /\ k + shift \in SendBlocks
                               /\ handlingQueue'[k] = handlingQueue[k + shift],
         \A k \in SendBlocks' : Ahead(handlingQueue[k].id)'
  PROVE  AcceptedInOrder'
<1>1. ASSUME NEW k \in SendBlocks'
      PROVE  handlingQueue'[k].id <= Len(sent')
  BY <1>1 DEF AcceptedInOrder
<1>2. ASSUME NEW k \in SendBlocks', NEW l \in SendBlocks', k < l
      PROVE  handlingQueue'[k].id < handlingQueue'[l].id
  <2>1. k + shift < l + shift
    BY <1>2
  <2> QED BY <2>1 DEF AcceptedInOrder
<1> QED BY <1>1, <1>2 DEF AcceptedInOrder

(* How the queue of blocks may change without accepting a new call.        *)
LEMMA QueueTail ==
  ASSUME TypeOK, handlingQueue # <<>>, handlingQueue' = Tail(handlingQueue)
  PROVE  \A k \in SendBlocks' : /\ k \in Nat \ {0}
                                /\ k + 1 \in SendBlocks
                                /\ handlingQueue'[k] = handlingQueue[k + 1]
<1>1. /\ Len(Tail(handlingQueue)) = Len(handlingQueue) - 1
      /\ Tail(handlingQueue) \in Seq(Block)
      /\ \A i \in 1..Len(Tail(handlingQueue)) :
           Tail(handlingQueue)[i] = handlingQueue[i + 1]
  BY HeadTailProperties DEF TypeOK
<1>2. /\ DOMAIN handlingQueue = 1..Len(handlingQueue)
      /\ Len(handlingQueue) \in Nat
      /\ DOMAIN handlingQueue' = 1..(Len(handlingQueue) - 1)
  BY <1>1, LenProperties DEF TypeOK
<1> QED BY <1>1, <1>2 DEF SendBlocks

(* A block appended that is no send block moves none of them.              *)
LEMMA QueueAppend ==
  ASSUME TypeOK, NEW b \in Block, b.op # "send",
         handlingQueue' = Append(handlingQueue, b)
  PROVE  \A k \in SendBlocks' : /\ k \in Nat
                                /\ k + 0 \in SendBlocks
                                /\ handlingQueue'[k] = handlingQueue[k + 0]
<1>1. /\ DOMAIN handlingQueue = 1..Len(handlingQueue)
      /\ Len(handlingQueue) \in Nat
      /\ DOMAIN handlingQueue' = 1..(Len(handlingQueue) + 1)
      /\ \A k \in 1..Len(handlingQueue) : handlingQueue'[k] = handlingQueue[k]
      /\ handlingQueue'[Len(handlingQueue) + 1] = b
  BY AppendProperties, LenProperties DEF TypeOK
<1> QED BY <1>1 DEF SendBlocks

(* An unchanged queue has the same send blocks.                            *)
LEMMA QueueSame ==
  ASSUME TypeOK, handlingQueue' = handlingQueue
  PROVE  \A k \in SendBlocks' : /\ k \in Nat
                                /\ k + 0 \in SendBlocks
                                /\ handlingQueue'[k] = handlingQueue[k + 0]
<1>1. DOMAIN handlingQueue = 1..Len(handlingQueue) /\ Len(handlingQueue) \in Nat
  BY LenProperties DEF TypeOK
<1> QED BY <1>1 DEF SendBlocks

(* A shorter receive block put back at the head moves no send block.       *)
LEMMA QueueRest ==
  ASSUME TypeOK, NEW b \in Block, b.op # "send", handlingQueue # <<>>,
         handlingQueue' = <<b>> \o Tail(handlingQueue)
  PROVE  \A k \in SendBlocks' : /\ k \in Nat
                                /\ k + 0 \in SendBlocks
                                /\ handlingQueue'[k] = handlingQueue[k + 0]
<1>1. /\ Len(Tail(handlingQueue)) = Len(handlingQueue) - 1
      /\ Tail(handlingQueue) \in Seq(Block)
      /\ \A i \in 1..Len(Tail(handlingQueue)) :
           Tail(handlingQueue)[i] = handlingQueue[i + 1]
      /\ Len(handlingQueue) \in Nat \ {0}
      /\ DOMAIN handlingQueue = 1..Len(handlingQueue)
  BY HeadTailProperties, EmptySeq, LenProperties DEF TypeOK
<1>2. <<b>> \in Seq(Block) /\ Len(<<b>>) = 1 /\ <<b>>[1] = b
  OBVIOUS
<1>3. /\ handlingQueue' \in Seq(Block)
      /\ Len(handlingQueue') = Len(handlingQueue)
      /\ \A i \in 1..Len(handlingQueue) : handlingQueue'[i] =
           IF i <= 1 THEN <<b>>[i] ELSE Tail(handlingQueue)[i - 1]
  BY <1>1, <1>2, ConcatProperties
<1>4. /\ DOMAIN handlingQueue' = 1..Len(handlingQueue)
      /\ handlingQueue'[1] = b
      /\ \A i \in 2..Len(handlingQueue) : handlingQueue'[i] = handlingQueue[i]
  <2>1. ASSUME NEW i \in 2..Len(handlingQueue)
        PROVE  handlingQueue'[i] = handlingQueue[i]
    <3>1. i - 1 \in 1..Len(Tail(handlingQueue)) /\ (i - 1) + 1 = i
      BY <1>1
    <3> QED BY <1>1, <1>3, <3>1
  <2> QED BY <1>1, <1>2, <1>3, <2>1, LenProperties
<1> QED BY <1>1, <1>4 DEF SendBlocks

-----------------------------------------------------------------------------
(* The order survives a step that accepts no call and adds to wire and to  *)
(* requestsQueue nothing that was not below every later call already.      *)
LEMMA OrderKept ==
  ASSUME TypeOK, OrderInv, sent' = sent, NEW shift \in {0, 1},
         \A k \in SendBlocks' : /\ k \in Nat
                               /\ k + shift \in SendBlocks
                               /\ handlingQueue'[k] = handlingQueue[k + shift],
         IdleMeansEmpty', QueueSorted',
         \A n \in Nat : Ahead(n) => Ahead(n)'
  PROVE  OrderInv'
<1>1. Ahead(Len(sent) + 1)'
  <2>1. Len(sent) + 1 \in Nat
    BY LenProperties DEF TypeOK
  <2> QED BY <2>1 DEF OrderInv, Ahead
<1>2. ASSUME NEW k \in SendBlocks'
      PROVE  Ahead(handlingQueue[k].id)'
  <2>1. /\ handlingQueue[k + shift].id \in Nat
        /\ Ahead(handlingQueue[k + shift].id)
        /\ handlingQueue'[k].id = handlingQueue[k + shift].id
    BY <1>2, SendBlockId DEF OrderInv, AcceptedInOrder
  <2> QED BY <2>1 DEF Ahead
<1>3. AcceptedInOrder'
  BY <1>2, AcceptedKept DEF OrderInv
<1> QED BY <1>1, <1>3 DEF OrderInv

(* A step that leaves the queue and the pending request alone.             *)
LEMMA OrderUndisturbed ==
  ASSUME TypeOK, OrderInv, NEW shift \in {0, 1},
         UNCHANGED <<sent, requestsQueue, pendingRequest, wire>>,
         \A k \in SendBlocks' : /\ k \in Nat
                               /\ k + shift \in SendBlocks
                               /\ handlingQueue'[k] = handlingQueue[k + shift]
  PROVE  OrderInv'
<1>1. IdleMeansEmpty' /\ QueueSorted'
  BY DEF OrderInv, IdleMeansEmpty, QueueSorted, Increasing, Below
<1>2. \A n \in Nat : Ahead(n) => Ahead(n)'
  BY DEF Ahead, Below
<1> QED BY <1>1, <1>2, OrderKept

(* A step that moves the queue on.                                         *)
LEMMA OrderSendNext ==
  ASSUME TypeOK, OrderInv, sent' = sent, NEW shift \in {0, 1},
         \A k \in SendBlocks' : /\ k \in Nat
                               /\ k + shift \in SendBlocks
                               /\ handlingQueue'[k] = handlingQueue[k + shift],
         NEW timer \in Nat, NEW f \in Seq(SUBSET Fates),
         SendFrom(requestsQueue, timer, f)
  PROVE  OrderInv'
<1>1. requestsQueue \in Seq(Ids)
  BY DEF TypeOK
<1>2. IdleMeansEmpty'
  BY <1>1, SendFromType DEF IdleMeansEmpty
<1>3. /\ QueueSorted'
      /\ \A n \in Nat : Below(wire, n) /\ Below(requestsQueue, n) => Ahead(n)'
  BY <1>1, SendFromOrder DEF OrderInv, QueueSorted
<1>4. \A n \in Nat : Ahead(n) => Ahead(n)'
  BY <1>3 DEF Ahead
<1> QED BY <1>2, <1>3, <1>4, OrderKept

(* A step that empties the queue.                                          *)
LEMMA OrderEmptied ==
  ASSUME TypeOK, OrderInv, UNCHANGED <<sent, wire>>, NEW shift \in {0, 1},
         \A k \in SendBlocks' : /\ k \in Nat
                               /\ k + shift \in SendBlocks
                               /\ handlingQueue'[k] = handlingQueue[k + shift],
         requestsQueue' = <<>>
  PROVE  OrderInv'
<1>1. DOMAIN requestsQueue' = {}
  BY EmptySeq
<1>2. IdleMeansEmpty' /\ QueueSorted'
  BY <1>1 DEF OrderInv, IdleMeansEmpty, QueueSorted, Increasing, Below
<1>3. \A n \in Nat : Ahead(n) => Ahead(n)'
  BY <1>1 DEF Ahead, Below
<1> QED BY <1>2, <1>3, OrderKept

-----------------------------------------------------------------------------
(* Removing an element keeps the others, in order.                         *)
LEMMA RemoveOrder ==
  ASSUME NEW q \in Seq(Ids), NEW i \in DOMAIN q, Increasing(q),
         NEW r, r = RemoveAt(q, i)
  PROVE  /\ Increasing(r)
         /\ \A j \in DOMAIN r : \E l \in DOMAIN q : r[j] = q[l]
<1>1. /\ DOMAIN q = 1..Len(q) /\ Len(q) \in Nat
      /\ \A j \in 1..Len(q) : q[j] \in Ids
  BY LenProperties, ElementOfSeq
<1> DEFINE a == SubSeq(q, 1, i - 1)
           b == SubSeq(q, i + 1, Len(q))
<1>2. /\ a \in Seq(Ids) /\ Len(a) = i - 1
      /\ \A j \in 1..(i - 1) : a[j] = q[j]
  <2>1. \A j \in 1..(i - 1) : q[j] \in Ids
    BY <1>1
  <2>2. i - 1 \in Int /\ 1 \in Int /\ (i - 1) - 1 + 1 = i - 1 /\ i - 1 \in Nat
    BY <1>1
  <2>3. /\ a \in Seq(Ids)
        /\ Len(a) = IF 1 <= i - 1 THEN (i - 1) - 1 + 1 ELSE 0
        /\ \A j \in 1..((i - 1) - 1 + 1) : a[j] = q[1 + j - 1]
    BY <2>1, <2>2, SubSeqProperties
  <2>4. Len(a) = i - 1
    BY <2>2, <2>3
  <2>5. ASSUME NEW j \in 1..(i - 1)
        PROVE  a[j] = q[j]
    <3>1. j \in 1..((i - 1) - 1 + 1) /\ 1 + j - 1 = j
      BY <2>2
    <3> QED BY <2>3, <3>1
  <2>6. a \in Seq(Ids)
    BY <2>3
  <2> HIDE DEF a
  <2> QED BY <2>4, <2>5, <2>6
<1>3. /\ b \in Seq(Ids)
      /\ \A j \in DOMAIN b : i + j \in DOMAIN q /\ b[j] = q[i + j]
  <2>1. i \in Nat /\ IsRest(b, q, i)
    BY <1>1 DEF IsRest
  <2> HIDE DEF b
  <2> QED BY <2>1, DropPrefix
<1>4. r = a \o b
  BY DEF RemoveAt
<1> HIDE DEF a, b
<1>5. /\ Len(a) \in Nat /\ Len(b) \in Nat
      /\ DOMAIN b = 1..Len(b)
      /\ DOMAIN r = 1..(Len(a) + Len(b))
      /\ \A j \in DOMAIN r :
           r[j] = IF j <= Len(a) THEN a[j] ELSE b[j - Len(a)]
  <2>1. Len(a) \in Nat /\ Len(b) \in Nat /\ DOMAIN b = 1..Len(b)
    BY <1>2, <1>3, LenProperties
  <2>2. r \in Seq(Ids) /\ Len(r) = Len(a) + Len(b)
    BY <1>2, <1>3, <1>4, ConcatType
  <2>3. DOMAIN r = 1..(Len(a) + Len(b))
    BY <2>2, LenProperties
  <2>4. ASSUME NEW j \in 1..(Len(a) + Len(b))
        PROVE  r[j] = IF j <= Len(a) THEN a[j] ELSE b[j - Len(a)]
    <3>1. a \in Seq(Ids) /\ b \in Seq(Ids) /\ r = a \o b
      BY <1>2, <1>3, <1>4
    <3> QED BY <3>1, ConcatAt
  <2> QED BY <2>1, <2>3, <2>4
<1>6. ASSUME NEW j \in DOMAIN r
      PROVE  \/ j < i /\ j \in DOMAIN q /\ r[j] = q[j]
             \/ j >= i /\ j + 1 \in DOMAIN q /\ r[j] = q[j + 1]
  <2>1. CASE j <= i - 1
    <3>1. j \in 1..(i - 1) /\ j \in 1..Len(q) /\ j < i
      BY <1>1, <1>2, <1>5, <2>1
    <3> QED BY <1>1, <1>2, <1>5, <2>1, <3>1
  <2>2. CASE j >= i
    <3>1. /\ j - (i - 1) \in 1..Len(b) /\ ~(j <= i - 1)
          /\ i + (j - (i - 1)) = j + 1
      BY <1>1, <1>2, <1>5, <2>2
    <3>2. r[j] = b[j - (i - 1)]
      BY <1>2, <1>5, <3>1
    <3>3. j + 1 \in DOMAIN q /\ b[j - (i - 1)] = q[j + 1]
      BY <1>3, <1>5, <3>1
    <3> QED BY <2>2, <3>2, <3>3
  <2> QED BY <1>1, <1>5, <2>1, <2>2
<1>7. Increasing(r)
  <2> SUFFICES ASSUME NEW j \in DOMAIN r, NEW l \in DOMAIN r, j < l
               PROVE  r[j] < r[l]
    BY DEF Increasing
  <2>1. PICK j1 \in DOMAIN q : r[j] = q[j1] /\ j1 = IF j < i THEN j ELSE j + 1
    BY <1>1, <1>5, <1>6
  <2>2. PICK l1 \in DOMAIN q : r[l] = q[l1] /\ l1 = IF l < i THEN l ELSE l + 1
    BY <1>1, <1>5, <1>6
  <2>3. j1 < l1
    BY <1>1, <1>5, <2>1, <2>2
  <2> QED BY <2>1, <2>2, <2>3 DEF Increasing
<1> QED BY <1>6, <1>7

(* A call that is accepted is sent, or waits behind the others.            *)
LEMMA OrderSend ==
  ASSUME TypeOK, OrderInv, sent' = sent, HeadIs("send"),
         handlingQueue' = Tail(handlingQueue),
         ReallySendRequest(Head(handlingQueue).id)
  PROVE  OrderInv'
<1> DEFINE id == Head(handlingQueue).id
<1>1. /\ 1 \in SendBlocks /\ id = handlingQueue[1].id
      /\ \A k \in SendBlocks' : /\ k \in Nat \ {0}
                               /\ k + 1 \in SendBlocks
                               /\ handlingQueue'[k] = handlingQueue[k + 1]
  <2>1. 1 \in DOMAIN handlingQueue /\ Head(handlingQueue) = handlingQueue[1]
    BY HeadTailProperties, LenProperties, EmptySeq DEF TypeOK, HeadIs
  <2>2. 1 \in SendBlocks
    BY <2>1 DEF HeadIs, SendBlocks
  <2> QED BY <2>1, <2>2, QueueTail DEF HeadIs
<1>2. /\ id \in Ids /\ id <= Len(sent) /\ Ahead(id) /\ Len(sent) \in Nat
      /\ \A k \in SendBlocks' : /\ handlingQueue[k + 1].id \in Nat
                               /\ id < handlingQueue[k + 1].id
                               /\ Ahead(handlingQueue[k + 1].id)
  <2>1. /\ id \in Ids /\ id <= Len(sent) /\ Ahead(id)
    BY <1>1, SendBlockId DEF OrderInv, AcceptedInOrder
  <2>2. ASSUME NEW k \in SendBlocks'
        PROVE  /\ handlingQueue[k + 1].id \in Nat
               /\ id < handlingQueue[k + 1].id
               /\ Ahead(handlingQueue[k + 1].id)
    <3>1. k + 1 \in SendBlocks /\ 1 < k + 1
      BY <1>1
    <3>2. id < handlingQueue[k + 1].id /\ Ahead(handlingQueue[k + 1].id)
      BY <1>1, <3>1 DEF OrderInv, AcceptedInOrder
    <3> QED BY <3>1, <3>2, SendBlockId
  <2> QED BY <2>1, <2>2, LenProperties DEF TypeOK
<1> HIDE DEF id
<1>3. /\ requestsQueue \in Seq(Ids) /\ wire \in Seq(Ids)
      /\ timeoutTimer \in Nat /\ fate \in Seq(SUBSET Fates)
  BY DEF TypeOK
<1>4. /\ IdleMeansEmpty'
      /\ QueueSorted'
      /\ \A n \in Nat : id < n /\ Ahead(n) => Ahead(n)'
  <2>1. CASE /\ pendingRequest = 0
             /\ SendFrom(<<id>> \o requestsQueue, timeoutTimer, fate)
    <3>1. /\ <<id>> \o requestsQueue = <<id>>
          /\ <<id>> \in Seq(Ids) /\ DOMAIN <<id>> = {1} /\ <<id>>[1] = id
      BY <1>2, <2>1 DEF OrderInv, IdleMeansEmpty
    <3>2. Increasing(<<id>>) /\ \A i \in DOMAIN <<id>> : Below(wire, <<id>>[i])
      BY <1>2, <3>1 DEF Increasing, Ahead
    <3>3. SendFrom(<<id>>, timeoutTimer, fate)
      BY <2>1, <3>1
    <3>4. IdleMeansEmpty'
      BY <1>3, <3>1, <3>3, SendFromType DEF IdleMeansEmpty
    <3>5. /\ QueueSorted'
          /\ \A n \in Nat : Below(wire, n) /\ Below(<<id>>, n) => Ahead(n)'
      BY <1>3, <3>1, <3>2, <3>3, SendFromOrder DEF OrderInv, QueueSorted
    <3>6. \A n \in Nat : id < n => Below(<<id>>, n)
      BY <3>1 DEF Below
    <3> QED BY <3>4, <3>5, <3>6 DEF Ahead
  <2>2. CASE /\ pendingRequest # 0
             /\ requestsQueue' = Append(requestsQueue, id)
             /\ UNCHANGED <<pendingRequest, timeoutTimer, wire, fate>>
    <3>1. IdleMeansEmpty'
      BY <2>2 DEF IdleMeansEmpty
    <3>2. /\ DOMAIN requestsQueue = 1..Len(requestsQueue)
          /\ Len(requestsQueue) \in Nat
          /\ DOMAIN requestsQueue' = 1..(Len(requestsQueue) + 1)
          /\ \A i \in 1..Len(requestsQueue) :
               requestsQueue'[i] = requestsQueue[i]
          /\ requestsQueue'[Len(requestsQueue) + 1] = id
      BY <1>2, <1>3, <2>2, AppendProperties, LenProperties
    <3>3. Below(requestsQueue, id) /\ Below(wire, id)
      BY <1>2 DEF Ahead
    <3>4. Increasing(requestsQueue')
      BY <3>2, <3>3 DEF OrderInv, QueueSorted, Increasing, Below
    <3>5. \A i \in DOMAIN requestsQueue' : Below(wire, requestsQueue'[i])
      BY <3>2, <3>3 DEF OrderInv, QueueSorted
    <3>6. QueueSorted'
      BY <2>2, <3>4, <3>5 DEF OrderInv, QueueSorted, Increasing, Below
    <3>7. \A n \in Nat : id < n /\ Ahead(n) => Ahead(n)'
      BY <2>2, <3>2 DEF Ahead, Below
    <3> QED BY <3>1, <3>6, <3>7
  <2> QED BY <2>1, <2>2 DEF ReallySendRequest, id
<1>5. Ahead(Len(sent) + 1)'
  <2>1. Len(sent) + 1 \in Nat /\ id < Len(sent) + 1
    BY <1>2
  <2>2. Ahead(Len(sent) + 1)
    BY DEF OrderInv
  <2> QED BY <1>4, <2>1, <2>2 DEF Ahead
<1>6. ASSUME NEW k \in SendBlocks'
      PROVE  Ahead(handlingQueue[k].id)'
  BY <1>1, <1>2, <1>4 DEF Ahead
<1>7. AcceptedInOrder'
  BY <1>1, <1>6, AcceptedKept DEF OrderInv
<1> QED BY <1>4, <1>5, <1>7 DEF OrderInv

(* A call that is made gets the next number and waits behind the others.   *)
LEMMA OrderCall ==
  ASSUME TypeOK, OrderInv, NEW c \in Clients, NEW r \in Requests,
         SendRequest(c, r)
  PROVE  OrderInv'
<1>0. PICK n \in Nat : n = Len(sent)
  BY LenProperties DEF TypeOK
<1> DEFINE b == [op |-> "send", id |-> n + 1, client |-> c]
<1>1. /\ Len(sent') = n + 1
      /\ handlingQueue' = Append(handlingQueue, b) /\ b \in Block
  <2>1. sent' = Append(sent, r) /\ handlingQueue' = Append(handlingQueue, b)
    BY <1>0 DEF SendRequest
  <2>2. Len(sent') = n + 1
    BY <1>0, <2>1, AppendProperties DEF TypeOK
  <2>3. b \in Block
    BY DEF Block
  <2> QED BY <2>1, <2>2, <2>3
<1>2. UNCHANGED <<requestsQueue, pendingRequest, wire>>
  BY DEF SendRequest
<1>3. IdleMeansEmpty' /\ QueueSorted'
  BY <1>2 DEF OrderInv, IdleMeansEmpty, QueueSorted, Increasing, Below
<1>4. /\ DOMAIN handlingQueue = 1..Len(handlingQueue)
      /\ Len(handlingQueue) \in Nat
      /\ DOMAIN handlingQueue' = 1..(Len(handlingQueue) + 1)
      /\ \A k \in 1..Len(handlingQueue) : handlingQueue'[k] = handlingQueue[k]
      /\ handlingQueue'[Len(handlingQueue) + 1] = b
  BY <1>1, AppendProperties, LenProperties DEF TypeOK
<1>5. ASSUME NEW k \in SendBlocks'
      PROVE  \/ k \in SendBlocks /\ handlingQueue'[k] = handlingQueue[k]
             \/ k = Len(handlingQueue) + 1 /\ handlingQueue'[k].id = n + 1
  <2>1. b.id = n + 1
    OBVIOUS
  <2> HIDE DEF b
  <2> QED BY <1>4, <2>1 DEF SendBlocks
<1> HIDE DEF b
<1>6. Ahead(n + 1)
  BY <1>0 DEF OrderInv
<1>7. \A i \in Nat : Ahead(i) => Ahead(i)'
  BY <1>2 DEF Ahead, Below
<1>8. \A s \in Seq(Ids) : Below(s, n + 1) => Below(s, n + 2)
  BY <1>1, ElementOfSeq, LenProperties DEF Below
<1>9. Ahead(Len(sent) + 1)'
  <2>1. Ahead(n + 2)
    BY <1>6, <1>8 DEF Ahead, TypeOK
  <2>2. n + 2 \in Nat /\ Len(sent') + 1 = n + 2
    BY <1>1
  <2> QED BY <1>7, <2>1, <2>2 DEF Ahead
<1>10. ASSUME NEW k \in SendBlocks'
       PROVE  /\ handlingQueue'[k].id <= Len(sent')
              /\ Ahead(handlingQueue[k].id)'
  <2>1. CASE k \in SendBlocks /\ handlingQueue'[k] = handlingQueue[k]
    <3>1. /\ handlingQueue[k].id \in Nat /\ handlingQueue[k].id <= n
          /\ Ahead(handlingQueue[k].id)
      BY <1>0, <2>1, SendBlockId DEF OrderInv, AcceptedInOrder
    <3>2. handlingQueue'[k].id <= Len(sent')
      BY <1>1, <2>1, <3>1
    <3>3. Ahead(handlingQueue[k].id)'
      BY <1>7, <2>1, <3>1 DEF Ahead
    <3> QED BY <3>2, <3>3
  <2>2. CASE handlingQueue'[k].id = n + 1
    <3>1. Ahead(n + 1)'
      BY <1>6, <1>7
    <3>2. Ahead(handlingQueue[k].id)'
      BY <2>2, <3>1 DEF Ahead
    <3> QED BY <1>1, <2>2, <3>2
  <2> QED BY <1>5, <2>1, <2>2
<1>11. ASSUME NEW k \in SendBlocks', NEW l \in SendBlocks', k < l
       PROVE  handlingQueue'[k].id < handlingQueue'[l].id
  <2>1. k \in 1..(Len(handlingQueue) + 1) /\ l \in 1..(Len(handlingQueue) + 1)
    BY <1>4 DEF SendBlocks
  <2>2. k \in SendBlocks /\ handlingQueue'[k] = handlingQueue[k]
    BY <1>4, <1>5, <1>11, <2>1
  <2>3. handlingQueue[k].id \in Nat /\ handlingQueue[k].id <= n
    BY <1>0, <2>2, SendBlockId DEF OrderInv, AcceptedInOrder
  <2>4. CASE l \in SendBlocks /\ handlingQueue'[l] = handlingQueue[l]
    BY <1>11, <2>2, <2>4 DEF OrderInv, AcceptedInOrder
  <2>5. CASE handlingQueue'[l].id = n + 1
    BY <1>1, <2>2, <2>3, <2>5
  <2> QED BY <1>5, <2>4, <2>5
<1>12. AcceptedInOrder'
  BY <1>10, <1>11 DEF AcceptedInOrder
<1> QED BY <1>3, <1>9, <1>12 DEF OrderInv

(* A cancelled call leaves the ones before and behind it in order.         *)
LEMMA OrderCancel ==
  ASSUME TypeOK, OrderInv, RunCancel
  PROVE  OrderInv'
<1>1. \A k \in SendBlocks' : /\ k \in Nat
                            /\ k + 1 \in SendBlocks
                            /\ handlingQueue'[k] = handlingQueue[k + 1]
  BY QueueTail DEF RunCancel, HeadIs
<1>2. UNCHANGED <<sent, pendingRequest, wire>>
  BY DEF RunCancel
<1>3. CASE UNCHANGED requestsQueue
  BY <1>1, <1>2, <1>3, OrderUndisturbed
<1>4. ASSUME NEW i \in DOMAIN requestsQueue,
             requestsQueue' = RemoveAt(requestsQueue, i)
      PROVE  OrderInv'
  <2>1. /\ Increasing(requestsQueue')
        /\ \A j \in DOMAIN requestsQueue' :
             \E l \in DOMAIN requestsQueue : requestsQueue'[j] = requestsQueue[l]
    BY <1>4, RemoveOrder DEF OrderInv, QueueSorted, TypeOK
  <2>2. QueueSorted'
    BY <1>2, <2>1 DEF OrderInv, QueueSorted, Increasing, Below
  <2>3. \A n \in Nat : Ahead(n) => Ahead(n)'
    BY <1>2, <2>1 DEF Ahead, Below
  <2>4. requestsQueue # <<>>
    BY EmptySeq
  <2>5. IdleMeansEmpty'
    BY <1>2, <2>4 DEF OrderInv, IdleMeansEmpty
  <2> QED BY <1>1, <1>2, <2>2, <2>3, <2>5, OrderKept
<1> QED BY <1>3, <1>4 DEF RunCancel

(* Every step keeps the inductive invariant.                               *)
LEMMA OrderStep ==
  ASSUME TypeOK, OrderInv, [Next]_vars
  PROVE  OrderInv'
<1> DEFINE Kept(shift) ==
      \A k \in SendBlocks' : /\ k \in Nat
                            /\ k + shift \in SendBlocks
                            /\ handlingQueue'[k] = handlingQueue[k + shift]
<1>a. handlingQueue # <<>> /\ handlingQueue' = Tail(handlingQueue) => Kept(1)
  BY QueueTail
<1>b. handlingQueue' = handlingQueue => Kept(0)
  BY QueueSame
<1>c. ASSUME NEW b \in Block, b.op # "send",
             handlingQueue' = Append(handlingQueue, b)
      PROVE  Kept(0)
  BY <1>c, QueueAppend
<1>d. ASSUME NEW shift \in {0, 1}, Kept(shift),
             UNCHANGED <<sent, requestsQueue, pendingRequest, wire>>
      PROVE  OrderInv'
  BY <1>d, OrderUndisturbed
<1>e. ASSUME NEW shift \in {0, 1}, Kept(shift), sent' = sent,
             NEW timer \in Nat, NEW f \in Seq(SUBSET Fates),
             SendFrom(requestsQueue, timer, f)
      PROVE  OrderInv'
  BY <1>e, OrderSendNext
<1>f. ASSUME NEW shift \in {0, 1}, Kept(shift), UNCHANGED <<sent, wire>>,
             requestsQueue' = <<>>
      PROVE  OrderInv'
  BY <1>f, OrderEmptied
<1> HIDE DEF Kept
<1>1. ASSUME NEW c \in Clients, NEW r \in Requests, SendRequest(c, r)
      PROVE  OrderInv'
  BY <1>1, OrderCall
<1>2. ASSUME NEW c \in Clients, NEW r \in Requests, CancelQueuedRequest(c, r)
      PROVE  OrderInv'
  <2> DEFINE b == [op |-> "cancel", request |-> r]
  <2>1. b \in Block /\ b.op # "send"
    BY DEF Block
  <2>2. Kept(0)
    BY <1>2, <1>c, <2>1 DEF CancelQueuedRequest
  <2> QED BY <1>2, <1>d, <2>2 DEF CancelQueuedRequest, queueVars
<1>3. ASSUME NEW c \in Clients, CancelAllQueuedRequests(c)
      PROVE  OrderInv'
  <2> DEFINE b == [op |-> "cancelAll"]
  <2>1. b \in Block /\ b.op # "send"
    BY DEF Block
  <2>2. Kept(0)
    BY <1>3, <1>c, <2>1 DEF CancelAllQueuedRequests
  <2> QED BY <1>3, <1>d, <2>2 DEF CancelAllQueuedRequests, queueVars
<1>4. ASSUME NEW c \in Clients, Open(c)
      PROVE  OrderInv'
  BY <1>4, <1>b, <1>d DEF Open, queueVars
<1>5. ASSUME NEW data \in Chunks, ReceiveData(data)
      PROVE  OrderInv'
  <2> DEFINE b == [op |-> "receive", data |-> data, begun |-> FALSE]
  <2>1. b \in Block /\ b.op # "send"
    BY DEF Block
  <2>2. Kept(0)
    BY <1>5, <1>c, <2>1 DEF ReceiveData
  <2> QED BY <1>5, <1>d, <2>2 DEF ReceiveData, queueVars
<1>6. CASE ReallyClosePort
  BY <1>6, <1>b, <1>d DEF ReallyClosePort, queueVars
<1>7. CASE DispatchReset
  <2> DEFINE b == [op |-> "reset"]
  <2>1. b \in Block /\ b.op # "send"
    BY DEF Block
  <2>2. Kept(0)
    BY <1>7, <1>c, <2>1 DEF DispatchReset
  <2> QED BY <1>7, <1>d, <2>2 DEF DispatchReset, queueVars
<1>8. CASE RunSend
  BY <1>8, OrderSend DEF RunSend
<1>9. CASE RunCancel
  BY <1>9, OrderCancel
<1>10. CASE RunCancelAll
  BY <1>10, <1>a, <1>f DEF RunCancelAll, HeadIs
<1>11. CASE RunReceive
  <2>1. \E shift \in {0, 1} : Kept(shift)
    <3> DEFINE data == Head(handlingQueue).data
               b == [op |-> "receive", data |-> Tail(data), begun |-> TRUE]
    <3>1. CASE handlingQueue' = Tail(handlingQueue)
      BY <1>11, <1>a, <3>1 DEF RunReceive, HeadIs
    <3>2. CASE /\ Tail(data) # <<>>
               /\ handlingQueue' = <<b>> \o Tail(handlingQueue)
      <4>1. /\ Head(handlingQueue) \in Block
            /\ Head(handlingQueue).op = "receive"
        BY <1>11, HeadTailProperties DEF RunReceive, HeadIs, TypeOK
      <4>2. data \in Seq(Bytes) \ {<<>>}
        BY <4>1 DEF Block
      <4>3. Tail(data) \in Seq(Bytes) \ {<<>>}
        BY <3>2, <4>2
      <4>4. b \in Block /\ b.op # "send"
        BY <4>3 DEF Block
      <4>5. handlingQueue # <<>>
        BY <1>11 DEF RunReceive, HeadIs
      <4>6. handlingQueue' = <<b>> \o Tail(handlingQueue)
        BY <3>2
      <4> HIDE DEF b
      <4>7. Kept(0)
        BY <4>4, <4>5, <4>6, QueueRest DEF Kept
      <4> QED BY <4>7
    <3> QED BY <1>11, <3>1, <3>2 DEF RunReceive
  <2>2. CASE UNCHANGED <<queueVars, mainQueue>>
    BY <1>11, <1>d, <2>1, <2>2 DEF RunReceive, queueVars
  <2>3. CASE Answer
    <3>1. Settle(fate, {pendingRequest}, "answered") \in Seq(SUBSET Fates)
      BY SettleType DEF TypeOK, Fates
    <3> QED BY <1>11, <1>e, <2>1, <2>3, <3>1 DEF RunReceive, Answer
  <2> QED BY <1>11, <2>2, <2>3 DEF RunReceive
<1>12. CASE RunSendNext
  BY <1>12, <1>a, <1>e DEF RunSendNext, HeadIs, TypeOK
<1>13. CASE RunReset
  BY <1>13, <1>a, <1>f DEF RunReset, ForgetRequests, HeadIs
<1>14. CASE PendingRequestDidTimeout
  <2>1. Settle(fate, {pendingRequest}, "timedOut") \in Seq(SUBSET Fates)
    BY SettleType DEF TypeOK, Fates
  <2>2. Kept(0) /\ sent' = sent
    BY <1>14, <1>b DEF PendingRequestDidTimeout
  <2>3. CASE UNCHANGED <<requestsQueue, pendingRequest, wire>>
    BY <1>d, <2>2, <2>3
  <2>4. CASE SendFrom(requestsQueue, 0,
                      Settle(fate, {pendingRequest}, "timedOut"))
    BY <1>e, <2>1, <2>2, <2>4
  <2> QED BY <1>14, <2>3, <2>4 DEF PendingRequestDidTimeout
<1>15. CASE MainRunsBlock
  BY <1>15, <1>b, <1>d DEF MainRunsBlock, queueVars
<1>16. CASE MainRunsWasClosed
  BY <1>16, <1>b, <1>d DEF MainRunsWasClosed, queueVars
<1>17. CASE MainReturns
  <2> DEFINE b == [op |-> "sendNext"]
  <2>1. b \in Block /\ b.op # "send"
    BY DEF Block
  <2>2. Kept(0)
    BY <1>17, <1>b, <1>c, <2>1 DEF MainReturns, AfterCallback
  <2> QED BY <1>17, <1>d, <2>2 DEF MainReturns, queueVars
<1>18. CASE UNCHANGED vars
  BY <1>18, <1>b, <1>d DEF vars, queueVars
<1>19. CASE ErrorReturns
  BY <1>19, <1>b, <1>d DEF ErrorReturns, queueVars
<1> QED BY <1>1, <1>2, <1>3, <1>4, <1>5, <1>6, <1>7, <1>8, <1>9, <1>10,
           <1>11, <1>12, <1>13, <1>14, <1>15, <1>16, <1>17, <1>18, <1>19
        DEF Next, Client, HandlingStep, MainStep

(* OrderInv is an invariant: whatever was written, is queued, or is still  *)
(* being accepted is in call order, and nothing is queued when idle.       *)
THEOREM OrderCorrect == Spec => []OrderInv
<1>1. Init => OrderInv
  <2> SUFFICES ASSUME Init PROVE OrderInv
    OBVIOUS
  <2>1. DOMAIN wire = {} /\ DOMAIN requestsQueue = {} /\ SendBlocks = {}
    BY EmptySeq DEF Init, SendBlocks
  <2> QED BY <2>1 DEF Init, OrderInv, IdleMeansEmpty, QueueSorted, Increasing,
                      Below, Ahead, AcceptedInOrder
<1>2. TypeOK /\ OrderInv /\ [Next]_vars => OrderInv'
  BY OrderStep
<1> QED BY <1>1, <1>2, TypeCorrect, PTL DEF Spec

(* The data of the calls reaches the device in the order of the calls,     *)
(* across threads, timeouts, cancellations, closes and reopenings.         *)
THEOREM FIFO == Spec => []WireInOrder
<1>1. OrderInv => WireInOrder
  BY DEF OrderInv, QueueSorted, WireInOrder
<1> QED BY <1>1, OrderCorrect, PTL

(* No request is ever left in the queue with nothing pending to move it.   *)
THEOREM NothingStranded == Spec => []IdleMeansEmpty
<1>1. OrderInv => IdleMeansEmpty
  BY DEF OrderInv
<1> QED BY <1>1, OrderCorrect, PTL
=============================================================================
