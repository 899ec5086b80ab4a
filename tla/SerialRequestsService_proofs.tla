-------------------- MODULE SerialRequestsService_proofs --------------------
(***************************************************************************)
(* Proofs about what becomes of the calls of sendRequest: in               *)
(* SerialRequests.  While the delegate does not implement                  *)
(* serialPort:requestDidTimeout:, every call is accounted for and the      *)
(* queue is the service that ORSSerialPort.h promises; while it implements *)
(* serialPortWasClosed:, a closed port forgets what it has sent.           *)
(***************************************************************************)
EXTENDS SerialRequests_proofs

USE RequestsAssumption DEF Ids

-----------------------------------------------------------------------------
(* Without the callback a timed out request is settled and left in one     *)
(* step: nothing is on its way to the main queue and back.                 *)
NoTimeoutCallback ==
  /\ \A k \in DOMAIN handlingQueue : handlingQueue[k].op # "sendNext"
  /\ \A k \in DOMAIN mainQueue : mainQueue[k].op # "timeout"
  /\ mainRunning.op # "timeout"

(* The calls whose turn has not come.                                      *)
Waiting == Accepting \cup IdsOf(requestsQueue)

PendingApart ==
  /\ pendingRequest \notin Waiting
  /\ pendingRequest # 0 => pendingRequest \in DOMAIN sent

(* A call is settled once, exactly when it neither waits nor is pending.   *)
SettledOnce ==
  \A i \in DOMAIN sent :
    IF i \in Waiting \cup {pendingRequest} THEN fate[i] = {}
    ELSE \E how \in Fates : fate[i] = {how}

(* The timer was armed for a call that was made.                           *)
TimerWasArmed == timeoutTimer # 0 => timeoutTimer \in DOMAIN sent

CallsInv == PendingApart /\ SettledOnce

-----------------------------------------------------------------------------
(* What any step but a new call does to the calls: waiting ones become     *)
(* pending or are settled, in order and only when nothing stays pending;   *)
(* the pending one is settled when another takes its place.                *)
Begins(j) == j = pendingRequest' \/ "noReply" \in fate'[j]

CallsMove ==
  /\ sent' = sent
  /\ Waiting' \subseteq Waiting
  /\ pendingRequest' \in {0, pendingRequest} \cup Waiting
  /\ pendingRequest' \notin Waiting'
  /\ \A i \in DOMAIN sent :
       \/ /\ i \in Waiting' \cup {pendingRequest'}
             \/ i \notin Waiting \cup {pendingRequest}
          /\ fate'[i] = fate[i]
       \/ /\ i \in Waiting /\ i \notin Waiting' \cup {pendingRequest'}
          /\ \E how \in {"noReply", "cancelled", "discarded"} :
               fate'[i] = fate[i] \cup {how}
       \/ /\ i = pendingRequest /\ i # pendingRequest'
          /\ \E how \in {"answered", "timedOut", "discarded"} :
               fate'[i] = fate[i] \cup {how}
  /\ \A j \in Waiting :
       Begins(j) => /\ \A i \in Waiting' : j < i
                    /\ pendingRequest = 0 \/ pendingRequest' # pendingRequest

-----------------------------------------------------------------------------
(* The elements of two sequences in a row.                                 *)
LEMMA IdsOfConcat ==
  ASSUME NEW a \in Seq(Ids), NEW b \in Seq(Ids)
  PROVE  IdsOf(a \o b) = IdsOf(a) \cup IdsOf(b)
<1>1. /\ DOMAIN a = 1..Len(a) /\ Len(a) \in Nat
      /\ DOMAIN b = 1..Len(b) /\ Len(b) \in Nat
  BY LenProperties
<1>2. /\ DOMAIN (a \o b) = 1..(Len(a) + Len(b))
      /\ \A i \in 1..(Len(a) + Len(b)) :
           (a \o b)[i] = IF i <= Len(a) THEN a[i] ELSE b[i - Len(a)]
  BY <1>1, ConcatProperties, LenProperties
<1>3. ASSUME NEW x \in IdsOf(a \o b)
      PROVE  x \in IdsOf(a) \cup IdsOf(b)
  <2>1. PICK i \in 1..(Len(a) + Len(b)) :
          x = IF i <= Len(a) THEN a[i] ELSE b[i - Len(a)]
    BY <1>2, <1>3 DEF IdsOf
  <2>2. i <= Len(a) => i \in DOMAIN a
    BY <1>1
  <2>3. ~(i <= Len(a)) => i - Len(a) \in DOMAIN b
    BY <1>1
  <2> QED BY <2>1, <2>2, <2>3 DEF IdsOf
<1>4. ASSUME NEW i \in DOMAIN a
      PROVE  a[i] \in IdsOf(a \o b)
  <2>1. i \in 1..(Len(a) + Len(b)) /\ i <= Len(a)
    BY <1>1, <1>4
  <2> QED BY <1>2, <2>1 DEF IdsOf
<1>5. ASSUME NEW i \in DOMAIN b
      PROVE  b[i] \in IdsOf(a \o b)
  <2>1. /\ i + Len(a) \in 1..(Len(a) + Len(b)) /\ ~(i + Len(a) <= Len(a))
        /\ (i + Len(a)) - Len(a) = i
    BY <1>1, <1>5
  <2> QED BY <1>2, <2>1 DEF IdsOf
<1> QED BY <1>3, <1>4, <1>5 DEF IdsOf

-----------------------------------------------------------------------------
(* The elements of the first m positions of a sequence, and of the rest.   *)
LEMMA IdsOfPrefix ==
  ASSUME NEW q \in Seq(Ids), NEW m \in 0..Len(q)
  PROVE  IdsOf(Prefix(q, m)) = {q[i] : i \in 1..m}
<1>1. \A i \in 1..m : q[i] \in Ids
  BY ElementOfSeq
<1>2. /\ Prefix(q, m) \in Seq(Ids) /\ Len(Prefix(q, m)) = m
      /\ \A i \in 1..m : Prefix(q, m)[i] = q[i]
  BY <1>1, SubSeqProperties DEF Prefix
<1>3. DOMAIN Prefix(q, m) = 1..m
  BY <1>2, LenProperties
<1> QED BY <1>2, <1>3 DEF IdsOf

(* The elements of the positions behind the first m.                       *)
LEMMA IdsOfRest ==
  ASSUME NEW q \in Seq(Ids), NEW m \in 0..Len(q)
  PROVE  IdsOf(SubSeq(q, m + 1, Len(q))) = {q[i] : i \in (m + 1)..Len(q)}
<1> DEFINE r == SubSeq(q, m + 1, Len(q))
<1>1. Len(q) \in Nat /\ \A i \in 1..Len(q) : q[i] \in Ids
  BY LenProperties, ElementOfSeq
<1>2. CASE m = Len(q)
  <2>1. r = <<>> /\ (m + 1)..Len(q) = {}
    BY <1>1, <1>2, SubSeqEmpty
  <2> QED BY <2>1, EmptySeq DEF IdsOf
<1>3. CASE m < Len(q)
  <2>1. \A i \in (m + 1)..Len(q) : q[i] \in Ids
    BY <1>1
  <2>2. m + 1 \in Int /\ Len(q) \in Int /\ Len(q) - (m + 1) + 1 = Len(q) - m
    BY <1>1
  <2>3. /\ r \in Seq(Ids)
        /\ Len(r) = IF m + 1 <= Len(q) THEN Len(q) - (m + 1) + 1 ELSE 0
        /\ \A i \in 1..(Len(q) - (m + 1) + 1) : r[i] = q[(m + 1) + i - 1]
    BY <2>1, <2>2, SubSeqProperties
  <2> HIDE DEF r
  <2>4. Len(r) = Len(q) - m
    BY <1>1, <1>3, <2>3
  <2>5. \A i \in 1..(Len(q) - m) : r[i] = q[m + i]
    <3> SUFFICES ASSUME NEW i \in 1..(Len(q) - m) PROVE r[i] = q[m + i]
      OBVIOUS
    <3>1. i \in 1..(Len(q) - (m + 1) + 1) /\ (m + 1) + i - 1 = m + i
      BY <1>1
    <3> QED BY <2>3, <3>1
  <2>6. DOMAIN r = 1..(Len(q) - m)
    BY <2>3, <2>4, LenProperties
  <2>7. \A i \in DOMAIN r : m + i \in (m + 1)..Len(q)
    BY <1>1, <2>6
  <2>8. \A i \in (m + 1)..Len(q) : i - m \in DOMAIN r /\ r[i - m] = q[i]
    <3> SUFFICES ASSUME NEW i \in (m + 1)..Len(q)
                 PROVE  i - m \in DOMAIN r /\ r[i - m] = q[i]
      OBVIOUS
    <3>1. i - m \in 1..(Len(q) - m) /\ m + (i - m) = i
      BY <1>1
    <3>2. i - m \in DOMAIN r /\ r[i - m] = q[m + (i - m)]
      BY <2>5, <2>6, <3>1
    <3> QED BY <3>1, <3>2
  <2>9. \A i \in DOMAIN r : r[i] = q[m + i]
    BY <2>5, <2>6
  <2>10. {r[i] : i \in DOMAIN r} = {q[i] : i \in (m + 1)..Len(q)}
    <3>1. \A x \in {r[i] : i \in DOMAIN r} : x \in {q[i] : i \in (m + 1)..Len(q)}
      BY <2>7, <2>9
    <3>2. \A x \in {q[i] : i \in (m + 1)..Len(q)} : x \in {r[i] : i \in DOMAIN r}
      BY <2>8
    <3> QED BY <3>1, <3>2
  <2> QED BY <2>10 DEF IdsOf, r
<1> QED BY <1>1, <1>2, <1>3

(* Removing an element of an increasing sequence leaves the others.        *)
LEMMA IdsOfRemoved ==
  ASSUME NEW q \in Seq(Ids), NEW i \in DOMAIN q, Increasing(q)
  PROVE  IdsOf(RemoveAt(q, i)) = IdsOf(q) \ {q[i]}
<1> DEFINE a == SubSeq(q, 1, i - 1)
           b == SubSeq(q, i + 1, Len(q))
<1>1. /\ DOMAIN q = 1..Len(q) /\ Len(q) \in Nat /\ i \in 1..Len(q)
      /\ \A j \in 1..Len(q) : q[j] \in Ids
  BY LenProperties, ElementOfSeq
<1>2. IdsOf(a) = {q[j] : j \in 1..(i - 1)} /\ a \in Seq(Ids)
  <2>1. i - 1 \in 0..Len(q) /\ a = Prefix(q, i - 1)
    BY <1>1 DEF Prefix
  <2>2. \A j \in 1..(i - 1) : q[j] \in Ids
    BY <1>1
  <2>3. a \in Seq(Ids)
    BY <1>1, <2>2, SubSeqProperties
  <2> QED BY <2>1, <2>3, IdsOfPrefix
<1>3. IdsOf(b) = {q[j] : j \in (i + 1)..Len(q)} /\ b \in Seq(Ids)
  <2>1. i \in 0..Len(q) /\ i \in Nat
    BY <1>1
  <2>2. IsRest(b, q, i)
    BY DEF IsRest
  <2>3. b \in Seq(Ids)
    BY <2>1, <2>2, DropPrefix
  <2> QED BY <2>1, <2>3, IdsOfRest
<1>4. RemoveAt(q, i) = a \o b
  BY DEF RemoveAt
<1> HIDE DEF a, b
<1>5. IdsOf(a \o b) = IdsOf(a) \cup IdsOf(b)
  BY <1>2, <1>3, IdsOfConcat
<1>6. \A j \in 1..Len(q) : q[j] = q[i] => j = i
  <2>1. \A j \in 1..Len(q) : q[j] \in Nat
    BY <1>1
  <2>2. \A j \in 1..Len(q) : /\ j < i => q[j] < q[i]
                             /\ i < j => q[i] < q[j]
    BY <1>1 DEF Increasing
  <2>3. \A j \in 1..Len(q) : q[j] = q[i] => ~(q[j] < q[i]) /\ ~(q[i] < q[j])
    BY <1>1, <2>1
  <2> QED BY <1>1, <2>2, <2>3
<1>7. \A j \in 1..Len(q) : j < i \/ j = i \/ j > i
  BY <1>1
<1>8. \A j \in 1..Len(q) : /\ j < i => j \in 1..(i - 1)
                           /\ j > i => j \in (i + 1)..Len(q)
  BY <1>1
<1>9. /\ \A j \in 1..(i - 1) : j \in 1..Len(q) /\ j # i
      /\ \A j \in (i + 1)..Len(q) : j \in 1..Len(q) /\ j # i
  BY <1>1
<1>10. IdsOf(q) = {q[j] : j \in 1..Len(q)}
  BY <1>1 DEF IdsOf
<1> QED BY <1>2, <1>3, <1>4, <1>5, <1>6, <1>7, <1>8, <1>9, <1>10

-----------------------------------------------------------------------------
(* SendFrom takes the calls of q in order: the first ones, which need no   *)
(* response, are done; the next one, if any, is pending; the rest wait.    *)
LEMMA SendFromCalls ==
  ASSUME NEW q \in Seq(Ids), Increasing(q), NEW timer, NEW f,
         SendFrom(q, timer, f)
  PROVE  \E done \in SUBSET IdsOf(q) :
           /\ fate' = Settle(f, done, "noReply")
           /\ \A i \in done : sent[i] \notin Expects
           /\ done \cup IdsOf(requestsQueue)' \cup ({pendingRequest'} \ {0})
                = IdsOf(q)
           /\ pendingRequest' \notin done \cup IdsOf(requestsQueue)'
           /\ \A i \in IdsOf(requestsQueue)', j \in done \cup {pendingRequest'} :
                j < i
<1>1. PICK n \in 0..Len(q), written \in BOOLEAN :
        /\ \A i \in 1..n : sent[q[i]] \notin Expects
        /\ pendingRequest' = IF n = Len(q) THEN 0 ELSE q[n + 1]
        /\ requestsQueue' = SubSeq(q, n + 2, Len(q))
        /\ fate' = Settle(f, IdsOf(Prefix(q, n)), "noReply")
  BY DEF SendFrom
<1> DEFINE done == IdsOf(Prefix(q, n))
           rest == IdsOf(requestsQueue)'
<1>2. /\ DOMAIN q = 1..Len(q) /\ Len(q) \in Nat
      /\ \A i \in 1..Len(q) : q[i] \in Nat \ {0}
  BY LenProperties, ElementOfSeq
<1>3. n \in Nat /\ n <= Len(q) /\ Len(q) \in Nat
  BY <1>2
<1>4. done = {q[i] : i \in 1..n}
  BY IdsOfPrefix
<1>5. rest = {q[i] : i \in (n + 2)..Len(q)}
  <2>1. CASE n = Len(q)
    <3>1. requestsQueue' = <<>>
      BY <1>1, <1>2, <2>1, SubSeqEmpty
    <3>2. (n + 2)..Len(q) = {}
      BY <1>2, <2>1
    <3> QED BY <3>1, <3>2, EmptySeq DEF IdsOf
  <2>2. CASE n < Len(q)
    <3>1. n + 1 \in 0..Len(q) /\ (n + 1) + 1 = n + 2
      BY <1>2, <2>2
    <3>2. rest = IdsOf(SubSeq(q, (n + 1) + 1, Len(q)))
      BY <1>1, <3>1 DEF IdsOf
    <3> QED BY <3>1, <3>2, IdsOfRest
  <2> QED BY <1>3, <2>1, <2>2
<1>6. IdsOf(q) = {q[i] : i \in 1..Len(q)}
  BY <1>2 DEF IdsOf
<1> HIDE DEF done, rest
<1>7. \A i, j \in 1..Len(q) : i < j => q[i] < q[j]
  BY <1>2 DEF Increasing
<1>8. \A x \in done : \E i \in 1..Len(q) : i <= n /\ x = q[i]
  BY <1>2, <1>4
<1>9. \A x \in rest : \E i \in 1..Len(q) : i > n + 1 /\ x = q[i]
  BY <1>2, <1>5
<1>10. CASE n = Len(q)
  <2>1. rest = {} /\ done = IdsOf(q) /\ pendingRequest' = 0
    BY <1>1, <1>2, <1>4, <1>6, <1>9, <1>10
  <2>2. 0 \notin done
    BY <1>2, <1>8
  <2>3. \A i \in done : sent[i] \notin Expects
    BY <1>1, <1>4
  <2> QED BY <1>1, <2>1, <2>2, <2>3 DEF done, rest
<1>11. CASE n < Len(q)
  <2>1. n + 1 \in 1..Len(q) /\ pendingRequest' = q[n + 1]
    <3>1. n + 1 \in 1..Len(q) /\ n # Len(q)
      BY <1>3, <1>11
    <3> QED BY <1>1, <3>1
  <2>2. \A i \in 1..Len(q) : i <= n \/ i = n + 1 \/ i > n + 1
    BY <1>2
  <2>3. done \cup rest \cup ({pendingRequest'} \ {0}) = IdsOf(q)
    <3>1. \A i \in 1..Len(q) : i <= n => q[i] \in done
      BY <1>4
    <3>2. \A i \in 1..Len(q) : i > n + 1 => q[i] \in rest
      BY <1>2, <1>5
    <3>3. q[n + 1] # 0
      BY <1>2, <2>1
    <3> QED BY <1>6, <1>8, <1>9, <2>1, <2>2, <3>1, <3>2, <3>3
  <2>4. \A i \in rest, j \in done \cup {pendingRequest'} : j < i
    <3> SUFFICES ASSUME NEW x \in rest, NEW y \in done \cup {pendingRequest'}
                 PROVE  y < x
      OBVIOUS
    <3>1. PICK i \in 1..Len(q) : i > n + 1 /\ x = q[i]
      BY <1>9
    <3>2. PICK j \in 1..Len(q) : j <= n + 1 /\ y = q[j]
      BY <1>2, <1>8, <2>1
    <3>3. j < i
      BY <1>2, <3>1, <3>2
    <3> QED BY <1>7, <3>1, <3>2, <3>3
  <2>5. pendingRequest' \notin done
    <3> SUFFICES ASSUME NEW i \in 1..Len(q), i <= n PROVE q[i] # q[n + 1]
      BY <1>8, <2>1
    <3>1. q[i] < q[n + 1] /\ q[i] \in Nat /\ q[n + 1] \in Nat
      BY <1>2, <1>7, <2>1
    <3> QED BY <3>1
  <2>6. pendingRequest' \notin rest
    <3> SUFFICES ASSUME NEW i \in 1..Len(q), i > n + 1 PROVE q[i] # q[n + 1]
      BY <1>9, <2>1
    <3>1. q[n + 1] < q[i] /\ q[i] \in Nat /\ q[n + 1] \in Nat
      BY <1>2, <1>7, <2>1
    <3> QED BY <3>1
  <2>7. done \in SUBSET IdsOf(q) /\ \A i \in done : sent[i] \notin Expects
    BY <1>1, <1>4, <2>3
  <2>8. fate' = Settle(f, done, "noReply")
    BY <1>1 DEF done
  <2> HIDE DEF Settle
  <2> QED BY <2>3, <2>4, <2>5, <2>6, <2>7, <2>8 DEF rest
<1> QED BY <1>3, <1>10, <1>11

-----------------------------------------------------------------------------
(* The calls being accepted, when the blocks of the queue change.          *)
LEMMA AcceptingSame ==
  ASSUME handlingQueue' = handlingQueue
  PROVE  Accepting' = Accepting
BY DEF Accepting, SendBlocks

(* A new send block brings in its call.                                    *)
LEMMA AcceptingAppend ==
  ASSUME TypeOK, NEW b \in Block, handlingQueue' = Append(handlingQueue, b)
  PROVE  Accepting' = Accepting \cup (IF b.op = "send" THEN {b.id} ELSE {})
<1> DEFINE n == Len(handlingQueue)
<1>1. /\ DOMAIN handlingQueue = 1..n /\ n \in Nat
      /\ DOMAIN handlingQueue' = 1..(n + 1)
      /\ \A k \in 1..n : handlingQueue'[k] = handlingQueue[k]
      /\ handlingQueue'[n + 1] = b
  BY AppendProperties, LenProperties DEF TypeOK
<1> HIDE DEF n
<1>2. \A k \in 1..(n + 1) : k \in 1..n \/ k = n + 1
  BY <1>1
<1>3. n + 1 \in 1..(n + 1) /\ \A k \in 1..n : k \in 1..(n + 1)
  BY <1>1
<1>4. ASSUME NEW x \in Accepting'
      PROVE  x \in Accepting \cup (IF b.op = "send" THEN {b.id} ELSE {})
  <2>1. PICK k \in 1..(n + 1) : handlingQueue'[k].op = "send" /\ x = handlingQueue'[k].id
    BY <1>1 DEF Accepting, SendBlocks
  <2> QED BY <1>1, <1>2, <2>1 DEF Accepting, SendBlocks
<1>5. ASSUME NEW x \in Accepting
      PROVE  x \in Accepting'
  <2>1. PICK k \in 1..n : handlingQueue[k].op = "send" /\ x = handlingQueue[k].id
    BY <1>1 DEF Accepting, SendBlocks
  <2> QED BY <1>1, <1>3, <2>1 DEF Accepting, SendBlocks
<1>6. b.op = "send" => b.id \in Accepting'
  BY <1>1, <1>3 DEF Accepting, SendBlocks
<1> QED BY <1>4, <1>5, <1>6

(* The head block takes its call with it, if it is a send block.           *)
LEMMA AcceptingTail ==
  ASSUME TypeOK, handlingQueue # <<>>, handlingQueue' = Tail(handlingQueue)
  PROVE  Accepting = Accepting' \cup (IF Head(handlingQueue).op = "send"
                                      THEN {Head(handlingQueue).id} ELSE {})
<1> DEFINE n == Len(handlingQueue)
<1>1. /\ DOMAIN handlingQueue = 1..n /\ n \in Nat \ {0}
      /\ DOMAIN handlingQueue' = 1..(n - 1)
      /\ \A k \in 1..(n - 1) : handlingQueue'[k] = handlingQueue[k + 1]
      /\ Head(handlingQueue) = handlingQueue[1]
  BY HeadTailProperties, LenProperties, EmptySeq DEF TypeOK
<1> HIDE DEF n
<1>2. ASSUME NEW x \in Accepting'
      PROVE  x \in Accepting
  <2>1. PICK k \in 1..(n - 1) : handlingQueue'[k].op = "send" /\ x = handlingQueue'[k].id
    BY <1>1 DEF Accepting, SendBlocks
  <2>2. k + 1 \in DOMAIN handlingQueue
    BY <1>1
  <2>3. handlingQueue[k + 1].op = "send" /\ x = handlingQueue[k + 1].id
    BY <1>1, <2>1
  <2>4. k + 1 \in SendBlocks
    BY <2>2, <2>3 DEF SendBlocks
  <2> QED BY <2>3, <2>4 DEF Accepting
<1>3. ASSUME NEW x \in Accepting
      PROVE  x \in Accepting' \cup (IF Head(handlingQueue).op = "send"
                                    THEN {Head(handlingQueue).id} ELSE {})
  <2>1. PICK k \in 1..n : handlingQueue[k].op = "send" /\ x = handlingQueue[k].id
    BY <1>1 DEF Accepting, SendBlocks
  <2>2. CASE k = 1
    BY <1>1, <2>1, <2>2
  <2>3. CASE k # 1
    <3>1. k - 1 \in 1..(n - 1) /\ (k - 1) + 1 = k
      BY <1>1, <2>3
    <3>2. handlingQueue'[k - 1] = handlingQueue[k]
      BY <1>1, <3>1
    <3>3. k - 1 \in DOMAIN handlingQueue'
      BY <1>1, <3>1
    <3>4. k - 1 \in SendBlocks' /\ x = handlingQueue'[k - 1].id
      BY <2>1, <3>2, <3>3 DEF SendBlocks
    <3> QED BY <3>4 DEF Accepting
  <2> QED BY <2>2, <2>3
<1>4. Head(handlingQueue).op = "send" => Head(handlingQueue).id \in Accepting
  <2>1. 1 \in 1..n
    BY <1>1
  <2> QED BY <1>1, <2>1 DEF Accepting, SendBlocks
<1> QED BY <1>2, <1>3, <1>4

(* A receive block that goes on with its next byte stays where it is.      *)
LEMMA AcceptingRest ==
  ASSUME TypeOK, NEW b \in Block, b.op # "send",
         handlingQueue # <<>>, Head(handlingQueue).op # "send",
         handlingQueue' = <<b>> \o Tail(handlingQueue)
  PROVE  Accepting' = Accepting
<1> DEFINE n == Len(handlingQueue)
<1>1. /\ DOMAIN handlingQueue = 1..n /\ n \in Nat \ {0}
      /\ Tail(handlingQueue) \in Seq(Block) /\ Len(Tail(handlingQueue)) = n - 1
      /\ \A k \in 1..(n - 1) : Tail(handlingQueue)[k] = handlingQueue[k + 1]
      /\ Head(handlingQueue) = handlingQueue[1]
  BY HeadTailProperties, LenProperties, EmptySeq DEF TypeOK
<1>2. <<b>> \in Seq(Block) /\ Len(<<b>>) = 1 /\ <<b>>[1] = b
  OBVIOUS
<1>3. /\ handlingQueue' \in Seq(Block) /\ Len(handlingQueue') = n
      /\ \A k \in 1..n : handlingQueue'[k] =
           IF k <= 1 THEN <<b>>[k] ELSE Tail(handlingQueue)[k - 1]
  BY <1>1, <1>2, ConcatProperties
<1> HIDE DEF n
<1>4. DOMAIN handlingQueue' = 1..n
  BY <1>3, LenProperties
<1>5. \A k \in 1..n : k # 1 => handlingQueue'[k] = handlingQueue[k]
  <2> SUFFICES ASSUME NEW k \in 1..n, k # 1
               PROVE  handlingQueue'[k] = handlingQueue[k]
    OBVIOUS
  <2>1. k - 1 \in 1..(n - 1) /\ (k - 1) + 1 = k /\ ~(k <= 1)
    BY <1>1
  <2>2. Tail(handlingQueue)[k - 1] = handlingQueue[(k - 1) + 1]
    BY <1>1, <2>1
  <2> QED BY <1>3, <2>1, <2>2
<1>6. handlingQueue'[1].op # "send" /\ handlingQueue[1].op # "send"
  BY <1>1, <1>2, <1>3
<1>7. SendBlocks' = SendBlocks
  BY <1>1, <1>4, <1>5, <1>6 DEF SendBlocks
<1>8. \A k \in SendBlocks : k \in 1..n /\ k # 1
  BY <1>1, <1>6 DEF SendBlocks
<1> QED BY <1>5, <1>7, <1>8 DEF Accepting

(* Waiting calls have been made, none of them has been written, and those  *)
(* in the queue come before those being accepted.                          *)
LEMMA WaitingCalls ==
  ASSUME TypeOK, OrderInv
  PROVE  /\ Waiting \subseteq DOMAIN sent
         /\ Waiting \subseteq Nat \ {0}
         /\ \A i \in IdsOf(requestsQueue), j \in Accepting : i < j
         /\ IdsOf(wire) \cap Waiting = {}
<1>1. /\ DOMAIN sent = 1..Len(sent) /\ Len(sent) \in Nat
      /\ \A i \in DOMAIN requestsQueue : requestsQueue[i] \in Nat \ {0}
      /\ \A i \in DOMAIN wire : wire[i] \in Nat \ {0}
  BY LenProperties, ElementOfSeq DEF TypeOK
<1>2. \A i \in DOMAIN requestsQueue : requestsQueue[i] < Len(sent) + 1
  BY DEF OrderInv, Ahead, Below
<1>3. \A i \in IdsOf(requestsQueue) : i \in DOMAIN sent /\ i \in Nat \ {0}
  BY <1>1, <1>2 DEF IdsOf
<1>4. \A k \in SendBlocks : /\ handlingQueue[k].id \in Nat \ {0}
                            /\ handlingQueue[k].id <= Len(sent)
                            /\ Ahead(handlingQueue[k].id)
  BY SendBlockId DEF OrderInv, AcceptedInOrder
<1>5. \A j \in Accepting : /\ j \in DOMAIN sent /\ j \in Nat \ {0}
                           /\ \A i \in IdsOf(requestsQueue) : i < j
                           /\ \A i \in IdsOf(wire) : i < j
  BY <1>1, <1>4 DEF Accepting, Ahead, Below, IdsOf
<1>6. \A i \in IdsOf(wire), j \in IdsOf(requestsQueue) : i < j
  BY DEF OrderInv, QueueSorted, Below, IdsOf
<1>7. \A i \in IdsOf(wire) : i \in Nat
  BY <1>1 DEF IdsOf
<1> QED BY <1>3, <1>5, <1>6, <1>7 DEF Waiting

(* The call at the head of the queue of blocks is the first of those being *)
(* accepted.                                                               *)
LEMMA AcceptingFirst ==
  ASSUME TypeOK, OrderInv, HeadIs("send"), handlingQueue' = Tail(handlingQueue)
  PROVE  /\ Head(handlingQueue).id \in Ids
         /\ Accepting = Accepting' \cup {Head(handlingQueue).id}
         /\ \A j \in Accepting' : Head(handlingQueue).id < j
<1>1. 1 \in SendBlocks /\ Head(handlingQueue) = handlingQueue[1]
  <2>1. 1 \in DOMAIN handlingQueue /\ Head(handlingQueue) = handlingQueue[1]
    BY HeadTailProperties, LenProperties, EmptySeq DEF TypeOK, HeadIs
  <2> QED BY <2>1 DEF HeadIs, SendBlocks
<1>2. Head(handlingQueue).id \in Ids
  BY <1>1, SendBlockId
<1>3. Accepting = Accepting' \cup {Head(handlingQueue).id}
  BY AcceptingTail DEF HeadIs
<1>4. ASSUME NEW k \in SendBlocks'
      PROVE  handlingQueue[1].id < handlingQueue'[k].id
  <2>1. /\ k \in Nat \ {0} /\ k + 1 \in SendBlocks
        /\ handlingQueue'[k] = handlingQueue[k + 1]
    BY QueueTail DEF HeadIs
  <2>2. 1 < k + 1
    BY <2>1
  <2> QED BY <1>1, <2>1, <2>2 DEF OrderInv, AcceptedInOrder
<1> QED BY <1>1, <1>2, <1>3, <1>4 DEF Accepting

-----------------------------------------------------------------------------
(* Settling adds to the record of the calls that are settled only.         *)
LEMMA SettleAt ==
  ASSUME NEW f, NEW ids, NEW how
  PROVE  /\ DOMAIN Settle(f, ids, how) = DOMAIN f
         /\ \A i \in DOMAIN f :
              Settle(f, ids, how)[i] = IF i \in ids THEN f[i] \cup {how} ELSE f[i]
BY DEF Settle

(* Every call has a record of what became of it.                           *)
LEMMA SameCalls ==
  ASSUME TypeOK
  PROVE  DOMAIN fate = DOMAIN sent
BY LenProperties DEF TypeOK

(* A step that does not touch the calls.                                   *)
LEMMA NothingMoves ==
  ASSUME TypeOK, OrderInv, CallsInv, Accepting' = Accepting,
         UNCHANGED <<sent, requestsQueue, pendingRequest, fate>>
  PROVE  CallsMove
<1>1. Waiting' = Waiting
  BY DEF Waiting, IdsOf
<1>2. \A j \in Waiting : ~Begins(j)
  BY WaitingCalls DEF Begins, CallsInv, PendingApart, SettledOnce
<1> QED BY <1>1, <1>2 DEF CallsMove, CallsInv, PendingApart

(* Waiting calls that are settled without being sent.                      *)
LEMMA CallsDropped ==
  ASSUME TypeOK, OrderInv, CallsInv, Accepting' = Accepting, sent' = sent,
         NEW gone, NEW how \in {"cancelled", "discarded"},
         IdsOf(requestsQueue)' = IdsOf(requestsQueue) \ gone,
         \/ pendingRequest' = pendingRequest /\ gone \subseteq IdsOf(requestsQueue)
         \/ /\ pendingRequest' = 0 /\ how = "discarded"
            /\ gone = IdsOf(requestsQueue) \cup {pendingRequest},
         fate' = Settle(fate, gone, how)
  PROVE  CallsMove
<1>1. /\ Waiting \subseteq DOMAIN sent /\ 0 \notin Waiting
      /\ IdsOf(requestsQueue) \cap Accepting = {}
  BY WaitingCalls DEF Waiting
<1>2. Waiting' = Waiting \ gone
  BY <1>1 DEF Waiting, CallsInv, PendingApart
<1>3. \A i \in DOMAIN sent :
        fate'[i] = IF i \in gone THEN fate[i] \cup {how} ELSE fate[i]
  BY SameCalls DEF Settle
<1>4. pendingRequest \notin Waiting /\ \A j \in Waiting : fate[j] = {}
  BY <1>1 DEF CallsInv, PendingApart, SettledOnce
<1>5. ASSUME NEW j \in Waiting
      PROVE  ~Begins(j)
  <2>1. j # pendingRequest'
    BY <1>1, <1>4
  <2>2. fate'[j] \subseteq {how}
    BY <1>1, <1>3, <1>4
  <2>3. how # "noReply"
    OBVIOUS
  <2> QED BY <2>1, <2>2, <2>3 DEF Begins
<1>6. gone \subseteq Waiting \cup {pendingRequest}
  BY DEF Waiting
<1>7. \A i \in DOMAIN sent \ gone :
        /\ fate'[i] = fate[i]
        /\ i \in Waiting \cup {pendingRequest} => i \in Waiting' \cup {pendingRequest'}
  BY <1>2, <1>3
<1>8. \A i \in gone : i \in DOMAIN sent =>
        /\ fate'[i] = fate[i] \cup {how}
        /\ i \notin Waiting' \cup {pendingRequest'}
  <2>1. 0 \notin DOMAIN sent
    BY LenProperties DEF TypeOK
  <2>2. \A i \in gone : i \in DOMAIN sent => i # pendingRequest'
    <3>1. CASE pendingRequest' = pendingRequest /\ gone \subseteq IdsOf(requestsQueue)
      BY <1>4, <3>1 DEF Waiting
    <3>2. CASE pendingRequest' = 0
      BY <2>1, <3>2
    <3> QED BY <3>1, <3>2
  <2> QED BY <1>2, <1>3, <2>2
<1>9. /\ pendingRequest' \in {0, pendingRequest} /\ pendingRequest' \notin Waiting'
      /\ Waiting' \subseteq Waiting
  BY <1>1, <1>2, <1>4
<1>10. ASSUME NEW i \in DOMAIN sent
       PROVE  \/ /\ i \in Waiting' \cup {pendingRequest'}
                    \/ i \notin Waiting \cup {pendingRequest}
                 /\ fate'[i] = fate[i]
              \/ /\ i \in Waiting /\ i \notin Waiting' \cup {pendingRequest'}
                 /\ fate'[i] = fate[i] \cup {how}
              \/ /\ i = pendingRequest /\ i # pendingRequest' /\ how = "discarded"
                 /\ fate'[i] = fate[i] \cup {how}
  <2>1. CASE i \notin gone
    BY <1>7, <2>1
  <2>2. CASE i \in gone /\ i \in Waiting
    BY <1>8, <2>2
  <2>3. CASE i \in gone /\ i \notin Waiting
    <3>1. i = pendingRequest /\ how = "discarded"
      BY <1>6, <2>3 DEF Waiting
    <3> QED BY <1>8, <2>3, <3>1
  <2> QED BY <2>1, <2>2, <2>3
<1> HIDE DEF Begins
<1> QED BY <1>5, <1>9, <1>10 DEF CallsMove

(* The pending call, if there is one, is settled and the queue moves on.   *)
LEMMA QueueMovesOn ==
  ASSUME TypeOK, OrderInv, CallsInv, Accepting' = Accepting, sent' = sent,
         NEW how \in {"answered", "timedOut"}, NEW timer,
         SendFrom(requestsQueue, timer, Settle(fate, {pendingRequest}, how))
  PROVE  CallsMove
<1> DEFINE queue == IdsOf(requestsQueue)
           settled == Settle(fate, {pendingRequest}, how)
<1>1. /\ Waiting \subseteq DOMAIN sent /\ 0 \notin Waiting
      /\ \A i \in queue, j \in Accepting : i < j /\ i \in Nat
      /\ \A i \in queue, j \in Accepting : i # j
  BY WaitingCalls DEF Waiting
<1>2. PICK done \in SUBSET queue :
        /\ fate' = Settle(settled, done, "noReply")
        /\ done \cup queue' \cup ({pendingRequest'} \ {0}) = queue
        /\ pendingRequest' \notin done \cup queue'
        /\ \A i \in queue', j \in done \cup {pendingRequest'} : j < i
  BY SendFromCalls DEF OrderInv, QueueSorted, TypeOK
<1> HIDE DEF queue, settled
<1>3. Waiting = Accepting \cup queue /\ Waiting' = Accepting \cup queue'
  BY DEF Waiting, queue
<1>4. /\ pendingRequest \notin Waiting /\ \A j \in Waiting : fate[j] = {}
      /\ pendingRequest # 0 => pendingRequest \in DOMAIN sent
  BY <1>1 DEF CallsInv, PendingApart, SettledOnce
<1>5. \A i \in DOMAIN sent :
        fate'[i] = (IF i = pendingRequest THEN fate[i] \cup {how} ELSE fate[i])
                   \cup (IF i \in done THEN {"noReply"} ELSE {})
  <2>1. /\ DOMAIN settled = DOMAIN sent
        /\ \A i \in DOMAIN sent :
             settled[i] = IF i = pendingRequest THEN fate[i] \cup {how} ELSE fate[i]
    BY SameCalls DEF settled, Settle
  <2>2. \A i \in DOMAIN sent :
          fate'[i] = IF i \in done THEN settled[i] \cup {"noReply"} ELSE settled[i]
    BY <1>2, <2>1 DEF Settle
  <2> QED BY <2>1, <2>2
<1>6. pendingRequest' \in {0} \cup queue
  BY <1>2
<1>7. pendingRequest' \notin Waiting' /\ Waiting' \subseteq Waiting
  BY <1>1, <1>2, <1>3, <1>6
<1>8. \A i, j \in queue : i < j => i # j
  BY <1>1, WaitingCalls DEF queue, Waiting
<1>9. \A j \in done : j \in queue /\ j \notin Waiting' \cup {pendingRequest'}
  <2>1. \A j \in done : j \in queue /\ j \notin Accepting
    BY <1>1
  <2>2. \A j \in done : j \notin queue'
    BY <1>2, <1>8
  <2> QED BY <1>2, <1>3, <2>1, <2>2
<1>10. pendingRequest # 0 => pendingRequest' # pendingRequest
  BY <1>3, <1>4, <1>6
<1>11. ASSUME NEW i \in DOMAIN sent
       PROVE  \/ /\ i \in Waiting' \cup {pendingRequest'}
                    \/ i \notin Waiting \cup {pendingRequest}
                 /\ fate'[i] = fate[i]
              \/ /\ i \in Waiting /\ i \notin Waiting' \cup {pendingRequest'}
                 /\ fate'[i] = fate[i] \cup {"noReply"}
              \/ /\ i = pendingRequest /\ i # pendingRequest'
                 /\ fate'[i] = fate[i] \cup {how}
  <2>1. CASE i \in done
    BY <1>3, <1>4, <1>5, <1>9, <2>1
  <2>2. CASE i = pendingRequest
    <3>1. i # 0 /\ i \notin done
      BY <1>1, <1>3, <1>4, <2>2, LenProperties DEF TypeOK
    <3> QED BY <1>5, <1>10, <2>2, <3>1
  <2>3. CASE i \notin done /\ i # pendingRequest
    <3>1. fate'[i] = fate[i]
      BY <1>5, <2>3
    <3>2. i \in queue => i \in queue' \cup {pendingRequest'}
      BY <1>2, <2>3
    <3> QED BY <1>3, <2>3, <3>1, <3>2
  <2> QED BY <2>1, <2>2, <2>3
<1>12. ASSUME NEW j \in Waiting, Begins(j)
       PROVE  j \in done \cup {pendingRequest'} /\ j \in queue
  <2>1. j \in DOMAIN sent /\ fate[j] = {} /\ j # pendingRequest /\ j # 0
    BY <1>1, <1>4
  <2>2. j \in done \cup {pendingRequest'}
    BY <1>5, <1>12, <2>1 DEF Begins
  <2> QED BY <1>6, <2>1, <2>2
<1>13. \A j \in Waiting : Begins(j) => \A i \in Waiting' : j < i
  BY <1>1, <1>2, <1>3, <1>12
<1> HIDE DEF Begins
<1> QED BY <1>3, <1>6, <1>7, <1>10, <1>11, <1>13 DEF CallsMove

(* A call that is accepted is sent at once, or waits behind the others.    *)
LEMMA CallAccepted ==
  ASSUME TypeOK, OrderInv, CallsInv, sent' = sent, HeadIs("send"),
         handlingQueue' = Tail(handlingQueue),
         ReallySendRequest(Head(handlingQueue).id)
  PROVE  CallsMove
<1> DEFINE id == Head(handlingQueue).id
<1>1. /\ id \in Nat \ {0} /\ Accepting = Accepting' \cup {id}
      /\ \A j \in Accepting' : id < j /\ id # j
  BY AcceptingFirst DEF HeadIs
<1>2. Waiting \subseteq DOMAIN sent /\ 0 \notin Waiting
  BY WaitingCalls
<1> HIDE DEF id
<1>3. /\ pendingRequest \notin Waiting /\ \A j \in Waiting : fate[j] = {}
  BY <1>2 DEF CallsInv, PendingApart, SettledOnce
<1>4. CASE /\ pendingRequest = 0
           /\ SendFrom(<<id>> \o requestsQueue, timeoutTimer, fate)
  <2>1. requestsQueue = <<>>
    BY <1>4 DEF OrderInv, IdleMeansEmpty
  <2>2. /\ <<id>> \in Seq(Ids) /\ SendFrom(<<id>>, timeoutTimer, fate)
        /\ Increasing(<<id>>) /\ IdsOf(<<id>>) = {id}
    BY <1>1, <1>4, <2>1 DEF Increasing, IdsOf
  <2>3. PICK done \in SUBSET {id} :
          /\ fate' = Settle(fate, done, "noReply")
          /\ done \cup IdsOf(requestsQueue)' \cup ({pendingRequest'} \ {0}) = {id}
          /\ pendingRequest' \notin done \cup IdsOf(requestsQueue)'
          /\ \A i \in IdsOf(requestsQueue)', j \in done \cup {pendingRequest'} : j < i
    BY <2>2, SendFromCalls
  <2>4. IdsOf(requestsQueue)' = {}
    <3>1. requestsQueue' = <<>>
      <4>1. PICK n \in 0..Len(<<id>>) :
              requestsQueue' = SubSeq(<<id>>, n + 2, Len(<<id>>))
        BY <2>2 DEF SendFrom
      <4>2. n + 2 \in Int /\ Len(<<id>>) \in Int /\ Len(<<id>>) < n + 2
        BY <4>1
      <4> QED BY <4>1, <4>2, SubSeqEmpty
    <3> QED BY <3>1, EmptySeq DEF IdsOf
  <2>5. \/ done = {id} /\ pendingRequest' = 0
        \/ done = {} /\ pendingRequest' = id
    <3>1. done = {} \/ done = {id}
      BY <2>3
    <3>2. done = {} => pendingRequest' = id
      BY <2>3, <2>4
    <3>3. done = {id} => pendingRequest' = 0
      BY <2>3, <2>4
    <3> QED BY <3>1, <3>2, <3>3
  <2>6. Waiting' = Waiting \ {id} /\ id \in Waiting /\ Waiting' = Accepting'
    <3>1. IdsOf(requestsQueue) = {}
      BY <2>1, EmptySeq DEF IdsOf
    <3> QED BY <1>1, <2>4, <3>1 DEF Waiting
  <2>7. \A i \in DOMAIN sent :
          fate'[i] = IF i \in done THEN fate[i] \cup {"noReply"} ELSE fate[i]
    BY <2>3, SameCalls DEF Settle
  <2>8. ASSUME NEW j \in Waiting, Begins(j)
        PROVE  j = id
    <3>1. j = pendingRequest' \/ j \in done
      BY <1>2, <1>3, <2>7, <2>8 DEF Begins
    <3> QED BY <1>2, <2>5, <3>1
  <2>9. \A j \in Waiting : Begins(j) => \A i \in Waiting' : j < i
    BY <1>1, <2>6, <2>8
  <2>10. /\ pendingRequest' \in {0} \cup Waiting /\ pendingRequest' \notin Waiting'
         /\ Waiting' \subseteq Waiting
    BY <1>2, <2>5, <2>6
  <2>11. ASSUME NEW i \in DOMAIN sent
         PROVE  \/ /\ i \in Waiting' \cup {pendingRequest'}
                      \/ i \notin Waiting \cup {pendingRequest}
                   /\ fate'[i] = fate[i]
                \/ /\ i \in Waiting /\ i \notin Waiting' \cup {pendingRequest'}
                   /\ fate'[i] = fate[i] \cup {"noReply"}
    <3>1. CASE i = id
      BY <1>1, <2>5, <2>6, <2>7, <3>1
    <3>2. CASE i # id
      <4>1. i # pendingRequest
        BY <1>4, LenProperties DEF TypeOK
      <4>2. i \notin done
        BY <2>5, <3>2
      <4> QED BY <2>6, <2>7, <3>2, <4>1, <4>2
    <3> QED BY <3>1, <3>2
  <2> HIDE DEF Begins
  <2> QED BY <1>4, <2>9, <2>10, <2>11 DEF CallsMove
<1>5. CASE /\ pendingRequest # 0
           /\ requestsQueue' = Append(requestsQueue, id)
           /\ UNCHANGED <<pendingRequest, timeoutTimer, wire, fate>>
  <2>1. requestsQueue' = requestsQueue \o <<id>> /\ <<id>> \in Seq(Ids)
        /\ requestsQueue \in Seq(Ids) /\ IdsOf(<<id>>) = {id}
    <3>1. id \in Ids /\ requestsQueue \in Seq(Ids)
      BY <1>1 DEF TypeOK
    <3>2. Append(requestsQueue, id) = requestsQueue \o <<id>>
      BY <3>1, AppendIsConcat
    <3>3. DOMAIN <<id>> = {1} /\ <<id>>[1] = id
      OBVIOUS
    <3>4. IdsOf(<<id>>) = {id}
      BY <3>3 DEF IdsOf
    <3> QED BY <1>5, <3>1, <3>2, <3>4
  <2>2. IdsOf(requestsQueue)' = IdsOf(requestsQueue) \cup {id}
    <3>1. IdsOf(requestsQueue)' = IdsOf(requestsQueue \o <<id>>)
      BY <2>1 DEF IdsOf
    <3> QED BY <2>1, <3>1, IdsOfConcat
  <2>3. Waiting' = Waiting
    BY <1>1, <2>2 DEF Waiting
  <2>4. \A j \in Waiting : ~Begins(j)
    BY <1>3, <1>5 DEF Begins
  <2> QED BY <1>3, <1>5, <2>3, <2>4 DEF CallsMove
<1> QED BY <1>4, <1>5 DEF ReallySendRequest, id

(* A new call is accepted behind the others.                               *)
LEMMA CallMade ==
  ASSUME TypeOK, OrderInv, CallsInv, NEW c \in Clients, NEW r \in Requests,
         SendRequest(c, r)
  PROVE  /\ DOMAIN sent' = DOMAIN sent \cup {Len(sent) + 1}
         /\ Len(sent) + 1 \notin DOMAIN sent
         /\ \A i \in DOMAIN sent : sent'[i] = sent[i] /\ fate'[i] = fate[i]
         /\ fate'[Len(sent) + 1] = {}
         /\ Waiting' = Waiting \cup {Len(sent) + 1}
         /\ pendingRequest' = pendingRequest
<1> DEFINE n == Len(sent)
           b == [op |-> "send", id |-> n + 1, client |-> c]
<1>1. /\ DOMAIN sent = 1..n /\ n \in Nat /\ Len(fate) = n
      /\ DOMAIN sent' = 1..(n + 1)
      /\ \A i \in 1..n : sent'[i] = sent[i]
  BY LenProperties, AppendProperties DEF TypeOK, SendRequest
<1>2. /\ \A i \in 1..n : fate'[i] = fate[i]
      /\ fate'[n + 1] = {}
  BY <1>1, AppendProperties DEF TypeOK, SendRequest
<1>3. Accepting' = Accepting \cup {n + 1}
  <2>1. b \in Block
    BY <1>1 DEF Block
  <2>2. handlingQueue' = Append(handlingQueue, b)
    BY DEF SendRequest
  <2>3. b.op = "send" /\ b.id = n + 1
    OBVIOUS
  <2> HIDE DEF b
  <2> QED BY <2>1, <2>2, <2>3, AcceptingAppend
<1>4. Waiting' = Waiting \cup {n + 1}
  BY <1>3 DEF Waiting, IdsOf, SendRequest
<1>5. 1..(n + 1) = 1..n \cup {n + 1} /\ n + 1 \notin 1..n
  BY <1>1
<1> QED BY <1>1, <1>2, <1>4, <1>5 DEF SendRequest

(* A receive block is done, or goes on with the bytes that are left.       *)
LEMMA ReceiveGoesOn ==
  ASSUME TypeOK, RunReceive
  PROVE  /\ handlingQueue # <<>> /\ Head(handlingQueue).op = "receive"
         /\ \/ handlingQueue' = Tail(handlingQueue)
            \/ \E b \in Block : /\ b.op = "receive"
                                /\ handlingQueue' = <<b>> \o Tail(handlingQueue)
<1> DEFINE data == Head(handlingQueue).data
           b == [op |-> "receive", data |-> Tail(data), begun |-> TRUE]
<1>1. handlingQueue # <<>> /\ Head(handlingQueue).op = "receive"
  BY DEF RunReceive, HeadIs
<1>2. CASE handlingQueue' = Tail(handlingQueue)
  BY <1>1, <1>2
<1>3. CASE /\ Tail(data) # <<>>
           /\ handlingQueue' = <<b>> \o Tail(handlingQueue)
  <2>1. Head(handlingQueue) \in Block
    BY <1>1, HeadTailProperties DEF TypeOK
  <2>2. data \in Seq(Bytes) \ {<<>>}
    BY <1>1, <2>1 DEF Block
  <2>3. Tail(data) \in Seq(Bytes) \ {<<>>}
    BY <1>3, <2>2
  <2>4. b \in Block /\ b.op = "receive"
    BY <2>3 DEF Block
  <2>5. handlingQueue' = <<b>> \o Tail(handlingQueue)
    BY <1>3
  <2> HIDE DEF b
  <2> QED BY <1>1, <2>4, <2>5
<1> QED BY <1>2, <1>3 DEF RunReceive

-----------------------------------------------------------------------------
(* While nothing hops through the main queue, the blocks of the two queues *)
(* are the clients', the read source's and the closes'.                    *)
LEMMA NoCallbackStep ==
  ASSUME ~HandlesTimeout, TypeOK, NoTimeoutCallback, [Next]_vars
  PROVE  NoTimeoutCallback'
<1>1. ASSUME NEW b \in Block, b.op # "sendNext",
             handlingQueue' = Append(handlingQueue, b)
      PROVE  \A k \in DOMAIN handlingQueue' : handlingQueue'[k].op # "sendNext"
  BY <1>1, AppendProperties, LenProperties DEF TypeOK, NoTimeoutCallback
<1>2. ASSUME handlingQueue # <<>>, handlingQueue' = Tail(handlingQueue)
      PROVE  \A k \in DOMAIN handlingQueue' : handlingQueue'[k].op # "sendNext"
  <2>1. /\ DOMAIN handlingQueue = 1..Len(handlingQueue)
        /\ Len(handlingQueue) \in Nat
        /\ DOMAIN handlingQueue' = 1..(Len(handlingQueue) - 1)
        /\ \A k \in 1..(Len(handlingQueue) - 1) :
             handlingQueue'[k] = handlingQueue[k + 1]
    BY <1>2, HeadTailProperties, LenProperties DEF TypeOK
  <2>2. \A k \in 1..(Len(handlingQueue) - 1) : k + 1 \in DOMAIN handlingQueue
    BY <2>1
  <2> QED BY <2>1, <2>2 DEF NoTimeoutCallback
<1>3. ASSUME NEW b \in Block, b.op # "sendNext", handlingQueue # <<>>,
             handlingQueue' = <<b>> \o Tail(handlingQueue)
      PROVE  \A k \in DOMAIN handlingQueue' : handlingQueue'[k].op # "sendNext"
  <2> DEFINE n == Len(handlingQueue)
  <2>1. /\ DOMAIN handlingQueue = 1..n /\ n \in Nat \ {0}
        /\ Tail(handlingQueue) \in Seq(Block) /\ Len(Tail(handlingQueue)) = n - 1
        /\ \A k \in 1..(n - 1) : Tail(handlingQueue)[k] = handlingQueue[k + 1]
    BY <1>3, HeadTailProperties, LenProperties, EmptySeq DEF TypeOK
  <2>2. <<b>> \in Seq(Block) /\ Len(<<b>>) = 1 /\ <<b>>[1] = b
    OBVIOUS
  <2>3. /\ handlingQueue' \in Seq(Block) /\ Len(handlingQueue') = n
        /\ \A k \in 1..n : handlingQueue'[k] =
             IF k <= 1 THEN <<b>>[k] ELSE Tail(handlingQueue)[k - 1]
    BY <1>3, <2>1, <2>2, ConcatProperties
  <2> HIDE DEF n
  <2>4. ASSUME NEW k \in 1..n
        PROVE  handlingQueue'[k].op # "sendNext"
    <3>1. CASE k = 1
      BY <1>3, <2>1, <2>2, <2>3, <3>1
    <3>2. CASE k # 1
      <4>1. k - 1 \in 1..(n - 1) /\ (k - 1) + 1 = k /\ ~(k <= 1)
        BY <2>1, <3>2
      <4>2. Tail(handlingQueue)[k - 1] = handlingQueue[(k - 1) + 1]
        BY <2>1, <4>1
      <4>3. handlingQueue'[k] = handlingQueue[k]
        BY <2>3, <4>1, <4>2
      <4> QED BY <2>1, <4>3 DEF NoTimeoutCallback
    <3> QED BY <3>1, <3>2
  <2> QED BY <2>3, <2>4, LenProperties
<1>4. ASSUME UNCHANGED <<mainQueue, mainRunning>>,
             \A k \in DOMAIN handlingQueue' : handlingQueue'[k].op # "sendNext"
      PROVE  NoTimeoutCallback'
  BY <1>4 DEF NoTimeoutCallback
<1>5. ASSUME handlingQueue' = handlingQueue
      PROVE  \A k \in DOMAIN handlingQueue' : handlingQueue'[k].op # "sendNext"
  BY <1>5 DEF NoTimeoutCallback
<1>6. ASSUME NEW c \in Clients, NEW r \in Requests, SendRequest(c, r)
      PROVE  NoTimeoutCallback'
  <2>1. [op |-> "send", id |-> Len(sent) + 1, client |-> c] \in Block
    BY LenProperties DEF TypeOK, Block
  <2> QED BY <1>1, <1>4, <1>6, <2>1 DEF SendRequest
<1>7. ASSUME NEW c \in Clients,
             \/ \E r \in Requests : CancelQueuedRequest(c, r)
             \/ CancelAllQueuedRequests(c)
      PROVE  NoTimeoutCallback'
  <2>1. /\ \A r \in Requests : [op |-> "cancel", request |-> r] \in Block
        /\ [op |-> "cancelAll"] \in Block
    BY DEF Block
  <2> QED BY <1>1, <1>4, <1>7, <2>1
          DEF CancelQueuedRequest, CancelAllQueuedRequests, threadVars
<1>8. ASSUME NEW data \in Chunks, ReceiveData(data)
      PROVE  NoTimeoutCallback'
  <2>1. [op |-> "receive", data |-> data, begun |-> FALSE] \in Block
    BY DEF Block
  <2> QED BY <1>1, <1>4, <1>8, <2>1 DEF ReceiveData, threadVars
<1>9. CASE DispatchReset
  <2>1. [op |-> "reset"] \in Block
    BY DEF Block
  <2> QED BY <1>1, <1>4, <1>9, <2>1 DEF DispatchReset, threadVars
<1>10. CASE \/ \E c \in Clients : Open(c)
            \/ ReallyClosePort \/ MainRunsWasClosed \/ UNCHANGED vars
            \/ PendingRequestDidTimeout \/ ErrorReturns
  <2>1. handlingQueue' = handlingQueue /\ mainQueue' = mainQueue
    BY <1>10 DEF Open, ReallyClosePort, MainRunsWasClosed, vars, threadVars,
       PendingRequestDidTimeout, ErrorReturns
  <2>2. mainRunning' = mainRunning \/ mainRunning'.op = "closed"
    BY <1>10 DEF Open, ReallyClosePort, MainRunsWasClosed, ErrorReturns, vars, threadVars,
       PendingRequestDidTimeout
  <2> QED BY <1>5, <2>1, <2>2 DEF NoTimeoutCallback
<1>11. CASE RunSend \/ RunCancel \/ RunCancelAll \/ RunSendNext \/ RunReset
  <2>1. /\ handlingQueue # <<>> /\ handlingQueue' = Tail(handlingQueue)
        /\ UNCHANGED <<mainQueue, mainRunning>>
    BY <1>11 DEF RunSend, RunCancel, RunCancelAll, RunSendNext, RunReset, HeadIs,
       threadVars
  <2> QED BY <1>2, <1>4, <2>1
<1>12. CASE RunReceive
  <2>1. \A k \in DOMAIN handlingQueue' : handlingQueue'[k].op # "sendNext"
    BY <1>2, <1>3, <1>12, ReceiveGoesOn
  <2>2. \/ mainQueue' = mainQueue
        \/ mainQueue' = Append(mainQueue, [op |-> "response", id |-> pendingRequest])
    BY <1>12 DEF RunReceive, Answer, Report
  <2>3. \A k \in DOMAIN mainQueue' : mainQueue'[k].op # "timeout"
    <3>1. CASE mainQueue' = mainQueue
      BY <3>1 DEF NoTimeoutCallback
    <3>2. ASSUME NEW b \in MainBlock, b.op = "response",
                 mainQueue' = Append(mainQueue, b)
          PROVE  \A k \in DOMAIN mainQueue' : mainQueue'[k].op # "timeout"
      <4> DEFINE n == Len(mainQueue)
      <4>1. mainQueue \in Seq(MainBlock) /\ n \in Nat /\ DOMAIN mainQueue = 1..n
        BY LenProperties DEF TypeOK
      <4>2. /\ mainQueue' \in Seq(MainBlock) /\ Len(mainQueue') = n + 1
            /\ mainQueue'[n + 1] = b
            /\ \A k \in 1..n : mainQueue'[k] = mainQueue[k]
        BY <3>2, <4>1, AppendProperties
      <4>3. DOMAIN mainQueue' = 1..(n + 1)
        BY <4>2, LenProperties
      <4> QED BY <3>2, <4>1, <4>2, <4>3 DEF NoTimeoutCallback
    <3>3. [op |-> "response", id |-> pendingRequest] \in MainBlock
      BY DEF MainBlock, TypeOK
    <3> QED BY <2>2, <3>1, <3>2, <3>3
  <2>4. mainRunning' = mainRunning
    BY <1>12 DEF RunReceive
  <2> QED BY <2>1, <2>3, <2>4 DEF NoTimeoutCallback
<1>13. CASE MainRunsBlock
  <2>1. /\ mainQueue # <<>> /\ mainQueue' = Tail(mainQueue)
        /\ mainRunning' = Head(mainQueue) /\ handlingQueue' = handlingQueue
    BY <1>13 DEF MainRunsBlock
  <2>2. /\ DOMAIN mainQueue = 1..Len(mainQueue) /\ Len(mainQueue) \in Nat \ {0}
        /\ DOMAIN mainQueue' = 1..(Len(mainQueue) - 1)
        /\ \A k \in 1..(Len(mainQueue) - 1) : mainQueue'[k] = mainQueue[k + 1]
        /\ mainRunning' = mainQueue[1]
    BY <2>1, HeadTailProperties, LenProperties, EmptySeq DEF TypeOK
  <2>3. /\ 1 \in DOMAIN mainQueue
        /\ \A k \in DOMAIN mainQueue' : k + 1 \in DOMAIN mainQueue
    BY <2>2
  <2>4. mainRunning'.op # "timeout"
    BY <2>2, <2>3 DEF NoTimeoutCallback
  <2>5. \A k \in DOMAIN mainQueue' : mainQueue'[k].op # "timeout"
    BY <2>2, <2>3 DEF NoTimeoutCallback
  <2> QED BY <1>5, <2>1, <2>4, <2>5 DEF NoTimeoutCallback
<1>14. CASE MainReturns
  <2>1. handlingQueue' = handlingQueue
    BY <1>14 DEF MainReturns, AfterCallback, NoTimeoutCallback
  <2>2. mainQueue' = mainQueue /\ mainRunning'.op # "timeout"
    BY <1>14 DEF MainReturns, Idle
  <2> QED BY <1>5, <2>1, <2>2 DEF NoTimeoutCallback
<1> QED BY <1>6, <1>7, <1>8, <1>9, <1>10, <1>11, <1>12, <1>13, <1>14
        DEF Next, Client, HandlingStep, MainStep

-----------------------------------------------------------------------------
(* Every step moves the calls as CallsMove says, or makes a new one.       *)
LEMMA EveryStepMoves ==
  ASSUME ~HandlesTimeout, TypeOK, OrderInv, CallsInv, NoTimeoutCallback,
         [Next]_vars
  PROVE  \/ \E c \in Clients, r \in Requests : SendRequest(c, r)
         \/ CallsMove
<1>1. ASSUME NEW b \in Block, b.op # "send",
             handlingQueue' = Append(handlingQueue, b)
      PROVE  Accepting' = Accepting
  BY <1>1, AcceptingAppend
<1>2. ASSUME NEW op, op # "send", HeadIs(op), handlingQueue' = Tail(handlingQueue)
      PROVE  Accepting' = Accepting
  BY <1>2, AcceptingTail DEF HeadIs
<1>3. ASSUME Accepting' = Accepting, sent' = sent, UNCHANGED queueVars
      PROVE  CallsMove
  BY <1>3, NothingMoves DEF queueVars
<1>4. ASSUME NEW c \in Clients,
             \/ \E r \in Requests : CancelQueuedRequest(c, r)
             \/ CancelAllQueuedRequests(c)
      PROVE  CallsMove
  <2>1. /\ \A r \in Requests : [op |-> "cancel", request |-> r] \in Block
        /\ [op |-> "cancelAll"] \in Block
    BY DEF Block
  <2> QED BY <1>1, <1>3, <1>4, <2>1 DEF CancelQueuedRequest, CancelAllQueuedRequests
<1>5. ASSUME NEW data \in Chunks, ReceiveData(data)
      PROVE  CallsMove
  <2>1. [op |-> "receive", data |-> data, begun |-> FALSE] \in Block
    BY DEF Block
  <2> QED BY <1>1, <1>3, <1>5, <2>1 DEF ReceiveData
<1>6. CASE DispatchReset
  <2>1. [op |-> "reset"] \in Block
    BY DEF Block
  <2> QED BY <1>1, <1>3, <1>6, <2>1 DEF DispatchReset
<1>7. CASE \/ \E c \in Clients : Open(c)
           \/ ReallyClosePort \/ MainRunsBlock \/ MainRunsWasClosed
           \/ ErrorReturns \/ UNCHANGED vars
  <2>1. handlingQueue' = handlingQueue /\ UNCHANGED <<sent, queueVars>>
    BY <1>7 DEF Open, ReallyClosePort, MainRunsBlock, MainRunsWasClosed,
       ErrorReturns, vars
  <2> QED BY <1>3, <2>1, AcceptingSame
<1>8. CASE MainReturns
  <2>1. handlingQueue' = handlingQueue /\ UNCHANGED <<sent, queueVars>>
    BY <1>8 DEF MainReturns, AfterCallback, NoTimeoutCallback
  <2> QED BY <1>3, <2>1, AcceptingSame
<1>9. CASE RunSend
  BY <1>9, CallAccepted DEF RunSend
<1>10. CASE RunCancel
  <2>1. Accepting' = Accepting /\ sent' = sent /\ pendingRequest' = pendingRequest
    BY <1>2, <1>10 DEF RunCancel
  <2>2. CASE UNCHANGED <<requestsQueue, fate>>
    BY <2>1, <2>2, NothingMoves
  <2>3. ASSUME NEW i \in DOMAIN requestsQueue,
               requestsQueue' = RemoveAt(requestsQueue, i),
               fate' = Settle(fate, {requestsQueue[i]}, "cancelled")
        PROVE  CallsMove
    <3>1. IdsOf(requestsQueue)' = IdsOf(requestsQueue) \ {requestsQueue[i]}
      <4>1. IdsOf(requestsQueue)' = IdsOf(RemoveAt(requestsQueue, i))
        BY <2>3 DEF IdsOf
      <4>2. requestsQueue \in Seq(Ids) /\ Increasing(requestsQueue)
        BY DEF TypeOK, OrderInv, QueueSorted
      <4> QED BY <4>1, <4>2, IdsOfRemoved
    <3>2. {requestsQueue[i]} \subseteq IdsOf(requestsQueue)
      BY DEF IdsOf
    <3> QED BY <2>1, <2>3, <3>1, <3>2, CallsDropped
  <2> QED BY <1>10, <2>2, <2>3 DEF RunCancel
<1>11. CASE RunCancelAll \/ RunReset
  <2>1. Accepting' = Accepting /\ sent' = sent
    BY <1>2, <1>11 DEF RunCancelAll, RunReset
  <2>2. IdsOf(requestsQueue)' = {}
    BY <1>11, EmptySeq DEF RunCancelAll, RunReset, ForgetRequests, IdsOf
  <2>3. CASE RunCancelAll
    <3>1. /\ pendingRequest' = pendingRequest
          /\ fate' = Settle(fate, IdsOf(requestsQueue), "cancelled")
      BY <2>3 DEF RunCancelAll
    <3> QED BY <2>1, <2>2, <3>1, CallsDropped
  <2>4. CASE RunReset
    <3>1. /\ pendingRequest' = 0
          /\ fate' = Settle(fate, IdsOf(requestsQueue) \cup {pendingRequest},
                            "discarded")
      BY <2>4 DEF RunReset, ForgetRequests
    <3>2. IdsOf(requestsQueue)' = IdsOf(requestsQueue)
                                    \ (IdsOf(requestsQueue) \cup {pendingRequest})
      BY <2>2
    <3> QED BY <2>1, <3>1, <3>2, CallsDropped
  <2> QED BY <1>11, <2>3, <2>4
<1>12. CASE RunReceive
  <2>1. sent' = sent
    BY <1>12 DEF RunReceive
  <2>2. Accepting' = Accepting
    <3>1. /\ handlingQueue # <<>> /\ Head(handlingQueue).op = "receive"
          /\ \/ handlingQueue' = Tail(handlingQueue)
             \/ \E b \in Block : /\ b.op = "receive"
                                 /\ handlingQueue' = <<b>> \o Tail(handlingQueue)
      BY <1>12, ReceiveGoesOn
    <3>2. CASE handlingQueue' = Tail(handlingQueue)
      BY <1>2, <1>12, <3>2 DEF RunReceive
    <3>3. ASSUME NEW b \in Block, b.op = "receive",
                 handlingQueue' = <<b>> \o Tail(handlingQueue)
          PROVE  Accepting' = Accepting
      <4>1. b.op # "send" /\ Head(handlingQueue).op # "send"
        BY <3>1, <3>3
      <4> QED BY <3>1, <3>3, <4>1, AcceptingRest
    <3> QED BY <3>1, <3>2, <3>3
  <2>3. CASE UNCHANGED queueVars
    BY <1>3, <2>1, <2>2, <2>3
  <2>4. CASE Answer
    <3>1. SendFrom(requestsQueue, 0, Settle(fate, {pendingRequest}, "answered"))
      BY <2>4 DEF Answer
    <3> QED BY <2>1, <2>2, <3>1, QueueMovesOn
  <2> QED BY <1>12, <2>3, <2>4 DEF RunReceive
<1>13. CASE RunSendNext
  <2>1. 1 \in DOMAIN handlingQueue /\ Head(handlingQueue) = handlingQueue[1]
    BY <1>13, HeadTailProperties, LenProperties, EmptySeq DEF TypeOK, RunSendNext, HeadIs
  <2> QED BY <1>13, <2>1 DEF RunSendNext, HeadIs, NoTimeoutCallback
<1>14. CASE PendingRequestDidTimeout
  <2>1. Accepting' = Accepting /\ sent' = sent
    BY <1>14, AcceptingSame DEF PendingRequestDidTimeout
  <2>2. SendFrom(requestsQueue, 0, Settle(fate, {pendingRequest}, "timedOut"))
    BY <1>14 DEF PendingRequestDidTimeout
  <2> QED BY <2>1, <2>2, QueueMovesOn
<1> QED BY <1>4, <1>5, <1>6, <1>7, <1>8, <1>9, <1>10, <1>11, <1>12, <1>13, <1>14
        DEF Next, Client, HandlingStep, MainStep

(* What CallsMove says is enough to keep the calls apart and settled once. *)
LEMMA CallsInvStep ==
  ASSUME ~HandlesTimeout, TypeOK, OrderInv, CallsInv, NoTimeoutCallback,
         [Next]_vars
  PROVE  CallsInv'
<1>1. Waiting \subseteq DOMAIN sent
  BY WaitingCalls
<1>2. CASE CallsMove
  <2>1. PendingApart'
    BY <1>1, <1>2 DEF CallsMove, PendingApart, CallsInv
  <2>2. ASSUME NEW i \in DOMAIN sent
        PROVE  IF i \in Waiting' \cup {pendingRequest'} THEN fate'[i] = {}
               ELSE \E how \in Fates : fate'[i] = {how}
    <3>1. /\ Waiting' \subseteq Waiting
          /\ i = pendingRequest' => i = pendingRequest \/ i \in Waiting
      BY <1>2, LenProperties DEF CallsMove, TypeOK
    <3>2. CASE fate'[i] = fate[i] /\ i \in Waiting' \cup {pendingRequest'}
      BY <3>1, <3>2 DEF CallsInv, SettledOnce
    <3>3. CASE fate'[i] = fate[i] /\ i \notin Waiting \cup {pendingRequest}
      BY <3>1, <3>3 DEF CallsInv, SettledOnce
    <3>4. ASSUME NEW how \in Fates, fate'[i] = fate[i] \cup {how},
                 i \in Waiting \cup {pendingRequest},
                 i \notin Waiting' \cup {pendingRequest'}
          PROVE  IF i \in Waiting' \cup {pendingRequest'} THEN fate'[i] = {}
                 ELSE \E h \in Fates : fate'[i] = {h}
      BY <3>4 DEF CallsInv, SettledOnce
    <3>5. i = pendingRequest => i \notin Waiting'
      BY <3>1 DEF CallsInv, PendingApart
    <3> QED BY <1>2, <3>2, <3>3, <3>4, <3>5 DEF CallsMove, Fates
  <2>3. SettledOnce'
    BY <1>2, <2>2 DEF CallsMove, SettledOnce
  <2> QED BY <2>1, <2>3 DEF CallsInv
<1>3. ASSUME NEW c \in Clients, NEW r \in Requests, SendRequest(c, r)
      PROVE  CallsInv'
  <2> DEFINE n == Len(sent) + 1
  <2>1. /\ DOMAIN sent' = DOMAIN sent \cup {n} /\ n \notin DOMAIN sent
        /\ \A i \in DOMAIN sent : fate'[i] = fate[i]
        /\ fate'[n] = {}
        /\ Waiting' = Waiting \cup {n}
        /\ pendingRequest' = pendingRequest
    BY <1>3, CallMade
  <2>2. n # 0
    BY LenProperties DEF TypeOK
  <2> HIDE DEF n
  <2>3. PendingApart'
    BY <2>1, <2>2 DEF CallsInv, PendingApart
  <2>4. SettledOnce'
    BY <2>1 DEF CallsInv, SettledOnce
  <2> QED BY <2>3, <2>4 DEF CallsInv
<1> QED BY <1>2, <1>3, EveryStepMoves

-----------------------------------------------------------------------------
(* The timer is left alone, or armed for a call that is sent: the pending  *)
(* one, or one that needs no response.                                     *)
LEMMA SendFromTimer ==
  ASSUME NEW q \in Seq(Ids), NEW timer, NEW f, SendFrom(q, timer, f)
  PROVE  \/ timeoutTimer' = timer
         \/ /\ timeoutTimer' \in IdsOf(q)
            /\ \/ timeoutTimer' = pendingRequest'
               \/ sent[timeoutTimer'] \notin Expects
<1>1. PICK n \in 0..Len(q), written \in BOOLEAN :
        /\ \A i \in 1..n : sent[q[i]] \notin Expects
        /\ pendingRequest' = IF n = Len(q) THEN 0 ELSE q[n + 1]
        /\ ArmTimer(q, n + 1, timer)
  BY DEF SendFrom
<1>2. DOMAIN q = 1..Len(q) /\ Len(q) \in Nat
  BY LenProperties
<1>3. n \in Nat /\ n <= Len(q) /\ Len(q) \in Nat
  BY <1>2
<1>4. ASSUME NEW i \in 1..Len(q), i <= n + 1, timeoutTimer' = q[i]
      PROVE  /\ timeoutTimer' \in IdsOf(q)
             /\ \/ timeoutTimer' = pendingRequest'
                \/ sent[timeoutTimer'] \notin Expects
  <2>1. timeoutTimer' \in IdsOf(q)
    BY <1>2, <1>4 DEF IdsOf
  <2>2. CASE i = n + 1
    <3>1. n # Len(q)
      BY <1>3, <2>2
    <3> QED BY <1>1, <1>4, <2>1, <2>2, <3>1
  <2>3. CASE i # n + 1
    <3>1. i \in 1..n
      BY <1>3, <1>4, <2>3
    <3> QED BY <1>1, <1>4, <2>1, <3>1
  <2> QED BY <2>2, <2>3
<1> QED BY <1>1, <1>2, <1>4 DEF ArmTimer

(* Nothing is ever taken back from the record of a call.                   *)
LEMMA FateGrows ==
  ASSUME ~HandlesTimeout, TypeOK, OrderInv, CallsInv, NoTimeoutCallback,
         [Next]_vars, NEW i \in DOMAIN sent
  PROVE  i \in DOMAIN sent' /\ sent'[i] = sent[i] /\ fate[i] \subseteq fate'[i]
<1>1. CASE CallsMove
  BY <1>1 DEF CallsMove
<1>2. CASE \E c \in Clients, r \in Requests : SendRequest(c, r)
  BY <1>2, CallMade
<1> QED BY <1>1, <1>2, EveryStepMoves

(* The timer that stays armed after its call left is one of a call that    *)
(* needs no response, or that a close discarded.                           *)
LEMMA TimerStep ==
  ASSUME ~HandlesTimeout, TypeOK, OrderInv, CallsInv, NoTimeoutCallback,
         TimerWasArmed, TimerIsPending, [Next]_vars
  PROVE  TimerWasArmed' /\ TimerIsPending'
<1>1. \A i \in DOMAIN sent : /\ i \in DOMAIN sent' /\ sent'[i] = sent[i]
                             /\ fate[i] \subseteq fate'[i]
  BY FateGrows
<1>2. ASSUME timeoutTimer' = 0
      PROVE  TimerWasArmed' /\ TimerIsPending'
  BY <1>2 DEF TimerWasArmed, TimerIsPending
<1>3. ASSUME timeoutTimer' = timeoutTimer,
             \/ pendingRequest' = pendingRequest
             \/ pendingRequest = 0
             \/ "discarded" \in fate'[pendingRequest]
      PROVE  TimerWasArmed' /\ TimerIsPending'
  <2>1. TimerWasArmed'
    BY <1>1, <1>3 DEF TimerWasArmed
  <2>2. CASE timeoutTimer = 0
    BY <1>2, <1>3, <2>2
  <2>3. CASE timeoutTimer # 0
    <3>1. /\ timeoutTimer \in DOMAIN sent
          /\ sent'[timeoutTimer'] = sent[timeoutTimer]
          /\ fate[timeoutTimer] \subseteq fate'[timeoutTimer']
      BY <1>1, <1>3, <2>3 DEF TimerWasArmed
    <3> QED BY <1>3, <2>1, <2>3, <3>1 DEF TimerIsPending
  <2> QED BY <2>2, <2>3
<1>4. ASSUME NEW q \in Seq(Ids), IdsOf(q) \subseteq Waiting, NEW f,
             NEW timer, SendFrom(q, timer, f), sent' = sent,
             \/ timer = 0
             \/ timer = timeoutTimer /\ pendingRequest = 0
      PROVE  TimerWasArmed' /\ TimerIsPending'
  <2>1. CASE timeoutTimer' = timer
    BY <1>2, <1>3, <1>4, <2>1
  <2>2. CASE /\ timeoutTimer' \in IdsOf(q)
             /\ \/ timeoutTimer' = pendingRequest'
                \/ sent[timeoutTimer'] \notin Expects
    <3>1. timeoutTimer' \in DOMAIN sent'
      BY <1>4, <2>2, WaitingCalls
    <3> QED BY <1>4, <2>2, <3>1 DEF TimerWasArmed, TimerIsPending
  <2> QED BY <1>4, <2>1, <2>2, SendFromTimer
<1>5. requestsQueue \in Seq(Ids) /\ IdsOf(requestsQueue) \subseteq Waiting
  BY DEF TypeOK, Waiting
<1>6. CASE \E c \in Clients : Client(c)
  BY <1>3, <1>6 DEF Client, SendRequest, CancelQueuedRequest,
     CancelAllQueuedRequests, Open, queueVars
<1>7. CASE \/ \E data \in Chunks : ReceiveData(data)
           \/ ReallyClosePort \/ DispatchReset \/ MainStep \/ UNCHANGED vars
           \/ RunCancel \/ RunCancelAll
  <2>1. UNCHANGED <<timeoutTimer, pendingRequest>>
    BY <1>7 DEF ReceiveData, ReallyClosePort, DispatchReset, MainStep,
       MainRunsBlock, MainRunsWasClosed, MainReturns, ErrorReturns, RunCancel,
       RunCancelAll, vars, queueVars
  <2> QED BY <1>3, <2>1
<1>8. CASE RunReset
  <2>1. UNCHANGED timeoutTimer
    BY <1>8 DEF RunReset
  <2>2. CASE pendingRequest = 0
    BY <1>3, <2>1, <2>2
  <2>3. CASE pendingRequest # 0
    <3>1. pendingRequest \in DOMAIN fate
      BY <2>3, SameCalls DEF CallsInv, PendingApart
    <3>2. "discarded" \in fate'[pendingRequest]
      BY <1>8, <3>1 DEF RunReset, Settle
    <3> QED BY <1>3, <2>1, <3>2
  <2> QED BY <2>2, <2>3
<1>9. CASE RunSend
  <2> DEFINE id == Head(handlingQueue).id
  <2>1. ReallySendRequest(id) /\ sent' = sent
    BY <1>9 DEF RunSend
  <2>2. id \in Ids /\ id \in Waiting
    BY <1>9, AcceptingFirst DEF RunSend, Waiting
  <2> HIDE DEF id
  <2>3. CASE /\ pendingRequest = 0
             /\ SendFrom(<<id>> \o requestsQueue, timeoutTimer, fate)
    <3>1. <<id>> \o requestsQueue = <<id>>
      BY <2>2, <2>3 DEF OrderInv, IdleMeansEmpty
    <3>2. <<id>> \in Seq(Ids) /\ IdsOf(<<id>>) \subseteq Waiting
      BY <2>2 DEF IdsOf
    <3> QED BY <1>4, <2>1, <2>3, <3>1, <3>2
  <2>4. CASE UNCHANGED <<pendingRequest, timeoutTimer>>
    BY <1>3, <2>4
  <2> QED BY <2>1, <2>3, <2>4 DEF ReallySendRequest
<1>10. CASE RunReceive
  <2>1. CASE UNCHANGED <<queueVars, mainQueue>>
    BY <1>3, <2>1 DEF queueVars
  <2>2. CASE Answer
    <3>1. /\ sent' = sent
          /\ SendFrom(requestsQueue, 0, Settle(fate, {pendingRequest}, "answered"))
      BY <1>10, <2>2 DEF Answer, RunReceive
    <3> DEFINE f == Settle(fate, {pendingRequest}, "answered")
    <3>2. SendFrom(requestsQueue, 0, f)
      BY <3>1
    <3> HIDE DEF f
    <3> QED BY <1>4, <1>5, <3>1, <3>2
  <2> QED BY <1>10, <2>1, <2>2 DEF RunReceive
<1>11. CASE RunSendNext
  <2>1. 1 \in DOMAIN handlingQueue /\ Head(handlingQueue) = handlingQueue[1]
    BY <1>11, HeadTailProperties, LenProperties, EmptySeq DEF TypeOK, RunSendNext, HeadIs
  <2> QED BY <1>11, <2>1 DEF RunSendNext, HeadIs, NoTimeoutCallback
<1>12. CASE PendingRequestDidTimeout
  <2>1. /\ sent' = sent
        /\ SendFrom(requestsQueue, 0, Settle(fate, {pendingRequest}, "timedOut"))
    BY <1>12 DEF PendingRequestDidTimeout
  <2> DEFINE f == Settle(fate, {pendingRequest}, "timedOut")
  <2>2. SendFrom(requestsQueue, 0, f)
    BY <2>1
  <2> HIDE DEF f
  <2> QED BY <1>4, <1>5, <2>1, <2>2
<1> QED BY <1>6, <1>7, <1>8, <1>9, <1>10, <1>11, <1>12 DEF Next, HandlingStep

-----------------------------------------------------------------------------
(* The inductive invariant of the queue without the callback.              *)
ServiceInv == NoTimeoutCallback /\ CallsInv /\ TimerWasArmed /\ TimerIsPending

(* Without requestDidTimeout: the inductive invariant holds in every       *)
(* reachable state.                                                        *)
THEOREM ServiceInvCorrect ==
  ASSUME ~HandlesTimeout
  PROVE  Spec => []ServiceInv
<1>1. Init => ServiceInv
  <2> SUFFICES ASSUME Init PROVE ServiceInv
    OBVIOUS
  <2>1. /\ DOMAIN sent = {} /\ DOMAIN requestsQueue = {}
        /\ DOMAIN handlingQueue = {} /\ DOMAIN mainQueue = {}
    BY EmptySeq DEF Init
  <2>2. NoTimeoutCallback
    BY <2>1 DEF Init, NoTimeoutCallback, Idle
  <2>3. Waiting = {}
    BY <2>1 DEF Waiting, Accepting, SendBlocks, IdsOf
  <2>4. PendingApart /\ SettledOnce /\ TimerWasArmed /\ TimerIsPending
    BY <2>1, <2>3 DEF Init, PendingApart, SettledOnce, TimerWasArmed, TimerIsPending
  <2> QED BY <2>2, <2>4 DEF ServiceInv, CallsInv
<1>2. TypeOK /\ OrderInv /\ ServiceInv /\ [Next]_vars => ServiceInv'
  BY NoCallbackStep, CallsInvStep, TimerStep DEF ServiceInv
<1> QED BY <1>1, <1>2, TypeCorrect, OrderCorrect, PTL DEF Spec

(* Every call of sendRequest: is in exactly one place: being accepted,     *)
(* queued, pending, or settled in exactly one way.                         *)
THEOREM CallsAccounted ==
  ASSUME ~HandlesTimeout
  PROVE  Spec => []EveryCallAccounted
<1>1. TypeOK /\ OrderInv /\ ServiceInv => EveryCallAccounted
  <2> SUFFICES ASSUME TypeOK, OrderInv, ServiceInv, NEW i \in DOMAIN sent
               PROVE  LET places == {p \in {"accepting", "queued", "pending"} :
                             \/ p = "accepting" /\ i \in Accepting
                             \/ p = "queued" /\ i \in IdsOf(requestsQueue)
                             \/ p = "pending" /\ i = pendingRequest}
                      IN  \E x \in places \cup fate[i] : places \cup fate[i] = {x}
    BY DEF EveryCallAccounted
  <2>1. IdsOf(requestsQueue) \cap Accepting = {}
    <3>1. \A k \in IdsOf(requestsQueue), j \in Accepting : k < j /\ k \in Nat
      BY WaitingCalls DEF Waiting
    <3> QED BY <3>1
  <2>2. /\ pendingRequest \notin Waiting
        /\ IF i \in Waiting \cup {pendingRequest} THEN fate[i] = {}
           ELSE \E how \in Fates : fate[i] = {how}
    BY DEF ServiceInv, CallsInv, PendingApart, SettledOnce
  <2>3. CASE i = pendingRequest
    BY <2>2, <2>3 DEF Waiting
  <2>4. CASE i \in Accepting
    BY <2>1, <2>2, <2>4 DEF Waiting
  <2>5. CASE i \in IdsOf(requestsQueue)
    BY <2>1, <2>2, <2>5 DEF Waiting
  <2>6. CASE i \notin Waiting \cup {pendingRequest}
    BY <2>2, <2>6 DEF Waiting
  <2> QED BY <2>3, <2>4, <2>5, <2>6 DEF Waiting
<1> QED BY <1>1, ServiceInvCorrect, TypeCorrect, OrderCorrect, PTL

(* The armed timer is the pending call's own, but for calls that need no   *)
(* response and those a close discarded.                                   *)
THEOREM TimerCorrect ==
  ASSUME ~HandlesTimeout
  PROVE  Spec => []TimerIsPending
<1>1. ServiceInv => TimerIsPending
  BY DEF ServiceInv
<1> QED BY <1>1, ServiceInvCorrect, TypeCorrect, OrderCorrect, PTL

(* What was written before the pending call has been settled: the late     *)
(* response that breaks this promise needs the requestDidTimeout: hop.     *)
THEOREM PreviousSettled ==
  ASSUME ~HandlesTimeout
  PROVE  Spec => []SentAfterPreviousSettled
<1>1. TypeOK /\ OrderInv /\ ServiceInv => SentAfterPreviousSettled
  <2> SUFFICES ASSUME TypeOK, OrderInv, ServiceInv,
                      NEW i \in IdsOf(wire), i # pendingRequest
               PROVE  fate[i] # {}
    BY DEF SentAfterPreviousSettled
  <2>1. i \in DOMAIN sent
    <3>1. /\ \A k \in DOMAIN wire : wire[k] \in Nat \ {0}
          /\ Len(sent) \in Nat /\ DOMAIN sent = 1..Len(sent)
      BY ElementOfSeq, LenProperties DEF TypeOK
    <3>2. \A k \in DOMAIN wire : wire[k] < Len(sent) + 1
      BY DEF OrderInv, Ahead, Below
    <3> QED BY <3>1, <3>2 DEF IdsOf
  <2>2. i \notin Waiting
    BY WaitingCalls
  <2> QED BY <2>1, <2>2 DEF ServiceInv, CallsInv, SettledOnce
<1> QED BY <1>1, ServiceInvCorrect, TypeCorrect, OrderCorrect, PTL

-----------------------------------------------------------------------------
(* The status of a call says where it is.                                  *)
LEMMA StatusIs ==
  ASSUME CallsInv, NEW i \in DOMAIN sent
  PROVE  /\ i \in Waiting => StatusOf(i) = "waiting"
         /\ i = pendingRequest => StatusOf(i) = "pending"
         /\ \A how : fate[i] = {how} => StatusOf(i) = how
         /\ StatusOf(i) \in Service!Statuses
<1>1. i \in Waiting => fate[i] = {} /\ i # pendingRequest
  BY DEF CallsInv, PendingApart, SettledOnce
<1>2. i = pendingRequest => fate[i] = {}
  BY DEF CallsInv, SettledOnce
<1>3. ASSUME NEW how, fate[i] = {how}
      PROVE  StatusOf(i) = how
  BY <1>3 DEF StatusOf
<1>4. fate[i] = {} => StatusOf(i) \in {"waiting", "pending"}
  BY DEF StatusOf
<1>5. fate[i] = {} \/ \E how \in Fates : fate[i] = {how}
  BY DEF CallsInv, SettledOnce
<1>6. StatusOf(i) \in Service!Statuses
  BY <1>3, <1>4, <1>5 DEF Service!Statuses, Service!Settled, Fates
<1> QED BY <1>1, <1>2, <1>3, <1>6 DEF StatusOf

(* The same of the state after a step.                                     *)
LEMMA StatusIsNext ==
  ASSUME CallsInv', NEW i \in DOMAIN sent'
  PROVE  /\ i \in Waiting' => StatusOf(i)' = "waiting"
         /\ i = pendingRequest' => StatusOf(i)' = "pending"
         /\ \A how : fate'[i] = {how} => StatusOf(i)' = how
         /\ StatusOf(i)' \in Service!Statuses
<1>1. i \in Waiting' => fate'[i] = {} /\ i # pendingRequest'
  BY DEF CallsInv, PendingApart, SettledOnce
<1>2. i = pendingRequest' => fate'[i] = {}
  BY DEF CallsInv, SettledOnce
<1>3. ASSUME NEW how, fate'[i] = {how}
      PROVE  StatusOf(i)' = how
  BY <1>3 DEF StatusOf
<1>4. fate'[i] = {} => StatusOf(i)' \in {"waiting", "pending"}
  BY DEF StatusOf
<1>5. fate'[i] = {} \/ \E how \in Fates : fate'[i] = {how}
  BY DEF CallsInv, SettledOnce
<1>6. StatusOf(i)' \in Service!Statuses
  BY <1>3, <1>4, <1>5 DEF Service!Statuses, Service!Settled, Fates
<1> QED BY <1>1, <1>2, <1>3, <1>6 DEF StatusOf

(* A new call waits.                                                       *)
LEMMA CallMadeAccepts ==
  ASSUME TypeOK, OrderInv, CallsInv, CallsInv',
         NEW c \in Clients, NEW r \in Requests, SendRequest(c, r)
  PROVE  Service!Accept
<1> DEFINE st == [i \in DOMAIN sent |-> StatusOf(i)]
<1>1. PICK n \in Nat : n = Len(sent)
  BY LenProperties DEF TypeOK
<1>2. /\ DOMAIN sent = 1..n /\ n \in Nat /\ DOMAIN sent' = 1..(n + 1)
      /\ \A i \in 1..n : i \in 1..(n + 1) /\ i # n + 1
      /\ \A i \in 1..(n + 1) : i \in 1..n \/ i = n + 1
      /\ n + 1 \in 1..(n + 1)
  <2>1. DOMAIN sent = 1..n /\ n \in Nat /\ DOMAIN sent' = 1..(n + 1)
    BY <1>1, LenProperties, AppendProperties DEF TypeOK, SendRequest
  <2> QED BY <2>1
<1>3. /\ \A i \in DOMAIN sent : fate'[i] = fate[i]
      /\ Waiting' = Waiting \cup {n + 1}
      /\ pendingRequest' = pendingRequest
  BY <1>1, CallMade
<1>4. \A i \in DOMAIN sent : StatusOf(i)' = StatusOf(i)
  <2> SUFFICES ASSUME NEW i \in DOMAIN sent
               PROVE  StatusOf(i)' = StatusOf(i)
    OBVIOUS
  <2>1. fate'[i] = fate[i] /\ pendingRequest' = pendingRequest
    BY <1>3
  <2> QED BY <2>1 DEF StatusOf
<1>5. StatusOf(n + 1)' = "waiting"
  <2>1. n + 1 \in DOMAIN sent' /\ n + 1 \in Waiting'
    BY <1>2, <1>3
  <2> QED BY <2>1, StatusIsNext
<1>6. st \in Seq(Service!Statuses) /\ Len(st) = n
  BY <1>2, StatusIs, IsASeq
<1>7. /\ Append(st, "waiting") \in Seq(Service!Statuses \cup {"waiting"})
      /\ DOMAIN Append(st, "waiting") = 1..(n + 1)
      /\ \A i \in 1..n : Append(st, "waiting")[i] = StatusOf(i)
      /\ Append(st, "waiting")[n + 1] = "waiting"
  BY <1>2, <1>6, AppendProperties, LenProperties
<1>8. st' = Append(st, "waiting")
  <2>1. st' = [i \in 1..(n + 1) |-> StatusOf(i)']
    BY <1>2
  <2>2. \A i \in 1..(n + 1) : Append(st, "waiting")[i] = StatusOf(i)'
    <3> SUFFICES ASSUME NEW i \in 1..(n + 1)
                 PROVE  Append(st, "waiting")[i] = StatusOf(i)'
      OBVIOUS
    <3>1. CASE i \in 1..n
      <4>1. Append(st, "waiting")[i] = StatusOf(i) /\ i \in DOMAIN sent
        BY <1>2, <1>7, <3>1
      <4> QED BY <1>4, <4>1
    <3>2. CASE i = n + 1
      BY <1>5, <1>7, <3>2
    <3> QED BY <1>2, <3>1, <3>2
  <2>3. Append(st, "waiting")
          = [i \in 1..(n + 1) |-> Append(st, "waiting")[i]]
    BY <1>6, <1>7, AppendProperties
  <2> QED BY <2>1, <2>2, <2>3
<1> QED BY <1>8 DEF Service!Accept

(* What CallsMove allows, the service allows.                              *)
LEMMA CallsMoveProgress ==
  ASSUME TypeOK, OrderInv, CallsInv, CallsInv', CallsMove
  PROVE  Service!Progress
<1> DEFINE st == [i \in DOMAIN sent |-> StatusOf(i)]
<1>1. DOMAIN sent' = DOMAIN sent /\ DOMAIN sent = 1..Len(sent) /\ Len(sent) \in Nat
  BY LenProperties DEF CallsMove, TypeOK
<1>2. /\ \A i \in DOMAIN sent : st[i] = StatusOf(i) /\ st'[i] = StatusOf(i)'
      /\ DOMAIN st = DOMAIN sent /\ DOMAIN st' = DOMAIN sent
  BY <1>1
<1> HIDE DEF st
<1>3. /\ Waiting \subseteq DOMAIN sent /\ 0 \notin DOMAIN sent
      /\ Waiting \subseteq Nat \ {0}
  BY <1>1, WaitingCalls
<1>4. pendingRequest \notin Waiting /\ pendingRequest' \notin Waiting'
  BY DEF CallsInv, PendingApart
<1>5. ASSUME NEW i \in DOMAIN sent
      PROVE  \/ /\ i \in Waiting' /\ i \in Waiting
                /\ st[i] = "waiting" /\ st'[i] = "waiting"
             \/ /\ i \in Waiting /\ i = pendingRequest'
                /\ st[i] = "waiting" /\ st'[i] = "pending"
             \/ /\ i = pendingRequest /\ i = pendingRequest'
                /\ st[i] = "pending" /\ st'[i] = "pending"
             \/ /\ i \notin Waiting \cup {pendingRequest}
                /\ st[i] \in Fates /\ st'[i] = st[i]
             \/ /\ i \in Waiting /\ i \notin Waiting' \cup {pendingRequest'}
                /\ st[i] = "waiting"
                /\ st'[i] \in {"noReply", "cancelled", "discarded"}
                /\ fate'[i] = {st'[i]}
             \/ /\ i = pendingRequest /\ i # pendingRequest'
                /\ st[i] = "pending"
                /\ st'[i] \in {"answered", "timedOut", "discarded"}
  <2>1. /\ i \in Waiting => st[i] = "waiting" /\ fate[i] = {}
        /\ i = pendingRequest => st[i] = "pending" /\ fate[i] = {}
        /\ \A how : fate[i] = {how} => st[i] = how
    BY <1>2, StatusIs DEF CallsInv, SettledOnce
  <2>2. /\ i \in Waiting' => st'[i] = "waiting"
        /\ i = pendingRequest' => st'[i] = "pending"
        /\ \A how : fate'[i] = {how} => st'[i] = how
    BY <1>1, <1>2, StatusIsNext
  <2>3. Waiting' \subseteq Waiting
    BY DEF CallsMove
  <2>4. i = pendingRequest' => i = pendingRequest \/ i \in Waiting
    BY <1>3 DEF CallsMove
  <2>5. CASE i \in Waiting'
    BY <2>1, <2>2, <2>3, <2>5
  <2>6. CASE i = pendingRequest'
    BY <2>1, <2>2, <2>4, <2>6
  <2>7. CASE i \notin Waiting \cup {pendingRequest}
    <3>1. PICK how \in Fates : fate[i] = {how}
      BY <2>7 DEF CallsInv, SettledOnce
    <3>2. fate'[i] = fate[i]
      BY <2>7 DEF CallsMove
    <3> QED BY <2>1, <2>2, <2>7, <3>1, <3>2
  <2>8. CASE i \in Waiting /\ i \notin Waiting' \cup {pendingRequest'}
    <3>1. PICK how \in {"noReply", "cancelled", "discarded"} :
            fate'[i] = fate[i] \cup {how}
      BY <1>4, <2>8 DEF CallsMove
    <3>2. fate'[i] = {how}
      BY <2>1, <2>8, <3>1
    <3> QED BY <2>1, <2>2, <2>8, <3>1, <3>2
  <2>9. CASE i = pendingRequest /\ i # pendingRequest'
    <3>1. PICK how \in {"answered", "timedOut", "discarded"} :
            fate'[i] = fate[i] \cup {how}
      BY <1>4, <2>3, <2>9 DEF CallsMove
    <3>2. fate'[i] = {how}
      BY <2>1, <2>9, <3>1
    <3> QED BY <2>1, <2>2, <2>9, <3>1, <3>2
  <2> QED BY <2>5, <2>6, <2>7, <2>8, <2>9
<1>6. st' \in Seq(Service!Statuses) /\ DOMAIN st' = DOMAIN st
  <2>1. \A i \in DOMAIN sent : StatusOf(i)' \in Service!Statuses
    BY <1>1, StatusIsNext
  <2>2. st' = [i \in 1..Len(sent) |-> StatusOf(i)']
    BY <1>1 DEF st
  <2> QED BY <1>1, <1>2, <2>1, <2>2, IsASeq
<1>7. \A i \in DOMAIN st : <<st[i], st'[i]>> \in Service!Moves
  <2> SUFFICES ASSUME NEW i \in DOMAIN sent
               PROVE  <<st[i], st'[i]>> \in Service!Moves
    BY <1>2
  <2> QED BY <1>5 DEF Service!Moves, Service!Statuses, Service!Settled, Fates
<1>8. \A i \in DOMAIN sent : st'[i] = "pending" => i = pendingRequest'
  BY <1>5 DEF Fates
<1>9. ASSUME NEW j \in DOMAIN sent, st[j] = "waiting", st'[j] \in {"pending", "noReply"}
      PROVE  /\ \A i \in DOMAIN sent : st'[i] = "waiting" => j < i
             /\ pendingRequest = 0 \/ pendingRequest' # pendingRequest
  <2>1. j \in Waiting /\ Begins(j)
    <3>1. \/ j \in Waiting /\ j = pendingRequest'
          \/ j \in Waiting /\ fate'[j] = {"noReply"}
      BY <1>5, <1>9 DEF Fates
    <3> QED BY <3>1 DEF Begins
  <2>2. /\ \A i \in Waiting' : j < i
        /\ pendingRequest = 0 \/ pendingRequest' # pendingRequest
    BY <2>1 DEF CallsMove
  <2>3. \A i \in DOMAIN sent : st'[i] = "waiting" => i \in Waiting'
    BY <1>5 DEF Fates
  <2> QED BY <2>2, <2>3
<1>10. \A i, j \in DOMAIN st : i < j /\ Service!Starts(j) => st'[i] # "waiting"
  <2> SUFFICES ASSUME NEW i \in DOMAIN sent, NEW j \in DOMAIN sent, i < j,
                      st[j] = "waiting", st'[j] \in {"pending", "noReply"},
                      st'[i] = "waiting"
               PROVE  FALSE
    BY <1>2 DEF Service!Starts, Service!Started, st
  <2>1. j < i /\ i \in Nat /\ j \in Nat
    BY <1>1, <1>9
  <2> QED BY <2>1
<1>11. \A i, j \in DOMAIN st :
         Service!Starts(j) => ~(st[i] = "pending" /\ st'[i] = "pending")
  <2> SUFFICES ASSUME NEW i \in DOMAIN sent, NEW j \in DOMAIN sent,
                      st[j] = "waiting", st'[j] \in {"pending", "noReply"},
                      st[i] = "pending", st'[i] = "pending"
               PROVE  FALSE
    BY <1>2 DEF Service!Starts, Service!Started, st
  <2>1. i = pendingRequest /\ i = pendingRequest' /\ i # 0
    BY <1>3, <1>5 DEF Fates
  <2> QED BY <1>9, <2>1
<1> QED BY <1>2, <1>6, <1>7, <1>8, <1>10, <1>11 DEF Service!Progress, st

(* Without requestDidTimeout: the queue, the timer and the threads are the *)
(* service that the header promises.                                       *)
THEOREM Refinement ==
  ASSUME ~HandlesTimeout
  PROVE  Spec => ImplementsService
<1>1. Init => Service!Init
  <2> SUFFICES ASSUME Init PROVE [i \in DOMAIN sent |-> StatusOf(i)] = <<>>
    BY DEF Service!Init
  <2>1. sent = <<>>
    BY DEF Init
  <2> QED BY <2>1, EmptySeq
<1>2. /\ TypeOK /\ OrderInv /\ ServiceInv /\ ServiceInv' /\ [Next]_vars
      => [Service!Accept \/ Service!Progress]_[i \in DOMAIN sent |-> StatusOf(i)]
  BY EveryStepMoves, CallMadeAccepts, CallsMoveProgress DEF ServiceInv
<1> QED BY <1>1, <1>2, TypeCorrect, OrderCorrect, ServiceInvCorrect, PTL
        DEF Spec, ImplementsService, Service!Spec


-----------------------------------------------------------------------------
(* A reset block stays in its queue until RunReset takes it from the head. *)
LEMMA ResetStays ==
  ASSUME TypeOK, [Next]_vars, ~RunReset,
         NEW i \in DOMAIN handlingQueue, handlingQueue[i].op = "reset"
  PROVE  \E k \in DOMAIN handlingQueue' : handlingQueue'[k].op = "reset"
<1> DEFINE n == Len(handlingQueue)
<1>1. /\ DOMAIN handlingQueue = 1..n /\ n \in Nat /\ i \in 1..n
      /\ handlingQueue # <<>>
  BY LenProperties, EmptySeq DEF TypeOK
<1>2. /\ Tail(handlingQueue) \in Seq(Block) /\ Len(Tail(handlingQueue)) = n - 1
      /\ \A k \in 1..(n - 1) : Tail(handlingQueue)[k] = handlingQueue[k + 1]
      /\ Head(handlingQueue) = handlingQueue[1]
  BY <1>1, HeadTailProperties DEF TypeOK
<1>3. ASSUME NEW b \in Block, handlingQueue' = Append(handlingQueue, b)
      PROVE  \E k \in DOMAIN handlingQueue' : handlingQueue'[k].op = "reset"
  <2>1. i \in DOMAIN handlingQueue' /\ handlingQueue'[i] = handlingQueue[i]
    BY <1>1, <1>3, AppendProperties, LenProperties DEF TypeOK
  <2> QED BY <2>1
<1>4. ASSUME i # 1, handlingQueue' = Tail(handlingQueue)
      PROVE  \E k \in DOMAIN handlingQueue' : handlingQueue'[k].op = "reset"
  <2>1. DOMAIN handlingQueue' = 1..(n - 1)
    BY <1>2, <1>4, LenProperties
  <2>2. i - 1 \in 1..(n - 1) /\ (i - 1) + 1 = i
    BY <1>1, <1>4
  <2>3. handlingQueue'[i - 1] = handlingQueue[i]
    BY <1>2, <1>4, <2>2
  <2> QED BY <2>1, <2>2, <2>3
<1>5. ASSUME i # 1, NEW b \in Block,
             handlingQueue' = <<b>> \o Tail(handlingQueue)
      PROVE  \E k \in DOMAIN handlingQueue' : handlingQueue'[k].op = "reset"
  <2>1. <<b>> \in Seq(Block) /\ Len(<<b>>) = 1
    OBVIOUS
  <2>2. /\ handlingQueue' \in Seq(Block) /\ Len(handlingQueue') = 1 + (n - 1)
        /\ \A k \in 1..(1 + (n - 1)) : handlingQueue'[k] =
             IF k <= 1 THEN <<b>>[k] ELSE Tail(handlingQueue)[k - 1]
    BY <1>2, <1>5, <2>1, ConcatProperties
  <2>3. /\ i \in 1..(1 + (n - 1)) /\ ~(i <= 1)
        /\ i - 1 \in 1..(n - 1) /\ (i - 1) + 1 = i
    BY <1>1, <1>5
  <2>4. handlingQueue'[i] = Tail(handlingQueue)[i - 1]
    BY <2>2, <2>3
  <2>5. handlingQueue'[i] = handlingQueue[i]
    BY <1>2, <2>3, <2>4
  <2>6. i \in DOMAIN handlingQueue'
    BY <2>2, <2>3, LenProperties
  <2> QED BY <2>5, <2>6
<1>6. ASSUME NEW op, op # "reset", HeadIs(op)
      PROVE  i # 1
  BY <1>2, <1>6 DEF HeadIs
<1>7. ASSUME NEW c \in Clients, NEW r \in Requests,
             SendRequest(c, r) \/ CancelQueuedRequest(c, r)
      PROVE  \E b \in Block : handlingQueue' = Append(handlingQueue, b)
  <2>1. /\ [op |-> "send", id |-> Len(sent) + 1, client |-> c] \in Block
        /\ [op |-> "cancel", request |-> r] \in Block
    BY LenProperties DEF TypeOK, Block
  <2> QED BY <1>7, <2>1 DEF SendRequest, CancelQueuedRequest
<1>8. ASSUME NEW c \in Clients, CancelAllQueuedRequests(c) \/ DispatchReset
      PROVE  \E b \in Block : handlingQueue' = Append(handlingQueue, b)
  <2>1. [op |-> "cancelAll"] \in Block /\ [op |-> "reset"] \in Block
    BY DEF Block
  <2> QED BY <1>8, <2>1 DEF CancelAllQueuedRequests, DispatchReset
<1>9. ASSUME NEW data \in Chunks, ReceiveData(data)
      PROVE  \E b \in Block : handlingQueue' = Append(handlingQueue, b)
  <2>1. [op |-> "receive", data |-> data, begun |-> FALSE] \in Block
    BY DEF Block
  <2> QED BY <1>9, <2>1 DEF ReceiveData
<1>10. CASE MainReturns
  <2>1. [op |-> "sendNext"] \in Block
    BY DEF Block
  <2>2. \/ handlingQueue' = handlingQueue
        \/ handlingQueue' = Append(handlingQueue, [op |-> "sendNext"])
    BY <1>10 DEF MainReturns, AfterCallback
  <2> QED BY <1>3, <2>1, <2>2
<1>11. CASE RunSend \/ RunCancel \/ RunCancelAll \/ RunSendNext
  <2>1. i # 1
    BY <1>6, <1>11 DEF RunSend, RunCancel, RunCancelAll, RunSendNext
  <2> QED BY <1>4, <1>11, <2>1 DEF RunSend, RunCancel, RunCancelAll, RunSendNext
<1>12. CASE RunReceive
  <2>1. i # 1
    BY <1>6, <1>12 DEF RunReceive
  <2> QED BY <1>4, <1>5, <1>12, <2>1, ReceiveGoesOn
<1>13. CASE \/ \E c \in Clients : Open(c)
            \/ ReallyClosePort \/ MainRunsBlock \/ MainRunsWasClosed
            \/ PendingRequestDidTimeout \/ ErrorReturns \/ UNCHANGED vars
  <2>1. handlingQueue' = handlingQueue
    BY <1>13 DEF Open, ReallyClosePort, MainRunsBlock, MainRunsWasClosed,
       PendingRequestDidTimeout, ErrorReturns, vars
  <2> QED BY <2>1
<1>14. Main \in Clients
  OBVIOUS
<1> QED BY <1>3, <1>7, <1>8, <1>9, <1>10, <1>11, <1>12, <1>13, <1>14
        DEF Next, Client, HandlingStep, MainStep

(* A close is over when its reset has run, and only then: from             *)
(* reallyClosePort on it is waiting for the main thread, in the callback,  *)
(* back from it, or in the queue.                                          *)
LEMMA OverByReset ==
  ASSUME HandlesClosed, TypeOK, [Next]_vars, ~RunReset, CloseIsOver'
  PROVE  CloseIsOver
<1>1. \A k \in DOMAIN handlingQueue : handlingQueue[k].op # "reset"
  BY ResetStays DEF CloseIsOver
<1>2. closeWaiting \in Nat /\ closeReturning \in Nat
  BY DEF TypeOK
<1>3. ASSUME UNCHANGED <<portOpen, closeWaiting, closeReturning, mainRunning>>
      PROVE  CloseIsOver
  BY <1>1, <1>3 DEF CloseIsOver
<1>4. ASSUME NEW c \in Clients, Client(c)
      PROVE  CloseIsOver
  <2>1. CASE Open(c)
    BY <2>1 DEF Open, CloseIsOver
  <2>2. CASE ~Open(c)
    BY <1>3, <1>4, <2>2 DEF Client, SendRequest, CancelQueuedRequest,
       CancelAllQueuedRequests, portVars, threadVars
  <2> QED BY <2>1, <2>2
<1>5. CASE ReallyClosePort
  <2>1. closeWaiting' = closeWaiting + 1
    BY <1>5 DEF ReallyClosePort
  <2> QED BY <1>2, <2>1 DEF CloseIsOver
<1>6. CASE DispatchReset
  <2> DEFINE b == [op |-> "reset"]
             n == Len(handlingQueue)
  <2>1. b \in Block /\ handlingQueue' = Append(handlingQueue, b)
    BY <1>6 DEF Block, DispatchReset
  <2>2. /\ n + 1 \in DOMAIN handlingQueue' /\ handlingQueue'[n + 1] = b
    BY <2>1, AppendProperties, LenProperties DEF TypeOK
  <2> QED BY <2>2 DEF CloseIsOver
<1>7. CASE \/ \E data \in Chunks : ReceiveData(data)
           \/ RunSend \/ RunCancel \/ RunCancelAll \/ RunSendNext \/ RunReceive
           \/ PendingRequestDidTimeout \/ ErrorReturns \/ UNCHANGED vars
  BY <1>3, <1>7 DEF ReceiveData, RunSend, RunCancel, RunCancelAll, RunSendNext,
     RunReceive, PendingRequestDidTimeout, ErrorReturns, vars, portVars, threadVars
<1>8. CASE MainRunsBlock
  <2>1. mainRunning.op # "closed"
    BY <1>8 DEF MainRunsBlock, Idle
  <2> QED BY <1>1, <1>8, <2>1 DEF MainRunsBlock, CloseIsOver, portVars
<1>9. CASE MainRunsWasClosed
  BY <1>9 DEF MainRunsWasClosed, CloseIsOver
<1>10. CASE MainReturns
  <2>1. CASE mainRunning.op = "closed"
    <3>1. closeReturning' = closeReturning + 1
      BY <1>10, <2>1 DEF MainReturns
    <3> QED BY <1>2, <3>1 DEF CloseIsOver
  <2>2. CASE mainRunning.op # "closed"
    BY <1>1, <1>10, <2>2 DEF MainReturns, CloseIsOver
  <2> QED BY <2>1, <2>2
<1> QED BY <1>4, <1>5, <1>6, <1>7, <1>8, <1>9, <1>10
        DEF Next, HandlingStep, MainStep

(* On a closed port sendData: fails: nothing is written, and the first     *)
(* call of q stays pending.                                                *)
LEMMA ClosedSends ==
  ASSUME TypeOK, NEW q \in Seq(Ids), NEW timer, NEW f, SendFrom(q, timer, f),
         ~portOpen, IdsOf(q) \cap IdsOf(wire) = {}
  PROVE  pendingRequest' \notin IdsOf(wire)'
<1>1. PICK n \in 0..Len(q), written \in BOOLEAN :
        /\ n > 0 => portOpen
        /\ written => portOpen
        /\ pendingRequest' = IF n = Len(q) THEN 0 ELSE q[n + 1]
        /\ wire' = wire \o Prefix(q, IF written THEN n + 1 ELSE n)
  BY DEF SendFrom
<1>2. /\ n = 0 /\ ~written /\ Len(q) \in Nat /\ DOMAIN q = 1..Len(q)
      /\ wire \in Seq(Ids)
  BY <1>1, LenProperties DEF TypeOK
<1>3. wire' = wire
  <2>1. Prefix(q, 0) = <<>>
    BY SubSeqEmpty DEF Prefix
  <2>2. wire' = wire \o Prefix(q, 0)
    BY <1>1, <1>2
  <2> QED BY <1>2, <2>1, <2>2, ConcatEmptySeq
<1>4. IdsOf(wire)' = IdsOf(wire) /\ 0 \notin IdsOf(wire)
  <2>1. \A k \in DOMAIN wire : wire[k] \in Nat \ {0}
    BY <1>2, ElementOfSeq, LenProperties
  <2> QED BY <1>3, <2>1 DEF IdsOf
<1>5. pendingRequest' = 0 \/ pendingRequest' \in IdsOf(q)
  <2>1. CASE Len(q) = 0
    BY <1>1, <1>2, <2>1
  <2>2. CASE Len(q) # 0
    <3>1. 1 \in DOMAIN q /\ pendingRequest' = q[1]
      BY <1>1, <1>2, <2>2
    <3> QED BY <3>1 DEF IdsOf
  <2> QED BY <2>1, <2>2
<1> QED BY <1>4, <1>5

(* No step makes a closed port remember what it sent.                      *)
LEMMA ForgetsStep ==
  ASSUME HandlesClosed, TypeOK, OrderInv, ClosedPortForgets, [Next]_vars
  PROVE  ClosedPortForgets'
<1> SUFFICES ASSUME CloseIsOver'
             PROVE  pendingRequest' \notin IdsOf(wire)'
  BY DEF ClosedPortForgets
<1>1. ASSUME UNCHANGED <<pendingRequest, wire>>, CloseIsOver
      PROVE  pendingRequest' \notin IdsOf(wire)'
  BY <1>1 DEF ClosedPortForgets, IdsOf
<1>2. ASSUME NEW timer, NEW f, SendFrom(requestsQueue, timer, f), CloseIsOver
      PROVE  pendingRequest' \notin IdsOf(wire)'
  <2>1. IdsOf(requestsQueue) \cap IdsOf(wire) = {}
    BY WaitingCalls DEF Waiting
  <2> QED BY <1>2, <2>1, ClosedSends DEF TypeOK, CloseIsOver
<1>3. CASE RunReset
  <2>1. pendingRequest' = 0 /\ wire' = wire
    BY <1>3 DEF RunReset, ForgetRequests
  <2>2. 0 \notin IdsOf(wire)
    BY ElementOfSeq, LenProperties DEF TypeOK, IdsOf
  <2> QED BY <2>1, <2>2 DEF IdsOf
<1>4. ASSUME ~RunReset
      PROVE  CloseIsOver
  BY <1>4, OverByReset
<1>5. CASE RunSend
  <2> DEFINE id == Head(handlingQueue).id
  <2>1. id \in Ids /\ id \notin IdsOf(wire)
    <3>1. HeadIs("send") /\ handlingQueue' = Tail(handlingQueue)
      BY <1>5 DEF RunSend
    <3> QED BY <3>1, AcceptingFirst, WaitingCalls DEF Waiting
  <2>2. CloseIsOver
    <3>1. ~RunReset
      BY <1>5 DEF RunSend, RunReset, HeadIs
    <3> QED BY <1>4, <3>1
  <2> HIDE DEF id
  <2>3. CASE pendingRequest = 0 /\ SendFrom(<<id>> \o requestsQueue, timeoutTimer, fate)
    <3>1. requestsQueue = <<>> /\ <<id>> \in Seq(Ids) /\ IdsOf(<<id>>) = {id}
      BY <2>1, <2>3 DEF OrderInv, IdleMeansEmpty, IdsOf
    <3>2. SendFrom(<<id>>, timeoutTimer, fate)
      BY <2>3, <3>1
    <3> QED BY <2>1, <2>2, <3>1, <3>2, ClosedSends DEF CloseIsOver
  <2>4. CASE UNCHANGED <<pendingRequest, wire>>
    BY <1>1, <2>2, <2>4
  <2> QED BY <1>5, <2>3, <2>4 DEF RunSend, ReallySendRequest, id
<1>6. CASE RunReceive \/ RunSendNext \/ PendingRequestDidTimeout
  <2>1. CloseIsOver
    <3>1. ~RunReset
      BY <1>6 DEF RunReceive, RunSendNext, PendingRequestDidTimeout,
                  RunReset, HeadIs
    <3> QED BY <1>4, <3>1
  <2>2. \/ UNCHANGED <<pendingRequest, wire>>
        \/ \E timer, f : SendFrom(requestsQueue, timer, f)
    BY <1>6 DEF RunReceive, RunSendNext, PendingRequestDidTimeout, Answer, queueVars
  <2> QED BY <1>1, <1>2, <2>1, <2>2
<1>7. CASE /\ UNCHANGED <<pendingRequest, wire>>
           /\ ~RunReset
  BY <1>1, <1>4, <1>7
<1>8. ASSUME ~RunReset, ~RunSend, ~RunReceive, ~RunSendNext,
             ~PendingRequestDidTimeout
      PROVE  UNCHANGED <<pendingRequest, wire>>
  BY <1>8 DEF Next, Client, HandlingStep, MainStep, SendRequest,
     CancelQueuedRequest, CancelAllQueuedRequests, Open, ReceiveData,
     ReallyClosePort, DispatchReset, RunCancel, RunCancelAll, MainRunsBlock,
     MainRunsWasClosed, MainReturns, ErrorReturns, vars, queueVars
<1> QED BY <1>3, <1>5, <1>6, <1>7, <1>8

(* While the delegate implements serialPortWasClosed:, a port that has     *)
(* been closed never stays on a request it sent before.                    *)
THEOREM ClosedForgets ==
  ASSUME HandlesClosed
  PROVE  Spec => []ClosedPortForgets
<1>1. Init => ClosedPortForgets
  <2> SUFFICES ASSUME Init PROVE pendingRequest \notin IdsOf(wire)
    BY DEF ClosedPortForgets
  <2> QED BY EmptySeq DEF Init, IdsOf
<1>2. TypeOK /\ OrderInv /\ ClosedPortForgets /\ [Next]_vars => ClosedPortForgets'
  BY ForgetsStep
<1> QED BY <1>1, <1>2, TypeCorrect, OrderCorrect, PTL DEF Spec
=============================================================================
