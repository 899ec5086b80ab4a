--------------------------- MODULE MultiMeter_proofs ---------------------------
(***************************************************************************)
(* Proofs about MultiMeter: for any packets sent, any part of the first    *)
(* missing and any reads, the packets reported are whole ones, in order.   *)
(***************************************************************************)
EXTENDS MultiMeter, SequenceTheorems, WellFoundedInduction, TLAPS

-----------------------------------------------------------------------------
(* The last bytes of a packet, each with its place in the packet.          *)
IsTail(p) ==
  /\ p \in Seq(Nat) /\ Len(p) \in 1..14
  /\ \A i \in 1..Len(p) : p[i] \in 16 * (i + 14 - Len(p))..16 * (i + 14 - Len(p)) + 15

(* The meter sends packets, of which the first may be the end of one.      *)
IsScript(q) ==
  /\ q \in Seq(Seq(Nat)) /\ Len(q) > 0
  /\ \A k \in 1..Len(q) : IsTail(q[k]) /\ (k > 1 => Len(q[k]) = 14)

(* How many bytes the first k packets have.                                *)
Ends(q, k) == IF k = 0 THEN 0 ELSE Len(q[1]) + 14 * (k - 1)

(* All bytes sent: each packet lies behind the one before it.              *)
IsSent(q, all) ==
  /\ all \in Seq(Nat) /\ Len(all) = Ends(q, Len(q))
  /\ \A k \in 1..Len(q) : \A i \in 1..Len(q[k]) :
       all[Ends(q, k - 1) + i] = q[k][i]

(* What is on the line is the end of what is sent.                         *)
OnLine(all) ==
  /\ line \in Seq(Nat) /\ Len(line) <= Len(all)
  /\ \A i \in 1..Len(line) : line[i] = all[Len(all) - Len(line) + i]

(* The buffer holds what was read since the last byte of packet k.         *)
Buffered(all, k) ==
  /\ incomingDataBuffer \in Seq(Nat)
  /\ Ends(script, k) + Len(incomingDataBuffer) = Len(all) - Len(line)
  /\ \A i \in 1..Len(incomingDataBuffer) :
       incomingDataBuffer[i] = all[Ends(script, k) + i]

(* Of the first k packets some were reported as r says, in order.          *)
Reported(q, r, k) ==
  \E at \in [DOMAIN r -> 1..k] :
    \A i \in DOMAIN r : /\ r[i] = bits(q[at[i]]) /\ Len(r[i]) = 14
                        /\ \A j \in 1..i-1 : at[j] < at[i]

TypeInv == lastPacket \in Seq(Nat) /\ history \in Seq(Seq(Nat))

IInv ==
  /\ TypeInv /\ IsScript(script)
  /\ OnLine(FlattenSeq(script))
  /\ \E k \in 0..Len(script) :
       Buffered(FlattenSeq(script), k) /\ Reported(script, readings, k)

-----------------------------------------------------------------------------
(* The packets in a row.  A set of numbers has a least one.                *)
LEMMA LeastNumber ==
  ASSUME NEW T \in SUBSET Nat, T # {}
  PROVE  \E n \in T : \A k \in T : n <= k
<1>1. PICK R : /\ R = { ss \in Nat \X Nat : ss[1] < ss[2] }
               /\ IsWellFoundedOn(R, Nat)
  BY NatLessThanWellFounded DEF OpToRel
<1>2. PICK n \in T : \A k \in T : <<k, n>> \notin R
  BY <1>1, WFMin
<1>3. \A k \in T : ~(k < n)
  BY <1>1, <1>2
<1> QED BY <1>3

(* The packets have their lengths.                                         *)
LEMMA ScriptIs ==
  ASSUME NEW q, IsScript(q)
  PROVE  /\ Len(q) \in Nat /\ Len(q) > 0 /\ Len(q[1]) \in 1..14
         /\ \A k \in 1..Len(q) : /\ q[k] \in Seq(Nat) /\ Len(q[k]) \in 1..14
                                 /\ k > 1 => Len(q[k]) = 14
<1>1. Len(q) \in Nat /\ 1 \in 1..Len(q)
  BY LenProperties DEF IsScript
<1> QED BY <1>1 DEF IsScript, IsTail

(* The first packet has c bytes, each other one 14.                        *)
LEMMA EndsAt ==
  ASSUME NEW q, IsScript(q)
  PROVE  \E c \in 1..14 :
           /\ c = Len(q[1]) /\ Ends(q, 0) = 0
           /\ \A k \in Nat : k > 0 => Ends(q, k) = c + 14 * (k - 1)
           /\ \A k \in 1..Len(q) : k # 1 => Len(q[k]) = 14
<1>1. PICK c \in 1..14 : c = Len(q[1])
  BY ScriptIs
<1>2. Ends(q, 0) = 0
  BY DEF Ends
<1>3. ASSUME NEW k \in Nat, k > 0
      PROVE  Ends(q, k) = c + 14 * (k - 1)
  <2>1. k # 0
    BY <1>3
  <2>2. Ends(q, k) = Len(q[1]) + 14 * (k - 1)
    BY <2>1 DEF Ends
  <2> QED BY <1>1, <2>2
<1>4. ASSUME NEW k \in 1..Len(q), k # 1
      PROVE  Len(q[k]) = 14
  <2>1. k > 1
    BY <1>4, ScriptIs
  <2> QED BY <2>1, ScriptIs
<1> QED BY <1>1, <1>2, <1>3, <1>4

(* One more packet has its bytes more.                                     *)
LEMMA EndsIs ==
  ASSUME NEW q, IsScript(q), NEW k \in 1..Len(q)
  PROVE  /\ k \in Nat /\ k > 0 /\ Len(q[k]) \in 1..14
         /\ Ends(q, k) \in Nat /\ Ends(q, k - 1) \in Nat
         /\ Ends(q, k) = Ends(q, k - 1) + Len(q[k])
<1>1. PICK c \in 1..14 :
           /\ c = Len(q[1]) /\ Ends(q, 0) = 0
           /\ \A n \in Nat : n > 0 => Ends(q, n) = c + 14 * (n - 1)
           /\ \A n \in 1..Len(q) : n # 1 => Len(q[n]) = 14
  BY EndsAt
<1>2. k \in Nat /\ k > 0 /\ Len(q[k]) \in 1..14
  BY ScriptIs
<1>3. Ends(q, k) = c + 14 * (k - 1)
  BY <1>1, <1>2
<1>4. CASE k = 1
  <2>1. Ends(q, k - 1) = 0 /\ Len(q[k]) = c
    BY <1>1, <1>4
  <2> QED BY <1>2, <1>3, <1>4, <2>1
<1>5. CASE k > 1
  <2>1. k - 1 \in Nat /\ k - 1 > 0
    BY <1>2, <1>5
  <2>2. Ends(q, k - 1) = c + 14 * ((k - 1) - 1)
    BY <1>1, <2>1
  <2>3. Len(q[k]) = 14
    <3>1. k # 1
      BY <1>2, <1>5
    <3> QED BY <1>1, <3>1
  <2> QED BY <1>2, <1>3, <1>5, <2>2, <2>3
<1> QED BY <1>2, <1>4, <1>5

(* The number of the packet to which the byte at x belongs.                *)
Num(q, x) == IF x <= Len(q[1]) THEN 1 ELSE 2 + ((x - Len(q[1]) - 1) \div 14)

SentAt(q, x) == q[Num(q, x)][x - Ends(q, Num(q, x) - 1)]

(* A byte of packet k has that number.                                     *)
LEMMA NumIs ==
  ASSUME NEW q, IsScript(q), NEW k \in 1..Len(q), NEW i \in 1..Len(q[k])
  PROVE  SentAt(q, Ends(q, k - 1) + i) = q[k][i]
<1>1. PICK c \in 1..14 :
           /\ c = Len(q[1]) /\ Ends(q, 0) = 0
           /\ \A n \in Nat : n > 0 => Ends(q, n) = c + 14 * (n - 1)
           /\ \A n \in 1..Len(q) : n # 1 => Len(q[n]) = 14
  BY EndsAt
<1>2. PICK e \in Nat : e = Ends(q, k - 1)
  BY EndsIs
<1>3. PICK l \in 1..14 : l = Len(q[k])
  BY EndsIs
<1>4. i \in 1..14 /\ i <= l /\ k \in Nat /\ k > 0
  <2>1. i \in 1..l
    BY <1>3
  <2>2. k \in Nat /\ k > 0
    BY EndsIs
  <2> QED BY <2>1, <2>2
<1>5. PICK x \in Int : x = e + i /\ x - e = i
  BY <1>4
<1>6. Num(q, x) = k
  <2>1. CASE k = 1
    <3>1. e = 0 /\ l = c
      BY <1>1, <1>2, <1>3, <2>1
    <3>2. x <= Len(q[1])
      BY <1>1, <1>4, <1>5, <3>1
    <3> QED BY <2>1, <3>2 DEF Num
  <2>2. CASE k > 1
    <3>1. k - 1 \in Nat /\ k - 1 > 0
      BY <1>4, <2>2
    <3>2. e = c + 14 * ((k - 1) - 1)
      BY <1>1, <1>2, <3>1
    <3>3. PICK d \in Nat, r \in 0..13 : d = k - 2 /\ r = i - 1
      BY <1>4, <2>2
    <3>4. x > c /\ x - c - 1 = 14 * d + r
      BY <1>4, <1>5, <3>2, <3>3
    <3>5. (14 * d + r) \div 14 = d
      OBVIOUS
    <3>6. Num(q, x) = 2 + ((x - c - 1) \div 14)
      BY <1>1, <3>4 DEF Num
    <3> QED BY <1>4, <3>3, <3>4, <3>5, <3>6
  <2> QED BY <1>4, <2>1, <2>2
<1> QED BY <1>2, <1>5, <1>6 DEF SentAt

(* A byte of the first k packets belongs to one of them.                   *)
LEMMA ByteHasNum ==
  ASSUME NEW q, IsScript(q), NEW k \in 1..Len(q), NEW x \in 1..Ends(q, k)
  PROVE  \E j \in 1..k : \E i \in 1..Len(q[j]) : x = Ends(q, j - 1) + i
<1>1. PICK c \in 1..14 :
           /\ c = Len(q[1]) /\ Ends(q, 0) = 0
           /\ \A n \in Nat : n > 0 => Ends(q, n) = c + 14 * (n - 1)
           /\ \A n \in 1..Len(q) : n # 1 => Len(q[n]) = 14
  BY EndsAt
<1>2. /\ k \in Nat /\ k > 0 /\ k <= Len(q) /\ Len(q) \in Nat
      /\ Ends(q, k) = c + 14 * (k - 1)
  <2>1. k \in Nat /\ k > 0
    BY EndsIs
  <2>2. k <= Len(q) /\ Len(q) \in Nat
    BY ScriptIs
  <2> QED BY <1>1, <2>1, <2>2
<1>3. x \in Nat /\ x > 0 /\ x <= c + 14 * (k - 1)
  BY <1>2
<1>4. CASE x <= c
  <2>1. Ends(q, 1 - 1) = 0
    BY <1>1
  <2>2. x \in 1..Len(q[1]) /\ x = Ends(q, 1 - 1) + x
    BY <1>1, <1>3, <1>4, <2>1
  <2>3. 1 \in 1..k
    BY <1>2
  <2> QED BY <2>2, <2>3
<1>5. CASE x > c
  <2>1. PICK y \in Nat : y = x - c - 1
    BY <1>3, <1>5
  <2>2. PICK d \in Nat, r \in 0..13 : y = 14 * d + r
    <3>1. \E d, r : d = y \div 14 /\ r = y % 14
      OBVIOUS
    <3>2. PICK d, r : d = y \div 14 /\ r = y % 14
      BY <3>1
    <3>3. d \in Nat /\ r \in 0..13
      BY <3>2
    <3>4. y = 14 * d + r
      BY <3>2
    <3> QED BY <3>3, <3>4
  <2>3. PICK j \in Nat : j = d + 2 /\ j - 1 \in Nat /\ j - 1 > 0
    OBVIOUS
  <2>4. j \in 1..k /\ j > 1 /\ j \in 1..Len(q)
    BY <1>2, <1>3, <2>1, <2>2, <2>3
  <2>5. Len(q[j]) = 14
    <3>1. j # 1
      BY <2>3, <2>4
    <3> QED BY <1>1, <2>4, <3>1
  <2>6. Ends(q, j - 1) = c + 14 * ((j - 1) - 1)
    BY <1>1, <2>3
  <2>7. r + 1 \in 1..14 /\ x = Ends(q, j - 1) + (r + 1)
    BY <1>3, <2>1, <2>2, <2>3, <2>6
  <2> QED BY <2>4, <2>5, <2>7
<1> QED BY <1>3, <1>4, <1>5

(* The bytes of a packet are sent before those of the next.                *)
LEMMA EndsGrow ==
  ASSUME NEW q, IsScript(q), NEW k \in 1..Len(q), NEW j \in 1..k,
         NEW i \in 1..Len(q[j])
  PROVE  Ends(q, j - 1) + i \in 1..Ends(q, k)
<1>1. PICK c \in 1..14 :
           /\ c = Len(q[1]) /\ Ends(q, 0) = 0
           /\ \A n \in Nat : n > 0 => Ends(q, n) = c + 14 * (n - 1)
           /\ \A n \in 1..Len(q) : n # 1 => Len(q[n]) = 14
  BY EndsAt
<1>2. k \in Nat /\ k > 0 /\ j \in Nat /\ j > 0 /\ j <= k
  BY EndsIs
<1>3. j \in 1..Len(q)
  BY <1>2, ScriptIs
<1>4. PICK d \in Nat, l \in 1..14 :
        d = Ends(q, j - 1) /\ l = Len(q[j]) /\ Ends(q, j) = d + l
  BY <1>3, EndsIs
<1>5. d + l = c + 14 * (j - 1) /\ Ends(q, k) = c + 14 * (k - 1)
  BY <1>1, <1>2, <1>4
<1>6. i \in 1..l
  BY <1>4
<1>7. d + i >= 1 /\ d + i <= c + 14 * (k - 1)
  BY <1>2, <1>5, <1>6
<1> QED BY <1>4, <1>5, <1>6, <1>7

-----------------------------------------------------------------------------
(* The first k packets in a row, byte for byte.                            *)
FirstSent(q, k) == [x \in 1..Ends(q, k) |-> SentAt(q, x)]

(* It is a sequence of bytes.                                              *)
LEMMA FirstSentType ==
  ASSUME NEW q, IsScript(q), NEW k \in 1..Len(q)
  PROVE  /\ FirstSent(q, k) \in Seq(Nat) /\ Len(FirstSent(q, k)) = Ends(q, k)
         /\ \A x \in 1..Ends(q, k) : FirstSent(q, k)[x] = SentAt(q, x)
         /\ \A j \in 1..k : \A i \in 1..Len(q[j]) :
              FirstSent(q, k)[Ends(q, j - 1) + i] = q[j][i]
<1>1. PICK e \in Nat : e = Ends(q, k)
  BY EndsIs
<1>2. ASSUME NEW x \in 1..e
      PROVE  SentAt(q, x) \in Nat
  <2>1. PICK j \in 1..k : \E i \in 1..Len(q[j]) : x = Ends(q, j - 1) + i
    BY <1>1, ByteHasNum
  <2>2. PICK i \in 1..Len(q[j]) : x = Ends(q, j - 1) + i
    BY <2>1
  <2>3. j \in 1..Len(q)
    BY <2>1, ScriptIs
  <2>4. SentAt(q, x) = q[j][i]
    BY <2>2, <2>3, NumIs
  <2>5. q[j] \in Seq(Nat)
    BY <2>3, ScriptIs
  <2> QED BY <2>2, <2>4, <2>5, ElementOfSeq
<1>3. FirstSent(q, k) = [x \in 1..e |-> SentAt(q, x)]
  BY <1>1 DEF FirstSent
<1>4. FirstSent(q, k) \in [1..e -> Nat]
  BY <1>2, <1>3
<1>5. FirstSent(q, k) \in Seq(Nat) /\ Len(FirstSent(q, k)) = e
  BY <1>4
<1>6. ASSUME NEW j \in 1..k, NEW i \in 1..Len(q[j])
      PROVE  FirstSent(q, k)[Ends(q, j - 1) + i] = q[j][i]
  <2>1. j \in 1..Len(q)
    BY ScriptIs
  <2>2. PICK x : x = Ends(q, j - 1) + i
    OBVIOUS
  <2>3. x \in 1..e
    BY <1>1, <1>6, <2>1, <2>2, EndsGrow
  <2>4. SentAt(q, x) = q[j][i]
    BY <2>1, <2>2, NumIs
  <2> QED BY <1>3, <2>2, <2>3, <2>4
<1>7. \A x \in 1..e : FirstSent(q, k)[x] = SentAt(q, x)
  BY <1>3
<1> QED BY <1>1, <1>5, <1>6, <1>7

(* Packets are put behind one another.                                     *)
LEMMA FirstSentGrows ==
  ASSUME NEW q, IsScript(q), NEW k \in 1..Len(q)
  PROVE  FirstSent(q, k) = IF k = 1 THEN q[1] ELSE FirstSent(q, k - 1) \o q[k]
<1>1. k \in Nat /\ k > 0 /\ k <= Len(q) /\ Len(q) \in Nat
  BY ScriptIs
<1>2. PICK e \in Nat, d \in Nat, l \in 1..14 :
        e = Ends(q, k) /\ d = Ends(q, k - 1) /\ l = Len(q[k]) /\ e = d + l
  BY EndsIs
<1>3. q[k] \in Seq(Nat)
  BY ScriptIs
<1>4. PICK f : /\ f = FirstSent(q, k) /\ f \in Seq(Nat) /\ Len(f) = e
               /\ \A j \in 1..k : \A i \in 1..Len(q[j]) : f[Ends(q, j - 1) + i] = q[j][i]
               /\ \A x \in 1..e : f[x] = SentAt(q, x)
  <2>1. /\ FirstSent(q, k) \in Seq(Nat) /\ Len(FirstSent(q, k)) = Ends(q, k)
        /\ \A j \in 1..k : \A i \in 1..Len(q[j]) :
             FirstSent(q, k)[Ends(q, j - 1) + i] = q[j][i]
        /\ \A x \in 1..Ends(q, k) : FirstSent(q, k)[x] = SentAt(q, x)
    BY FirstSentType
  <2> QED BY <1>2, <2>1
<1>5. \A i \in 1..l : f[d + i] = q[k][i]
  <2>1. k \in 1..k
    BY <1>1
  <2> QED BY <1>2, <1>4, <2>1
<1>6. CASE k = 1
  <2>1. d = 0
    BY <1>2, <1>6 DEF Ends
  <2>2. Len(f) = Len(q[1])
    BY <1>2, <1>4, <1>6, <2>1
  <2>4. ASSUME NEW i \in 1..Len(f)
        PROVE  f[i] = q[1][i]
    <3>1. i \in 1..l /\ d + i = i
      BY <1>2, <1>4, <2>1
    <3>2. f[d + i] = q[k][i]
      BY <1>5, <3>1
    <3> QED BY <1>6, <3>1, <3>2
  <2>3. f = q[1]
    BY <1>3, <1>4, <1>6, <2>2, <2>4, SeqEqual
  <2> QED BY <1>4, <1>6, <2>3
<1>7. CASE k # 1
  <2>1. k - 1 \in 1..Len(q)
    BY <1>1, <1>7
  <2>2. PICK g : /\ g = FirstSent(q, k - 1) /\ g \in Seq(Nat) /\ Len(g) = d
                 /\ \A x \in 1..d : g[x] = SentAt(q, x)
    BY <1>2, <2>1, FirstSentType
  <2>3. PICK p : p = q[k] /\ p \in Seq(Nat) /\ Len(p) = l
    BY <1>2, <1>3
  <2>4. /\ g \o p \in Seq(Nat) /\ Len(g \o p) = e
        /\ \A i \in 1..e : (g \o p)[i] = IF i <= d THEN g[i] ELSE p[i - d]
    <3>1. /\ g \o p \in Seq(Nat) /\ Len(g \o p) = Len(g) + Len(p)
          /\ \A i \in 1..Len(g) + Len(p) :
               (g \o p)[i] = IF i <= Len(g) THEN g[i] ELSE p[i - Len(g)]
      <4>1. g \in Seq(Nat) /\ p \in Seq(Nat)
        BY <2>2, <2>3
      <4> QED BY <4>1, ConcatProperties
    <3>2. Len(g) = d /\ Len(g) + Len(p) = e
      BY <1>2, <2>2, <2>3
    <3> QED BY <3>1, <3>2
  <2>5. ASSUME NEW i \in 1..e
        PROVE  f[i] = (g \o p)[i]
    <3>1. CASE i <= d
      <4>1. i \in 1..d
        BY <3>1
      <4>2. f[i] = SentAt(q, i) /\ g[i] = SentAt(q, i)
        BY <1>4, <2>2, <2>5, <4>1
      <4> QED BY <2>4, <2>5, <3>1, <4>2
    <3>2. CASE i > d
      <4>1. i - d \in 1..l /\ d + (i - d) = i
        BY <1>2, <2>5, <3>2
      <4>2. f[i] = p[i - d]
        BY <1>5, <2>3, <4>1
      <4>3. ~(i <= d)
        BY <2>5, <3>2
      <4>4. (g \o p)[i] = p[i - d]
        BY <2>4, <2>5, <4>3
      <4> QED BY <4>2, <4>4
    <3>3. i <= d \/ i > d
      BY <1>2, <2>5
    <3> QED BY <3>1, <3>2, <3>3
  <2>6. f = g \o p
    BY <1>4, <2>4, <2>5, SeqEqual
  <2> QED BY <1>4, <1>7, <2>2, <2>3, <2>6
<1> QED BY <1>6, <1>7

-----------------------------------------------------------------------------
(* FlattenSeq is the last value of a recursion, whose values are these.    *)
LEMMA FlattenIs ==
  ASSUME NEW q, NEW n, n = Len(q), n # 0,
         NEW g, g = [i \in 1..n |-> IF i = 1 THEN q[i] ELSE g[i-1] \o q[i]]
  PROVE  \E h : /\ h = [i \in 1..n |-> IF i = 1 THEN q[i] ELSE h[i-1] \o q[i]]
                /\ FlattenSeq(q) = h[n]
<1> DEFINE h == CHOOSE h : h = [i \in 1..Len(q) |-> IF i = 1 THEN q[i] ELSE h[i-1] \o q[i]]
<1>1. h = [i \in 1..Len(q) |-> IF i = 1 THEN q[i] ELSE h[i-1] \o q[i]]
  OBVIOUS
<1>2. FlattenSeq(q) = h[Len(q)]
  BY DEF FlattenSeq
<1> QED BY <1>1, <1>2

(* What is sent are the packets in a row.                                  *)
LEMMA FlattenIsSent ==
  ASSUME NEW q, IsScript(q)
  PROVE  FlattenSeq(q) = FirstSent(q, Len(q))
<1>1. PICK n \in Nat : n = Len(q) /\ n > 0
  BY ScriptIs
<1> DEFINE g == [k \in 1..n |-> FirstSent(q, k)]
<1>2. ASSUME NEW i \in 1..n
      PROVE  g[i] = IF i = 1 THEN q[i] ELSE g[i-1] \o q[i]
  <2>1. g[i] = IF i = 1 THEN q[1] ELSE FirstSent(q, i - 1) \o q[i]
    BY <1>1, FirstSentGrows
  <2>2. CASE i = 1
    BY <2>1, <2>2
  <2>3. CASE i # 1
    <3>1. i - 1 \in 1..n
      BY <1>1, <2>3
    <3>2. g[i-1] = FirstSent(q, i - 1)
      BY <3>1
    <3> QED BY <2>1, <2>3, <3>2
  <2> QED BY <2>2, <2>3
<1>3. g = [i \in 1..n |-> IF i = 1 THEN q[i] ELSE g[i-1] \o q[i]]
  BY <1>2
<1>4. n # 0
  BY <1>1
<1> HIDE DEF g
<1>5. PICK h : /\ h = [i \in 1..n |-> IF i = 1 THEN q[i] ELSE h[i-1] \o q[i]]
               /\ FlattenSeq(q) = h[n]
  BY <1>1, <1>3, <1>4, FlattenIs
<1> DEFINE T == { i \in 1..n : h[i] # FirstSent(q, i) }
<1>6. T = {}
  <2>1. SUFFICES ASSUME T # {} PROVE FALSE
    OBVIOUS
  <2>2. T \in SUBSET Nat
    BY <1>1
  <2>3. PICK i \in T : \A k \in T : i <= k
    BY <2>1, <2>2, LeastNumber
  <2>4. i \in 1..n /\ h[i] # FirstSent(q, i)
    BY <2>3
  <2>5. h[i] = IF i = 1 THEN q[i] ELSE h[i-1] \o q[i]
    BY <1>5, <2>4
  <2>6. FirstSent(q, i) = IF i = 1 THEN q[1] ELSE FirstSent(q, i - 1) \o q[i]
    BY <1>1, <2>4, FirstSentGrows
  <2>7. i # 1
    BY <2>4, <2>5, <2>6
  <2>8. i - 1 \in 1..n /\ ~(i <= i - 1)
    BY <1>1, <2>4, <2>7
  <2>9. i - 1 \notin T
    BY <2>3, <2>8
  <2>10. h[i-1] = FirstSent(q, i - 1)
    BY <2>8, <2>9
  <2> QED BY <2>4, <2>5, <2>6, <2>7, <2>10
<1>7. n \in 1..n
  BY <1>1
<1>8. h[n] = FirstSent(q, n)
  BY <1>6, <1>7
<1> QED BY <1>1, <1>5, <1>8

(* So all bytes sent are known.                                            *)
LEMMA SentIs ==
  ASSUME NEW q, IsScript(q)
  PROVE  IsSent(q, FlattenSeq(q))
<1>1. PICK n \in Nat : n = Len(q) /\ n > 0 /\ n \in 1..Len(q)
  BY ScriptIs
<1>2. FlattenSeq(q) = FirstSent(q, n)
  BY <1>1, FlattenIsSent
<1>3. /\ FirstSent(q, n) \in Seq(Nat) /\ Len(FirstSent(q, n)) = Ends(q, n)
      /\ \A j \in 1..n : \A i \in 1..Len(q[j]) :
           FirstSent(q, n)[Ends(q, j - 1) + i] = q[j][i]
  <2>1. n \in 1..Len(q)
    BY <1>1
  <2> QED BY <2>1, FirstSentType
<1> QED BY <1>1, <1>2, <1>3 DEF IsSent

-----------------------------------------------------------------------------
(* The byte e0 is the last one of a packet.                                *)
LEMMA EndOfPacket ==
  ASSUME NEW q, IsScript(q), NEW all, IsSent(q, all),
         NEW x \in 1..Len(all), all[x] = 224
  PROVE  \E k \in 1..Len(q) : x = Ends(q, k)
<1>1. PICK n \in 1..Len(q) : n = Len(q)
  BY ScriptIs
<1>2. x \in 1..Ends(q, n)
  BY <1>1 DEF IsSent
<1>3. PICK k \in 1..n : \E i \in 1..Len(q[k]) : x = Ends(q, k - 1) + i
  BY <1>2, ByteHasNum
<1>4. PICK i \in 1..Len(q[k]) : x = Ends(q, k - 1) + i
  BY <1>3
<1>5. k \in 1..Len(q)
  BY <1>1
<1>6. q[k][i] = 224
  BY <1>4, <1>5 DEF IsSent
<1>7. PICK l \in 1..14 : l = Len(q[k]) /\ Ends(q, k) = Ends(q, k - 1) + l
  <2>1. Len(q[k]) \in 1..14 /\ Ends(q, k) = Ends(q, k - 1) + Len(q[k])
    BY <1>5, EndsIs
  <2> QED BY <2>1
<1>8. q[k][i] \in 16 * (i + 14 - l)..16 * (i + 14 - l) + 15
  BY <1>5, <1>7 DEF IsScript, IsTail
<1>9. i \in 1..l
  BY <1>7
<1>10. i = l
  BY <1>6, <1>8, <1>9
<1> QED BY <1>4, <1>5, <1>7, <1>10

(* What was read since the end of a packet has the length of a packet only *)
(* if it is the next one; 13 bytes are the end of the first.               *)
LEMMA WholePackets ==
  ASSUME NEW q, IsScript(q), NEW k \in 0..Len(q), NEW n \in 1..Len(q),
         NEW l \in Nat, l > 0, Ends(q, k) + l = Ends(q, n)
  PROVE  /\ k \in 0..n-1
         /\ l = 14 => k = n - 1
         /\ l = 13 => k = 0
<1>1. PICK c \in 1..14 :
           /\ c = Len(q[1]) /\ Ends(q, 0) = 0
           /\ \A m \in Nat : m > 0 => Ends(q, m) = c + 14 * (m - 1)
           /\ \A m \in 1..Len(q) : m # 1 => Len(q[m]) = 14
  BY EndsAt
<1>2. k \in Nat /\ n \in Nat /\ n > 0
  BY ScriptIs
<1>3. Ends(q, n) = c + 14 * (n - 1)
  BY <1>1, <1>2
<1>4. CASE k = 0
  <2>1. Ends(q, k) = 0
    BY <1>1, <1>4
  <2>2. l = c + 14 * (n - 1)
    BY <1>3, <2>1
  <2> QED BY <1>2, <1>4, <2>2
<1>5. CASE k > 0
  <2>1. Ends(q, k) = c + 14 * (k - 1)
    BY <1>1, <1>2, <1>5
  <2>2. l = 14 * (n - k)
    BY <1>2, <1>3, <2>1
  <2> QED BY <1>2, <2>2
<1> QED BY <1>2, <1>4, <1>5

(* Bytes b are as many as a packet has and lie before the end of packet n. *)
EndsWith(q, all, n, b) ==
  /\ Len(b) = 14 /\ Ends(q, n - 1) + 14 = Ends(q, n)
  /\ \A i \in 1..Len(b) : b[i] = all[Ends(q, n - 1) + i]

(* In the first case it is the packet.                                     *)
LEMMA NextPacket ==
  ASSUME NEW q, IsScript(q), NEW all, IsSent(q, all), NEW n \in 1..Len(q),
         NEW b \in Seq(Nat), EndsWith(q, all, n, b)
  PROVE  b = q[n]
<1> USE DEF EndsWith
<1>1. q[n] \in Seq(Nat)
  BY ScriptIs
<1>2. Len(q[n]) = 14
  <2>1. PICK l \in 1..14, e \in Nat :
          l = Len(q[n]) /\ e = Ends(q, n - 1) /\ Ends(q, n) = e + l
    <3>1. /\ Len(q[n]) \in 1..14 /\ Ends(q, n - 1) \in Nat
          /\ Ends(q, n) = Ends(q, n - 1) + Len(q[n])
      BY EndsIs
    <3> QED BY <3>1
  <2>2. Ends(q, n - 1) + 14 = Ends(q, n)
    OBVIOUS
  <2>3. e + 14 = e + l
    BY <2>1, <2>2
  <2>4. l = 14
    BY <2>3
  <2> QED BY <2>1, <2>4
<1>3. ASSUME NEW i \in 1..Len(b)
      PROVE  b[i] = q[n][i]
  <2>1. i \in 1..Len(q[n])
    BY <1>2
  <2>2. all[Ends(q, n - 1) + i] = q[n][i]
    BY <2>1 DEF IsSent
  <2> QED BY <2>2
<1>4. PICK p \in Seq(Nat) : p = q[n] /\ Len(b) = Len(p)
  BY <1>1, <1>2
<1>5. \A i \in 1..Len(b) : b[i] = p[i]
  BY <1>3, <1>4
<1>6. b = p
  BY <1>4, <1>5, SeqEqual
<1> QED BY <1>4, <1>6

(* Reports stay in order as packets pass by unreported, ...                *)
LEMMA ReportsStay ==
  ASSUME NEW q, NEW r \in Seq(Seq(Nat)), NEW k \in Nat, NEW n \in Nat, k <= n,
         Reported(q, r, k)
  PROVE  Reported(q, r, n)
<1>1. PICK at \in [DOMAIN r -> 1..k] :
        \A i \in DOMAIN r : /\ r[i] = bits(q[at[i]]) /\ Len(r[i]) = 14
                            /\ \A j \in 1..i-1 : at[j] < at[i]
  BY DEF Reported
<1>2. 1..k \subseteq 1..n
  OBVIOUS
<1>3. at \in [DOMAIN r -> 1..n]
  BY <1>1, <1>2
<1> QED BY <1>1, <1>3 DEF Reported

(* ... and as the next one is reported.                                    *)
LEMMA ReportsGrow ==
  ASSUME NEW q, NEW r \in Seq(Seq(Nat)), NEW n \in Nat, n > 0,
         Reported(q, r, n - 1), NEW p \in Seq(Nat), p = bits(q[n]), Len(p) = 14
  PROVE  Reported(q, Append(r, p), n)
<1>1. PICK at \in [DOMAIN r -> 1..n-1] :
        \A i \in DOMAIN r : /\ r[i] = bits(q[at[i]]) /\ Len(r[i]) = 14
                            /\ \A j \in 1..i-1 : at[j] < at[i]
  BY DEF Reported
<1>2. PICK l \in Nat : l = Len(r) /\ DOMAIN r = 1..l
  BY LenProperties
<1>3. PICK s : /\ s = Append(r, p) /\ DOMAIN s = 1..l+1 /\ s[l+1] = p
               /\ \A i \in 1..l : s[i] = r[i]
  <2>1. Append(r, p) \in Seq(Seq(Nat)) /\ Len(Append(r, p)) = l + 1
    BY <1>2
  <2>2. DOMAIN Append(r, p) = 1..l+1
    BY <2>1, LenProperties
  <2>3. Append(r, p)[l+1] = p /\ \A i \in 1..l : Append(r, p)[i] = r[i]
    BY <1>2
  <2> QED BY <2>2, <2>3
<1> DEFINE to == [i \in 1..l+1 |-> IF i = l + 1 THEN n ELSE at[i]]
<1>4. \A i \in 1..l : at[i] \in 1..n-1 /\ at[i] \in Nat /\ at[i] < n
  <2>1. \A m \in 1..n-1 : m \in Nat /\ m < n
    OBVIOUS
  <2>2. \A i \in 1..l : at[i] \in 1..n-1
    BY <1>1, <1>2
  <2> QED BY <2>1, <2>2
<1>5. to[l+1] = n /\ \A i \in 1..l : to[i] = at[i]
  BY <1>2
<1>6. to \in [DOMAIN s -> 1..n]
  <2>1. ASSUME NEW i \in 1..l+1
        PROVE  to[i] \in 1..n
    <3>1. CASE i = l + 1
      BY <1>5, <3>1
    <3>2. CASE i # l + 1
      <4>1. i \in 1..l
        BY <3>2
      <4> QED BY <1>4, <1>5, <4>1
    <3> QED BY <3>1, <3>2
  <2> HIDE DEF to
  <2>2. DOMAIN to = 1..l+1 /\ to = [i \in 1..l+1 |-> to[i]]
    BY DEF to
  <2> QED BY <1>3, <2>1, <2>2
<1> HIDE DEF to
<1>7. ASSUME NEW i \in DOMAIN s
      PROVE  /\ s[i] = bits(q[to[i]]) /\ Len(s[i]) = 14
             /\ \A j \in 1..i-1 : to[j] < to[i]
  <2>1. CASE i = l + 1
    <3>1. s[i] = bits(q[to[i]]) /\ Len(s[i]) = 14
      BY <1>3, <1>5, <2>1
    <3>2. ASSUME NEW j \in 1..i-1
          PROVE  to[j] < to[i]
      <4>1. j \in 1..l
        BY <2>1
      <4> QED BY <1>4, <1>5, <2>1, <4>1
    <3> QED BY <3>1, <3>2
  <2>2. CASE i # l + 1
    <3>1. i \in 1..l /\ i \in Nat
      BY <1>3, <1>7, <2>2
    <3>2. s[i] = bits(q[to[i]]) /\ Len(s[i]) = 14
      BY <1>1, <1>2, <1>3, <1>5, <3>1
    <3>3. ASSUME NEW j \in 1..i-1
          PROVE  to[j] < to[i]
      <4>1. j \in 1..l
        BY <3>1
      <4>2. at[j] < at[i]
        BY <1>1, <1>2, <3>1
      <4> QED BY <1>5, <3>1, <4>1, <4>2
    <3> QED BY <3>2, <3>3
  <2> QED BY <2>1, <2>2
<1> QED BY <1>3, <1>6, <1>7 DEF Reported

-----------------------------------------------------------------------------
(* At first everything is to be read.                                      *)
LEMMA InitInv == Init => IInv
<1>1. SUFFICES ASSUME Init PROVE IInv
  OBVIOUS
<1>2. PICK s \in Scripts, cut \in Cuts : script = <<SubSeq(s[1], cut + 1, 14)>> \o Tail(s)
  BY <1>1 DEF Init
<1>3. /\ s \in Seq(Seq(Nat)) /\ Len(s) > 0 /\ cut \in 0..13
      /\ \A i \in DOMAIN s : IsPacket(s[i])
  BY MeterAssumption
<1>4. PICK n \in Nat : n = Len(s) /\ n > 0 /\ DOMAIN s = 1..n
  BY <1>3, LenProperties
<1>5. IsScript(script)
  <2>1. PICK p : p = SubSeq(s[1], cut + 1, 14)
    OBVIOUS
  <2>2. s[1] \in Seq(Nat) /\ Len(s[1]) = 14 /\ \A i \in 1..14 : s[1][i] \in 16*i..16*i + 15
    <3>1. 1 \in DOMAIN s
      BY <1>4
    <3>2. IsPacket(s[1])
      BY <1>3, <3>1
    <3> QED BY <3>2 DEF IsPacket
  <2>3. /\ p \in Seq(Nat) /\ Len(p) = 14 - cut
        /\ \A i \in 1..14 - cut : p[i] = s[1][cut + i]
    <3>1. \A i \in cut + 1..14 : s[1][i] \in Nat
      <4>1. ASSUME NEW i \in cut + 1..14
            PROVE  s[1][i] \in Nat
        <5>1. i \in 1..Len(s[1])
          BY <1>3, <2>2
        <5> QED BY <2>2, <5>1, ElementOfSeq
      <4> QED BY <4>1
    <3>2. cut + 1 \in Int /\ cut + 1 <= 14 /\ 14 - (cut + 1) + 1 = 14 - cut
      BY <1>3
    <3>3. /\ p \in Seq(Nat) /\ Len(p) = 14 - cut
          /\ \A i \in 1..14 - cut : p[i] = s[1][(cut + 1) + i - 1]
      <4>1. PICK m \in Int : m = cut + 1 /\ m <= 14 /\ 14 - m + 1 = 14 - cut
        BY <3>2
      <4>2. \A i \in m..14 : s[1][i] \in Nat
        BY <3>1, <4>1
      <4>3. /\ SubSeq(s[1], m, 14) \in Seq(Nat)
            /\ Len(SubSeq(s[1], m, 14)) = IF m <= 14 THEN 14 - m + 1 ELSE 0
            /\ \A i \in 1..14 - m + 1 : SubSeq(s[1], m, 14)[i] = s[1][m + i - 1]
        BY <4>1, <4>2, SubSeqProperties
      <4> QED BY <2>1, <4>1, <4>3
    <3>4. \A i \in 1..14 - cut : (cut + 1) + i - 1 = cut + i
      BY <1>3
    <3> QED BY <3>3, <3>4
  <2>4. IsTail(p)
    <3>1. ASSUME NEW i \in 1..Len(p)
          PROVE  p[i] \in 16 * (i + 14 - Len(p))..16 * (i + 14 - Len(p)) + 15
      <4>1. i + 14 - Len(p) = cut + i /\ cut + i \in 1..14 /\ i \in 1..14 - cut
        <5>1. i \in 1..14 - cut
          BY <2>3, <3>1
        <5>2. i + 14 - (14 - cut) = cut + i /\ cut + i \in 1..14
          BY <1>3, <5>1
        <5> QED BY <2>3, <5>1, <5>2
      <4>2. p[i] = s[1][cut + i]
        BY <2>3, <4>1
      <4>3. s[1][cut + i] \in 16 * (cut + i)..16 * (cut + i) + 15
        BY <2>2, <4>1
      <4> QED BY <4>1, <4>2, <4>3
    <3>2. Len(p) \in 1..14
      BY <1>3, <2>3
    <3> QED BY <2>3, <3>1, <3>2 DEF IsTail
  <2>5. PICK t : /\ t = Tail(s) /\ t \in Seq(Seq(Nat)) /\ Len(t) = n - 1
                 /\ \A i \in 1..n - 1 : t[i] = s[i + 1]
    <3>1. s # <<>>
      BY <1>3
    <3>2. /\ Tail(s) \in Seq(Seq(Nat)) /\ Len(Tail(s)) = Len(s) - 1
          /\ \A i \in 1..Len(Tail(s)) : Tail(s)[i] = s[i + 1]
      BY <1>3, <3>1, HeadTailProperties
    <3> QED BY <1>4, <3>2
  <2>6. /\ script \in Seq(Seq(Nat)) /\ Len(script) = n /\ script[1] = p
        /\ \A i \in 2..n : script[i] = s[i]
    <3>1. <<p>> \in Seq(Seq(Nat)) /\ Len(<<p>>) = 1 /\ <<p>>[1] = p
      BY <2>3
    <3>2. PICK o \in Seq(Seq(Nat)) : o = <<p>> /\ Len(o) = 1 /\ o[1] = p
      BY <3>1
    <3>3. script = o \o t
      BY <1>2, <2>1, <2>5, <3>2
    <3>4. /\ o \o t \in Seq(Seq(Nat)) /\ Len(o \o t) = Len(o) + Len(t)
          /\ \A i \in 1..Len(o) + Len(t) :
               (o \o t)[i] = IF i <= Len(o) THEN o[i] ELSE t[i - Len(o)]
      BY <2>5, <3>2, ConcatProperties
    <3>5. Len(o) + Len(t) = n
      BY <1>4, <2>5, <3>2
    <3>6. \A i \in 1..n : (o \o t)[i] = IF i <= 1 THEN o[i] ELSE t[i - 1]
      BY <3>2, <3>4, <3>5
    <3>7. (o \o t)[1] = p
      BY <1>4, <3>2, <3>6
    <3>8. ASSUME NEW i \in 2..n
          PROVE  (o \o t)[i] = s[i]
      <4>1. i \in 1..n /\ ~(i <= 1) /\ i - 1 \in 1..n - 1 /\ (i - 1) + 1 = i
        OBVIOUS
      <4> QED BY <2>5, <3>6, <4>1
    <3> QED BY <3>3, <3>4, <3>5, <3>7, <3>8
  <2>7. ASSUME NEW k \in 1..n
        PROVE  IsTail(script[k]) /\ (k > 1 => Len(script[k]) = 14)
    <3>1. CASE k = 1
      BY <2>4, <2>6, <3>1
    <3>2. CASE k > 1
      <4>1. script[k] = s[k]
        BY <2>6, <3>2
      <4>2. IsPacket(s[k])
        BY <1>3, <1>4
      <4>3. \A i \in 1..14 : i + 14 - 14 = i
        OBVIOUS
      <4> QED BY <4>1, <4>2, <4>3 DEF IsPacket, IsTail
    <3> QED BY <3>1, <3>2
  <2> QED BY <1>4, <2>6, <2>7 DEF IsScript
<1>6. PICK all : all = FlattenSeq(script) /\ IsSent(script, all) /\ line = all
  BY <1>1, <1>5, SentIs DEF Init
<1>7. all \in Seq(Nat)
  BY <1>6 DEF IsSent
<1>8. PICK l \in Nat : l = Len(all)
  BY <1>7
<1>9. OnLine(all)
  <2>1. \A i \in 1..l : l - l + i = i
    OBVIOUS
  <2> QED BY <1>6, <1>7, <1>8, <2>1 DEF OnLine
<1>10. incomingDataBuffer = <<>> /\ lastPacket = <<>> /\ history = <<>>
  BY <1>1 DEF Init
<1>11. Buffered(all, 0)
  <2>1. Ends(script, 0) + 0 = l - l
    BY DEF Ends
  <2> QED BY <1>6, <1>8, <1>10, <2>1 DEF Buffered
<1>12. Reported(script, readings, 0)
  <2>1. DOMAIN readings = {}
    BY <1>10 DEF readings
  <2>2. \E at : at \in [DOMAIN readings -> 1..0]
    <3>1. [i \in {} |-> 0] \in [{} -> 1..0]
      OBVIOUS
    <3> QED BY <2>1, <3>1
  <2> QED BY <2>1, <2>2 DEF Reported
<1>13. 0 \in 0..Len(script) /\ TypeInv
  BY <1>5, <1>10, ScriptIs DEF TypeInv
<1> QED BY <1>5, <1>6, <1>9, <1>11, <1>12, <1>13 DEF IInv

-----------------------------------------------------------------------------
(* A read of n bytes gives data, with which the buffer becomes b.          *)
ReadGives(all, k, n, data, b) ==
  /\ data = SubSeq(line, 1, n) /\ b = incomingDataBuffer \o data
  /\ data \in Seq(Nat) /\ Len(data) = n /\ n \in Nat /\ n > 0
  /\ OnLine(all)'
  /\ b \in Seq(Nat) /\ Len(b) \in Nat /\ Len(b) >= n
  /\ Ends(script, k) \in Nat
  /\ Ends(script, k) + Len(b) = Len(all) - Len(line')
  /\ \A i \in 1..Len(b) : b[i] = all[Ends(script, k) + i]

(* What a read adds lies behind what was read before.                      *)
LEMMA ReadIs ==
  ASSUME IInv, NEW all, IsSent(script, all), OnLine(all),
         NEW k \in 0..Len(script), Buffered(all, k),
         NEW n \in ReadSizes, PortReads(n)
  PROVE  \E data, b : ReadGives(all, k, n, data, b)
<1>0. \E data, b : data = SubSeq(line, 1, n) /\ b = incomingDataBuffer \o data
  OBVIOUS
<1>16. PICK data, b : data = SubSeq(line, 1, n) /\ b = incomingDataBuffer \o data
  BY <1>0
<1>1. n \in Nat /\ n > 0
  BY MeterAssumption
<1>2. /\ line \in Seq(Nat) /\ n <= Len(line) /\ line' = SubSeq(line, n + 1, Len(line))
      /\ incomingDataBuffer \in Seq(Nat) /\ all \in Seq(Nat)
  BY DEF OnLine, Buffered, PortReads, IsSent
<1>3. PICK l \in Nat, m \in Nat, a \in Nat :
        l = Len(line) /\ m = Len(incomingDataBuffer) /\ a = Len(all) /\ n <= l /\ l <= a
  BY <1>2 DEF OnLine
<1>4. PICK e \in Nat : e = Ends(script, k)
  <2>1. CASE k = 0
    BY <2>1 DEF Ends
  <2>2. CASE k # 0
    <3>1. k \in 1..Len(script)
      BY <2>2, ScriptIs DEF IInv
    <3> QED BY <3>1, EndsIs DEF IInv
  <2> QED BY <2>1, <2>2
<1>5. e + m = a - l
  BY <1>3, <1>4 DEF Buffered
<1>6. /\ \A i \in 1..l : line[i] = all[a - l + i]
      /\ \A i \in 1..m : incomingDataBuffer[i] = all[e + i]
  BY <1>3, <1>4 DEF OnLine, Buffered
<1>7. \A i \in 1..l : line[i] \in Nat
  BY <1>2, <1>3, ElementOfSeq
<1>8. data \in Seq(Nat) /\ Len(data) = n /\ \A i \in 1..n : data[i] = line[i]
  <2>1. \A i \in 1..n : line[i] \in Nat
    BY <1>1, <1>3, <1>7
  <2>2. /\ SubSeq(line, 1, n) \in Seq(Nat)
        /\ Len(SubSeq(line, 1, n)) = IF 1 <= n THEN n - 1 + 1 ELSE 0
        /\ \A i \in 1..n - 1 + 1 : SubSeq(line, 1, n)[i] = line[1 + i - 1]
    BY <1>1, <2>1, SubSeqProperties
  <2>3. n - 1 + 1 = n /\ 1 <= n /\ \A i \in 1..n : 1 + i - 1 = i
    BY <1>1
  <2> QED BY <1>16, <2>2, <2>3
<1>9. /\ line' \in Seq(Nat) /\ Len(line') = l - n
      /\ \A i \in 1..l - n : line'[i] = line[n + i]
  <2>1. \A i \in n + 1..l : line[i] \in Nat
    BY <1>1, <1>7
  <2>2. PICK f \in Int : f = n + 1 /\ l - f + 1 = l - n
    BY <1>1
  <2>3. /\ SubSeq(line, f, l) \in Seq(Nat)
        /\ Len(SubSeq(line, f, l)) = IF f <= l THEN l - f + 1 ELSE 0
        /\ \A i \in 1..l - f + 1 : SubSeq(line, f, l)[i] = line[f + i - 1]
    BY <2>1, <2>2, SubSeqProperties
  <2>4. \A i \in 1..l - n : f + i - 1 = n + i
    BY <1>1, <2>2
  <2>5. f <= l \/ l - n = 0
    BY <1>1, <1>3, <2>2
  <2>6. line' = SubSeq(line, f, l)
    BY <1>2, <1>3, <2>2
  <2> QED BY <2>2, <2>3, <2>4, <2>5, <2>6
<1>10. OnLine(all)'
  <2>1. ASSUME NEW i \in 1..l - n
        PROVE  line'[i] = all[a - (l - n) + i]
    <3>1. n + i \in 1..l /\ a - l + (n + i) = a - (l - n) + i
      BY <1>1, <1>3, <2>1
    <3> QED BY <1>6, <1>9, <2>1, <3>1
  <2>2. l - n <= a
    BY <1>1, <1>3
  <2> QED BY <1>3, <1>9, <2>1, <2>2 DEF OnLine
<1>11. /\ b \in Seq(Nat) /\ Len(b) = m + n
       /\ \A i \in 1..m + n : b[i] = IF i <= m THEN incomingDataBuffer[i] ELSE data[i - m]
  <2>1. /\ incomingDataBuffer \o data \in Seq(Nat)
        /\ Len(incomingDataBuffer \o data) = Len(incomingDataBuffer) + Len(data)
        /\ \A i \in 1..Len(incomingDataBuffer) + Len(data) :
             (incomingDataBuffer \o data)[i] =
               IF i <= Len(incomingDataBuffer) THEN incomingDataBuffer[i]
                                               ELSE data[i - Len(incomingDataBuffer)]
    BY <1>2, <1>8, ConcatProperties
  <2> QED BY <1>3, <1>8, <1>16, <2>1
<1>12. ASSUME NEW i \in 1..m + n
       PROVE  b[i] = all[e + i]
  <2>1. CASE i <= m
    <3>1. i \in 1..m
      BY <2>1
    <3> QED BY <1>6, <1>11, <1>12, <2>1, <3>1
  <2>2. CASE ~(i <= m)
    <3>1. i - m \in 1..n /\ i - m \in 1..l /\ a - l + (i - m) = e + i
      <4>1. PICK j \in Nat, c \in Nat : j = i /\ c = n /\ j <= m + c /\ ~(j <= m)
        BY <1>1, <1>12, <2>2
      <4>2. j - m \in 1..c /\ j - m <= l
        BY <1>3, <4>1
      <4>3. a - l + (j - m) = e + j
        BY <1>5
      <4> QED BY <4>1, <4>2, <4>3
    <3>2. b[i] = data[i - m]
      BY <1>11, <1>12, <2>2
    <3>3. data[i - m] = line[i - m] /\ line[i - m] = all[a - l + (i - m)]
      BY <1>6, <1>8, <3>1
    <3> QED BY <3>1, <3>2, <3>3
  <2> QED BY <2>1, <2>2
<1>13. e + (m + n) = a - (l - n)
  <2>1. PICK c \in Nat : c = n
    BY <1>1
  <2>2. e + (m + c) = a - (l - c)
    BY <1>5
  <2> QED BY <2>1, <2>2
<1>14. m + n \in Nat /\ m + n >= n
  BY <1>1
<1>15. /\ b \in Seq(Nat) /\ Len(b) \in Nat /\ Len(b) >= n
       /\ Ends(script, k) + Len(b) = Len(all) - Len(line')
       /\ \A i \in 1..Len(b) : b[i] = all[Ends(script, k) + i]
  BY <1>3, <1>4, <1>9, <1>11, <1>12, <1>13, <1>14
<1>17. ReadGives(all, k, n, data, b)
  BY <1>1, <1>4, <1>8, <1>10, <1>15, <1>16 DEF ReadGives
<1> QED BY <1>17

-----------------------------------------------------------------------------
(* The bits of a packet are a sequence as long as it.                      *)
LEMMA BitsType ==
  ASSUME NEW b \in Seq(Nat)
  PROVE  bits(b) \in Seq(Nat) /\ Len(bits(b)) = Len(b)
<1>1. PICK l \in Nat : l = Len(b) /\ DOMAIN b = 1..l
  BY LenProperties
<1>2. \A i \in 1..l : b[i] % 128 \in Nat
  <2>1. \A x \in Nat : x % 128 \in Nat
    OBVIOUS
  <2>2. \A i \in 1..l : b[i] \in Nat
    BY <1>1, ElementOfSeq
  <2> QED BY <2>1, <2>2
<1>3. bits(b) = [i \in 1..l |-> b[i] % 128]
  BY <1>1 DEF bits
<1>4. bits(b) \in [1..l -> Nat]
  BY <1>2, <1>3
<1> QED BY <1>1, <1>4

(* What is reported is a sequence of packets.                              *)
LEMMA ReadingsType ==
  ASSUME TypeInv
  PROVE  /\ readings \in Seq(Seq(Nat))
         /\ readings = <<>> => lastPacket = <<>> /\ history = <<>>
<1>1. history \in Seq(Seq(Nat)) /\ lastPacket \in Seq(Nat)
  BY DEF TypeInv
<1>2. CASE lastPacket = <<>>
  BY <1>1, <1>2 DEF readings
<1>3. CASE lastPacket # <<>>
  <2>1. Append(history, lastPacket) \in Seq(Seq(Nat)) /\ Append(history, lastPacket) # <<>>
    BY <1>1, AppendProperties
  <2> QED BY <1>3, <2>1 DEF readings
<1> QED BY <1>2, <1>3

(* After a read that ends no packet the buffer has more bytes.             *)
LEMMA ReadsOn ==
  ASSUME IInv, NEW n \in ReadSizes, PortReads(n),
         SubSeq(line, 1, n) # PacketEnd
  PROVE  IInv'
<1>1. PICK all : all = FlattenSeq(script) /\ IsSent(script, all) /\ OnLine(all)
  BY SentIs DEF IInv
<1>2. PICK k \in 0..Len(script) : Buffered(all, k) /\ Reported(script, readings, k)
  BY <1>1 DEF IInv
<1>3. PICK data, b : ReadGives(all, k, n, data, b)
  BY <1>1, <1>2, ReadIs
<1>5. /\ data = SubSeq(line, 1, n) /\ b = incomingDataBuffer \o data
      /\ OnLine(all)' /\ b \in Seq(Nat)
      /\ Ends(script, k) + Len(b) = Len(all) - Len(line')
      /\ \A i \in 1..Len(b) : b[i] = all[Ends(script, k) + i]
  BY <1>3 DEF ReadGives
<1>6. /\ incomingDataBuffer' = b /\ script' = script
      /\ UNCHANGED <<lastPacket, history>>
  BY <1>5 DEF PortReads, didReceiveData
<1>7. Buffered(all, k)'
  BY <1>5, <1>6 DEF Buffered
<1>8. readings' = readings /\ TypeInv'
  BY <1>6 DEF readings, TypeInv, IInv
<1>9. Reported(script', readings', k)
  BY <1>2, <1>6, <1>8
<1>10. all = FlattenSeq(script') /\ IsScript(script') /\ k \in 0..Len(script')
  BY <1>1, <1>6 DEF IInv
<1> QED BY <1>5, <1>7, <1>8, <1>9, <1>10 DEF IInv

(* Read bytes b end with packet m.                                         *)
EndGives(all, k, n, b, m) ==
  /\ b = incomingDataBuffer \o SubSeq(line, 1, n)
  /\ b \in Seq(Nat) /\ Len(b) \in Nat /\ Len(b) > 0
  /\ m \in 1..Len(script) /\ k \in 0..m-1
  /\ Ends(script, m) = Len(all) - Len(line')
  /\ Len(b) = 14 => k = m - 1 /\ b = script[m]
  /\ Len(b) = 13 => k = 0
  /\ Ends(script, k) + Len(b) = Len(all) - Len(line')
  /\ \A i \in 1..Len(b) : b[i] = all[Ends(script, k) + i]

(* A read of e0 ends a packet.                                             *)
LEMMA ReadEnds ==
  ASSUME IInv, NEW all, IsSent(script, all), OnLine(all),
         NEW k \in 0..Len(script), Buffered(all, k),
         NEW n \in ReadSizes, PortReads(n),
         SubSeq(line, 1, n) = PacketEnd
  PROVE  \E b, m : EndGives(all, k, n, b, m)
<1>2. PICK data, b : ReadGives(all, k, n, data, b)
  BY ReadIs
<1>3. /\ data = SubSeq(line, 1, n) /\ b = incomingDataBuffer \o data
      /\ data \in Seq(Nat) /\ Len(data) = n /\ n \in Nat /\ n > 0
      /\ OnLine(all)'
      /\ b \in Seq(Nat) /\ Len(b) \in Nat /\ Len(b) >= n
      /\ Ends(script, k) \in Nat
      /\ Ends(script, k) + Len(b) = Len(all) - Len(line')
      /\ \A i \in 1..Len(b) : b[i] = all[Ends(script, k) + i]
  BY <1>2 DEF ReadGives
<1>4. /\ data = <<224>> /\ n = 1
  BY <1>3 DEF PacketEnd
<1>5. PICK q : q = script /\ IsScript(q) /\ IsSent(q, all)
  BY DEF IInv
<1>6. PICK l \in Nat, e \in Nat, x \in Nat :
        /\ l = Len(b) /\ l > 0 /\ e = Ends(q, k) /\ x = e + l
        /\ x = Len(all) - Len(line')
  <2>1. PICK l \in Nat, e \in Nat : l = Len(b) /\ l >= 1 /\ e = Ends(script, k)
    BY <1>3, <1>4
  <2>2. e + l = Len(all) - Len(line') /\ e + l \in Nat /\ l > 0
    <3>1. e + l = Len(all) - Len(line')
      BY <1>3, <2>1
    <3>2. e + l \in Nat /\ l > 0
      BY <2>1
    <3> QED BY <3>1, <3>2
  <2> QED BY <1>5, <2>1, <2>2
<1>7. x \in 1..Len(all)
  <2>1. all \in Seq(Nat) /\ line' \in Seq(Nat)
    BY <1>3, <1>5 DEF IsSent, OnLine
  <2>2. Len(all) \in Nat /\ Len(line') \in Nat
    BY <2>1
  <2>3. PICK a \in Nat, c \in Nat : a = Len(all) /\ c = Len(line')
    BY <2>2
  <2>4. x = a - c /\ x = e + l
    BY <1>6, <2>3
  <2>5. x \in 1..a
    <3>1. l > 0
      BY <1>6
    <3>2. x > 0 /\ x <= a
      BY <2>4, <3>1
    <3> QED BY <3>2
  <2> QED BY <2>3, <2>5
<1>8. all[x] = 224
  <2>1. incomingDataBuffer \in Seq(Nat)
    BY DEF Buffered
  <2>2. b = Append(incomingDataBuffer, 224)
    BY <1>3, <1>4, <2>1
  <2>3. b[l] = 224
    <3>1. Len(b) = Len(incomingDataBuffer) + 1 /\ b[Len(incomingDataBuffer) + 1] = 224
      BY <2>1, <2>2
    <3> QED BY <1>6, <3>1
  <2>4. l \in 1..Len(b)
    <3>1. l \in 1..l
      BY <1>6
    <3> QED BY <1>6, <3>1
  <2>5. b[l] = all[Ends(script, k) + l]
    BY <1>3, <2>4
  <2> QED BY <1>5, <1>6, <2>3, <2>5
<1>9. PICK m \in 1..Len(q) : x = Ends(q, m)
  BY <1>5, <1>7, <1>8, EndOfPacket
<1>10. /\ k \in 0..m-1
       /\ l = 14 => k = m - 1
       /\ l = 13 => k = 0
  <2>1. k \in 0..Len(q) /\ Ends(q, k) + l = Ends(q, m)
    BY <1>5, <1>6, <1>9
  <2>2. IsScript(q) /\ l > 0
    BY <1>5, <1>6
  <2> QED BY <2>1, <2>2, WholePackets
<1>11. l = 14 => b = q[m]
  <2>1. SUFFICES ASSUME l = 14 PROVE b = q[m]
    OBVIOUS
  <2>2. k = m - 1
    BY <1>10, <2>1
  <2>3. /\ Len(b) = 14 /\ Ends(q, m - 1) + 14 = Ends(q, m)
        /\ \A i \in 1..Len(b) : b[i] = all[Ends(q, m - 1) + i]
    <3>1. Ends(q, k) + 14 = Ends(q, m)
      BY <1>6, <1>9, <2>1
    <3>2. \A i \in 1..Len(b) : b[i] = all[Ends(q, k) + i]
      BY <1>3, <1>5
    <3>3. Len(b) = 14
      BY <1>6, <2>1
    <3>4. Ends(q, m - 1) = Ends(q, k)
      BY <2>2
    <3>5. Ends(q, m - 1) + 14 = Ends(q, m)
      BY <3>1, <3>4
    <3>6. \A i \in 1..Len(b) : b[i] = all[Ends(q, m - 1) + i]
      BY <3>2, <3>4
    <3> QED BY <3>3, <3>5, <3>6
  <2>4. b \in Seq(Nat) /\ m \in 1..Len(q) /\ IsScript(q) /\ IsSent(q, all)
    BY <1>3, <1>5, <1>9
  <2>5. EndsWith(q, all, m, b)
    BY <2>3 DEF EndsWith
  <2> QED BY <2>4, <2>5, NextPacket
<1>12. EndGives(all, k, n, b, m)
  BY <1>3, <1>5, <1>6, <1>9, <1>10, <1>11 DEF EndGives
<1> QED BY <1>12

(* After a read that ends a packet the buffer is empty again, unless the   *)
(* packet had 13 bytes and was the first.                                  *)
LEMMA ReadsEnd ==
  ASSUME IInv, NEW n \in ReadSizes, PortReads(n),
         SubSeq(line, 1, n) = PacketEnd
  PROVE  IInv'
<1>1. PICK all : all = FlattenSeq(script) /\ IsSent(script, all) /\ OnLine(all)
  BY SentIs DEF IInv
<1>2. PICK k \in 0..Len(script) : Buffered(all, k) /\ Reported(script, readings, k)
  BY <1>1 DEF IInv
<1>17. PICK b, m : EndGives(all, k, n, b, m)
  BY <1>1, <1>2, ReadEnds
<1>3. /\ b = incomingDataBuffer \o SubSeq(line, 1, n)
      /\ b \in Seq(Nat) /\ Len(b) \in Nat /\ Len(b) > 0
      /\ m \in 1..Len(script) /\ k \in 0..m-1
      /\ Ends(script, m) = Len(all) - Len(line')
      /\ Len(b) = 14 => k = m - 1 /\ b = script[m]
      /\ Len(b) = 13 => k = 0
      /\ Ends(script, k) + Len(b) = Len(all) - Len(line')
      /\ \A i \in 1..Len(b) : b[i] = all[Ends(script, k) + i]
  BY <1>17 DEF EndGives
<1>4. \E data, c : ReadGives(all, k, n, data, c)
  BY <1>1, <1>2, ReadIs
<1>5. OnLine(all)'
  BY <1>4 DEF ReadGives
<1>6. script' = script
  BY DEF PortReads
<1>7. all = FlattenSeq(script') /\ IsScript(script')
  BY <1>1, <1>6 DEF IInv
<1>8. m \in Nat /\ m > 0 /\ m \in 0..Len(script') /\ k \in Nat /\ k <= m
  <2>1. Len(script) \in Nat
    BY ScriptIs DEF IInv
  <2> QED BY <1>3, <1>6, <2>1
<1>9. TypeInv /\ readings \in Seq(Seq(Nat))
  BY ReadingsType DEF IInv
<1>10. PICK new \in Seq(Nat) : new = bits(b) /\ Len(new) = Len(b)
  BY <1>3, BitsType
<1>11. ASSUME incomingDataBuffer' = <<>>
       PROVE  Buffered(all, m)'
  <2>1. PICK e \in Nat : e = Ends(script, m)
    BY <1>3, EndsIs DEF IInv
  <2>2. e + 0 = Len(all) - Len(line')
    BY <1>3, <2>1
  <2> QED BY <1>6, <1>11, <2>1, <2>2 DEF Buffered
<1>12. ASSUME TypeInv', incomingDataBuffer' = <<>>, Reported(script, readings', m)
       PROVE  IInv'
  <2>1. Reported(script', readings', m)
    BY <1>6, <1>12
  <2> QED BY <1>5, <1>7, <1>8, <1>11, <1>12, <2>1 DEF IInv
<1>13. Reported(script, readings, m)
  BY <1>2, <1>8, <1>9, ReportsStay
<1>14. CASE new = lastPacket
  <2>1. incomingDataBuffer' = <<>> /\ UNCHANGED <<lastPacket, history>>
    BY <1>3, <1>10, <1>14 DEF PortReads, didReceiveData
  <2>2. readings' = readings /\ TypeInv'
    BY <1>9, <2>1 DEF readings, TypeInv
  <2> QED BY <1>12, <1>13, <2>1, <2>2
<1>15. CASE new # lastPacket
  <2> DEFINE throws == ~IsNil(new) /\ Len(new) < 14
  <2>1. /\ history' = IF lastPacket = <<>> THEN history ELSE Append(history, lastPacket)
        /\ incomingDataBuffer' = IF throws THEN b ELSE <<>>
        /\ lastPacket' = CASE throws -> lastPacket [] IsNil(new) -> <<>> [] OTHER -> new
    BY <1>3, <1>10, <1>15 DEF PortReads, didReceiveData
  <2>2. history' = readings
    BY <2>1 DEF readings
  <2>3. CASE Len(new) = 14
    <3>1. ~throws /\ ~IsNil(new)
      BY <2>3 DEF IsNil
    <3>2. incomingDataBuffer' = <<>> /\ lastPacket' = new
      BY <2>1, <3>1
    <3>3. new # <<>>
      <4>1. new = <<>> => Len(new) = 0
        OBVIOUS
      <4> QED BY <2>3, <4>1
    <3>4. readings' = Append(readings, new)
      BY <2>2, <3>2, <3>3 DEF readings
    <3>5. k = m - 1 /\ new = bits(script[m])
      BY <1>3, <1>10, <2>3
    <3>6. Reported(script, readings, m - 1)
      BY <1>2, <3>5
    <3>7. Reported(script, Append(readings, new), m)
      BY <1>8, <1>9, <2>3, <3>5, <3>6, ReportsGrow
    <3>8. TypeInv'
      BY <1>9, <2>2, <3>2 DEF TypeInv
    <3> QED BY <1>12, <3>2, <3>4, <3>7, <3>8
  <2>4. CASE Len(new) = 13
    <3>1. throws
      BY <2>4 DEF IsNil
    <3>2. incomingDataBuffer' = b /\ lastPacket' = lastPacket
      BY <2>1, <3>1
    <3>3. k = 0
      BY <1>3, <1>10, <2>4
    <3>4. readings = <<>>
      <4>1. PICK at \in [DOMAIN readings -> 1..0] : TRUE
        BY <1>2, <3>3 DEF Reported
      <4>2. DOMAIN readings = {}
        <5>1. 1..0 = {}
          OBVIOUS
        <5>2. \A i \in DOMAIN readings : at[i] \in 1..0
          BY <4>1
        <5> QED BY <5>1, <5>2
      <4> QED BY <1>9, <4>2
    <3>5. lastPacket = <<>> /\ history = <<>>
      BY <1>9, <3>4, ReadingsType
    <3>6. readings' = readings /\ TypeInv'
      BY <1>9, <2>2, <3>2, <3>4, <3>5 DEF readings, TypeInv
    <3>7. Reported(script', readings', k) /\ k \in 0..Len(script')
      BY <1>2, <1>6, <3>6
    <3>8. Buffered(all, k)'
      BY <1>3, <1>6, <3>2 DEF Buffered
    <3> QED BY <1>5, <1>7, <3>6, <3>7, <3>8 DEF IInv
  <2>5. CASE Len(new) \notin {13, 14}
    <3>1. IsNil(new) /\ ~throws
      BY <2>5 DEF IsNil
    <3>2. incomingDataBuffer' = <<>> /\ lastPacket' = <<>>
      BY <2>1, <3>1
    <3>3. readings' = readings
      BY <2>2, <3>2 DEF readings
    <3>4. TypeInv'
      BY <1>9, <2>2, <3>2 DEF TypeInv
    <3> QED BY <1>12, <1>13, <3>2, <3>3, <3>4
  <2> QED BY <2>3, <2>4, <2>5
<1> QED BY <1>14, <1>15

-----------------------------------------------------------------------------
(* The invariant holds always, for any packets sent, any cut of the first  *)
(* and any sizes of reads.                                                 *)
THEOREM InvCorrect == Spec => []IInv
<1>1. IInv /\ [Next]_vars => IInv'
  <2>1. SUFFICES ASSUME IInv, [Next]_vars PROVE IInv'
    OBVIOUS
  <2>2. ASSUME NEW n \in ReadSizes, PortReads(n)
        PROVE  IInv'
    <3>1. CASE SubSeq(line, 1, n) # PacketEnd
      BY <2>1, <2>2, <3>1, ReadsOn
    <3>2. CASE SubSeq(line, 1, n) = PacketEnd
      BY <2>1, <2>2, <3>2, ReadsEnd
    <3> QED BY <3>1, <3>2
  <2>3. CASE UNCHANGED vars
    <3>1. /\ script' = script /\ line' = line /\ incomingDataBuffer' = incomingDataBuffer
          /\ lastPacket' = lastPacket /\ history' = history
      BY <2>3 DEF vars
    <3>2. TypeInv' /\ IsScript(script') /\ readings' = readings
      BY <2>1, <3>1 DEF IInv, TypeInv, readings
    <3>6. PICK all : all = FlattenSeq(script) /\ OnLine(all)
      BY <2>1 DEF IInv
    <3>3. OnLine(all)' /\ all = FlattenSeq(script')
      BY <3>1, <3>6 DEF OnLine
    <3>4. PICK k \in 0..Len(script) : Buffered(all, k) /\ Reported(script, readings, k)
      BY <2>1, <3>6 DEF IInv
    <3>5. /\ Buffered(all, k)' /\ Reported(script', readings', k)
          /\ k \in 0..Len(script')
      BY <3>1, <3>2, <3>4 DEF Buffered
    <3> QED BY <3>2, <3>3, <3>5 DEF IInv
  <2> QED BY <2>1, <2>2, <2>3 DEF Next
<1> QED BY <1>1, InitInv, PTL DEF Spec

(* However the bytes are split into reads, the packets reported were sent  *)
(* as they are and in that order (MM2200087.m:186-204).                    *)
THEOREM InOrder == Spec => []ReadingsInOrder
<1>1. IInv => ReadingsInOrder
  <2>1. SUFFICES ASSUME IInv PROVE ReadingsInOrder
    OBVIOUS
  <2>2. PICK k \in 0..Len(script) : Reported(script, readings, k)
    BY <2>1 DEF IInv
  <2>3. PICK at \in [DOMAIN readings -> 1..k] :
          \A i \in DOMAIN readings : /\ readings[i] = bits(script[at[i]]) /\ Len(readings[i]) = 14
                                     /\ \A j \in 1..i-1 : at[j] < at[i]
    BY <2>2 DEF Reported
  <2>4. 1..k \subseteq DOMAIN script
    <3>1. script \in Seq(Seq(Nat))
      BY <2>1 DEF IInv, IsScript
    <3>2. DOMAIN script = 1..Len(script) /\ Len(script) \in Nat
      BY <3>1, LenProperties
    <3> QED BY <3>2
  <2>5. at \in [DOMAIN readings -> DOMAIN script]
    BY <2>3, <2>4
  <2> QED BY <2>3, <2>5 DEF ReadingsInOrder
<1> QED BY <1>1, InvCorrect, PTL

-----------------------------------------------------------------------------
(* What is reported when each packet ends with e0, read by itself.         *)

(* Of the first k packets these are to be reported.                        *)
Due(q, k) == { n \in 1..k : Len(q[n]) = 14 /\ (n > 1 => q[n] # q[n - 1]) }

(* The driver is done with the first k packets and has no more.            *)
InStep(all, k) ==
  /\ Buffered(all, k)
  /\ k < Len(script) => Ends(script, k) + Len(incomingDataBuffer) < Ends(script, k + 1)
  /\ Lists(readings, script, Due(script, k))
  /\ lastPacket = IF k > 0 /\ Len(script[k]) = 14 THEN bits(script[k]) ELSE <<>>

AllEnd(q) == \A n \in DOMAIN q : Last(q[n]) = 224

StepInv ==
  ~together /\ ~thrown /\ AllEnd(script)
    => \E k \in 0..Len(script) : InStep(FlattenSeq(script), k)

-----------------------------------------------------------------------------
(* The bits of a whole packet tell it from any other.                      *)
LEMMA BitsTell ==
  ASSUME NEW p, NEW t, IsTail(p), IsTail(t), Len(p) = 14, Len(t) = 14, bits(p) = bits(t)
  PROVE  p = t
<1>1. p \in Seq(Nat) /\ t \in Seq(Nat)
  BY DEF IsTail
<1>2. ASSUME NEW i \in 1..14
      PROVE  p[i] = t[i]
  <2>1. i \in DOMAIN p /\ i \in DOMAIN t
    BY <1>1, LenProperties
  <2>2. bits(p)[i] = p[i] % 128 /\ bits(t)[i] = t[i] % 128
    BY <2>1 DEF bits
  <2>3. i + 14 - 14 = i
    OBVIOUS
  <2>4. p[i] \in 16 * i..16 * i + 15 /\ t[i] \in 16 * i..16 * i + 15
    BY <2>3 DEF IsTail
  <2>5. PICK x \in 16 * i..16 * i + 15, y \in 16 * i..16 * i + 15 :
          x = p[i] /\ y = t[i] /\ x % 128 = y % 128
    BY <2>2, <2>4
  <2>6. \A z \in 0..255 : z % 128 = IF z < 128 THEN z ELSE z - 128
    OBVIOUS
  <2>7. x \in 0..255 /\ y \in 0..255
    OBVIOUS
  <2>8. /\ x % 128 = IF x < 128 THEN x ELSE x - 128
        /\ y % 128 = IF y < 128 THEN y ELSE y - 128
    BY <2>6, <2>7
  <2>9. x = y
    <3>1. CASE i < 8
      <4>1. x < 128 /\ y < 128
        BY <3>1
      <4> QED BY <2>5, <2>8, <4>1
    <3>2. CASE ~(i < 8)
      <4>1. ~(x < 128) /\ ~(y < 128)
        BY <3>2
      <4> QED BY <2>5, <2>8, <4>1
    <3> QED BY <3>1, <3>2
  <2> QED BY <2>5, <2>9
<1>3. Len(p) = Len(t) /\ \A i \in 1..Len(p) : p[i] = t[i]
  BY <1>2
<1> QED BY <1>1, <1>3, SeqEqual

(* The last byte of each packet is e0.                                     *)
LEMMA LastByte ==
  ASSUME NEW q, IsScript(q), AllEnd(q), NEW all, IsSent(q, all), NEW k \in 1..Len(q)
  PROVE  all[Ends(q, k)] = 224
<1>1. PICK l \in 1..14 : l = Len(q[k]) /\ Ends(q, k) = Ends(q, k - 1) + l
  <2>1. Len(q[k]) \in 1..14 /\ Ends(q, k) = Ends(q, k - 1) + Len(q[k])
    BY EndsIs
  <2> QED BY <2>1
<1>2. l \in 1..Len(q[k])
  <2>1. l \in 1..l
    OBVIOUS
  <2> QED BY <1>1, <2>1
<1>3. all[Ends(q, k - 1) + l] = q[k][l]
  BY <1>2 DEF IsSent
<1>4. k \in DOMAIN q
  BY LenProperties DEF IsScript
<1>5. q[k][l] = 224
  BY <1>1, <1>4 DEF AllEnd, Last
<1> QED BY <1>1, <1>3, <1>5

(* A later packet ends later.                                              *)
LEMMA EndsOrder ==
  ASSUME NEW q, IsScript(q), NEW k \in 0..Len(q), NEW m \in 1..Len(q)
  PROVE  Ends(q, k) \in Nat /\ Ends(q, m) \in Nat /\ (k < m <=> Ends(q, k) < Ends(q, m))
<1>1. PICK c \in 1..14 :
           /\ c = Len(q[1]) /\ Ends(q, 0) = 0
           /\ \A n \in Nat : n > 0 => Ends(q, n) = c + 14 * (n - 1)
           /\ \A n \in 1..Len(q) : n # 1 => Len(q[n]) = 14
  BY EndsAt
<1>2. k \in Nat /\ m \in Nat /\ m > 0
  BY ScriptIs
<1>3. Ends(q, m) = c + 14 * (m - 1)
  BY <1>1, <1>2
<1>4. CASE k = 0
  <2>1. Ends(q, k) = 0
    BY <1>1, <1>4
  <2> QED BY <1>2, <1>3, <1>4, <2>1
<1>5. CASE k > 0
  <2>1. Ends(q, k) = c + 14 * (k - 1)
    BY <1>1, <1>2, <1>5
  <2> QED BY <1>2, <1>3, <1>5, <2>1
<1> QED BY <1>2, <1>4, <1>5

(* The next packet is due or not.                                          *)
LEMMA DueGrows ==
  ASSUME NEW q, NEW m \in Nat, m > 0
  PROVE  Due(q, m) = IF Len(q[m]) = 14 /\ (m > 1 => q[m] # q[m - 1])
                     THEN Due(q, m - 1) \cup {m} ELSE Due(q, m - 1)
<1>1. 1..m = 1..m-1 \cup {m}
  OBVIOUS
<1> QED BY <1>1 DEF Due

(* One more packet is reported.                                            *)
LEMMA ListsGrow ==
  ASSUME NEW q, NEW r \in Seq(Seq(Nat)), NEW m \in Nat, NEW T \in SUBSET (1..m-1),
         Lists(r, q, T), NEW p \in Seq(Nat), p = bits(q[m])
  PROVE  Lists(Append(r, p), q, T \cup {m})
<1>1. PICK at \in [DOMAIN r -> T] :
        /\ \A n \in T : \E i \in DOMAIN r : at[i] = n
        /\ \A i \in DOMAIN r : r[i] = bits(q[at[i]]) /\ \A j \in 1..i-1 : at[j] < at[i]
  BY DEF Lists
<1>2. PICK l \in Nat : l = Len(r) /\ DOMAIN r = 1..l
  BY LenProperties
<1>3. PICK s : /\ s = Append(r, p) /\ DOMAIN s = 1..l+1 /\ s[l+1] = p
               /\ \A i \in 1..l : s[i] = r[i]
  <2>1. Append(r, p) \in Seq(Seq(Nat)) /\ Len(Append(r, p)) = l + 1
    BY <1>2
  <2>2. DOMAIN Append(r, p) = 1..l+1
    BY <2>1, LenProperties
  <2>3. Append(r, p)[l+1] = p /\ \A i \in 1..l : Append(r, p)[i] = r[i]
    BY <1>2
  <2> QED BY <2>2, <2>3
<1> DEFINE to == [i \in 1..l+1 |-> IF i = l + 1 THEN m ELSE at[i]]
<1>4. \A i \in 1..l : at[i] \in T /\ at[i] < m
  <2>1. \A n \in T : n < m
    OBVIOUS
  <2>2. \A i \in 1..l : at[i] \in T
    BY <1>1, <1>2
  <2> QED BY <2>1, <2>2
<1>5. DOMAIN to = 1..l+1 /\ to[l+1] = m /\ \A i \in 1..l : to[i] = at[i] /\ i \in 1..l+1
  BY <1>2
<1>6. to \in [DOMAIN s -> T \cup {m}]
  <2>1. ASSUME NEW i \in 1..l+1
        PROVE  to[i] \in T \cup {m}
    <3>1. i = l + 1 \/ i \in 1..l
      OBVIOUS
    <3> QED BY <1>4, <1>5, <3>1
  <2>2. to = [i \in 1..l+1 |-> to[i]]
    OBVIOUS
  <2> HIDE DEF to
  <2> QED BY <1>3, <2>1, <2>2
<1> HIDE DEF to
<1>7. ASSUME NEW n \in T \cup {m}
      PROVE  \E i \in DOMAIN s : to[i] = n
  <2>1. CASE n = m
    <3>1. l + 1 \in DOMAIN s
      BY <1>3
    <3> QED BY <1>5, <2>1, <3>1
  <2>2. CASE n \in T
    <3>1. PICK i \in 1..l : at[i] = n
      BY <1>1, <1>2, <2>2
    <3>2. i \in DOMAIN s /\ to[i] = n
      BY <1>3, <1>5, <3>1
    <3> QED BY <3>2
  <2> QED BY <2>1, <2>2
<1>8. ASSUME NEW i \in DOMAIN s
      PROVE  s[i] = bits(q[to[i]]) /\ \A j \in 1..i-1 : to[j] < to[i]
  <2>1. CASE i = l + 1
    <3>1. s[i] = bits(q[to[i]])
      BY <1>3, <1>5, <2>1
    <3>2. ASSUME NEW j \in 1..i-1
          PROVE  to[j] < to[i]
      <4>1. j \in 1..l
        BY <2>1
      <4> QED BY <1>4, <1>5, <2>1, <4>1
    <3> QED BY <3>1, <3>2
  <2>2. CASE i # l + 1
    <3>1. i \in 1..l /\ i \in Nat
      BY <1>3, <1>8, <2>2
    <3>2. s[i] = bits(q[to[i]])
      BY <1>1, <1>2, <1>3, <1>5, <3>1
    <3>3. ASSUME NEW j \in 1..i-1
          PROVE  to[j] < to[i]
      <4>1. j \in 1..l
        BY <3>1
      <4>2. at[j] < at[i]
        BY <1>1, <1>2, <3>1
      <4> QED BY <1>5, <3>1, <4>1, <4>2
    <3> QED BY <3>2, <3>3
  <2> QED BY <2>1, <2>2
<1> QED BY <1>3, <1>6, <1>7, <1>8 DEF Lists

(* A read that ends no packet leaves the driver in step: it cannot go past *)
(* the end of one.                                                         *)
LEMMA ReadsOnInStep ==
  ASSUME IInv, StepInv, NEW n \in ReadSizes, PortReads(n),
         SubSeq(line, 1, n) # PacketEnd
  PROVE  StepInv'
<1>1. PICK all : all = FlattenSeq(script) /\ IsSent(script, all) /\ OnLine(all)
  BY SentIs DEF IInv
<1>2. script' = script /\ all = FlattenSeq(script')
  BY <1>1 DEF PortReads
<1>3. SUFFICES ASSUME ~together', ~thrown', AllEnd(script)
               PROVE  \E k \in 0..Len(script) : InStep(all, k)'
  BY <1>2 DEF StepInv
<1>4. /\ ~together /\ ~thrown
      /\ n > 1 => ~\E i \in 1..n : SubSeq(line, 1, n)[i] >= 224
  BY <1>3 DEF PortReads
<1>5. PICK k \in 0..Len(script) : InStep(all, k)
  BY <1>1, <1>3, <1>4 DEF StepInv
<1>6. Buffered(all, k)
  BY <1>5 DEF InStep
<1>7. PICK data, b : ReadGives(all, k, n, data, b)
  BY <1>1, <1>6, ReadIs
<1>8. /\ data = SubSeq(line, 1, n) /\ b = incomingDataBuffer \o data
      /\ data \in Seq(Nat) /\ Len(data) = n /\ n \in Nat /\ n > 0
      /\ b \in Seq(Nat) /\ Ends(script, k) \in Nat
      /\ Ends(script, k) + Len(b) = Len(all) - Len(line')
      /\ \A i \in 1..Len(b) : b[i] = all[Ends(script, k) + i]
  BY <1>7 DEF ReadGives
<1>9. /\ incomingDataBuffer' = b
      /\ UNCHANGED <<lastPacket, history>>
  BY <1>8 DEF PortReads, didReceiveData
<1>10. Buffered(all, k)'
  BY <1>2, <1>8, <1>9 DEF Buffered
<1>11. readings' = readings
  BY <1>9 DEF readings
<1>12. ASSUME k < Len(script)
       PROVE  Ends(script, k) + Len(b) < Ends(script, k + 1)
  <2>1. PICK e \in Nat, m \in Nat, c \in Nat :
          e = Ends(script, k) /\ m = Len(incomingDataBuffer) /\ c = n /\ c > 0
    <3>1. incomingDataBuffer \in Seq(Nat)
      BY <1>6 DEF Buffered
    <3>2. Len(incomingDataBuffer) \in Nat
      BY <3>1
    <3> QED BY <1>8, <3>2
  <2>2. k + 1 \in 1..Len(script)
    BY <1>12, ScriptIs DEF IInv
  <2>3. PICK x \in Nat : x = Ends(script, k + 1)
    BY <2>2, EndsIs DEF IInv
  <2>4. e + m < x
    BY <1>5, <1>12, <2>1, <2>3 DEF InStep
  <2>5. all[x] = 224
    BY <1>1, <1>3, <2>2, <2>3, LastByte DEF IInv
  <2>6. /\ Len(b) = m + c
        /\ \A i \in 1..m + c : b[i] = IF i <= m THEN incomingDataBuffer[i] ELSE data[i - m]
    <3>1. incomingDataBuffer \in Seq(Nat) /\ data \in Seq(Nat)
      BY <1>6, <1>8 DEF Buffered
    <3>2. /\ Len(incomingDataBuffer \o data) = Len(incomingDataBuffer) + Len(data)
          /\ \A i \in 1..Len(incomingDataBuffer) + Len(data) :
               (incomingDataBuffer \o data)[i] =
                 IF i <= Len(incomingDataBuffer) THEN incomingDataBuffer[i]
                                                 ELSE data[i - Len(incomingDataBuffer)]
      BY <3>1, ConcatProperties
    <3>3. Len(data) = c
      BY <1>8, <2>1
    <3> QED BY <1>8, <2>1, <3>2, <3>3
  <2>7. ASSUME ~(e + (m + c) < x)
        PROVE  FALSE
    <3>1. PICK i \in 1..c : x = e + (m + i)
      <4>1. x - e - m \in 1..c /\ x = e + (m + (x - e - m))
        BY <2>4, <2>7
      <4> QED BY <4>1
    <3>2. m + i \in 1..m + c /\ ~(m + i <= m) /\ (m + i) - m = i
      OBVIOUS
    <3>3. b[m + i] = data[i]
      BY <2>6, <3>2
    <3>4. b[m + i] = all[x]
      BY <1>8, <2>1, <2>6, <3>1, <3>2
    <3>5. data[i] = 224
      BY <2>5, <3>3, <3>4
    <3>6. CASE c = 1
      <4>1. i = 1 /\ Len(data) = 1
        BY <1>8, <2>1, <3>6
      <4>2. data[1] = 224
        BY <3>5, <4>1
      <4>3. data = <<224>>
        <5>1. data \in Seq(Nat)
          BY <1>8
        <5> QED BY <4>1, <4>2, <5>1
      <4> QED BY <1>8, <4>3 DEF PacketEnd
    <3>7. CASE c > 1
      <4>1. n > 1 /\ i \in 1..n
        BY <2>1, <3>7
      <4>2. ~(data[i] >= 224)
        BY <1>4, <1>8, <4>1
      <4> QED BY <3>5, <4>2
    <3> QED BY <2>1, <3>6, <3>7
  <2> QED BY <2>1, <2>3, <2>6, <2>7
<1>13. InStep(all, k)'
  <2>1. /\ k < Len(script') => Ends(script', k) + Len(incomingDataBuffer') < Ends(script', k + 1)
        /\ Lists(readings', script', Due(script', k))
        /\ lastPacket' = IF k > 0 /\ Len(script'[k]) = 14 THEN bits(script'[k]) ELSE <<>>
    BY <1>2, <1>5, <1>9, <1>11, <1>12 DEF InStep
  <2> QED BY <1>10, <2>1 DEF InStep
<1> QED BY <1>13

(* A read of e0 ends the next packet.  It is reported if it is due.        *)
LEMMA ReadsEndInStep ==
  ASSUME IInv, StepInv, NEW n \in ReadSizes, PortReads(n),
         SubSeq(line, 1, n) = PacketEnd
  PROVE  StepInv'
<1>1. PICK all : all = FlattenSeq(script) /\ IsSent(script, all) /\ OnLine(all)
  BY SentIs DEF IInv
<1>2. script' = script /\ all = FlattenSeq(script')
  BY <1>1 DEF PortReads
<1>3. SUFFICES ASSUME ~together', ~thrown', AllEnd(script)
               PROVE  \E k \in 0..Len(script) : InStep(all, k)'
  BY <1>2 DEF StepInv
<1>4. ~together /\ ~thrown
  BY <1>3 DEF PortReads
<1>5. PICK k \in 0..Len(script) : InStep(all, k)
  BY <1>1, <1>3, <1>4 DEF StepInv
<1>6. /\ Buffered(all, k) /\ Lists(readings, script, Due(script, k))
      /\ k < Len(script) => Ends(script, k) + Len(incomingDataBuffer) < Ends(script, k + 1)
      /\ lastPacket = IF k > 0 /\ Len(script[k]) = 14 THEN bits(script[k]) ELSE <<>>
  BY <1>5 DEF InStep
<1>7. PICK b, m : EndGives(all, k, n, b, m)
  BY <1>1, <1>6, ReadEnds
<1>8. /\ b = incomingDataBuffer \o SubSeq(line, 1, n)
      /\ b \in Seq(Nat) /\ Len(b) \in Nat /\ Len(b) > 0
      /\ m \in 1..Len(script) /\ k \in 0..m-1
      /\ Ends(script, m) = Len(all) - Len(line')
      /\ Len(b) = 14 => k = m - 1 /\ b = script[m]
      /\ Ends(script, k) + Len(b) = Len(all) - Len(line')
  BY <1>7 DEF EndGives
<1>9. PICK q : q = script /\ IsScript(q)
  BY DEF IInv
<1>10. /\ m \in Nat /\ m > 0 /\ k \in Nat /\ k < m /\ Len(q) \in Nat /\ m <= Len(q)
  BY <1>8, <1>9, ScriptIs
<1>11. k = m - 1
  <2>1. SUFFICES ASSUME k + 1 < m PROVE FALSE
    BY <1>10
  <2>2. k + 1 \in 0..Len(q) /\ m \in 1..Len(q) /\ k < Len(q)
    BY <1>10, <2>1
  <2>3. /\ Ends(q, k + 1) \in Nat /\ Ends(q, m) \in Nat
        /\ Ends(q, k + 1) < Ends(q, m)
    BY <1>9, <2>1, <2>2, EndsOrder
  <2>4. k \in 0..Len(q)
    BY <1>9
  <2>5. Ends(q, k) \in Nat
    BY <1>9, <2>2, <2>4, EndsOrder
  <2>6. PICK e \in Nat, x \in Nat, y \in Nat, l \in Nat :
          /\ e = Ends(q, k) /\ x = Ends(q, k + 1) /\ y = Ends(q, m)
          /\ l = Len(incomingDataBuffer)
    <3>1. incomingDataBuffer \in Seq(Nat)
      BY <1>6 DEF Buffered
    <3>2. Len(incomingDataBuffer) \in Nat
      BY <3>1
    <3> QED BY <2>3, <2>5, <3>2
  <2>7. e + l < x /\ x < y
    BY <1>6, <1>9, <2>2, <2>3, <2>6
  <2>8. Len(b) = l + 1
    <3>1. b = incomingDataBuffer \o <<224>>
      BY <1>8 DEF PacketEnd
    <3>2. incomingDataBuffer \in Seq(Nat) /\ <<224>> \in Seq(Nat) /\ Len(<<224>>) = 1
      BY <1>6 DEF Buffered
    <3>3. Len(incomingDataBuffer \o <<224>>) = Len(incomingDataBuffer) + Len(<<224>>)
      BY <3>2, ConcatProperties
    <3> QED BY <2>6, <3>1, <3>2, <3>3
  <2>9. e + Len(b) = y
    BY <1>8, <1>9, <2>6
  <2>10. e + (l + 1) = y
    BY <2>8, <2>9
  <2> QED BY <2>7, <2>10
<1>12. PICK l \in 1..14 : l = Len(q[m]) /\ l = Len(b)
  <2>1. /\ Len(q[m]) \in 1..14 /\ Ends(q, m - 1) \in Nat
        /\ Ends(q, m) = Ends(q, m - 1) + Len(q[m])
    BY <1>8, <1>9, EndsIs
  <2>2. PICK e \in Nat, l \in 1..14 : e = Ends(q, m - 1) /\ l = Len(q[m]) /\ Ends(q, m) = e + l
    BY <2>1
  <2>3. Ends(q, k) = e
    BY <1>11, <2>2
  <2>4. e + Len(b) = e + l
    BY <1>8, <1>9, <2>2, <2>3
  <2>5. Len(b) = l
    BY <1>8, <2>4
  <2> QED BY <2>2, <2>5
<1>13. PICK new \in Seq(Nat) : new = bits(b) /\ Len(new) = l
  BY <1>8, <1>12, BitsType
<1>14. ASSUME incomingDataBuffer' = <<>>, Lists(readings', q, Due(q, m)),
              lastPacket' = IF l = 14 THEN bits(q[m]) ELSE <<>>
       PROVE  InStep(all, m)'
  <2>1. PICK e \in Nat : e = Ends(q, m)
    BY <1>8, <1>9, EndsIs
  <2>2. e + 0 = Len(all) - Len(line')
    BY <1>8, <1>9, <2>1
  <2>3. Buffered(all, m)'
    BY <1>2, <1>9, <1>14, <2>1, <2>2 DEF Buffered
  <2>4. ASSUME m < Len(q)
        PROVE  e + 0 < Ends(q, m + 1)
    <3>1. m \in 0..Len(q) /\ m + 1 \in 1..Len(q) /\ m < m + 1
      BY <1>10, <2>4
    <3>2. Ends(q, m) < Ends(q, m + 1)
      BY <1>9, <3>1, EndsOrder
    <3> QED BY <2>1, <3>2
  <2>5. Len(incomingDataBuffer') = 0
    BY <1>14
  <2>6. m < Len(script') => Ends(script', m) + Len(incomingDataBuffer') < Ends(script', m + 1)
    BY <1>2, <1>9, <2>1, <2>4, <2>5
  <2>7. Lists(readings', script', Due(script', m))
    BY <1>2, <1>9, <1>14
  <2>8. lastPacket' = IF m > 0 /\ Len(script'[m]) = 14 THEN bits(script'[m]) ELSE <<>>
    BY <1>2, <1>9, <1>10, <1>12, <1>14
  <2> QED BY <2>3, <2>6, <2>7, <2>8 DEF InStep
<1>15. m \in 0..Len(script)
  BY <1>9, <1>10
<1>16. new # <<>>
  <2>1. new = <<>> => Len(new) = 0
    OBVIOUS
  <2> QED BY <1>13, <2>1
<1>17. CASE new = lastPacket
  <2>1. incomingDataBuffer' = <<>> /\ UNCHANGED <<lastPacket, history>>
    BY <1>8, <1>13, <1>17 DEF PortReads, didReceiveData
  <2>2. readings' = readings
    BY <2>1 DEF readings
  <2>3. k > 0 /\ Len(q[k]) = 14 /\ new = bits(q[k])
    BY <1>6, <1>9, <1>16, <1>17
  <2>4. m - 1 > 0 /\ m # 1 /\ m - 1 \in 1..Len(q) /\ m \in 1..Len(q)
    BY <1>10, <1>11, <2>3
  <2>5. l = 14
    <3>1. m > 1
      BY <1>10, <2>4
    <3> QED BY <1>9, <1>12, <2>4, <3>1, ScriptIs
  <2>6. b = q[m]
    BY <1>8, <1>9, <1>12, <2>5
  <2>7. IsTail(q[m]) /\ IsTail(q[k])
    BY <1>9, <1>11, <2>4 DEF IsScript
  <2>8. bits(q[m]) = bits(q[k])
    BY <1>13, <2>3, <2>6
  <2>9. q[m] = q[k]
    BY <1>12, <2>3, <2>5, <2>7, <2>8, BitsTell
  <2>10. Due(q, m) = Due(q, k)
    <3>1. ~(m > 1 => q[m] # q[m - 1])
      BY <1>10, <1>11, <2>4, <2>9
    <3>2. Due(q, m) = Due(q, m - 1)
      BY <1>10, <3>1, DueGrows
    <3> QED BY <1>11, <3>2
  <2>11. Lists(readings', q, Due(q, m))
    BY <1>6, <1>9, <2>2, <2>10
  <2>12. lastPacket' = bits(q[m])
    BY <1>13, <1>17, <2>1, <2>6
  <2> QED BY <1>14, <1>15, <2>1, <2>5, <2>11, <2>12
<1>18. CASE new # lastPacket
  <2> DEFINE throws == ~IsNil(new) /\ Len(new) < 14
  <2>1. /\ history' = IF lastPacket = <<>> THEN history ELSE Append(history, lastPacket)
        /\ thrown' = throws
        /\ incomingDataBuffer' = IF throws THEN b ELSE <<>>
        /\ lastPacket' = CASE throws -> lastPacket [] IsNil(new) -> <<>> [] OTHER -> new
    BY <1>8, <1>13, <1>18 DEF PortReads, didReceiveData
  <2>2. history' = readings
    BY <2>1 DEF readings
  <2>3. CASE l = 14
    <3>1. ~throws /\ ~IsNil(new)
      BY <1>13, <2>3 DEF IsNil
    <3>2. incomingDataBuffer' = <<>> /\ lastPacket' = new
      BY <2>1, <3>1
    <3>3. readings' = Append(readings, new)
      BY <1>16, <2>2, <3>2 DEF readings
    <3>4. b = q[m] /\ new = bits(q[m])
      BY <1>8, <1>9, <1>12, <1>13, <2>3
    <3>5. ASSUME m > 1, q[m] = q[m - 1]
          PROVE  FALSE
      <4>1. k > 0 /\ q[k] = q[m]
        BY <1>10, <1>11, <3>5
      <4>2. lastPacket = bits(q[k])
        BY <1>6, <1>9, <1>12, <2>3, <4>1
      <4> QED BY <1>18, <3>4, <4>1, <4>2
    <3>6. Due(q, m) = Due(q, m - 1) \cup {m}
      <4>1. Len(q[m]) = 14 /\ (m > 1 => q[m] # q[m - 1])
        BY <1>12, <2>3, <3>5
      <4> QED BY <1>10, <4>1, DueGrows
    <3>7. readings \in Seq(Seq(Nat))
      BY ReadingsType DEF IInv
    <3>8. Due(q, m - 1) \in SUBSET (1..m-1) /\ Lists(readings, q, Due(q, m - 1))
      <4>1. Due(q, m - 1) \in SUBSET (1..m-1)
        BY DEF Due
      <4> QED BY <1>6, <1>9, <1>11, <4>1
    <3>9. Lists(Append(readings, new), q, Due(q, m - 1) \cup {m})
      BY <1>10, <3>4, <3>7, <3>8, ListsGrow
    <3> QED BY <1>14, <1>15, <2>3, <3>2, <3>3, <3>4, <3>6, <3>9
  <2>4. CASE l = 13
    <3>1. throws
      BY <1>13, <2>4 DEF IsNil
    <3> QED BY <1>3, <2>1, <3>1
  <2>5. CASE l # 14 /\ l # 13
    <3>1. IsNil(new) /\ ~throws
      BY <1>13, <2>5 DEF IsNil
    <3>2. incomingDataBuffer' = <<>> /\ lastPacket' = <<>>
      BY <2>1, <3>1
    <3>3. readings' = readings
      BY <2>2, <3>2 DEF readings
    <3>4. Due(q, m) = Due(q, k)
      <4>1. ~(Len(q[m]) = 14)
        BY <1>12, <2>5
      <4>2. Due(q, m) = Due(q, m - 1)
        BY <1>10, <4>1, DueGrows
      <4> QED BY <1>11, <4>2
    <3>5. Lists(readings', q, Due(q, m))
      BY <1>6, <1>9, <3>3, <3>4
    <3> QED BY <1>14, <1>15, <2>5, <3>2, <3>5
  <2> QED BY <2>3, <2>4, <2>5
<1> QED BY <1>17, <1>18

(* At first nothing was read and nothing is due.                           *)
LEMMA InitInStep == Init => StepInv
<1>1. SUFFICES ASSUME Init PROVE StepInv
  OBVIOUS
<1>2. IInv
  BY <1>1, InitInv
<1>3. PICK all : all = FlattenSeq(script) /\ IsSent(script, all) /\ line = all
  BY <1>1, <1>2, SentIs DEF IInv, Init
<1>4. /\ incomingDataBuffer = <<>> /\ lastPacket = <<>> /\ history = <<>>
  BY <1>1 DEF Init
<1>5. PICK q : q = script /\ IsScript(q) /\ Len(q) \in Nat /\ Len(q) > 0
  BY <1>2, ScriptIs DEF IInv
<1>11. PICK l \in Nat : l = Len(all) /\ l = Len(line)
  <2>1. all \in Seq(Nat)
    BY <1>3 DEF IsSent
  <2>2. Len(all) \in Nat
    BY <2>1
  <2> QED BY <1>3, <2>2
<1>6. Ends(q, 0) = 0
  BY DEF Ends
<1>7. Buffered(all, 0)
  <2>1. Ends(script, 0) + 0 = l - l
    BY <1>5, <1>6
  <2> QED BY <1>4, <1>11, <2>1 DEF Buffered
<1>8. Ends(script, 0) + Len(incomingDataBuffer) < Ends(script, 0 + 1)
  <2>1. 0 \in 0..Len(q) /\ 1 \in 1..Len(q) /\ 0 < 1
    BY <1>5
  <2>2. Ends(q, 0) < Ends(q, 1)
    BY <1>5, <2>1, EndsOrder
  <2> QED BY <1>4, <1>5, <1>6, <2>2
<1>9. Lists(readings, script, Due(script, 0))
  <2>1. DOMAIN readings = {} /\ Due(script, 0) = {}
    BY <1>4 DEF readings, Due
  <2>2. [i \in {} |-> 0] \in [{} -> {}]
    OBVIOUS
  <2> QED BY <2>1, <2>2 DEF Lists
<1>10. InStep(all, 0) /\ 0 \in 0..Len(script)
  BY <1>4, <1>5, <1>7, <1>8, <1>9 DEF InStep
<1> QED BY <1>3, <1>10 DEF StepInv

(* The driver stays in step as long as each packet ends by itself.         *)
THEOREM StepInvCorrect == Spec => []StepInv
<1>1. IInv /\ StepInv /\ [Next]_vars => StepInv'
  <2>1. SUFFICES ASSUME IInv, StepInv, [Next]_vars PROVE StepInv'
    OBVIOUS
  <2>2. ASSUME NEW n \in ReadSizes, PortReads(n)
        PROVE  StepInv'
    <3>1. CASE SubSeq(line, 1, n) # PacketEnd
      BY <2>1, <2>2, <3>1, ReadsOnInStep
    <3>2. CASE SubSeq(line, 1, n) = PacketEnd
      BY <2>1, <2>2, <3>2, ReadsEndInStep
    <3> QED BY <3>1, <3>2
  <2>3. CASE UNCHANGED vars
    <3>1. /\ script' = script /\ line' = line /\ incomingDataBuffer' = incomingDataBuffer
          /\ lastPacket' = lastPacket /\ history' = history
          /\ thrown' = thrown /\ together' = together
      BY <2>3 DEF vars
    <3>2. readings' = readings
      BY <3>1 DEF readings
    <3>3. SUFFICES ASSUME ~together, ~thrown, AllEnd(script) PROVE StepInv'
      BY <3>1 DEF StepInv
    <3>4. PICK all : all = FlattenSeq(script) /\ all = FlattenSeq(script')
      BY <3>1
    <3>5. PICK k \in 0..Len(script) : InStep(all, k)
      BY <2>1, <3>3, <3>4 DEF StepInv
    <3>6. Buffered(all, k)'
      BY <3>1, <3>5 DEF InStep, Buffered
    <3>7. InStep(all, k)'
      BY <3>1, <3>2, <3>5, <3>6 DEF InStep
    <3> QED BY <3>1, <3>4, <3>5, <3>7 DEF StepInv
  <2> QED BY <2>1, <2>2, <2>3 DEF Next
<1> QED BY <1>1, InitInStep, InvCorrect, PTL DEF Spec

(* The first n packets are as long as they are in the whole script.        *)
LEMMA FirstPackets ==
  ASSUME NEW q, IsScript(q), NEW n \in 1..Len(q)
  PROVE  Len(FlattenSeq(SubSeq(q, 1, n))) = Ends(q, n)
<1>1. n \in Nat /\ n > 0 /\ n <= Len(q) /\ Len(q) \in Nat
  BY ScriptIs
<1>2. PICK s : /\ s = SubSeq(q, 1, n) /\ s \in Seq(Seq(Nat)) /\ Len(s) = n
               /\ \A i \in 1..n : s[i] = q[i]
  <2>1. \A i \in 1..n : q[i] \in Seq(Nat)
    BY <1>1, ScriptIs
  <2>2. /\ SubSeq(q, 1, n) \in Seq(Seq(Nat))
        /\ Len(SubSeq(q, 1, n)) = IF 1 <= n THEN n - 1 + 1 ELSE 0
        /\ \A i \in 1..n - 1 + 1 : SubSeq(q, 1, n)[i] = q[1 + i - 1]
    BY <1>1, <2>1, SubSeqProperties
  <2>3. n - 1 + 1 = n /\ 1 <= n /\ \A i \in 1..n : 1 + i - 1 = i
    BY <1>1
  <2> QED BY <2>2, <2>3
<1>3. IsScript(s)
  <2>1. ASSUME NEW k \in 1..n
        PROVE  IsTail(s[k]) /\ (k > 1 => Len(s[k]) = 14)
    <3>1. k \in 1..Len(q)
      BY <1>1
    <3>2. IsTail(q[k]) /\ (k > 1 => Len(q[k]) = 14)
      BY <3>1 DEF IsScript
    <3> QED BY <1>2, <3>2
  <2> QED BY <1>1, <1>2, <2>1 DEF IsScript
<1>4. n \in 1..Len(s)
  BY <1>1, <1>2
<1>5. Len(FirstSent(s, n)) = Ends(s, n)
  BY <1>3, <1>4, FirstSentType
<1>6. FlattenSeq(s) = FirstSent(s, n)
  BY <1>2, <1>3, FlattenIsSent
<1>7. Ends(s, n) = Ends(q, n)
  <2>1. s[1] = q[1]
    BY <1>1, <1>2
  <2> QED BY <2>1 DEF Ends
<1> QED BY <1>2, <1>5, <1>6, <1>7

(* As long as the last byte of each packet is e0 and comes by itself, the  *)
(* driver misses no packet (MM2200087.m:186-204).                          *)
THEOREM NoneMissed == Spec => []PacketsReported
<1>1. IInv /\ StepInv => PacketsReported
  <2>1. SUFFICES ASSUME IInv, StepInv, ~together, ~thrown,
                        \A n \in DOMAIN script : Last(script[n]) = 224
                 PROVE  Lists(readings, script,
                          { n \in DOMAIN script :
                              /\ Len(FlattenSeq(SubSeq(script, 1, n)))
                                   <= Len(FlattenSeq(script)) - Len(line)
                              /\ Len(script[n]) = 14
                              /\ n > 1 => script[n] # script[n - 1] })
    BY DEF PacketsReported
  <2>2. PICK all : all = FlattenSeq(script)
    OBVIOUS
  <2>3. PICK k \in 0..Len(script) : InStep(all, k)
    BY <2>1, <2>2 DEF StepInv, AllEnd
  <2>4. PICK q : q = script /\ IsScript(q)
    BY <2>1 DEF IInv
  <2>5. DOMAIN q = 1..Len(q) /\ Len(q) \in Nat /\ k \in Nat /\ k <= Len(q)
    BY <2>3, <2>4, LenProperties DEF IsScript
  <2>6. PICK e \in Nat, l \in Nat :
          /\ e = Ends(q, k) /\ l = Len(incomingDataBuffer)
          /\ e + l = Len(all) - Len(line)
    <3>1. incomingDataBuffer \in Seq(Nat)
      BY <2>3 DEF InStep, Buffered
    <3>2. Len(incomingDataBuffer) \in Nat
      BY <3>1
    <3>3. k \in 0..Len(q) /\ 1 \in 1..Len(q)
      BY <2>3, <2>4, ScriptIs
    <3>4. Ends(q, k) \in Nat
      BY <2>4, <3>3, EndsOrder
    <3> QED BY <2>3, <2>4, <3>2, <3>4 DEF InStep, Buffered
  <2>7. ASSUME NEW n \in 1..Len(q)
        PROVE  Len(FlattenSeq(SubSeq(q, 1, n))) <= e + l <=> n \in 1..k
    <3>1. PICK x \in Nat : x = Ends(q, n) /\ Len(FlattenSeq(SubSeq(q, 1, n))) = x
      BY <2>4, EndsIs, FirstPackets
    <3>2. k \in 0..Len(q) /\ n \in 1..Len(q)
      BY <2>5
    <3>3. k < n <=> e < x
      BY <2>4, <2>6, <3>1, <3>2, EndsOrder
    <3>4. CASE n <= k
      <4>1. ~(e < x)
        BY <2>5, <3>3, <3>4
      <4> QED BY <2>5, <3>1, <3>4, <4>1
    <3>5. CASE n > k
      <4>1. k < Len(q) /\ k + 1 \in 0..Len(q) /\ k + 1 \in 1..Len(q)
        BY <2>5, <3>5
      <4>2. PICK y \in Nat : y = Ends(q, k + 1)
        BY <2>4, <4>1, EndsIs
      <4>3. e + l < y
        BY <2>3, <2>4, <2>6, <4>1, <4>2 DEF InStep
      <4>4. y <= x
        <5>1. CASE n = k + 1
          BY <3>1, <4>2, <5>1
        <5>2. CASE k + 1 < n
          <6>1. Ends(q, k + 1) < Ends(q, n)
            BY <2>4, <4>1, <5>2, EndsOrder
          <6> QED BY <3>1, <4>2, <6>1
        <5> QED BY <2>5, <3>5, <5>1, <5>2
      <4> QED BY <2>5, <3>1, <3>5, <4>3, <4>4
    <3> QED BY <2>5, <3>4, <3>5
  <2>8. { n \in DOMAIN script :
            /\ Len(FlattenSeq(SubSeq(script, 1, n))) <= Len(FlattenSeq(script)) - Len(line)
            /\ Len(script[n]) = 14
            /\ n > 1 => script[n] # script[n - 1] } = Due(script, k)
    <3>1. 1..k \subseteq 1..Len(q)
      BY <2>5
    <3>2. \A n \in 1..Len(q) :
            Len(FlattenSeq(SubSeq(script, 1, n))) <= Len(FlattenSeq(script)) - Len(line)
              <=> n \in 1..k
      BY <2>2, <2>4, <2>6, <2>7
    <3> QED BY <2>4, <2>5, <3>1, <3>2 DEF Due
  <2> QED BY <2>3, <2>8 DEF InStep
<1> QED BY <1>1, InvCorrect, StepInvCorrect, PTL
-----------------------------------------------------------------------------
(* The two decoders of a packet.  First what a digit shows: the segments   *)
(* of the driver and those of the header name the same ones, and so do the *)
(* rows of the two tables.                                                 *)

SegmentNames == {"A", "B", "C", "D", "E", "F", "G"}

(* The segments named by D are those that s has lit.                       *)
SameLit(s, D) ==
  /\ s \in Seq({0, 1}) /\ Len(s) = 7 /\ D \subseteq SegmentNames
  /\ "A" \in D <=> s[1] = 1
  /\ "B" \in D <=> s[2] = 1
  /\ "C" \in D <=> s[3] = 1
  /\ "D" \in D <=> s[4] = 1
  /\ "E" \in D <=> s[5] = 1
  /\ "F" \in D <=> s[6] = 1
  /\ "G" \in D <=> s[7] = 1

(* Equal segments have equal names.                                        *)
LEMMA SameLitAgree ==
  ASSUME NEW s, NEW D, SameLit(s, D), NEW t, NEW X, SameLit(t, X)
  PROVE  s = t <=> D = X
<1>1. ASSUME s = t PROVE D = X
  <2>1. ASSUME NEW x \in SegmentNames PROVE x \in D <=> x \in X
    BY <1>1, <2>1 DEF SameLit, SegmentNames
  <2>2. D \subseteq SegmentNames /\ X \subseteq SegmentNames
    BY DEF SameLit
  <2> QED BY <2>1, <2>2
<1>2. ASSUME D = X PROVE s = t
  <2>1. s \in Seq({0, 1}) /\ t \in Seq({0, 1}) /\ Len(s) = 7 /\ Len(t) = 7
    BY DEF SameLit
  <2>2. ASSUME NEW i \in 1..7 PROVE s[i] = t[i]
    <3>1. s[i] \in {0, 1} /\ t[i] \in {0, 1}
      BY <2>1, <2>2, ElementOfSeq
    <3>2. s[i] = 1 <=> t[i] = 1
      <4>1. i = 1 \/ i = 2 \/ i = 3 \/ i = 4 \/ i = 5 \/ i = 6 \/ i = 7
        OBVIOUS
      <4> QED BY <1>2, <4>1 DEF SameLit
    <3> QED BY <3>1, <3>2
  <2> QED BY <2>1, <2>2, SeqEqual
<1> QED BY <1>1, <1>2

(* The weights of the four lower bits.                                     *)
LEMMA Powers == 2^0 = 1 /\ 2^1 = 2 /\ 2^2 = 4 /\ 2^3 = 8
OBVIOUS

(* Any bit of a byte is 0 or 1.                                            *)
LEMMA BitIs ==
  ASSUME NEW p \in Seq(Nat), Len(p) = 14, NEW byte \in 0..13, NEW bit \in 0..3
  PROVE  Bit(p, byte, bit) \in {0, 1}
<1>1. 2^0 = 1 /\ 2^1 = 2 /\ 2^2 = 4 /\ 2^3 = 8
  BY Powers
<1>2. bit = 0 \/ bit = 1 \/ bit = 2 \/ bit = 3
  OBVIOUS
<1>3. PICK y \in {1, 2, 4, 8} : y = 2^bit
  BY <1>1, <1>2
<1>4. p[byte + 1] \in Nat
  <2>1. byte + 1 \in 1..Len(p)
    OBVIOUS
  <2> QED BY <2>1, ElementOfSeq
<1>5. p[byte + 1] \div y \in Nat
  BY <1>4
<1>6. (p[byte + 1] \div y) % 2 \in {0, 1}
  BY <1>5
<1> QED BY <1>3, <1>6 DEF Bit

(* The names of the bits of a byte that are set.                           *)
NamedBits(p, byte, names) ==
  { names[i] : i \in { n \in DOMAIN names : Bit(p, byte, n - 1) = 1 } }

(* The names of a byte that has four, one by one.                          *)
LEMMA FourBits ==
  ASSUME NEW p, NEW byte, NEW a, NEW b, NEW c, NEW d, NEW x
  PROVE  x \in NamedBits(p, byte, <<a, b, c, d>>)
           <=> \/ x = a /\ Bit(p, byte, 0) = 1
               \/ x = b /\ Bit(p, byte, 1) = 1
               \/ x = c /\ Bit(p, byte, 2) = 1
               \/ x = d /\ Bit(p, byte, 3) = 1
BY DEF NamedBits

(* The same for a byte of three names.                                     *)
LEMMA ThreeBits ==
  ASSUME NEW p, NEW byte, NEW a, NEW b, NEW c, NEW x
  PROVE  x \in NamedBits(p, byte, <<a, b, c>>)
           <=> \/ x = a /\ Bit(p, byte, 0) = 1
               \/ x = b /\ Bit(p, byte, 1) = 1
               \/ x = c /\ Bit(p, byte, 2) = 1
BY DEF NamedBits

(* The two decoders see the same segments of a digit.                      *)
LEMMA DigitLit ==
  ASSUME NEW p \in Seq(Nat), Len(p) = 14, NEW dig \in 1..4
  PROVE  SameLit(segments(p, dig), digitDict(p, dig))
<1>1. PICK u \in 2..8, v \in 3..9 : u = 10 - 2 * dig /\ v = 10 - 2 * dig + 1
  <2>1. 10 - 2 * dig \in 2..8 /\ 10 - 2 * dig + 1 \in 3..9
    OBVIOUS
  <2> QED BY <2>1
<1>2. /\ \A bit \in 0..3 : Bit(p, u, bit) \in {0, 1}
      /\ \A bit \in 0..3 : Bit(p, v, bit) \in {0, 1}
  <2>1. u \in 0..13 /\ v \in 0..13
    OBVIOUS
  <2> QED BY <2>1, BitIs
<1>3. segments(p, dig) = << Bit(p, u, 0), Bit(p, v, 0), Bit(p, v, 2), Bit(p, v, 3),
                            Bit(p, u, 2), Bit(p, u, 1), Bit(p, v, 1) >>
  BY <1>1 DEF segments
<1>4. digitDict(p, dig) = NamedBits(p, u, <<"A", "F", "E">>)
                            \cup NamedBits(p, v, <<"B", "G", "C", "D">>)
  BY <1>1 DEF digitDict, NamedBits
<1>5. ASSUME NEW x
      PROVE  x \in digitDict(p, dig)
               <=> \/ x = "A" /\ Bit(p, u, 0) = 1
                   \/ x = "F" /\ Bit(p, u, 1) = 1
                   \/ x = "E" /\ Bit(p, u, 2) = 1
                   \/ x = "B" /\ Bit(p, v, 0) = 1
                   \/ x = "G" /\ Bit(p, v, 1) = 1
                   \/ x = "C" /\ Bit(p, v, 2) = 1
                   \/ x = "D" /\ Bit(p, v, 3) = 1
  BY <1>4, ThreeBits, FourBits
<1>6. digitDict(p, dig) \subseteq SegmentNames
  BY <1>5 DEF SegmentNames
<1>7. PICK s : s = segments(p, dig) /\ s \in Seq({0, 1}) /\ Len(s) = 7
               /\ s[1] = Bit(p, u, 0) /\ s[2] = Bit(p, v, 0) /\ s[3] = Bit(p, v, 2)
               /\ s[4] = Bit(p, v, 3) /\ s[5] = Bit(p, u, 2) /\ s[6] = Bit(p, u, 1)
               /\ s[7] = Bit(p, v, 1)
  <2>1. PICK a \in {0, 1}, b \in {0, 1}, c \in {0, 1}, d \in {0, 1}, e \in {0, 1},
             f \in {0, 1}, g \in {0, 1} :
          /\ a = Bit(p, u, 0) /\ b = Bit(p, v, 0) /\ c = Bit(p, v, 2) /\ d = Bit(p, v, 3)
          /\ e = Bit(p, u, 2) /\ f = Bit(p, u, 1) /\ g = Bit(p, v, 1)
    BY <1>2
  <2>2. <<a, b, c, d, e, f, g>> \in Seq({0, 1})
    OBVIOUS
  <2>3. segments(p, dig) = <<a, b, c, d, e, f, g>>
    BY <1>3, <2>1
  <2>4. PICK s : s = <<a, b, c, d, e, f, g>>
    OBVIOUS
  <2>5. /\ Len(s) = 7 /\ s[1] = a /\ s[2] = b /\ s[3] = c /\ s[4] = d
        /\ s[5] = e /\ s[6] = f /\ s[7] = g
    BY <2>4
  <2> QED BY <2>1, <2>2, <2>3, <2>4, <2>5
<1> QED BY <1>5, <1>6, <1>7 DEF SameLit

(* Rows of the two tables for the same character and segments.             *)
SameRow(e, d) ==
  e \in segmentD /\ d \in LitFor /\ e[2] = d[2] /\ SameLit(e[1], d[1])

(* Each row of one table has its row in the other.                         *)
LEMMA SameRows ==
  /\ \A e \in segmentD : \E d : SameRow(e, d)
  /\ \A d \in LitFor : \E e : SameRow(e, d)
<1>1. SameRow(<<<<0,0,0,1,1,1,0>>, "L">>, <<{"F","D","E"}, "L">>)
  BY DEF SameRow, segmentD, LitFor, SameLit, SegmentNames
<1>2. SameRow(<<<<0,0,1,0,1,0,1>>, "N">>, <<{"G","C","E"}, "N">>)
  BY DEF SameRow, segmentD, LitFor, SameLit, SegmentNames
<1>3. SameRow(<<<<0,1,1,0,0,0,0>>, "1">>, <<{"B","C"}, "1">>)
  BY DEF SameRow, segmentD, LitFor, SameLit, SegmentNames
<1>4. SameRow(<<<<0,1,1,0,0,1,1>>, "4">>, <<{"F","G","B","C"}, "4">>)
  BY DEF SameRow, segmentD, LitFor, SameLit, SegmentNames
<1>5. SameRow(<<<<1,0,0,0,1,1,1>>, "F">>, <<{"A","F","G","E"}, "F">>)
  BY DEF SameRow, segmentD, LitFor, SameLit, SegmentNames
<1>6. SameRow(<<<<1,0,0,1,1,1,0>>, "C">>, <<{"A","F","D","E"}, "C">>)
  BY DEF SameRow, segmentD, LitFor, SameLit, SegmentNames
<1>7. SameRow(<<<<1,0,0,1,1,1,1>>, "E">>, <<{"A","F","G","D","E"}, "E">>)
  BY DEF SameRow, segmentD, LitFor, SameLit, SegmentNames
<1>8. SameRow(<<<<1,0,1,1,0,1,1>>, "5">>, <<{"A","F","G","C","D"}, "5">>)
  BY DEF SameRow, segmentD, LitFor, SameLit, SegmentNames
<1>9. SameRow(<<<<1,0,1,1,1,1,1>>, "6">>, <<{"A","F","G","C","D","E"}, "6">>)
  BY DEF SameRow, segmentD, LitFor, SameLit, SegmentNames
<1>10. SameRow(<<<<1,1,0,0,1,1,1>>, "P">>, <<{"A","F","G","B","E"}, "P">>)
  BY DEF SameRow, segmentD, LitFor, SameLit, SegmentNames
<1>11. SameRow(<<<<1,1,0,1,1,0,1>>, "2">>, <<{"A","G","B","D","E"}, "2">>)
  BY DEF SameRow, segmentD, LitFor, SameLit, SegmentNames
<1>12. SameRow(<<<<1,1,1,0,0,0,0>>, "7">>, <<{"A","B","C"}, "7">>)
  BY DEF SameRow, segmentD, LitFor, SameLit, SegmentNames
<1>13. SameRow(<<<<1,1,1,1,0,0,1>>, "3">>, <<{"A","G","B","C","D"}, "3">>)
  BY DEF SameRow, segmentD, LitFor, SameLit, SegmentNames
<1>14. SameRow(<<<<1,1,1,1,0,1,1>>, "9">>, <<{"A","F","G","B","C","D"}, "9">>)
  BY DEF SameRow, segmentD, LitFor, SameLit, SegmentNames
<1>15. SameRow(<<<<1,1,1,1,1,1,0>>, "0">>, <<{"A","F","B","C","D","E"}, "0">>)
  BY DEF SameRow, segmentD, LitFor, SameLit, SegmentNames
<1>16. SameRow(<<<<1,1,1,1,1,1,1>>, "8">>, <<{"A","F","G","B","C","D","E"}, "8">>)
  BY DEF SameRow, segmentD, LitFor, SameLit, SegmentNames
<1>17. \A e \in segmentD : \E d : SameRow(e, d)
  BY <1>1, <1>2, <1>3, <1>4, <1>5, <1>6, <1>7, <1>8,
     <1>9, <1>10, <1>11, <1>12, <1>13, <1>14, <1>15, <1>16 DEF segmentD
<1>18. \A d \in LitFor : \E e : SameRow(e, d)
  BY <1>1, <1>2, <1>3, <1>4, <1>5, <1>6, <1>7, <1>8,
     <1>9, <1>10, <1>11, <1>12, <1>13, <1>14, <1>15, <1>16 DEF LitFor
<1> QED BY <1>17, <1>18

(* What the header shows for a digit.                                      *)
LitChar(p, n) == LookUp({ e[2] : e \in { d \in LitFor : d[1] = digitDict(p, n) } })

(* Both show the same for any segments, ? for those that are no character. *)
LEMMA SameChar ==
  ASSUME NEW p \in Seq(Nat), Len(p) = 14, NEW dig \in 1..4
  PROVE  processDigit(p, dig) = LitChar(p, dig)
<1>1. PICK s, D : s = segments(p, dig) /\ D = digitDict(p, dig) /\ SameLit(s, D)
  BY DigitLit
<1>2. ASSUME NEW e, NEW d, SameLit(e[1], d[1]) PROVE e[1] = s <=> d[1] = D
  BY <1>1, <1>2, SameLitAgree
<1>3. { e[2] : e \in { d \in segmentD : d[1] = s } }
        = { e[2] : e \in { d \in LitFor : d[1] = D } }
  <2>1. ASSUME NEW e \in segmentD, e[1] = s
        PROVE  \E d \in LitFor : d[2] = e[2] /\ d[1] = D
    <3>1. PICK d : SameRow(e, d)
      BY SameRows
    <3> QED BY <1>2, <2>1, <3>1 DEF SameRow
  <2>2. ASSUME NEW d \in LitFor, d[1] = D
        PROVE  \E e \in segmentD : d[2] = e[2] /\ e[1] = s
    <3>1. PICK e : SameRow(e, d)
      BY SameRows
    <3> QED BY <1>2, <2>2, <3>1 DEF SameRow
  <2> QED BY <2>1, <2>2
<1> QED BY <1>1, <1>3 DEF processDigit, LitChar

(* The flags of a byte of the packet, as the header names them.            *)
ByteFlags(p, byte) ==
  CASE byte = 0  -> NamedBits(p, 0, <<"AUTO", "SEND", "AC">>) \ {"SEND"}
    [] byte = 1  -> NamedBits(p, 1, <<"HOLD", "LOW BATTERY", "DIODE", "CONTINUITY">>)
    [] byte = 10 -> NamedBits(p, 10, <<"MIN", "REL DELTA", "HFE", "Percent">>)
    [] byte = 11 -> NamedBits(p, 11, <<"SECONDS", "dBm", "n (1e-9)", "u (1e-6)">>)
    [] byte = 12 -> NamedBits(p, 12, <<"m (1e-3)", "VOLTS", "AMPS", "FARADS">>)
    [] byte = 13 -> NamedBits(p, 13, <<"M (1e6)", "K (1e3)", "OHMS", "Hz">>)

FlagBytes == {0, 1, 10, 11, 12, 13}

(* The rows of the driver's table for a byte are the names of the header.  *)
LEMMA FlagRows ==
  ASSUME NEW p, NEW byte \in FlagBytes, NEW x
  PROVE  x \in ByteFlags(p, byte)
           <=> \E f \in flagsD : /\ f[2] = byte /\ f[1] # "NEGATIVE"
                                  /\ x = f[1] /\ Bit(p, f[2], f[3]) = 1
<1>1. CASE byte = 0
  <2>1. x \in ByteFlags(p, 0)
          <=> \/ x = "AUTO" /\ Bit(p, 0, 0) = 1
              \/ x = "AC" /\ Bit(p, 0, 2) = 1
  BY ThreeBits DEF ByteFlags
  <2>2. (\E f \in flagsD : /\ f[2] = 0 /\ f[1] # "NEGATIVE"
                           /\ x = f[1] /\ Bit(p, f[2], f[3]) = 1)
          <=> \/ x = "AUTO" /\ Bit(p, 0, 0) = 1
              \/ x = "AC" /\ Bit(p, 0, 2) = 1
    BY DEF flagsD
  <2> QED BY <1>1, <2>1, <2>2
<1>2. CASE byte = 1
  <2>1. x \in ByteFlags(p, 1)
          <=> \/ x = "HOLD" /\ Bit(p, 1, 0) = 1
              \/ x = "LOW BATTERY" /\ Bit(p, 1, 1) = 1
              \/ x = "DIODE" /\ Bit(p, 1, 2) = 1
              \/ x = "CONTINUITY" /\ Bit(p, 1, 3) = 1
    <3>1. ByteFlags(p, 1) = NamedBits(p, 1, <<"HOLD", "LOW BATTERY", "DIODE", "CONTINUITY">>)
      BY DEF ByteFlags
    <3>2. x \in NamedBits(p, 1, <<"HOLD", "LOW BATTERY", "DIODE", "CONTINUITY">>)
            <=> \/ x = "HOLD" /\ Bit(p, 1, 0) = 1
                \/ x = "LOW BATTERY" /\ Bit(p, 1, 1) = 1
                \/ x = "DIODE" /\ Bit(p, 1, 2) = 1
                \/ x = "CONTINUITY" /\ Bit(p, 1, 3) = 1
      BY FourBits
    <3> QED BY <3>1, <3>2
  <2>2. (\E f \in flagsD : /\ f[2] = 1 /\ f[1] # "NEGATIVE"
                           /\ x = f[1] /\ Bit(p, f[2], f[3]) = 1)
          <=> \/ x = "HOLD" /\ Bit(p, 1, 0) = 1
              \/ x = "LOW BATTERY" /\ Bit(p, 1, 1) = 1
              \/ x = "DIODE" /\ Bit(p, 1, 2) = 1
              \/ x = "CONTINUITY" /\ Bit(p, 1, 3) = 1
    BY DEF flagsD
  <2> QED BY <1>2, <2>1, <2>2
<1>3. CASE byte = 10
  <2>1. x \in ByteFlags(p, 10)
          <=> \/ x = "MIN" /\ Bit(p, 10, 0) = 1
              \/ x = "REL DELTA" /\ Bit(p, 10, 1) = 1
              \/ x = "HFE" /\ Bit(p, 10, 2) = 1
              \/ x = "Percent" /\ Bit(p, 10, 3) = 1
    <3>1. ByteFlags(p, 10) = NamedBits(p, 10, <<"MIN", "REL DELTA", "HFE", "Percent">>)
      BY DEF ByteFlags
    <3>2. x \in NamedBits(p, 10, <<"MIN", "REL DELTA", "HFE", "Percent">>)
            <=> \/ x = "MIN" /\ Bit(p, 10, 0) = 1
                \/ x = "REL DELTA" /\ Bit(p, 10, 1) = 1
                \/ x = "HFE" /\ Bit(p, 10, 2) = 1
                \/ x = "Percent" /\ Bit(p, 10, 3) = 1
      BY FourBits
    <3> QED BY <3>1, <3>2
  <2>2. (\E f \in flagsD : /\ f[2] = 10 /\ f[1] # "NEGATIVE"
                           /\ x = f[1] /\ Bit(p, f[2], f[3]) = 1)
          <=> \/ x = "MIN" /\ Bit(p, 10, 0) = 1
              \/ x = "REL DELTA" /\ Bit(p, 10, 1) = 1
              \/ x = "HFE" /\ Bit(p, 10, 2) = 1
              \/ x = "Percent" /\ Bit(p, 10, 3) = 1
    BY DEF flagsD
  <2> QED BY <1>3, <2>1, <2>2
<1>4. CASE byte = 11
  <2>1. x \in ByteFlags(p, 11)
          <=> \/ x = "SECONDS" /\ Bit(p, 11, 0) = 1
              \/ x = "dBm" /\ Bit(p, 11, 1) = 1
              \/ x = "n (1e-9)" /\ Bit(p, 11, 2) = 1
              \/ x = "u (1e-6)" /\ Bit(p, 11, 3) = 1
    <3>1. ByteFlags(p, 11) = NamedBits(p, 11, <<"SECONDS", "dBm", "n (1e-9)", "u (1e-6)">>)
      BY DEF ByteFlags
    <3>2. x \in NamedBits(p, 11, <<"SECONDS", "dBm", "n (1e-9)", "u (1e-6)">>)
            <=> \/ x = "SECONDS" /\ Bit(p, 11, 0) = 1
                \/ x = "dBm" /\ Bit(p, 11, 1) = 1
                \/ x = "n (1e-9)" /\ Bit(p, 11, 2) = 1
                \/ x = "u (1e-6)" /\ Bit(p, 11, 3) = 1
      BY FourBits
    <3> QED BY <3>1, <3>2
  <2>2. (\E f \in flagsD : /\ f[2] = 11 /\ f[1] # "NEGATIVE"
                           /\ x = f[1] /\ Bit(p, f[2], f[3]) = 1)
          <=> \/ x = "SECONDS" /\ Bit(p, 11, 0) = 1
              \/ x = "dBm" /\ Bit(p, 11, 1) = 1
              \/ x = "n (1e-9)" /\ Bit(p, 11, 2) = 1
              \/ x = "u (1e-6)" /\ Bit(p, 11, 3) = 1
    BY DEF flagsD
  <2> QED BY <1>4, <2>1, <2>2
<1>5. CASE byte = 12
  <2>1. x \in ByteFlags(p, 12)
          <=> \/ x = "m (1e-3)" /\ Bit(p, 12, 0) = 1
              \/ x = "VOLTS" /\ Bit(p, 12, 1) = 1
              \/ x = "AMPS" /\ Bit(p, 12, 2) = 1
              \/ x = "FARADS" /\ Bit(p, 12, 3) = 1
    <3>1. ByteFlags(p, 12) = NamedBits(p, 12, <<"m (1e-3)", "VOLTS", "AMPS", "FARADS">>)
      BY DEF ByteFlags
    <3>2. x \in NamedBits(p, 12, <<"m (1e-3)", "VOLTS", "AMPS", "FARADS">>)
            <=> \/ x = "m (1e-3)" /\ Bit(p, 12, 0) = 1
                \/ x = "VOLTS" /\ Bit(p, 12, 1) = 1
                \/ x = "AMPS" /\ Bit(p, 12, 2) = 1
                \/ x = "FARADS" /\ Bit(p, 12, 3) = 1
      BY FourBits
    <3> QED BY <3>1, <3>2
  <2>2. (\E f \in flagsD : /\ f[2] = 12 /\ f[1] # "NEGATIVE"
                           /\ x = f[1] /\ Bit(p, f[2], f[3]) = 1)
          <=> \/ x = "m (1e-3)" /\ Bit(p, 12, 0) = 1
              \/ x = "VOLTS" /\ Bit(p, 12, 1) = 1
              \/ x = "AMPS" /\ Bit(p, 12, 2) = 1
              \/ x = "FARADS" /\ Bit(p, 12, 3) = 1
    BY DEF flagsD
  <2> QED BY <1>5, <2>1, <2>2
<1>6. CASE byte = 13
  <2>1. x \in ByteFlags(p, 13)
          <=> \/ x = "M (1e6)" /\ Bit(p, 13, 0) = 1
              \/ x = "K (1e3)" /\ Bit(p, 13, 1) = 1
              \/ x = "OHMS" /\ Bit(p, 13, 2) = 1
              \/ x = "Hz" /\ Bit(p, 13, 3) = 1
    <3>1. ByteFlags(p, 13) = NamedBits(p, 13, <<"M (1e6)", "K (1e3)", "OHMS", "Hz">>)
      BY DEF ByteFlags
    <3>2. x \in NamedBits(p, 13, <<"M (1e6)", "K (1e3)", "OHMS", "Hz">>)
            <=> \/ x = "M (1e6)" /\ Bit(p, 13, 0) = 1
                \/ x = "K (1e3)" /\ Bit(p, 13, 1) = 1
                \/ x = "OHMS" /\ Bit(p, 13, 2) = 1
                \/ x = "Hz" /\ Bit(p, 13, 3) = 1
      BY FourBits
    <3> QED BY <3>1, <3>2
  <2>2. (\E f \in flagsD : /\ f[2] = 13 /\ f[1] # "NEGATIVE"
                           /\ x = f[1] /\ Bit(p, f[2], f[3]) = 1)
          <=> \/ x = "M (1e6)" /\ Bit(p, 13, 0) = 1
              \/ x = "K (1e3)" /\ Bit(p, 13, 1) = 1
              \/ x = "OHMS" /\ Bit(p, 13, 2) = 1
              \/ x = "Hz" /\ Bit(p, 13, 3) = 1
    BY DEF flagsD
  <2> QED BY <1>6, <2>1, <2>2
<1> QED BY <1>1, <1>2, <1>3, <1>4, <1>5, <1>6 DEF FlagBytes

(* The two decoders see the same flags.                                    *)
LEMMA SameFlags ==
  ASSUME NEW p
  PROVE  flags(p) \ {"NEGATIVE"} = strToFlags(p)
<1>1. strToFlags(p) = UNION { ByteFlags(p, byte) : byte \in FlagBytes }
  <2>1. strToFlags(p) = ByteFlags(p, 0) \cup ByteFlags(p, 1) \cup ByteFlags(p, 10)
                          \cup ByteFlags(p, 11) \cup ByteFlags(p, 12) \cup ByteFlags(p, 13)
    BY DEF strToFlags, ByteFlags, NamedBits
  <2> QED BY <2>1 DEF FlagBytes
<1>2. \A f \in flagsD : f[2] \in FlagBytes
  <2>1. ~ \E f \in flagsD : f[2] \notin {0, 1, 10, 11, 12, 13}
    BY DEF flagsD
  <2> QED BY <2>1 DEF FlagBytes
<1>3. \A x : x \in flags(p) \ {"NEGATIVE"}
              <=> \E f \in flagsD : f[1] # "NEGATIVE" /\ x = f[1] /\ Bit(p, f[2], f[3]) = 1
  BY DEF flags
<1>4. \A x : x \in flags(p) \ {"NEGATIVE"}
              <=> \E byte \in FlagBytes : x \in ByteFlags(p, byte)
  BY <1>2, <1>3, FlagRows
<1> QED BY <1>1, <1>4

(* A packet is shown as negative by its third bit.                         *)
LEMMA NegativeIs ==
  ASSUME NEW p
  PROVE  "NEGATIVE" \in flags(p) <=> Bit(p, 0, 3) = 1
<1>1. (\E f \in flagsD : f[1] = "NEGATIVE" /\ Bit(p, f[2], f[3]) = 1) <=> Bit(p, 0, 3) = 1
  BY DEF flagsD
<1> QED BY <1>1 DEF flags

(* A sequence with one element inserted.                                   *)
LEMMA InsertIs ==
  ASSUME NEW S, NEW s \in Seq(S), NEW x \in S, NEW k \in 1..Len(s)
  PROVE  /\ InsertAt(s, k, x) \in Seq(S) /\ Len(InsertAt(s, k, x)) = Len(s) + 1
         /\ \A i \in 1..Len(s) + 1 :
              InsertAt(s, k, x)[i] = IF i < k THEN s[i] ELSE IF i = k THEN x ELSE s[i - 1]
<1>1. PICK n \in Nat : n = Len(s)
  OBVIOUS
<1>2. k \in 1..n
  BY <1>1
<1>3. \A i \in 1..n : s[i] \in S
  BY <1>1, ElementOfSeq
<1>4. \A i \in 1..k - 1 : s[i] \in S
  BY <1>2, <1>3
<1>5. \A i \in k..n : s[i] \in S
  BY <1>2, <1>3
<1>6. PICK l : /\ l = SubSeq(s, 1, k - 1) /\ l \in Seq(S) /\ Len(l) = k - 1
               /\ \A i \in 1..k - 1 : l[i] = s[i]
  <2>1. /\ SubSeq(s, 1, k - 1) \in Seq(S)
        /\ Len(SubSeq(s, 1, k - 1)) = IF 1 <= k - 1 THEN k - 1 - 1 + 1 ELSE 0
        /\ \A i \in 1..k - 1 - 1 + 1 : SubSeq(s, 1, k - 1)[i] = s[1 + i - 1]
    <3>1. 1 \in Int /\ k - 1 \in Int
      BY <1>2
    <3> QED BY <3>1, <1>4, SubSeqProperties
  <2>2. k - 1 - 1 + 1 = k - 1 /\ (~(1 <= k - 1) => k - 1 = 0) /\ \A i \in 1..k - 1 : 1 + i - 1 = i
    BY <1>2
  <2> QED BY <2>1, <2>2
<1>7. PICK r : /\ r = SubSeq(s, k, n) /\ r \in Seq(S) /\ Len(r) = n - k + 1
               /\ \A i \in 1..n - k + 1 : r[i] = s[k + i - 1]
  <2>1. /\ SubSeq(s, k, n) \in Seq(S)
        /\ Len(SubSeq(s, k, n)) = IF k <= n THEN n - k + 1 ELSE 0
        /\ \A i \in 1..n - k + 1 : SubSeq(s, k, n)[i] = s[k + i - 1]
    <3>1. k \in Int /\ n \in Int
      BY <1>2
    <3> QED BY <3>1, <1>5, SubSeqProperties
  <2>2. k <= n
    BY <1>2
  <2> QED BY <2>1, <2>2
<1>8. PICK m : /\ m = l \o <<x>> /\ m \in Seq(S) /\ Len(m) = k
               /\ \A i \in 1..k : m[i] = IF i < k THEN s[i] ELSE x
  <2>1. PICK a : a = Append(l, x)
    OBVIOUS
  <2>2. a = l \o <<x>>
    BY <1>6, <2>1, AppendIsConcat
  <2>3. /\ a \in Seq(S) /\ Len(a) = k - 1 + 1
        /\ \A i \in 1..k - 1 : a[i] = l[i]
        /\ a[k - 1 + 1] = x
    BY <1>6, <2>1, AppendProperties
  <2>4. k - 1 + 1 = k /\ \A i \in 1..k : IF i < k THEN i \in 1..k - 1 ELSE i = k
    BY <1>2
  <2>5. \A i \in 1..k : a[i] = IF i < k THEN s[i] ELSE x
    BY <1>6, <2>3, <2>4
  <2> QED BY <2>2, <2>3, <2>4, <2>5
<1>9. PICK t : /\ t = m \o r /\ t \in Seq(S) /\ Len(t) = k + (n - k + 1)
               /\ \A i \in 1..k + (n - k + 1) : t[i] = IF i <= k THEN m[i] ELSE r[i - k]
  <2>1. /\ m \o r \in Seq(S) /\ Len(m \o r) = Len(m) + Len(r)
        /\ \A i \in 1..Len(m) + Len(r) :
             (m \o r)[i] = IF i <= Len(m) THEN m[i] ELSE r[i - Len(m)]
    <3>1. m \in Seq(S) /\ r \in Seq(S)
      BY <1>7, <1>8
    <3> QED BY <3>1, ConcatProperties
  <2>2. Len(m) = k /\ Len(r) = n - k + 1
    BY <1>7, <1>8
  <2> QED BY <2>1, <2>2
<1>10. InsertAt(s, k, x) = t
  BY <1>1, <1>6, <1>7, <1>8, <1>9 DEF InsertAt
<1>11. k + (n - k + 1) = n + 1
  BY <1>2
<1>12. ASSUME NEW i \in 1..n + 1
       PROVE  t[i] = IF i < k THEN s[i] ELSE IF i = k THEN x ELSE s[i - 1]
  <2>1. t[i] = IF i <= k THEN m[i] ELSE r[i - k]
    BY <1>9, <1>11
  <2>2. CASE i <= k
    <3>1. i \in 1..k
      BY <1>2, <2>2
    <3>2. t[i] = m[i]
      BY <2>1, <2>2
    <3>3. i < k \/ i = k
      BY <1>2, <2>2
    <3> QED BY <1>8, <3>1, <3>2, <3>3
  <2>3. CASE i > k
    <3>1. i - k \in 1..n - k + 1 /\ k + (i - k) - 1 = i - 1 /\ ~(i <= k) /\ ~(i < k) /\ i # k
      BY <1>2, <2>3
    <3>2. t[i] = r[i - k]
      BY <2>1, <3>1
    <3>3. r[i - k] = s[k + (i - k) - 1]
      BY <1>7, <3>1
    <3> QED BY <3>1, <3>2, <3>3
  <2> QED BY <1>2, <2>2, <2>3
<1> QED BY <1>1, <1>9, <1>10, <1>11, <1>12

(* Four digits with a point inserted before the second, third or fourth.   *)
WithPoint(t, S, s, k, x) ==
  /\ t \in Seq(S) /\ Len(t) = 5
  /\ \A i \in 1..5 : t[i] = IF i < k THEN s[i] ELSE IF i = k THEN x ELSE s[i - 1]

(* The sequences with the point in its place, written out.                 *)
LEMMA PointIs ==
  ASSUME NEW S, NEW a \in S, NEW b \in S, NEW c \in S, NEW d \in S, NEW x \in S
  PROVE  /\ InsertAt(<<a, b, c, d>>, 2, x) = <<a, x, b, c, d>>
         /\ InsertAt(<<a, b, c, d>>, 3, x) = <<a, b, x, c, d>>
         /\ InsertAt(<<a, b, c, d>>, 4, x) = <<a, b, c, x, d>>
<1>1. PICK s : /\ s = <<a, b, c, d>> /\ s \in Seq(S) /\ Len(s) = 4
               /\ s[1] = a /\ s[2] = b /\ s[3] = c /\ s[4] = d
  <2>1. <<a, b, c, d>> \in Seq(S)
    OBVIOUS
  <2>2. PICK s : s = <<a, b, c, d>>
    OBVIOUS
  <2>3. Len(s) = 4 /\ s[1] = a /\ s[2] = b /\ s[3] = c /\ s[4] = d
    BY <2>2
  <2> QED BY <2>1, <2>2, <2>3
<1>2. ASSUME NEW k \in 2..4 PROVE WithPoint(InsertAt(s, k, x), S, s, k, x)
  <2>1. k \in 1..Len(s) /\ Len(s) + 1 = 5
    BY <1>1
  <2>2. /\ InsertAt(s, k, x) \in Seq(S) /\ Len(InsertAt(s, k, x)) = Len(s) + 1
        /\ \A i \in 1..Len(s) + 1 :
             InsertAt(s, k, x)[i] = IF i < k THEN s[i] ELSE IF i = k THEN x ELSE s[i - 1]
    <3>1. s \in Seq(S) /\ x \in S /\ k \in 1..Len(s)
      BY <1>1, <2>1
    <3> QED BY <3>1, InsertIs
  <2> QED BY <2>1, <2>2 DEF WithPoint
<1>3. ASSUME NEW k, NEW r, NEW t, WithPoint(r, S, s, k, x), WithPoint(t, S, s, k, x)
      PROVE  r = t
  <2>1. /\ r \in Seq(S) /\ t \in Seq(S) /\ Len(r) = Len(t)
        /\ \A i \in 1..Len(r) : r[i] = t[i]
    BY <1>3 DEF WithPoint
  <2> QED BY <2>1, SeqEqual
<1>4. InsertAt(s, 2, x) = <<a, x, b, c, d>>
  <2>1. PICK t : /\ t = <<a, x, b, c, d>> /\ t \in Seq(S) /\ Len(t) = 5
                 /\ t[1] = a /\ t[2] = x /\ t[3] = b /\ t[4] = c /\ t[5] = d
    <3>1. <<a, x, b, c, d>> \in Seq(S)
      OBVIOUS
    <3>2. PICK t : t = <<a, x, b, c, d>>
      OBVIOUS
    <3>3. /\ Len(t) = 5
          /\ t[1] = a /\ t[2] = x /\ t[3] = b /\ t[4] = c /\ t[5] = d
      BY <3>2
    <3> QED BY <3>1, <3>2, <3>3
  <2>2. WithPoint(t, S, s, 2, x)
    <3>1. ASSUME NEW i \in 1..5
          PROVE  t[i] = IF i < 2 THEN s[i] ELSE IF i = 2 THEN x ELSE s[i - 1]
      <4>1. i = 1 \/ i = 2 \/ i = 3 \/ i = 4 \/ i = 5
        OBVIOUS
      <4> QED BY <1>1, <2>1, <4>1
    <3> QED BY <2>1, <3>1 DEF WithPoint
  <2> QED BY <1>2, <1>3, <2>1, <2>2
<1>5. InsertAt(s, 3, x) = <<a, b, x, c, d>>
  <2>1. PICK t : /\ t = <<a, b, x, c, d>> /\ t \in Seq(S) /\ Len(t) = 5
                 /\ t[1] = a /\ t[2] = b /\ t[3] = x /\ t[4] = c /\ t[5] = d
    <3>1. <<a, b, x, c, d>> \in Seq(S)
      OBVIOUS
    <3>2. PICK t : t = <<a, b, x, c, d>>
      OBVIOUS
    <3>3. /\ Len(t) = 5
          /\ t[1] = a /\ t[2] = b /\ t[3] = x /\ t[4] = c /\ t[5] = d
      BY <3>2
    <3> QED BY <3>1, <3>2, <3>3
  <2>2. WithPoint(t, S, s, 3, x)
    <3>1. ASSUME NEW i \in 1..5
          PROVE  t[i] = IF i < 3 THEN s[i] ELSE IF i = 3 THEN x ELSE s[i - 1]
      <4>1. i = 1 \/ i = 2 \/ i = 3 \/ i = 4 \/ i = 5
        OBVIOUS
      <4> QED BY <1>1, <2>1, <4>1
    <3> QED BY <2>1, <3>1 DEF WithPoint
  <2> QED BY <1>2, <1>3, <2>1, <2>2
<1>6. InsertAt(s, 4, x) = <<a, b, c, x, d>>
  <2>1. PICK t : /\ t = <<a, b, c, x, d>> /\ t \in Seq(S) /\ Len(t) = 5
                 /\ t[1] = a /\ t[2] = b /\ t[3] = c /\ t[4] = x /\ t[5] = d
    <3>1. <<a, b, c, x, d>> \in Seq(S)
      OBVIOUS
    <3>2. PICK t : t = <<a, b, c, x, d>>
      OBVIOUS
    <3>3. /\ Len(t) = 5
          /\ t[1] = a /\ t[2] = b /\ t[3] = c /\ t[4] = x /\ t[5] = d
      BY <3>2
    <3> QED BY <3>1, <3>2, <3>3
  <2>2. WithPoint(t, S, s, 4, x)
    <3>1. ASSUME NEW i \in 1..5
          PROVE  t[i] = IF i < 4 THEN s[i] ELSE IF i = 4 THEN x ELSE s[i - 1]
      <4>1. i = 1 \/ i = 2 \/ i = 3 \/ i = 4 \/ i = 5
        OBVIOUS
      <4> QED BY <1>1, <2>1, <4>1
    <3> QED BY <2>1, <3>1 DEF WithPoint
  <2> QED BY <1>2, <1>3, <2>1, <2>2
<1> QED BY <1>1, <1>4, <1>5, <1>6

(* A sequence with one element put behind it.                              *)
LEMMA OneMore ==
  ASSUME NEW S, NEW s \in Seq(S), NEW x \in S
  PROVE  s \o <<x>> = Append(s, x) /\ Append(s, x) \in Seq(S)
BY AppendIsConcat, AppendProperties

(* The same for two.                                                       *)
LEMMA TwoMore ==
  ASSUME NEW S, NEW s \in Seq(S), NEW x \in S, NEW y \in S
  PROVE  s \o <<x, y>> = Append(Append(s, x), y) /\ Append(Append(s, x), y) \in Seq(S)
<1>1. s \o <<x, y>> = Append(Append(s, x), y)
  OBVIOUS
<1>2. Append(s, x) \in Seq(S)
  OBVIOUS
<1>3. Append(Append(s, x), y) \in Seq(S)
  BY <1>2
<1> QED BY <1>1, <1>3

(* The digits that have a point.                                           *)
HasPoint(p, n) == Bit(p, 10 - 2 * n, 3) = 1

(* At most one of the digits 1 to 3 has a point.                           *)
OnePoint(p) == \A m, n \in { dig \in 1..3 : HasPoint(p, dig) } : m = n

(* The place the driver keeps is that of the only point.                   *)
LEMMA PlaceIs ==
  ASSUME NEW p, OnePoint(p)
  PROVE  /\ (\A n \in 1..3 : ~HasPoint(p, n)) => decimalPlace(p) = 0
         /\ \A n \in 1..3 : HasPoint(p, n) => decimalPlace(p) = 4 - n
<1>1. PICK points : points = { dig \in 1..4 : HasPoint(p, dig) }
  OBVIOUS
<1>2. decimalPlace(p) = IF points = {} THEN 0
                        ELSE 4 - (CHOOSE d \in points : \A e \in points : d <= e)
  BY <1>1 DEF decimalPlace, HasPoint
<1>3. ASSUME NEW n \in 1..4, n \in points, \A e \in points : n <= e
      PROVE  decimalPlace(p) = 4 - n
  <2>1. PICK m : m = CHOOSE d \in points : \A e \in points : d <= e
    OBVIOUS
  <2>2. m \in points /\ \A e \in points : m <= e
    BY <1>3, <2>1
  <2>3. m \in 1..4 /\ m <= n /\ n <= m
    BY <1>1, <1>3, <2>2
  <2>4. m = n
    BY <2>3
  <2> QED BY <1>2, <1>3, <2>1, <2>4
<1>4. ASSUME \A n \in 1..3 : ~HasPoint(p, n)
      PROVE  decimalPlace(p) = 0
  <2>1. points \subseteq {4}
    <3>1. \A n \in 1..4 : n \in 1..3 \/ n = 4
      OBVIOUS
    <3> QED BY <1>1, <1>4, <3>1
  <2>2. CASE points = {}
    BY <1>2, <2>2
  <2>3. CASE 4 \in points
    <3>1. 4 \in 1..4 /\ \A e \in points : 4 <= e
      BY <2>1
    <3>2. decimalPlace(p) = 4 - 4
      BY <1>3, <2>3, <3>1
    <3> QED BY <3>2
  <2> QED BY <2>1, <2>2, <2>3
<1>5. ASSUME NEW n \in 1..3, HasPoint(p, n)
      PROVE  decimalPlace(p) = 4 - n
  <2>1. n \in 1..4 /\ n \in points
    BY <1>1, <1>5
  <2>2. ASSUME NEW e \in points PROVE n <= e
    <3>1. e \in 1..4 /\ HasPoint(p, e)
      BY <1>1
    <3>2. CASE e = 4
      BY <3>2
    <3>3. CASE e # 4
      <4>1. e \in 1..3
        BY <3>1, <3>3
      <4>2. e \in { dig \in 1..3 : HasPoint(p, dig) } /\ n \in { dig \in 1..3 : HasPoint(p, dig) }
        BY <1>5, <3>1, <4>1
      <4>3. e = n
        BY <4>2 DEF OnePoint
      <4> QED BY <4>3
    <3> QED BY <3>2, <3>3
  <2> QED BY <1>3, <2>1, <2>2
<1> QED BY <1>4, <1>5

(* What the header shows for a digit, with its point.                      *)
Shown(p, n) ==
  IF n # 4 /\ HasPoint(p, n) THEN <<".", LitChar(p, n)>> ELSE <<LitChar(p, n)>>

(* The digits without the point, and with it as the driver puts it.        *)
FourChars(p) == <<LitChar(p, 4), LitChar(p, 3), LitChar(p, 2), LitChar(p, 1)>>

WithItsPoint(p) ==
  IF decimalPlace(p) = 0 THEN FourChars(p)
  ELSE InsertAt(FourChars(p), decimalPlace(p) + 1, ".")

(* What is shown of a packet, behind a minus or not.                       *)
LEMMA SamePoint ==
  ASSUME NEW p, OnePoint(p), NEW m \in {<<>>, <<"-">>}
  PROVE  /\ m \o Shown(p, 4) \o Shown(p, 3) \o Shown(p, 2) \o Shown(p, 1)
              = m \o WithItsPoint(p)
         /\ <<>> \o WithItsPoint(p) = WithItsPoint(p)
<1>1. PICK S : S = {LitChar(p, 1), LitChar(p, 2), LitChar(p, 3), LitChar(p, 4), ".", "-"}
  OBVIOUS
<1>2. PICK a \in S, b \in S, c \in S, d \in S :
        a = LitChar(p, 4) /\ b = LitChar(p, 3) /\ c = LitChar(p, 2) /\ d = LitChar(p, 1)
  BY <1>1
<1>3. FourChars(p) = <<a, b, c, d>>
  BY <1>2 DEF FourChars
<1>4. PICK z \in Seq(S) : z = m
  <2>1. <<>> \in Seq(S) /\ <<"-">> \in Seq(S)
    BY <1>1
  <2> QED BY <2>1
<1>5. PICK y \in S : y = "."
  BY <1>1
<1>6. z \o <<a, b, c, d>> = Append(Append(Append(Append(z, a), b), c), d)
  OBVIOUS
<1>7. z \o <<a, y, b, c, d>> = Append(Append(Append(Append(Append(z, a), y), b), c), d)
  OBVIOUS
<1>8. z \o <<a, b, y, c, d>> = Append(Append(Append(Append(Append(z, a), b), y), c), d)
  OBVIOUS
<1>9. z \o <<a, b, c, y, d>> = Append(Append(Append(Append(Append(z, a), b), c), y), d)
  OBVIOUS
<1>10. z \o Shown(p, 4) = Append(z, a) /\ Append(z, a) \in Seq(S)
  <2>1. Shown(p, 4) = <<a>>
    BY <1>2 DEF Shown
  <2> QED BY <2>1, OneMore
<1>11. ASSUME NEW s \in Seq(S), NEW n \in 1..3, NEW x \in S, x = LitChar(p, n)
      PROVE  s \o Shown(p, n) = IF HasPoint(p, n) THEN Append(Append(s, y), x) ELSE Append(s, x)
  <2>1. Shown(p, n) = IF HasPoint(p, n) THEN <<y, x>> ELSE <<x>>
    <3>1. n # 4
      OBVIOUS
    <3> QED BY <1>5, <1>11, <3>1 DEF Shown
  <2>2. s \o <<x>> = Append(s, x)
    BY OneMore
  <2>3. s \o <<y, x>> = Append(Append(s, y), x)
    BY TwoMore
  <2> QED BY <2>1, <2>2, <2>3
<1>12. PICK s4 \in Seq(S) : s4 = Append(z, a) /\ s4 = z \o Shown(p, 4)
  BY <1>10
<1>13. ASSUME NEW s \in Seq(S)
      PROVE  s \o Shown(p, 3) = IF HasPoint(p, 3) THEN Append(Append(s, y), b) ELSE Append(s, b)
  <2>1. 3 \in 1..3
    OBVIOUS
  <2> QED BY <1>11, <1>2, <2>1
<1>14. ASSUME NEW s \in Seq(S)
      PROVE  s \o Shown(p, 2) = IF HasPoint(p, 2) THEN Append(Append(s, y), c) ELSE Append(s, c)
  <2>1. 2 \in 1..3
    OBVIOUS
  <2> QED BY <1>11, <1>2, <2>1
<1>15. ASSUME NEW s \in Seq(S)
      PROVE  s \o Shown(p, 1) = IF HasPoint(p, 1) THEN Append(Append(s, y), d) ELSE Append(s, d)
  <2>1. 1 \in 1..3
    OBVIOUS
  <2> QED BY <1>11, <1>2, <2>1
<1>16. CASE \A n \in 1..3 : ~HasPoint(p, n)
  <2>1. decimalPlace(p) = 0
    BY <1>16, PlaceIs
  <2>2. ~HasPoint(p, 1) /\ ~HasPoint(p, 2) /\ ~HasPoint(p, 3)
    BY <1>16
  <2>3. PICK s3 \in Seq(S) : s3 = Append(s4, b) /\ s3 = s4 \o Shown(p, 3)
    <3>1. s4 \o Shown(p, 3) = Append(s4, b)
      BY <2>2, <1>13
    <3>2. Append(s4, b) \in Seq(S)
      BY OneMore
    <3> QED BY <3>1, <3>2
  <2>4. PICK s2 \in Seq(S) : s2 = Append(s3, c) /\ s2 = s3 \o Shown(p, 2)
    <3>1. s3 \o Shown(p, 2) = Append(s3, c)
      BY <2>2, <1>14
    <3>2. Append(s3, c) \in Seq(S)
      BY OneMore
    <3> QED BY <3>1, <3>2
  <2>5. PICK s1 \in Seq(S) : s1 = Append(s2, d) /\ s1 = s2 \o Shown(p, 1)
    <3>1. s2 \o Shown(p, 1) = Append(s2, d)
      BY <2>2, <1>15
    <3>2. Append(s2, d) \in Seq(S)
      BY OneMore
    <3> QED BY <3>1, <3>2
  <2>6. z \o <<a, b, c, d>> = m \o Shown(p, 4) \o Shown(p, 3) \o Shown(p, 2) \o Shown(p, 1)
    BY <1>4, <1>12, <2>3, <2>4, <2>5, <1>6
  <2>7. WithItsPoint(p) = <<a, b, c, d>>
    BY <1>3, <2>1 DEF WithItsPoint
  <2>8. <<>> \o <<a, b, c, d>> = <<a, b, c, d>>
    OBVIOUS
  <2> QED BY <1>4, <2>6, <2>7, <2>8
<1>17. CASE HasPoint(p, 3)
  <2>1. decimalPlace(p) = 1
    <3>1. 3 \in 1..3 /\ 4 - 3 = 1
      OBVIOUS
    <3> QED BY <1>17, <3>1, PlaceIs
  <2>2. ~HasPoint(p, 1) /\ ~HasPoint(p, 2)
    BY <1>17 DEF OnePoint
  <2>3. PICK s3 \in Seq(S) : s3 = Append(Append(s4, y), b) /\ s3 = s4 \o Shown(p, 3)
    <3>1. s4 \o Shown(p, 3) = Append(Append(s4, y), b)
      BY <1>17, <1>13
    <3>2. Append(Append(s4, y), b) \in Seq(S)
      BY TwoMore
    <3> QED BY <3>1, <3>2
  <2>4. PICK s2 \in Seq(S) : s2 = Append(s3, c) /\ s2 = s3 \o Shown(p, 2)
    <3>1. s3 \o Shown(p, 2) = Append(s3, c)
      BY <2>2, <1>14
    <3>2. Append(s3, c) \in Seq(S)
      BY OneMore
    <3> QED BY <3>1, <3>2
  <2>5. PICK s1 \in Seq(S) : s1 = Append(s2, d) /\ s1 = s2 \o Shown(p, 1)
    <3>1. s2 \o Shown(p, 1) = Append(s2, d)
      BY <2>2, <1>15
    <3>2. Append(s2, d) \in Seq(S)
      BY OneMore
    <3> QED BY <3>1, <3>2
  <2>6. z \o <<a, y, b, c, d>> = m \o Shown(p, 4) \o Shown(p, 3) \o Shown(p, 2) \o Shown(p, 1)
    BY <1>4, <1>12, <2>3, <2>4, <2>5, <1>7
  <2>7. WithItsPoint(p) = <<a, y, b, c, d>>
    <3>1. InsertAt(<<a, b, c, d>>, 2, y) = <<a, y, b, c, d>>
      BY PointIs
    <3>2. decimalPlace(p) # 0 /\ decimalPlace(p) + 1 = 2
      BY <2>1
    <3> QED BY <1>5, <1>3, <3>1, <3>2 DEF WithItsPoint
  <2>8. <<>> \o <<a, y, b, c, d>> = <<a, y, b, c, d>>
    OBVIOUS
  <2> QED BY <1>4, <2>6, <2>7, <2>8
<1>18. CASE HasPoint(p, 2)
  <2>1. decimalPlace(p) = 2
    <3>1. 2 \in 1..3 /\ 4 - 2 = 2
      OBVIOUS
    <3> QED BY <1>18, <3>1, PlaceIs
  <2>2. ~HasPoint(p, 1) /\ ~HasPoint(p, 3)
    BY <1>18 DEF OnePoint
  <2>3. PICK s3 \in Seq(S) : s3 = Append(s4, b) /\ s3 = s4 \o Shown(p, 3)
    <3>1. s4 \o Shown(p, 3) = Append(s4, b)
      BY <2>2, <1>13
    <3>2. Append(s4, b) \in Seq(S)
      BY OneMore
    <3> QED BY <3>1, <3>2
  <2>4. PICK s2 \in Seq(S) : s2 = Append(Append(s3, y), c) /\ s2 = s3 \o Shown(p, 2)
    <3>1. s3 \o Shown(p, 2) = Append(Append(s3, y), c)
      BY <1>18, <1>14
    <3>2. Append(Append(s3, y), c) \in Seq(S)
      BY TwoMore
    <3> QED BY <3>1, <3>2
  <2>5. PICK s1 \in Seq(S) : s1 = Append(s2, d) /\ s1 = s2 \o Shown(p, 1)
    <3>1. s2 \o Shown(p, 1) = Append(s2, d)
      BY <2>2, <1>15
    <3>2. Append(s2, d) \in Seq(S)
      BY OneMore
    <3> QED BY <3>1, <3>2
  <2>6. z \o <<a, b, y, c, d>> = m \o Shown(p, 4) \o Shown(p, 3) \o Shown(p, 2) \o Shown(p, 1)
    BY <1>4, <1>12, <2>3, <2>4, <2>5, <1>8
  <2>7. WithItsPoint(p) = <<a, b, y, c, d>>
    <3>1. InsertAt(<<a, b, c, d>>, 3, y) = <<a, b, y, c, d>>
      BY PointIs
    <3>2. decimalPlace(p) # 0 /\ decimalPlace(p) + 1 = 3
      BY <2>1
    <3> QED BY <1>5, <1>3, <3>1, <3>2 DEF WithItsPoint
  <2>8. <<>> \o <<a, b, y, c, d>> = <<a, b, y, c, d>>
    OBVIOUS
  <2> QED BY <1>4, <2>6, <2>7, <2>8
<1>19. CASE HasPoint(p, 1)
  <2>1. decimalPlace(p) = 3
    <3>1. 1 \in 1..3 /\ 4 - 1 = 3
      OBVIOUS
    <3> QED BY <1>19, <3>1, PlaceIs
  <2>2. ~HasPoint(p, 2) /\ ~HasPoint(p, 3)
    BY <1>19 DEF OnePoint
  <2>3. PICK s3 \in Seq(S) : s3 = Append(s4, b) /\ s3 = s4 \o Shown(p, 3)
    <3>1. s4 \o Shown(p, 3) = Append(s4, b)
      BY <2>2, <1>13
    <3>2. Append(s4, b) \in Seq(S)
      BY OneMore
    <3> QED BY <3>1, <3>2
  <2>4. PICK s2 \in Seq(S) : s2 = Append(s3, c) /\ s2 = s3 \o Shown(p, 2)
    <3>1. s3 \o Shown(p, 2) = Append(s3, c)
      BY <2>2, <1>14
    <3>2. Append(s3, c) \in Seq(S)
      BY OneMore
    <3> QED BY <3>1, <3>2
  <2>5. PICK s1 \in Seq(S) : s1 = Append(Append(s2, y), d) /\ s1 = s2 \o Shown(p, 1)
    <3>1. s2 \o Shown(p, 1) = Append(Append(s2, y), d)
      BY <1>19, <1>15
    <3>2. Append(Append(s2, y), d) \in Seq(S)
      BY TwoMore
    <3> QED BY <3>1, <3>2
  <2>6. z \o <<a, b, c, y, d>> = m \o Shown(p, 4) \o Shown(p, 3) \o Shown(p, 2) \o Shown(p, 1)
    BY <1>4, <1>12, <2>3, <2>4, <2>5, <1>9
  <2>7. WithItsPoint(p) = <<a, b, c, y, d>>
    <3>1. InsertAt(<<a, b, c, d>>, 4, y) = <<a, b, c, y, d>>
      BY PointIs
    <3>2. decimalPlace(p) # 0 /\ decimalPlace(p) + 1 = 4
      BY <2>1
    <3> QED BY <1>5, <1>3, <3>1, <3>2 DEF WithItsPoint
  <2>8. <<>> \o <<a, b, c, y, d>> = <<a, b, c, y, d>>
    OBVIOUS
  <2> QED BY <1>4, <2>6, <2>7, <2>8
<1>20. \A n \in 1..3 : n = 1 \/ n = 2 \/ n = 3
  OBVIOUS
<1> QED BY <1>16, <1>17, <1>18, <1>19, <1>20

(* What is shown of a packet that has at most one point.                   *)
LEMMA SameDisplay ==
  ASSUME NEW p \in Seq(Nat), Len(p) = 14, OnePoint(p)
  PROVE  display(p) = strToDigits(p)
<1>1. PICK a, b, c, d : /\ a = LitChar(p, 4) /\ b = LitChar(p, 3)
                        /\ c = LitChar(p, 2) /\ d = LitChar(p, 1)
  OBVIOUS
<1>2. [i \in 1..4 |-> processDigit(p, 5 - i)] = <<a, b, c, d>>
  <2>1. /\ processDigit(p, 4) = a /\ processDigit(p, 3) = b
        /\ processDigit(p, 2) = c /\ processDigit(p, 1) = d
    <3>1. 1 \in 1..4 /\ 2 \in 1..4 /\ 3 \in 1..4 /\ 4 \in 1..4
      OBVIOUS
    <3> QED BY <1>1, <3>1, SameChar
  <2> QED BY <2>1
<1>3. display(p) = IF Bit(p, 0, 3) = 1 THEN <<"-">> \o WithItsPoint(p) ELSE WithItsPoint(p)
  <2>1. FourChars(p) = <<a, b, c, d>>
    BY <1>1 DEF FourChars
  <2> QED BY <1>2, <2>1, NegativeIs DEF display, WithItsPoint
<1>4. PICK m \in {<<>>, <<"-">>} : m = IF Bit(p, 0, 3) = 1 THEN <<"-">> ELSE <<>>
  OBVIOUS
<1>5. strToDigits(p) = m \o Shown(p, 4) \o Shown(p, 3) \o Shown(p, 2) \o Shown(p, 1)
  BY <1>4 DEF strToDigits, Shown, HasPoint, LitChar
<1>6. strToDigits(p) = m \o WithItsPoint(p) /\ <<>> \o WithItsPoint(p) = WithItsPoint(p)
  BY <1>5, SamePoint
<1> QED BY <1>3, <1>4, <1>6

(* Whatever packets the meter sends, the driver shows what the decoder in  *)
(* the header makes of the last one (MM2200087.m:64-107).                  *)
THEOREM Decodes == Spec => []DecodesAsReference
<1>1. IInv => DecodesAsReference
  <2>1. SUFFICES ASSUME IInv, lastPacket # <<>>
                 PROVE  /\ flags(lastPacket) \ {"NEGATIVE"} = strToFlags(lastPacket)
                        /\ (\A d, e \in { dig \in 1..3 : Bit(lastPacket, 10 - 2 * dig, 3) = 1 } : d = e)
                             => display(lastPacket) = strToDigits(lastPacket)
    BY DEF DecodesAsReference
  <2>2. lastPacket \in Seq(Nat)
    BY <2>1 DEF IInv, TypeInv
  <2>3. Len(lastPacket) = 14
    <3>1. PICK n \in Nat : n = Len(history)
      BY <2>1 DEF IInv, TypeInv
    <3>2. PICK r : /\ r = readings /\ r = Append(history, lastPacket)
                   /\ Len(r) = n + 1 /\ r[n + 1] = lastPacket
      <4>1. history \in Seq(Seq(Nat))
        BY <2>1 DEF IInv, TypeInv
      <4>2. /\ Len(Append(history, lastPacket)) = Len(history) + 1
            /\ Append(history, lastPacket)[Len(history) + 1] = lastPacket
        BY <2>2, <4>1, AppendProperties
      <4> QED BY <2>1, <3>1, <4>2 DEF readings
    <3>3. n + 1 \in DOMAIN r
      <4>1. r \in Seq(Seq(Nat))
        BY <2>1, <2>2, <3>2, AppendProperties DEF IInv, TypeInv
      <4>2. DOMAIN r = 1..Len(r)
        BY <4>1
      <4> QED BY <3>1, <3>2, <4>2
    <3>4. PICK k : Reported(script, r, k)
      BY <2>1, <3>2 DEF IInv
    <3> QED BY <3>2, <3>3, <3>4 DEF Reported
  <2>4. (\A d, e \in { dig \in 1..3 : Bit(lastPacket, 10 - 2 * dig, 3) = 1 } : d = e)
          => OnePoint(lastPacket)
    BY DEF OnePoint, HasPoint
  <2> QED BY <2>2, <2>3, <2>4, SameDisplay, SameFlags
<1> QED BY <1>1, InvCorrect, PTL
=============================================================================
