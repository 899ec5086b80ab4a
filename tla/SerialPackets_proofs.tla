------------------------ MODULE SerialPackets_proofs ------------------------
(***************************************************************************)
(* Proofs about SerialPackets, for any bytes, descriptors and formats and  *)
(* any stream: types, and that the search after each byte in a trimmed     *)
(* buffer misses no packet, reports each as received and shares no byte    *)
(* between two.                                                            *)
(***************************************************************************)
EXTENDS SerialPackets, SequenceTheorems, FiniteSetTheorems, WellFoundedInduction,
        TLAPS

-----------------------------------------------------------------------------
(* The n bytes of s that end with the byte at e.                           *)
Window(s, e, n) == SubSeq(s, e - n + 1, e)

(* How far back the buffer goes, since bytes after it was last empty.      *)
Reach(since, max) == IF since < max THEN since ELSE max

(* The maximum packet length of d.                                         *)
Longest(d) == maximumPacketLength(format[d])

(* A buffer holds the bytes since it was last empty, as far back as a      *)
(* packet may reach.                                                       *)
BufferInv ==
  \A d \in Listening :
    buffers[d] = LastBytes(stream, Reach(Len(stream) - from[d], Longest(d)))

(* No packet of a length the descriptor allows was complete, at any time,  *)
(* since the buffer was last empty.                                        *)
SinceInv ==
  \A d \in Listening : \A e \in from[d]..Len(stream) : \A n \in 1..(e - from[d]) :
    n <= Longest(d) => ~dataIsValidPacket(format[d], Window(stream, e, n))

(* A packet was received as reported, before the buffer was emptied.       *)
ReportedInv ==
  \A i \in DOMAIN packets :
    LET p == packets[i]
    IN  /\ Len(p.data) \in 1..p.end /\ p.end \in 1..from[p.descriptor]
        /\ p.data = Window(stream, p.end, Len(p.data))

IInv == TypeOK /\ BufferInv /\ SinceInv /\ ReportedInv

-----------------------------------------------------------------------------
(* Windows.  What a window holds, by its bytes.                            *)
IsWindow(w, s, e, n) ==
  w \in Seq(Bytes) /\ Len(w) = n /\ \A i \in 1..n : w[i] = s[e - n + i]

(* Window takes the bytes it should.                                       *)
LEMMA WindowIs ==
  ASSUME NEW s \in Seq(Bytes), NEW e \in Nat, e <= Len(s), NEW n \in Nat, n <= e
  PROVE  IsWindow(Window(s, e, n), s, e, n)
<1>1. PICK m \in Int : m = e - n + 1
  OBVIOUS
<1>2. \A i \in m..e : s[i] \in Bytes
  <2>1. \A i \in m..e : i \in 1..Len(s)
    BY <1>1, LenProperties
  <2> QED BY <2>1, ElementOfSeq
<1>3. /\ SubSeq(s, m, e) \in Seq(Bytes)
      /\ Len(SubSeq(s, m, e)) = IF m <= e THEN e - m + 1 ELSE 0
      /\ \A i \in 1..(e - m + 1) : SubSeq(s, m, e)[i] = s[m + i - 1]
  BY <1>2, SubSeqProperties
<1>4. Window(s, e, n) = SubSeq(s, m, e)
  BY <1>1 DEF Window
<1>5. (IF m <= e THEN e - m + 1 ELSE 0) = n /\ e - m + 1 = n
  BY <1>1
<1>6. ASSUME NEW i \in 1..n
      PROVE  SubSeq(s, m, e)[i] = s[e - n + i]
  <2>1. i \in 1..(e - m + 1) /\ m + i - 1 = e - n + i
    BY <1>1
  <2> QED BY <1>3, <2>1
<1> QED BY <1>3, <1>4, <1>5, <1>6 DEF IsWindow

(* Two windows with the same bytes are the same.                           *)
LEMMA SameWindow ==
  ASSUME NEW s \in Seq(Bytes), NEW e \in Nat, e <= Len(s), NEW n \in Nat, n <= e,
         NEW w, IsWindow(w, s, e, n)
  PROVE  w = Window(s, e, n)
<1>1. PICK v : v = Window(s, e, n) /\ IsWindow(v, s, e, n)
  BY WindowIs
<1>2. /\ v \in Seq(Bytes) /\ w \in Seq(Bytes) /\ Len(v) = Len(w)
      /\ \A i \in 1..Len(w) : v[i] = w[i]
  BY <1>1 DEF IsWindow
<1>3. w = v
  BY <1>2, SeqEqual
<1> QED BY <1>1, <1>3

(* The last bytes are the window that ends with the last byte.             *)
LEMMA LastIsWindow == ASSUME NEW s, NEW n PROVE LastBytes(s, n) = Window(s, Len(s), n)
  BY DEF LastBytes, Window

(* The end of a window is a window with the same end.                      *)
LEMMA EndOfWindow ==
  ASSUME NEW s \in Seq(Bytes), NEW e \in Nat, e <= Len(s), NEW n \in Nat, n <= e,
         NEW k \in Nat, k <= n
  PROVE  LastBytes(Window(s, e, n), k) = Window(s, e, k)
<1>1. PICK w \in Seq(Bytes) : w = Window(s, e, n) /\ IsWindow(w, s, e, n)
  <2>1. IsWindow(Window(s, e, n), s, e, n)
    BY WindowIs
  <2> QED BY <2>1 DEF IsWindow
<1>2. n <= Len(w) /\ k <= Len(w) /\ k <= k /\ Len(w) = n
  BY <1>1 DEF IsWindow
<1>3. PICK v \in Seq(Bytes) : v = Window(w, n, k) /\ IsWindow(v, w, n, k)
  <2>1. IsWindow(Window(w, n, k), w, n, k)
    BY <1>2, WindowIs
  <2> QED BY <2>1 DEF IsWindow
<1>5. ASSUME NEW i \in 1..k
      PROVE  v[i] = s[e - k + i]
  <2>1. n - k + i \in 1..n /\ e - n + (n - k + i) = e - k + i
    OBVIOUS
  <2>2. v[i] = w[n - k + i] /\ w[n - k + i] = s[e - n + (n - k + i)]
    BY <1>1, <1>3, <2>1 DEF IsWindow
  <2> QED BY <2>1, <2>2
<1>6. IsWindow(v, s, e, k)
  BY <1>3, <1>5 DEF IsWindow
<1>7. k <= e
  OBVIOUS
<1>8. v = Window(s, e, k)
  BY <1>6, <1>7, SameWindow
<1> QED BY <1>1, <1>2, <1>3, <1>8, LastIsWindow

(* Its beginning is a window with an earlier end.                          *)
LEMMA BeginOfWindow ==
  ASSUME NEW s \in Seq(Bytes), NEW e \in Nat, e <= Len(s), NEW n \in Nat, n <= e,
         NEW k \in Nat, k <= n, NEW f, f = e - n + k
  PROVE  SubSeq(Window(s, e, n), 1, k) = Window(s, f, k)
<1>1. PICK w \in Seq(Bytes) : w = Window(s, e, n) /\ IsWindow(w, s, e, n)
  <2>1. IsWindow(Window(s, e, n), s, e, n)
    BY WindowIs
  <2> QED BY <2>1 DEF IsWindow
<1>2. n <= Len(w) /\ k <= Len(w) /\ k <= k /\ Len(w) = n
  BY <1>1 DEF IsWindow
<1>3. PICK v \in Seq(Bytes) : v = Window(w, k, k) /\ IsWindow(v, w, k, k)
  <2>1. IsWindow(Window(w, k, k), w, k, k)
    BY <1>2, WindowIs
  <2> QED BY <2>1 DEF IsWindow
<1>5. f \in Nat /\ f <= Len(s) /\ k <= f
  BY LenProperties
<1>6. ASSUME NEW i \in 1..k
      PROVE  v[i] = s[f - k + i]
  <2>1. i \in 1..n /\ e - n + i = f - k + i /\ k - k + i = i
    OBVIOUS
  <2>2. v[i] = w[i] /\ w[i] = s[e - n + i]
    BY <1>1, <1>3, <2>1 DEF IsWindow
  <2> QED BY <2>1, <2>2
<1>7. IsWindow(v, s, f, k)
  BY <1>3, <1>6 DEF IsWindow
<1>8. v = Window(s, f, k)
  BY <1>5, <1>7, SameWindow
<1>9. v = SubSeq(w, 1, k)
  <2>1. k - k + 1 = 1
    OBVIOUS
  <2> QED BY <1>3, <2>1 DEF Window
<1> QED BY <1>1, <1>8, <1>9

(* What Append makes.                                                      *)
LEMMA AppendIs ==
  ASSUME NEW S, NEW s \in Seq(S), NEW b \in S
  PROVE  /\ Append(s, b) \in Seq(S) /\ Len(Append(s, b)) = Len(s) + 1
         /\ \A i \in 1..Len(s) : Append(s, b)[i] = s[i]
         /\ Append(s, b)[Len(s) + 1] = b
  OBVIOUS

(* A later byte changes no earlier window, and makes those at the end one  *)
(* longer.                                                                 *)
LEMMA WindowOfAppend ==
  ASSUME NEW s \in Seq(Bytes), NEW b \in Bytes, NEW e \in Nat, e <= Len(s),
         NEW n \in Nat, n <= e
  PROVE  Window(Append(s, b), e, n) = Window(s, e, n)
<1>0. PICK l \in Nat : l = Len(s)
  BY LenProperties
<1>1. PICK t \in Seq(Bytes) : /\ t = Append(s, b) /\ Len(t) = l + 1
                              /\ \A i \in 1..l : t[i] = s[i]
  <2>1. /\ Append(s, b) \in Seq(Bytes) /\ Len(Append(s, b)) = Len(s) + 1
        /\ \A i \in 1..Len(s) : Append(s, b)[i] = s[i]
    BY AppendIs
  <2> QED BY <1>0, <2>1
<1>2. e <= Len(t)
  BY <1>0, <1>1
<1>3. PICK w : w = Window(t, e, n) /\ IsWindow(w, t, e, n)
  BY <1>2, WindowIs
<1>5. ASSUME NEW i \in 1..n
      PROVE  w[i] = s[e - n + i]
  <2>1. e - n + i \in 1..l
    BY <1>0
  <2>2. w[i] = t[e - n + i]
    BY <1>3 DEF IsWindow
  <2> QED BY <1>1, <2>1, <2>2
<1>6. IsWindow(w, s, e, n)
  BY <1>3, <1>5 DEF IsWindow
<1>7. w = Window(s, e, n)
  BY <1>6, SameWindow
<1> QED BY <1>1, <1>3, <1>7

(* The last bytes of s and another byte.                                   *)
LEMMA AppendToWindow ==
  ASSUME NEW s \in Seq(Bytes), NEW b \in Bytes, NEW n \in Nat, n <= Len(s),
         NEW m, m = n + 1
  PROVE  Append(LastBytes(s, n), b) = LastBytes(Append(s, b), m)
<1>0. PICK e \in Nat : e = Len(s) /\ e <= e
  BY LenProperties
<1>1. PICK t \in Seq(Bytes) : /\ t = Append(s, b) /\ Len(t) = e + 1
                              /\ \A i \in 1..e : t[i] = s[i]
                              /\ t[e + 1] = b
  BY <1>0, AppendIs
<1>3. PICK v \in Seq(Bytes) : v = Window(s, e, n) /\ IsWindow(v, s, e, n)
  <2>1. IsWindow(Window(s, e, n), s, e, n)
    BY <1>0, WindowIs
  <2> QED BY <2>1 DEF IsWindow
<1>4. Len(v) = n
  BY <1>3 DEF IsWindow
<1>5. PICK w \in Seq(Bytes) : /\ w = Append(v, b) /\ Len(w) = m
                              /\ \A i \in 1..n : w[i] = v[i]
                              /\ w[m] = b
  BY <1>4, AppendIs
<1>6. PICK l \in Nat : l = e + 1 /\ Len(t) = l
  BY <1>1
<1>7. ASSUME NEW i \in 1..m
      PROVE  w[i] = t[l - m + i]
  <2>1. CASE i = m
    <3>1. l - m + i = e + 1
      BY <1>6, <2>1
    <3> QED BY <1>1, <1>5, <2>1, <3>1
  <2>2. CASE i \in 1..n
    <3>1. e - n + i \in 1..e /\ l - m + i = e - n + i
      BY <1>0, <1>6, <2>2
    <3>2. w[i] = s[e - n + i]
      BY <1>3, <1>5, <2>2 DEF IsWindow
    <3> QED BY <1>1, <3>1, <3>2
  <2> QED BY <2>1, <2>2
<1>8. IsWindow(w, t, l, m)
  BY <1>5, <1>7 DEF IsWindow
<1>9. w = Window(t, l, m)
  <2>1. m \in Nat /\ m <= l /\ l <= Len(t)
    BY <1>0, <1>1, <1>6
  <2> QED BY <1>8, <2>1, SameWindow
<1> QED BY <1>0, <1>1, <1>3, <1>5, <1>6, <1>9, LastIsWindow

(* A set of numbers has a least one.                                       *)
LEMMA LeastNumber ==
  ASSUME NEW T \in SUBSET Nat, T # {}
  PROVE  \E n \in T : \A k \in T : n <= k
<1>1. PICK R : /\ R = { ss \in Nat \X Nat : ss[1] < ss[2] }
               /\ IsWellFoundedOn(R, Nat)
  BY NatLessThanWellFounded DEF OpToRel
<1>2. PICK n \in T : \A k \in T : <<k, n>> \notin R
  BY <1>1, WFMin
<1>3. \A k \in T : ~(k < n)
  BY <1>1, <1>2
<1> QED BY <1>3

-----------------------------------------------------------------------------
(* A prefix is a window at the beginning.                                  *)
LEMMA PrefixIs ==
  ASSUME NEW p \in Seq(Bytes), NEW t \in Seq(Bytes)
  PROVE  IsPrefix(p, t) <=> Len(p) <= Len(t) /\ SubSeq(t, 1, Len(p)) = p
  BY SubSeqFull DEF IsPrefix

(* What Reverse makes.                                                     *)
LEMMA ReverseIs ==
  ASSUME NEW s \in Seq(Bytes)
  PROVE  /\ Reverse(s) \in Seq(Bytes) /\ Len(Reverse(s)) = Len(s)
         /\ \A i \in 1..Len(s) : Reverse(s)[i] = s[Len(s) - i + 1]
<1>1. ASSUME NEW i \in 1..Len(s)
      PROVE  s[Len(s) - i + 1] \in Bytes
  <2>1. Len(s) - i + 1 \in 1..Len(s)
    BY LenProperties
  <2> QED BY <2>1, ElementOfSeq
<1> QED BY <1>1 DEF Reverse

(* A suffix is a window at the end.                                        *)
LEMMA SuffixIs ==
  ASSUME NEW p \in Seq(Bytes), NEW t \in Seq(Bytes)
  PROVE  IsSuffix(p, t) <=> Len(p) <= Len(t) /\ LastBytes(t, Len(p)) = p
<1>1. PICK rp \in Seq(Bytes), rt \in Seq(Bytes), n \in Nat, m \in Nat :
        /\ rp = Reverse(p) /\ rt = Reverse(t) /\ n = Len(p) /\ m = Len(t)
        /\ Len(rp) = n /\ Len(rt) = m
  BY ReverseIs, LenProperties
<1>2. /\ \A i \in 1..n : rp[i] = p[n - i + 1]
      /\ \A i \in 1..m : rt[i] = t[m - i + 1]
  BY <1>1, ReverseIs
<1>3. IsSuffix(p, t) <=> n <= m /\ SubSeq(rt, 1, n) = rp
  BY <1>1, PrefixIs DEF IsSuffix
<1> SUFFICES ASSUME n <= m
             PROVE  SubSeq(rt, 1, n) = rp <=> LastBytes(t, n) = p
  BY <1>1, <1>3
<1>0. n <= Len(rt) /\ n <= n /\ m <= Len(t)
  BY <1>1
<1>4. PICK v \in Seq(Bytes) : v = Window(rt, n, n) /\ IsWindow(v, rt, n, n)
  <2>1. IsWindow(Window(rt, n, n), rt, n, n)
    BY <1>0, WindowIs
  <2> QED BY <2>1 DEF IsWindow
<1>12. Len(v) = n
  BY <1>4 DEF IsWindow
<1>13. ASSUME NEW i \in 1..n
       PROVE  v[i] = t[m - i + 1]
  <2>1. n - n + i = i /\ i \in 1..m
    OBVIOUS
  <2>2. v[i] = rt[n - n + i]
    BY <1>4 DEF IsWindow
  <2> QED BY <1>2, <2>1, <2>2
<1>5. Len(v) = n /\ \A i \in 1..n : v[i] = t[m - i + 1]
  BY <1>12, <1>13
<1>6. PICK w \in Seq(Bytes) : w = Window(t, m, n) /\ IsWindow(w, t, m, n)
  <2>1. IsWindow(Window(t, m, n), t, m, n)
    BY <1>0, WindowIs
  <2> QED BY <2>1 DEF IsWindow
<1>7. Len(w) = n /\ \A i \in 1..n : w[i] = t[m - n + i]
  BY <1>6 DEF IsWindow
<1>8. v = rp => w = p
  <2> SUFFICES ASSUME v = rp, NEW i \in 1..n PROVE w[i] = p[i]
    BY <1>1, <1>7, SeqEqual
  <2>1. PICK j \in 1..n : j = n - i + 1 /\ n - j + 1 = i /\ m - j + 1 = m - n + i
    OBVIOUS
  <2>2. w[i] = t[m - j + 1] /\ v[j] = t[m - j + 1] /\ rp[j] = p[n - j + 1]
    BY <1>2, <1>5, <1>7, <2>1
  <2> QED BY <2>1, <2>2
<1>9. w = p => v = rp
  <2> SUFFICES ASSUME w = p, NEW i \in 1..n PROVE v[i] = rp[i]
    BY <1>1, <1>5, SeqEqual
  <2>1. PICK j \in 1..n : j = n - i + 1 /\ m - n + j = m - i + 1
    OBVIOUS
  <2>2. v[i] = t[m - i + 1] /\ w[j] = t[m - n + j] /\ rp[i] = p[n - i + 1]
    BY <1>2, <1>5, <1>7, <2>1
  <2> QED BY <2>1, <2>2
<1>10. v = SubSeq(rt, 1, n)
  <2>1. n - n + 1 = 1
    OBVIOUS
  <2> QED BY <1>4, <2>1 DEF Window
<1>11. w = LastBytes(t, n)
  BY <1>1, <1>6, LastIsWindow
<1> QED BY <1>8, <1>9, <1>10, <1>11

-----------------------------------------------------------------------------
(* A byte appended to a buffer that holds what is recent leaves one that   *)
(* does.                                                                   *)
LEMMA AppendKeepsRecent ==
  ASSUME NEW s \in Seq(Bytes), NEW b \in Bytes, NEW since \in Nat, since <= Len(s),
         NEW max \in Nat
  PROVE  appendData(LastBytes(s, Reach(since, max)), b, max)
           = LastBytes(Append(s, b), Reach(since + 1, max))
<1>1. PICK r \in Nat : r = Reach(since, max) /\ r <= since /\ r <= max
  BY DEF Reach
<1>2. PICK m \in Nat : m = r + 1
  OBVIOUS
<1>3. r <= Len(s)
  BY <1>1, LenProperties
<1>4. PICK t \in Seq(Bytes) : t = Append(s, b) /\ Len(t) = Len(s) + 1
  BY AppendIs
<1>5. PICK e \in Nat : e = Len(t) /\ e <= Len(t) /\ m <= e
  BY <1>2, <1>3, <1>4, LenProperties
<1>6. PICK l \in Seq(Bytes) : l = Window(t, e, m) /\ IsWindow(l, t, e, m)
  <2>1. IsWindow(Window(t, e, m), t, e, m)
    BY <1>5, WindowIs
  <2>2. Window(t, e, m) \in Seq(Bytes)
    BY <2>1 DEF IsWindow
  <2> QED BY <2>1, <2>2
<1>7. Len(l) = m
  BY <1>6 DEF IsWindow
<1>8. Append(LastBytes(s, r), b) = l
  <2>1. Append(LastBytes(s, r), b) = LastBytes(t, m)
    BY <1>2, <1>3, <1>4, AppendToWindow
  <2> QED BY <1>5, <1>6, <2>1, LastIsWindow
<1>9. appendData(LastBytes(s, r), b, max) = IF m > max THEN LastBytes(l, max) ELSE l
  BY <1>7, <1>8 DEF appendData
<1>10. CASE m > max
  <2>1. max <= m /\ Reach(since + 1, max) = max
    BY <1>1, <1>2, <1>10 DEF Reach
  <2>2. LastBytes(l, max) = Window(t, e, max)
    BY <1>5, <1>6, <2>1, EndOfWindow
  <2>3. Window(t, e, max) = LastBytes(t, max)
    BY <1>5, LastIsWindow
  <2> QED BY <1>1, <1>4, <1>9, <1>10, <2>1, <2>2, <2>3
<1>11. CASE ~(m > max)
  <2>1. Reach(since + 1, max) = m
    BY <1>1, <1>2, <1>11 DEF Reach
  <2>2. l = LastBytes(t, m)
    BY <1>5, <1>6, LastIsWindow
  <2> QED BY <1>1, <1>4, <1>9, <1>11, <2>1, <2>2
<1> QED BY <1>10, <1>11

(* What is found in the last r bytes of s: nothing if no window is valid,  *)
(* and otherwise the shortest that is.                                     *)
Matches(f, s, e, r, p) ==
  \/ /\ p = Nil
     /\ \A n \in 1..r : ~dataIsValidPacket(f, Window(s, e, n))
  \/ \E n \in 1..r :
       /\ p = Window(s, e, n) /\ p # Nil /\ p \in Seq(Bytes) /\ Len(p) = n
       /\ dataIsValidPacket(f, p)
       /\ \A k \in 1..(n - 1) : ~dataIsValidPacket(f, Window(s, e, k))

(* The search finds what Matches says.                                     *)
LEMMA MatchIs ==
  ASSUME NEW s \in Seq(Bytes), NEW e \in Nat, e = Len(s), NEW r \in Nat, r <= e, NEW f
  PROVE  Matches(f, s, e, r, packetMatchingDescriptor(f, LastBytes(s, r)))
<1>0. e <= Len(s)
  OBVIOUS
<1>1. PICK b \in Seq(Bytes) : b = Window(s, e, r) /\ IsWindow(b, s, e, r)
  <2>1. IsWindow(Window(s, e, r), s, e, r)
    BY <1>0, WindowIs
  <2> QED BY <2>1 DEF IsWindow
<1>2. Len(b) = r
  BY <1>1 DEF IsWindow
<1>3. b = LastBytes(s, r)
  BY <1>1, LastIsWindow
<1>4. ASSUME NEW n \in 1..r
      PROVE  LastBytes(b, n) = Window(s, e, n)
  <2>1. n \in Nat /\ n <= r
    OBVIOUS
  <2> QED BY <1>0, <1>1, <2>1, EndOfWindow
<1>5. PICK valid : valid = ValidWindows(f, b)
  OBVIOUS
<1>6. \A n : n \in valid <=> n \in 1..r /\ dataIsValidPacket(f, Window(s, e, n))
  BY <1>2, <1>4, <1>5 DEF ValidWindows
<1>7. CASE valid = {}
  BY <1>3, <1>5, <1>6, <1>7 DEF packetMatchingDescriptor, Matches
<1>8. CASE valid # {}
  <2>1. \E n \in valid : \A k \in valid : n <= k
    <3>1. valid \in SUBSET Nat
      BY <1>6
    <3> QED BY <1>8, <3>1, LeastNumber
  <2>2. PICK n : n = CHOOSE m \in valid : \A k \in valid : m <= k
    OBVIOUS
  <2>3. n \in valid /\ \A k \in valid : n <= k
    BY <2>1, <2>2
  <2>4. packetMatchingDescriptor(f, b) = LastBytes(b, n)
    BY <1>5, <1>8, <2>2 DEF packetMatchingDescriptor
  <2>5. n \in 1..r /\ dataIsValidPacket(f, Window(s, e, n))
    BY <1>6, <2>3
  <2>6. n \in Nat /\ n <= e
    BY <2>5
  <2>7. IsWindow(Window(s, e, n), s, e, n)
    BY <1>0, <2>6, WindowIs
  <2>8. Window(s, e, n) \in Seq(Bytes) /\ Len(Window(s, e, n)) = n
    BY <2>7 DEF IsWindow
  <2>9. ASSUME NEW k \in 1..(n - 1)
        PROVE  ~dataIsValidPacket(f, Window(s, e, k))
    <3>1. k \in 1..r /\ k < n
      BY <2>5
    <3> QED BY <1>6, <2>3, <3>1
  <2>10. packetMatchingDescriptor(f, b) = Window(s, e, n)
    BY <1>4, <2>4, <2>5
  <2> QED BY <1>3, <2>5, <2>8, <2>9, <2>10, PacketsAssumption DEF Matches
<1> QED BY <1>7, <1>8

-----------------------------------------------------------------------------
(* What a byte does, in parts.                                             *)
Appended(byte, d) == appendData(buffers[d], byte, Longest(d))

Found(byte, d) == packetMatchingDescriptor(format[d], Appended(byte, d))

Complete(byte) == {d \in Listening : Found(byte, d) # Nil}

Reports(byte, order) ==
  [i \in DOMAIN order |->
    [descriptor |-> order[i], data |-> Found(byte, order[i]), end |-> Len(stream')]]

Report == [descriptor : Descriptors, data : Seq(Bytes), end : Nat]

(* A byte is handled as these parts say.                                   *)
LEMMA ReceiveIs ==
  ASSUME NEW byte, ReceiveByte(byte)
  PROVE  /\ stream' = Append(stream, byte) /\ UNCHANGED <<format, starting>>
         /\ buffers' = [d \in Descriptors |->
              IF d \in Listening THEN AfterByte(d, Appended(byte, d)) ELSE Nil]
         /\ from' = [d \in Descriptors |->
              IF d \in Complete(byte) THEN Len(stream') ELSE from[d]]
         /\ \E order \in SetToSeqs(Complete(byte)) :
              packets' = packets \o Reports(byte, order)
  BY DEF ReceiveByte, Appended, Found, Complete, Reports, Longest

(* The maximum packet length is a number.                                  *)
LEMMA LongestIsNat ==
  ASSUME TypeOK, NEW d \in Descriptors
  PROVE  Longest(d) \in Nat
<1>1. format[d] \in Formats
  BY DEF TypeOK
<1>2. IsFormat(format[d])
  BY <1>1, PacketsAssumption
<1> QED BY <1>2, LenProperties DEF IsFormat, maximumPacketLength, Longest

(* The buffer a byte was appended to holds what is recent, and the search  *)
(* in it looks at exactly the windows a packet may have.                   *)
LEMMA SearchIs ==
  ASSUME IInv, NEW byte \in Bytes, NEW t, t = Append(stream, byte),
         NEW e, e = Len(t), NEW d \in Listening
  PROVE  \E r \in Nat :
           /\ r <= e - from[d] /\ r <= Longest(d) /\ r <= e
           /\ r = Reach(e - from[d], Longest(d))
           /\ Appended(byte, d) = LastBytes(t, r)
           /\ Matches(format[d], t, e, r, Found(byte, d))
<1>1. /\ stream \in Seq(Bytes) /\ d \in Descriptors /\ from[d] \in 0..Len(stream)
      /\ buffers[d] = LastBytes(stream, Reach(Len(stream) - from[d], Longest(d)))
  BY DEF IInv, TypeOK, BufferInv, Listening
<1>2. PICK max \in Nat : max = Longest(d)
  BY LongestIsNat, <1>1 DEF IInv
<1>3. PICK l \in Nat : l = Len(stream)
  BY <1>1, LenProperties
<1>4. PICK since \in Nat : since = l - from[d] /\ since <= l
  BY <1>1, <1>3
<1>5. t \in Seq(Bytes) /\ e = l + 1
  BY <1>1, <1>3, AppendIs
<1>6. PICK r \in Nat : r = Reach(since + 1, max) /\ r <= since + 1 /\ r <= max
  BY DEF Reach
<1>7. e - from[d] = since + 1 /\ r <= e
  BY <1>1, <1>4, <1>5, <1>6
<1>8. Appended(byte, d) = LastBytes(t, r)
  <2>1. appendData(LastBytes(stream, Reach(since, max)), byte, max)
          = LastBytes(t, Reach(since + 1, max))
    <3>1. since <= Len(stream)
      BY <1>3, <1>4
    <3> QED BY <1>1, <3>1, AppendKeepsRecent
  <2>2. buffers[d] = LastBytes(stream, Reach(since, max))
    BY <1>1, <1>2, <1>3, <1>4
  <2> QED BY <1>2, <1>6, <2>1, <2>2 DEF Appended
<1>9. Matches(format[d], t, e, r, Found(byte, d))
  <2>1. PICK u, m, f :
               /\ u \in Seq(Bytes) /\ m \in Nat /\ u = t /\ m = e
               /\ m = Len(u) /\ r <= m /\ f = format[d]
    BY <1>3, <1>5, <1>7
  <2>2. Matches(f, u, m, r, packetMatchingDescriptor(f, LastBytes(u, r)))
    BY <2>1, MatchIs
  <2> QED BY <1>8, <2>1, <2>2 DEF Found
<1> QED BY <1>2, <1>6, <1>7, <1>8, <1>9

(* p is the shortest valid window that ends at e, and has n bytes.         *)
ShortestWindow(f, s, e, n, p) ==
  /\ p = Window(s, e, n) /\ p \in Seq(Bytes) /\ Len(p) = n
  /\ dataIsValidPacket(f, p)
  /\ \A k \in 1..(n - 1) : ~dataIsValidPacket(f, Window(s, e, k))

(* What is found after a byte is such a window, of an allowed length, in   *)
(* what came since the buffer was last empty.                              *)
LEMMA FoundIs ==
  ASSUME IInv, NEW byte \in Bytes, ReceiveByte(byte), NEW d \in Complete(byte)
  PROVE  /\ d \in Descriptors /\ d \in Listening
         /\ Len(stream') \in Nat /\ Len(stream') = Len(stream) + 1
         /\ \E n \in 1..(Len(stream') - from[d]) :
              /\ n <= Longest(d)
              /\ ShortestWindow(format[d], stream', Len(stream'), n, Found(byte, d))
<1>1. d \in Listening /\ d \in Descriptors /\ Found(byte, d) # Nil
  BY DEF Complete, Listening
<1>2. /\ stream \in Seq(Bytes) /\ from[d] \in 0..Len(stream)
      /\ Len(stream) \in Nat
  BY <1>1, LenProperties DEF IInv, TypeOK
<1>3. stream' = Append(stream, byte)
  BY ReceiveIs
<1>4. PICK e \in Nat : e = Len(stream') /\ e = Len(stream) + 1
  BY <1>2, <1>3, AppendIs
<1>5. PICK r \in Nat : /\ r <= e - from[d] /\ r <= Longest(d)
                       /\ Matches(format[d], stream', e, r, Found(byte, d))
  BY <1>1, <1>3, <1>4, SearchIs
<1>6. PICK n \in 1..r :
        ShortestWindow(format[d], stream', e, n, Found(byte, d))
  BY <1>1, <1>5 DEF Matches, ShortestWindow
<1>7. n \in 1..(e - from[d]) /\ n <= Longest(d)
  <2>1. Longest(d) \in Nat
    BY <1>1, LongestIsNat DEF IInv
  <2> QED BY <1>2, <1>4, <1>5, <2>1
<1> QED BY <1>1, <1>4, <1>6, <1>7

(* What a concatenation holds.                                             *)
LEMMA ConcatIs ==
  ASSUME NEW S, NEW a \in Seq(S), NEW b \in Seq(S), NEW n, n = Len(b)
  PROVE  /\ a \o b \in Seq(S) /\ Len(a \o b) = Len(a) + n
         /\ \A i \in 1..(Len(a) + n) :
              (a \o b)[i] = IF i <= Len(a) THEN a[i] ELSE b[i - Len(a)]
  BY ConcatProperties

(* The reports of one byte: one for each descriptor with a packet, in some *)
(* order, after those there were.                                          *)
LEMMA ReportsAre ==
  ASSUME IInv, NEW byte \in Bytes, ReceiveByte(byte)
  PROVE  /\ packets' \in Seq(Report)
         /\ Len(packets') >= Len(packets)
         /\ \A i \in 1..Len(packets) : packets'[i] = packets[i]
         /\ \A i \in (Len(packets) + 1)..Len(packets') :
              /\ packets'[i].descriptor \in Complete(byte)
              /\ packets'[i].data = Found(byte, packets'[i].descriptor)
              /\ packets'[i].end = Len(stream')
              /\ \A j \in (Len(packets) + 1)..Len(packets') :
                   i # j => packets'[i].descriptor # packets'[j].descriptor
<1>1. PICK C : C = Complete(byte)
  OBVIOUS
<1>2. PICK order \in SetToSeqs(C) : packets' = packets \o Reports(byte, order)
  BY <1>1, ReceiveIs
<1>3. Cardinality(C) \in Nat
  <2>1. C \in SUBSET Descriptors
    BY <1>1 DEF Complete, Listening
  <2> QED BY <2>1, PacketsAssumption, FS_Subset, FS_CardinalityType
<1>4. PICK n \in Nat : /\ order \in [1..n -> C]
                       /\ \A i, j \in 1..n : i # j => order[i] # order[j]
  BY <1>2, <1>3 DEF SetToSeqs
<1>5. PICK e : e = Len(stream')
  OBVIOUS
<1>6. ASSUME NEW d \in C
      PROVE  [descriptor |-> d, data |-> Found(byte, d), end |-> e] \in Report
  <2>1. d \in Descriptors /\ e \in Nat /\ Found(byte, d) \in Seq(Bytes)
    BY <1>1, <1>5, FoundIs DEF ShortestWindow
  <2> QED BY <2>1 DEF Report
<1>7. PICK new \in Seq(Report) :
        /\ new = Reports(byte, order) /\ Len(new) = n
        /\ \A i \in 1..n :
             new[i] = [descriptor |-> order[i], data |-> Found(byte, order[i]), end |-> e]
  <2>1. Reports(byte, order) = [i \in 1..n |->
          [descriptor |-> order[i], data |-> Found(byte, order[i]), end |-> e]]
    BY <1>4, <1>5 DEF Reports
  <2>2. \A i \in 1..n :
          [descriptor |-> order[i], data |-> Found(byte, order[i]), end |-> e] \in Report
    BY <1>4, <1>6
  <2> QED BY <2>1, <2>2
<1>8. PICK old \in Seq(Report), m \in Nat : old = packets /\ m = Len(old)
  BY LenProperties DEF IInv, TypeOK, Report
<1>9. PICK all \in Seq(Report) :
        /\ all = packets' /\ Len(all) = m + n
        /\ \A i \in 1..(m + n) : all[i] = IF i <= m THEN old[i] ELSE new[i - m]
  <2>1. packets' = old \o new
    BY <1>2, <1>7, <1>8
  <2>2. /\ old \o new \in Seq(Report) /\ Len(old \o new) = m + n
        /\ \A i \in 1..(m + n) : (old \o new)[i] = IF i <= m THEN old[i] ELSE new[i - m]
    <3>1. /\ old \o new \in Seq(Report) /\ Len(old \o new) = Len(old) + n
          /\ \A i \in 1..(Len(old) + n) :
               (old \o new)[i] = IF i <= Len(old) THEN old[i] ELSE new[i - Len(old)]
      <4>1. n = Len(new)
        BY <1>7
      <4> QED BY <4>1, ConcatIs
    <3>2. Len(old) = m
      BY <1>8
    <3> QED BY <3>1, <3>2
  <2> QED BY <2>1, <2>2
<1>10. ASSUME NEW i \in (m + 1)..(m + n)
       PROVE  i - m \in 1..n /\ all[i] = new[i - m]
  <2>1. i - m \in 1..n /\ i \in 1..(m + n) /\ ~(i <= m)
    OBVIOUS
  <2> QED BY <1>9, <2>1
<1>11. ASSUME NEW i \in (m + 1)..(m + n)
       PROVE  /\ all[i].descriptor = order[i - m] /\ all[i].descriptor \in C
              /\ all[i].data = Found(byte, all[i].descriptor)
              /\ all[i].end = e
  <2>1. PICK k \in 1..n : k = i - m /\ all[i] = new[k] /\ order[k] \in C
    BY <1>4, <1>10
  <2>2. all[i] = [descriptor |-> order[k], data |-> Found(byte, order[k]), end |-> e]
    BY <1>7, <2>1
  <2> QED BY <2>1, <2>2
<1>12. ASSUME NEW i \in (m + 1)..(m + n), NEW j \in (m + 1)..(m + n), i # j
       PROVE  all[i].descriptor # all[j].descriptor
  <2>1. i - m \in 1..n /\ j - m \in 1..n /\ i - m # j - m
    BY <1>12
  <2> QED BY <1>4, <1>11, <2>1
<1>13. ASSUME NEW i \in 1..m
       PROVE  all[i] = old[i]
  <2>1. i \in 1..(m + n) /\ i <= m
    OBVIOUS
  <2> QED BY <1>9, <2>1
<1> QED BY <1>1, <1>5, <1>8, <1>9, <1>11, <1>12, <1>13

(* A byte changes no window of what was handled before.                    *)
LEMMA OldWindow ==
  ASSUME IInv, NEW byte \in Bytes, ReceiveByte(byte),
         NEW e \in Nat, e <= Len(stream), NEW n \in Nat, n <= e
  PROVE  Window(stream', e, n) = Window(stream, e, n)
<1>1. stream \in Seq(Bytes) /\ stream' = Append(stream, byte)
  BY ReceiveIs DEF IInv, TypeOK
<1> QED BY <1>1, WindowOfAppend

-----------------------------------------------------------------------------
(* The invariant.  Nothing was received at first.                          *)
LEMMA InitInv == Init => IInv
<1> SUFFICES ASSUME Init PROVE IInv
  OBVIOUS
<1>1. Listening = {} /\ packets = <<>> /\ stream = <<>>
  BY DEF Init, Listening
<1>2. Len(stream) = 0
  BY <1>1
<1>3. from \in [Descriptors -> 0..Len(stream)]
  BY <1>2 DEF Init
<1>4. TypeOK
  <2>1. packets \in Seq([descriptor : Descriptors, data : Seq(Bytes), end : Nat])
    BY <1>1
  <2>2. stream \in Seq(Bytes)
    BY <1>1
  <2> QED BY <1>1, <1>3, <2>1, <2>2 DEF Init, TypeOK, Affix
<1>5. BufferInv /\ SinceInv /\ ReportedInv
  BY <1>1 DEF BufferInv, SinceInv, ReportedInv
<1> QED BY <1>4, <1>5 DEF IInv

(* Starting only notes the descriptor.                                     *)
LEMMA StartListeningKeeps ==
  ASSUME IInv, NEW c \in Clients, NEW d \in Descriptors, StartListening(c, d)
  PROVE  IInv'
<1>1. UNCHANGED <<format, buffers, packets, stream, from>>
  BY DEF StartListening
<1>2. Listening' = Listening
  BY <1>1 DEF Listening
<1>3. starting' \in [Clients -> Descriptors \cup {Nil}]
  BY DEF IInv, TypeOK, StartListening
<1>4. TypeOK'
  BY <1>1, <1>2, <1>3 DEF IInv, TypeOK
<1>5. BufferInv' /\ SinceInv' /\ ReportedInv'
  BY <1>1, <1>2 DEF IInv, BufferInv, SinceInv, ReportedInv, Longest
<1> QED BY <1>4, <1>5 DEF IInv

(* A descriptor nobody listens for is no longer spoken of.                 *)
LEMMA StopListeningKeeps ==
  ASSUME IInv, NEW c \in Clients, NEW d \in Descriptors, StopListening(c, d)
  PROVE  IInv'
<1>1. /\ UNCHANGED <<format, starting, packets, stream, from>>
      /\ buffers' = [buffers EXCEPT ![d] = Nil]
  BY DEF StopListening
<1>2. buffers \in [Descriptors -> Affix]
  BY DEF IInv, TypeOK
<1>3. \A x \in Listening' : x \in Listening /\ buffers'[x] = buffers[x]
  BY <1>1, <1>2 DEF Listening
<1>4. TypeOK'
  <2>1. buffers' \in [Descriptors -> Affix]
    BY <1>1, <1>2 DEF Affix
  <2>2. \A x \in Listening' : Len(buffers'[x]) <= maximumPacketLength(format'[x])
    BY <1>1, <1>3 DEF IInv, TypeOK
  <2> QED BY <1>1, <2>1, <2>2 DEF IInv, TypeOK
<1>5. BufferInv' /\ SinceInv' /\ ReportedInv'
  BY <1>1, <1>3 DEF IInv, BufferInv, SinceInv, ReportedInv, Longest
<1> QED BY <1>4, <1>5 DEF IInv

(* A buffer of no bytes.                                                   *)
LEMMA EmptyBuffer ==
  ASSUME NEW s \in Seq(Bytes), NEW max \in Nat
  PROVE  /\ LastBytes(s, Reach(Len(s) - Len(s), max)) = <<>>
         /\ <<>> \in Affix /\ <<>> # Nil /\ Len(<<>>) <= max
<1>1. PICK l \in Nat : l = Len(s)
  BY LenProperties
<1>2. Reach(l - l, max) = 0
  BY DEF Reach
<1>3. LastBytes(s, 0) = <<>>
  <2>1. LastBytes(s, 0) = SubSeq(s, l + 1, l)
    BY <1>1 DEF LastBytes
  <2>2. SubSeq(s, l + 1, l) = <<>>
    BY <1>1, SubSeqEmpty
  <2> QED BY <2>1, <2>2
<1>4. <<>> \in Seq(Bytes)
  OBVIOUS
<1>5. <<>> \in Affix /\ <<>> # Nil
  BY <1>4, PacketsAssumption DEF Affix
<1>6. Len(<<>>) <= max
  OBVIOUS
<1>7. Reach(Len(s) - Len(s), max) = 0
  BY <1>1, <1>2
<1> QED BY <1>3, <1>5, <1>6, <1>7

(* A new buffer is empty, and what came before it does not count.          *)
LEMMA InstallBufferKeeps ==
  ASSUME IInv, NEW c \in Clients, InstallBuffer(c)
  PROVE  IInv'
<1>1. PICK d : d = starting[c]
  OBVIOUS
<1>2. /\ UNCHANGED <<format, packets, stream>>
      /\ buffers' = [buffers EXCEPT ![d] = <<>>]
      /\ from' = [from EXCEPT ![d] = Len(stream)]
      /\ starting' = [starting EXCEPT ![c] = Nil]
  BY <1>1 DEF InstallBuffer
<1>3. /\ buffers \in [Descriptors -> Affix] /\ stream \in Seq(Bytes)
      /\ from \in [Descriptors -> 0..Len(stream)] /\ d \in Descriptors
  BY <1>1 DEF IInv, TypeOK, InstallBuffer
<1>4. PICK l \in Nat : l = Len(stream) /\ l = Len(stream')
  BY <1>2, <1>3, LenProperties
<1>5. \A x \in Listening' : x # d => /\ x \in Listening /\ buffers'[x] = buffers[x]
                                     /\ from'[x] = from[x]
  BY <1>2, <1>3 DEF Listening
<1>6. buffers'[d] = <<>> /\ from'[d] = l
  BY <1>2, <1>3, <1>4
<1>7. Longest(d) \in Nat /\ Longest(d)' = Longest(d)
  BY <1>2, <1>3, LongestIsNat DEF IInv, Longest
<1>8. /\ LastBytes(stream, Reach(l - l, Longest(d))) = <<>>
      /\ <<>> \in Affix /\ Len(<<>>) <= Longest(d)
  BY <1>3, <1>4, <1>7, EmptyBuffer
<1>9. TypeOK'
  <2>1. buffers' \in [Descriptors -> Affix]
    BY <1>2, <1>3, <1>8
  <2>2. \A x \in Listening' : Len(buffers'[x]) <= maximumPacketLength(format'[x])
    BY <1>2, <1>5, <1>6, <1>8 DEF IInv, TypeOK, Longest
  <2>3. from' \in [Descriptors -> 0..Len(stream')]
    BY <1>2, <1>3, <1>4
  <2>4. starting' \in [Clients -> Descriptors \cup {Nil}]
    BY <1>2 DEF IInv, TypeOK
  <2> QED BY <1>2, <2>1, <2>2, <2>3, <2>4 DEF IInv, TypeOK
<1>10. BufferInv'
  BY <1>2, <1>4, <1>5, <1>6, <1>8 DEF IInv, BufferInv, Longest
<1>11. SinceInv'
  <2> SUFFICES ASSUME NEW x \in Listening', NEW e \in from'[x]..Len(stream'),
                      NEW n \in 1..(e - from'[x]), n <= Longest(x)'
               PROVE  ~dataIsValidPacket(format[x], Window(stream, e, n))
    BY <1>2 DEF SinceInv
  <2>1. x # d
    BY <1>4, <1>6
  <2>2. x \in Listening /\ from'[x] = from[x] /\ Longest(x)' = Longest(x)
    BY <1>2, <1>5, <2>1 DEF Longest
  <2> QED BY <1>4, <2>2 DEF IInv, SinceInv
<1>12. ReportedInv'
  <2>1. \A x \in Descriptors : from[x] <= from'[x] /\ from'[x] \in Nat /\ from[x] \in Nat
    BY <1>2, <1>3, <1>4
  <2>2. packets \in Seq(Report)
    BY DEF IInv, TypeOK, Report
  <2> SUFFICES ASSUME NEW i \in DOMAIN packets
               PROVE  LET p == packets[i]
                      IN  /\ Len(p.data) \in 1..p.end /\ p.end \in 1..from'[p.descriptor]
                          /\ p.data = Window(stream, p.end, Len(p.data))
    BY <1>2 DEF ReportedInv
  <2>3. packets[i].descriptor \in Descriptors
    <3>1. packets[i] \in Report
      BY <2>2, ElementOfSeq, LenProperties
    <3> QED BY <3>1 DEF Report
  <2> QED BY <2>1, <2>3 DEF IInv, ReportedInv
<1> QED BY <1>9, <1>10, <1>11, <1>12 DEF IInv

(* What a byte leaves of a buffer: nothing if it completed a packet, and   *)
(* otherwise what is recent, in which no packet ends.                      *)
LEMMA AfterByteIs ==
  ASSUME IInv, NEW byte \in Bytes, ReceiveByte(byte), NEW d \in Listening',
         NEW e, e = Len(stream')
  PROVE  /\ d \in Listening /\ d \in Descriptors /\ e = Len(stream) + 1
         /\ buffers'[d] \in Affix /\ Longest(d) \in Nat /\ Longest(d)' = Longest(d)
         /\ Len(buffers'[d]) <= Longest(d)
         /\ buffers'[d] = LastBytes(stream', Reach(e - from'[d], Longest(d)))
         /\ from'[d] = e \/ from'[d] = from[d]
         /\ from'[d] # e => \A n \in 1..(e - from[d]) :
              n <= Longest(d) => ~dataIsValidPacket(format[d], Window(stream', e, n))
<1>1. /\ stream' = Append(stream, byte) /\ format' = format
      /\ buffers' = [x \in Descriptors |->
           IF x \in Listening THEN AfterByte(x, Appended(byte, x)) ELSE Nil]
      /\ from' = [x \in Descriptors |->
           IF x \in Complete(byte) THEN Len(stream') ELSE from[x]]
  BY ReceiveIs
<1>2. d \in Descriptors /\ d \in Listening
  BY <1>1 DEF Listening
<1>3. /\ buffers'[d] = AfterByte(d, Appended(byte, d))
      /\ from'[d] = IF d \in Complete(byte) THEN e ELSE from[d]
  BY <1>1, <1>2
<1>4. PICK max \in Nat : max = Longest(d) /\ Longest(d)' = max
  BY <1>1, <1>2, LongestIsNat DEF IInv, Longest
<1>5. PICK t \in Seq(Bytes) : t = stream' /\ e = Len(t) /\ Len(t) = Len(stream) + 1
  BY <1>1, AppendIs DEF IInv, TypeOK
<1>6. /\ from[d] \in 0..Len(stream) /\ Len(stream) \in Nat /\ e = Len(stream) + 1
      /\ e \in Nat
  BY <1>2, <1>5, LenProperties DEF IInv, TypeOK
<1>7. PICK r \in Nat : /\ r <= e - from[d] /\ r <= max /\ r <= e
                       /\ r = Reach(e - from[d], max)
                       /\ Appended(byte, d) = LastBytes(t, r)
                       /\ Matches(format[d], t, e, r, Found(byte, d))
  BY <1>1, <1>2, <1>4, <1>5, SearchIs
<1>8. CASE d \in Complete(byte)
  <2>1. Found(byte, d) # Nil
    BY <1>8 DEF Complete
  <2>2. buffers'[d] = <<>> /\ from'[d] = e
    BY <1>3, <1>8, <2>1 DEF AfterByte, Found
  <2>3. /\ LastBytes(t, Reach(e - e, max)) = <<>> /\ <<>> \in Affix /\ Len(<<>>) <= max
    BY <1>5, EmptyBuffer
  <2> QED BY <1>2, <1>4, <1>5, <1>6, <2>2, <2>3
<1>9. CASE d \notin Complete(byte)
  <2>1. Found(byte, d) = Nil
    BY <1>2, <1>9 DEF Complete
  <2>2. buffers'[d] = LastBytes(t, r) /\ from'[d] = from[d]
    BY <1>3, <1>7, <1>9, <2>1 DEF AfterByte, Found
  <2>3. \A n \in 1..r : ~dataIsValidPacket(format[d], Window(t, e, n))
    BY <1>7, <2>1, PacketsAssumption DEF Matches
  <2>4. IsWindow(Window(t, e, r), t, e, r)
    BY <1>5, <1>6, <1>7, WindowIs
  <2>5. LastBytes(t, r) \in Affix /\ Len(LastBytes(t, r)) <= max
    BY <1>5, <1>7, <2>4, LastIsWindow DEF IsWindow, Affix
  <2>6. ASSUME NEW n \in 1..(e - from[d]), n <= max
        PROVE  ~dataIsValidPacket(format[d], Window(t, e, n))
    <3>1. n \in 1..r
      BY <1>6, <1>7, <2>6 DEF Reach
    <3> QED BY <2>3, <3>1
  <2> QED BY <1>2, <1>4, <1>5, <1>6, <1>7, <2>2, <2>5, <2>6
<1> QED BY <1>8, <1>9

(* A byte keeps the buffers at what is recent.                             *)
LEMMA ReceiveByteTypes ==
  ASSUME IInv, NEW byte \in Bytes, ReceiveByte(byte)
  PROVE  TypeOK' /\ BufferInv'
<1>1. /\ stream' = Append(stream, byte) /\ UNCHANGED <<format, starting>>
      /\ buffers' = [x \in Descriptors |->
           IF x \in Listening THEN AfterByte(x, Appended(byte, x)) ELSE Nil]
      /\ from' = [x \in Descriptors |->
           IF x \in Complete(byte) THEN Len(stream') ELSE from[x]]
  BY ReceiveIs
<1>2. PICK e \in Nat : /\ stream' \in Seq(Bytes) /\ e = Len(stream')
                       /\ e = Len(stream) + 1 /\ Len(stream) \in Nat
  BY <1>1, AppendIs, LenProperties DEF IInv, TypeOK
<1>3. \A d \in Listening' : /\ buffers'[d] \in Affix /\ Len(buffers'[d]) <= Longest(d)
                            /\ buffers'[d] = LastBytes(stream', Reach(e - from'[d], Longest(d)))
                            /\ Longest(d)' = Longest(d)
  BY <1>2, AfterByteIs
<1>4. buffers' \in [Descriptors -> Affix]
  <2>1. ASSUME NEW d \in Descriptors
        PROVE  buffers'[d] \in Affix
    BY <1>3 DEF Listening, Affix
  <2>2. buffers' = [x \in Descriptors |-> buffers'[x]]
    BY <1>1
  <2> QED BY <2>1, <2>2
<1>5. from' \in [Descriptors -> 0..Len(stream')]
  <2>1. from \in [Descriptors -> 0..Len(stream)]
    BY DEF IInv, TypeOK
  <2> QED BY <1>1, <1>2, <2>1
<1>6. packets' \in Seq([descriptor : Descriptors, data : Seq(Bytes), end : Nat])
  BY ReportsAre DEF Report
<1>7. \A d \in Listening' : Len(buffers'[d]) <= maximumPacketLength(format'[d])
  BY <1>1, <1>3 DEF Longest
<1>8. TypeOK'
  BY <1>1, <1>2, <1>4, <1>5, <1>6, <1>7 DEF IInv, TypeOK
<1>9. BufferInv'
  BY <1>2, <1>3 DEF BufferInv
<1> QED BY <1>8, <1>9

(* A byte completes no packet that goes unnoticed.                         *)
LEMMA ReceiveByteMissesNone ==
  ASSUME IInv, NEW byte \in Bytes, ReceiveByte(byte)
  PROVE  SinceInv'
<1>1. format' = format
  BY ReceiveIs
<1> SUFFICES ASSUME NEW d \in Listening', NEW e \in from'[d]..Len(stream'),
                    NEW n \in 1..(e - from'[d]), n <= Longest(d)'
             PROVE  ~dataIsValidPacket(format[d], Window(stream', e, n))
  BY <1>1 DEF SinceInv
<1>2. PICK l \in Nat : l = Len(stream)
  BY LenProperties DEF IInv, TypeOK
<1>3. PICK f \in Nat :
        /\ f = Len(stream') /\ f = l + 1
        /\ d \in Listening /\ d \in Descriptors /\ Longest(d)' = Longest(d)
        /\ from'[d] = f \/ from'[d] = from[d]
        /\ from'[d] # f => \A k \in 1..(f - from[d]) :
             k <= Longest(d) => ~dataIsValidPacket(format[d], Window(stream', f, k))
  <2>1. PICK f : f = Len(stream')
    OBVIOUS
  <2>2. f = Len(stream) + 1
    BY <2>1, AfterByteIs
  <2>3. f \in Nat
    BY <1>2, <2>2
  <2> QED BY <1>2, <2>1, <2>2, <2>3, AfterByteIs
<1>4. from[d] \in 0..l
  BY <1>2, <1>3 DEF IInv, TypeOK
<1>5. from'[d] = from[d] /\ from'[d] # f
  <2>1. from'[d] # f
    BY <1>3, <1>4
  <2> QED BY <1>3, <2>1
<1>6. CASE e = f
  <2>1. n \in 1..(f - from[d]) /\ n <= Longest(d)
    BY <1>3, <1>5, <1>6
  <2> QED BY <1>3, <1>5, <1>6, <2>1
<1>7. CASE e # f
  <2>1. /\ e \in from[d]..l /\ e \in Nat /\ n \in Nat /\ n <= e
        /\ n \in 1..(e - from[d]) /\ n <= Longest(d)
    BY <1>3, <1>4, <1>5, <1>7
  <2>2. Window(stream', e, n) = Window(stream, e, n)
    BY <1>2, <2>1, OldWindow
  <2>3. ~dataIsValidPacket(format[d], Window(stream, e, n))
    BY <1>2, <1>3, <2>1 DEF IInv, SinceInv
  <2> QED BY <2>2, <2>3
<1> QED BY <1>6, <1>7

(* A report of a byte: it was there, or is of a packet the byte completed. *)
LEMMA ReportIs ==
  ASSUME IInv, NEW byte \in Bytes, ReceiveByte(byte), NEW i \in DOMAIN packets'
  PROVE  \/ /\ i \in DOMAIN packets /\ packets'[i] = packets[i]
            /\ packets[i].descriptor \in Descriptors
         \/ /\ i \in Nat /\ i \notin DOMAIN packets /\ i > Len(packets)
            /\ packets'[i].descriptor \in Complete(byte)
            /\ packets'[i].data = Found(byte, packets'[i].descriptor)
            /\ packets'[i].end = Len(stream')
<1>1. PICK m \in Nat, l \in Nat :
        m = Len(packets) /\ l = Len(packets') /\ DOMAIN packets = 1..m /\ DOMAIN packets' = 1..l
  BY ReportsAre, LenProperties DEF IInv, TypeOK
<1>2. CASE i <= m
  <2>1. i \in 1..m
    BY <1>1, <1>2
  <2>2. packets'[i] = packets[i]
    BY <1>1, <2>1, ReportsAre
  <2>3. packets[i] \in Report
    BY <1>1, <2>1, ElementOfSeq DEF IInv, TypeOK, Report
  <2> QED BY <1>1, <2>1, <2>2, <2>3 DEF Report
<1>3. CASE ~(i <= m)
  <2>1. i \in (m + 1)..l
    BY <1>1, <1>3
  <2>2. /\ packets'[i].descriptor \in Complete(byte)
        /\ packets'[i].data = Found(byte, packets'[i].descriptor)
        /\ packets'[i].end = Len(stream')
    BY <1>1, <2>1, ReportsAre
  <2> QED BY <1>1, <1>3, <2>1, <2>2
<1>4. i \in Nat
  BY <1>1
<1> QED BY <1>1, <1>2, <1>3, <1>4

(* Reports stay true, and what is reported was received.                   *)
LEMMA ReceiveByteReports ==
  ASSUME IInv, NEW byte \in Bytes, ReceiveByte(byte)
  PROVE  ReportedInv'
<1>1. /\ stream' = Append(stream, byte)
      /\ from' = [x \in Descriptors |->
           IF x \in Complete(byte) THEN Len(stream') ELSE from[x]]
  BY ReceiveIs
<1>2. PICK l \in Nat, e \in Nat : l = Len(stream) /\ e = Len(stream') /\ e = l + 1
  BY <1>1, AppendIs, LenProperties DEF IInv, TypeOK
<1> SUFFICES ASSUME NEW i \in DOMAIN packets'
             PROVE  LET p == packets'[i]
                    IN  /\ Len(p.data) \in 1..p.end /\ p.end \in 1..from'[p.descriptor]
                        /\ p.data = Window(stream', p.end, Len(p.data))
  BY DEF ReportedInv
<1>3. CASE /\ i \in DOMAIN packets /\ packets'[i] = packets[i]
           /\ packets[i].descriptor \in Descriptors
  <2>1. PICK d, q, n, f :
          /\ d \in Descriptors
          /\ q = packets[i].data /\ d = packets[i].descriptor /\ f = packets[i].end
          /\ n = Len(q) /\ n \in 1..f /\ f \in 1..from[d] /\ q = Window(stream, f, n)
    BY <1>3 DEF IInv, ReportedInv
  <2>2. from[d] \in 0..l /\ from'[d] \in Nat /\ from[d] <= from'[d]
    BY <1>1, <1>2, <2>1 DEF IInv, TypeOK
  <2>3. f \in 1..from'[d] /\ f \in Nat /\ f <= l /\ n \in Nat /\ n <= f
    BY <2>1, <2>2
  <2>4. Window(stream', f, n) = Window(stream, f, n)
    BY <1>2, <2>3, OldWindow
  <2> QED BY <1>3, <2>1, <2>3, <2>4
<1>4. CASE /\ packets'[i].descriptor \in Complete(byte)
           /\ packets'[i].data = Found(byte, packets'[i].descriptor)
           /\ packets'[i].end = Len(stream')
  <2>1. PICK d \in Complete(byte) : d = packets'[i].descriptor
    BY <1>4
  <2>2. d \in Descriptors
    BY <2>1 DEF Complete, Listening
  <2>3. PICK n \in 1..(e - from[d]) :
          Found(byte, d) = Window(stream', e, n) /\ Len(Found(byte, d)) = n
    BY <1>2, FoundIs DEF ShortestWindow
  <2>4. from[d] \in 0..l /\ from'[d] = e
    BY <1>1, <1>2, <2>1, <2>2 DEF IInv, TypeOK
  <2>5. n \in 1..e /\ e \in 1..e
    BY <1>2, <2>4
  <2> QED BY <1>2, <1>4, <2>1, <2>3, <2>4, <2>5
<1> QED BY <1>3, <1>4, ReportIs

(* Every step keeps the invariant.                                         *)
LEMMA InvStep == IInv /\ [Next]_vars => IInv'
<1> SUFFICES ASSUME IInv, [Next]_vars PROVE IInv'
  OBVIOUS
<1>1. ASSUME NEW c \in Clients, InstallBuffer(c)
      PROVE  IInv'
  BY <1>1, InstallBufferKeeps
<1>2. ASSUME NEW c \in Clients, NEW d \in Descriptors, StartListening(c, d)
      PROVE  IInv'
  BY <1>2, StartListeningKeeps
<1>3. ASSUME NEW c \in Clients, NEW d \in Descriptors, StopListening(c, d)
      PROVE  IInv'
  BY <1>3, StopListeningKeeps
<1>4. ASSUME NEW byte \in Bytes, ReceiveByte(byte)
      PROVE  IInv'
  BY <1>4, ReceiveByteTypes, ReceiveByteMissesNone, ReceiveByteReports DEF IInv
<1>5. CASE UNCHANGED vars
  BY <1>5 DEF vars, IInv, TypeOK, BufferInv, SinceInv, ReportedInv, Longest, Listening
<1> QED BY <1>1, <1>2, <1>3, <1>4, <1>5 DEF Next

(* Types, and that the buffers hold what is recent, no packet since they   *)
(* were empty went unnoticed, and reports are of what was received.        *)
THEOREM InvCorrect == Spec => []IInv
<1> QED BY InitInv, InvStep, PTL DEF Spec

(* Every variable has its type, and no buffer exceeds the longest packet.  *)
THEOREM TypeCorrect == Spec => []TypeOK
<1>1. IInv => TypeOK
  BY DEF IInv
<1> QED BY <1>1, InvCorrect, PTL

-----------------------------------------------------------------------------
(* No window at the end of what is recent is a packet.                     *)
LEMMA NoneMissedInv == IInv => NoPacketMissed
<1> SUFFICES ASSUME IInv, NEW d \in Listening
             PROVE  ValidWindows(format[d], Recent(d)) = {}
  BY DEF NoPacketMissed
<1>1. PICK l \in Nat : l = Len(stream) /\ l <= Len(stream) /\ stream \in Seq(Bytes)
  BY LenProperties DEF IInv, TypeOK
<1>2. from[d] \in 0..l
  BY <1>1 DEF IInv, TypeOK, Listening
<1>3. PICK max \in Nat : max = Longest(d)
  BY LongestIsNat DEF IInv, Listening
<1>4. PICK r \in Nat : /\ r = Reach(l - from[d], max) /\ r <= max
                       /\ r <= l - from[d] /\ r <= l
  BY <1>2 DEF Reach
<1>5. Recent(d) = LastBytes(stream, r)
  BY <1>1, <1>3, <1>4 DEF Recent, Longest, Reach
<1>6. PICK b : b = Window(stream, l, r) /\ IsWindow(b, stream, l, r)
  BY <1>1, <1>4, WindowIs
<1>7. Recent(d) = b
  BY <1>1, <1>5, <1>6, LastIsWindow
<1>8. Len(b) = r
  BY <1>6 DEF IsWindow
<1>9. ASSUME NEW n \in 1..r
      PROVE  ~dataIsValidPacket(format[d], LastBytes(b, n))
  <2>1. n \in Nat /\ n <= r /\ n \in 1..(l - from[d]) /\ n <= max
    BY <1>2, <1>4
  <2>2. LastBytes(b, n) = Window(stream, l, n)
    BY <1>1, <1>4, <1>6, <2>1, EndOfWindow
  <2>3. l \in from[d]..Len(stream)
    BY <1>1, <1>2
  <2> QED BY <1>3, <2>1, <2>2, <2>3 DEF IInv, SinceInv
<1> QED BY <1>7, <1>8, <1>9 DEF ValidWindows

(* The search in a trimmed buffer finds whatever a search in all that was  *)
(* received would have found.                                              *)
THEOREM NoneMissed == Spec => []NoPacketMissed
<1> QED BY NoneMissedInv, InvCorrect, PTL

-----------------------------------------------------------------------------
(* What the packets reported so far say stays so unless a byte adds some.  *)
LEMMA OnlyBytesReport ==
  ASSUME [Next]_vars
  PROVE  \/ UNCHANGED <<format, packets, stream>>
         \/ \E byte \in Bytes : ReceiveByte(byte)
  BY DEF Next, vars, InstallBuffer, StartListening, StopListening

(* A window is what LastBytes takes from a beginning of the stream.        *)
LEMMA WindowIsLast ==
  ASSUME NEW s \in Seq(Bytes), NEW e \in Nat, e <= Len(s), NEW n \in Nat, n <= e
  PROVE  LastBytes(SubSeq(s, 1, e), n) = Window(s, e, n)
<1>1. PICK b \in Seq(Bytes) : b = Window(s, e, e) /\ IsWindow(b, s, e, e)
  <2>1. e <= e
    OBVIOUS
  <2> QED BY <2>1, WindowIs DEF IsWindow
<1>2. b = SubSeq(s, 1, e)
  <2>1. e - e + 1 = 1
    OBVIOUS
  <2> QED BY <1>1, <2>1 DEF Window
<1>3. LastBytes(b, n) = Window(s, e, n)
  <2>1. e <= e
    OBVIOUS
  <2> QED BY <1>1, <2>1, EndOfWindow
<1> QED BY <1>2, <1>3

(* A reported packet ends a beginning of the stream.                       *)
LEMMA ReportedIsLast ==
  ASSUME IInv, NEW i \in DOMAIN packets
  PROVE  packets[i].data
           = LastBytes(SubSeq(stream, 1, packets[i].end), Len(packets[i].data))
<1>1. PICK q, n, f, d : /\ q = packets[i].data /\ n = Len(q) /\ f = packets[i].end
                        /\ d = packets[i].descriptor
  OBVIOUS
<1>2. n \in 1..f /\ f \in 1..from[d] /\ q = Window(stream, f, n)
  BY <1>1 DEF IInv, ReportedInv
<1>3. packets[i] \in Report
  BY ElementOfSeq, LenProperties DEF IInv, TypeOK, Report
<1>4. from[d] \in 0..Len(stream) /\ Len(stream) \in Nat
  BY <1>1, <1>3, LenProperties DEF IInv, TypeOK, Report
<1>5. f \in Nat /\ f <= Len(stream) /\ n \in Nat /\ n <= f
  BY <1>2, <1>4
<1>6. LastBytes(SubSeq(stream, 1, f), n) = Window(stream, f, n)
  BY <1>5, WindowIsLast DEF IInv, TypeOK
<1> QED BY <1>1, <1>2, <1>6

(* A packet that was found has no shorter one at its end.                  *)
LEMMA FoundIsShortest ==
  ASSUME IInv, NEW byte \in Bytes, ReceiveByte(byte), NEW d \in Complete(byte)
  PROVE  /\ dataIsValidPacket(format[d], Found(byte, d))
         /\ \A n \in 1..(Len(Found(byte, d)) - 1) :
              ~dataIsValidPacket(format[d], LastBytes(Found(byte, d), n))
<1>1. PICK e, b : e \in Nat /\ e = Len(stream') /\ e <= Len(stream') /\ b = from[d]
  BY FoundIs
<1>2. PICK n \in 1..(e - b) :
        ShortestWindow(format[d], stream', e, n, Found(byte, d))
  BY <1>1, FoundIs
<1>3. /\ stream' \in Seq(Bytes) /\ b \in 0..e
  <2>1. b \in 0..Len(stream) /\ Len(stream) \in Nat /\ e = Len(stream) + 1
    BY <1>1, FoundIs, LenProperties DEF IInv, TypeOK
  <2>2. stream' \in Seq(Bytes)
    BY ReceiveByteTypes DEF TypeOK
  <2> QED BY <2>1, <2>2
<1>4. n \in Nat /\ n <= e
  BY <1>1, <1>3
<1>5. ASSUME NEW k \in 1..(n - 1)
      PROVE  ~dataIsValidPacket(format[d], LastBytes(Found(byte, d), k))
  <2>1. k \in Nat /\ k <= n
    BY <1>4
  <2>2. LastBytes(Window(stream', e, n), k) = Window(stream', e, k)
    BY <1>1, <1>3, <1>4, <2>1, EndOfWindow
  <2> QED BY <1>2, <2>2 DEF ShortestWindow
<1> QED BY <1>2, <1>5 DEF ShortestWindow

(* A reported packet is valid, and no shorter one ends where it does.      *)
Shortest ==
  \A i \in DOMAIN packets :
    LET p == packets[i]
        f == format[p.descriptor]
    IN  /\ dataIsValidPacket(f, p.data)
        /\ \A n \in 1..(Len(p.data) - 1) : ~dataIsValidPacket(f, LastBytes(p.data, n))

(* A byte adds only packets that are so.                                   *)
LEMMA ShortestStep == IInv /\ Shortest /\ [Next]_vars => Shortest'
<1> SUFFICES ASSUME IInv, Shortest, [Next]_vars PROVE Shortest'
  OBVIOUS
<1>1. CASE UNCHANGED <<format, packets, stream>>
  BY <1>1 DEF Shortest
<1>2. ASSUME NEW byte \in Bytes, ReceiveByte(byte)
      PROVE  Shortest'
  <2>1. format' = format
    BY <1>2, ReceiveIs
  <2>2. ASSUME NEW i \in DOMAIN packets'
        PROVE  LET p == packets'[i]
                   f == format[p.descriptor]
               IN  /\ dataIsValidPacket(f, p.data)
                   /\ \A n \in 1..(Len(p.data) - 1) :
                        ~dataIsValidPacket(f, LastBytes(p.data, n))
    <3>1. CASE i \in DOMAIN packets /\ packets'[i] = packets[i]
      BY <3>1 DEF Shortest
    <3>2. CASE /\ packets'[i].descriptor \in Complete(byte)
               /\ packets'[i].data = Found(byte, packets'[i].descriptor)
      BY <1>2, <3>2, FoundIsShortest
    <3> QED BY <1>2, <3>1, <3>2, ReportIs
  <2> QED BY <2>1, <2>2 DEF Shortest
<1> QED BY <1>1, <1>2, OnlyBytesReport

(* A packet is reported as it was received, right after its last byte, and *)
(* it is the shortest that ends there.                                     *)
THEOREM AsReceived == Spec => []PacketsAsReceived
<1>1. Init => Shortest
  BY DEF Init, Shortest
<1>2. IInv /\ Shortest => PacketsAsReceived
  BY ReportedIsLast DEF Shortest, PacketsAsReceived
<1> QED BY <1>1, <1>2, ShortestStep, InvCorrect, PTL DEF Spec

(* A packet that was found begins after the last one of its descriptor.    *)
LEMMA DisjointStep == IInv /\ PacketsDisjoint /\ [Next]_vars => PacketsDisjoint'
<1> SUFFICES ASSUME IInv, PacketsDisjoint, [Next]_vars PROVE PacketsDisjoint'
  OBVIOUS
<1>1. CASE UNCHANGED <<format, packets, stream>>
  BY <1>1 DEF PacketsDisjoint
<1>2. ASSUME NEW byte \in Bytes, ReceiveByte(byte)
      PROVE  PacketsDisjoint'
  <2> SUFFICES ASSUME NEW i \in DOMAIN packets', NEW j \in DOMAIN packets', i < j,
                      packets'[i].descriptor = packets'[j].descriptor
               PROVE  packets'[i].end + Len(packets'[j].data) <= packets'[j].end
    BY DEF PacketsDisjoint
  <2>1. PICK m \in Nat, l \in Nat : /\ m = Len(packets) /\ DOMAIN packets = 1..m
                                    /\ l = Len(packets') /\ DOMAIN packets' = 1..l
    BY <1>2, ReportsAre, LenProperties DEF IInv, TypeOK
  <2>2. CASE j \in DOMAIN packets /\ packets'[j] = packets[j]
    <3>1. i \in DOMAIN packets /\ packets'[i] = packets[i]
      BY <1>2, <2>1, <2>2, ReportsAre
    <3> QED BY <2>2, <3>1 DEF PacketsDisjoint
  <2>3. CASE /\ j \notin DOMAIN packets /\ packets'[j].descriptor \in Complete(byte)
             /\ packets'[j].data = Found(byte, packets'[j].descriptor)
             /\ packets'[j].end = Len(stream')
    <3>1. i \in DOMAIN packets
      <4> SUFFICES ASSUME i \notin DOMAIN packets PROVE FALSE
        OBVIOUS
      <4>1. i \in (m + 1)..l /\ j \in (m + 1)..l /\ i # j
        BY <2>1, <2>3
      <4> QED BY <1>2, <2>1, <4>1, ReportsAre
    <3>2. packets'[i] = packets[i]
      BY <1>2, <2>1, <3>1, ReportsAre
    <3>3. PICK d, f, e : /\ d \in Complete(byte) /\ d = packets'[j].descriptor
                        /\ d = packets[i].descriptor
                        /\ f = packets[i].end /\ e = Len(stream')
      BY <2>3, <3>2
    <3>4. f \in 1..from[d]
      BY <3>1, <3>3 DEF IInv, ReportedInv
    <3>5. e \in Nat /\ e = Len(stream) + 1 /\ from[d] \in 0..Len(stream) /\ Len(stream) \in Nat
      BY <1>2, <3>3, FoundIs, LenProperties DEF IInv, TypeOK
    <3>6. PICK n \in 1..(e - from[d]) : Len(Found(byte, d)) = n
      BY <1>2, <3>3, FoundIs DEF ShortestWindow
    <3>7. f + n <= e
      BY <3>4, <3>5
    <3> QED BY <2>3, <3>2, <3>3, <3>6, <3>7
  <2> QED BY <1>2, <2>2, <2>3, ReportIs
<1> QED BY <1>1, <1>2, OnlyBytesReport

(* A byte belongs to one packet of a descriptor at most.                   *)
THEOREM Disjoint == Spec => []PacketsDisjoint
<1>1. Init => PacketsDisjoint
  BY DEF Init, PacketsDisjoint
<1> QED BY <1>1, DisjointStep, InvCorrect, PTL DEF Spec

-----------------------------------------------------------------------------
(* An affix is a window of itself.                                         *)
LEMMA AffixIsValid ==
  ASSUME NEW f, NEW a \in Seq(Bytes), f.kind = "affix",
         \/ f.prefix = Nil /\ f.suffix = a
         \/ f.prefix = a /\ f.suffix = Nil
  PROVE  dataIsValidPacket(f, a)
<1>1. a # Nil
  BY PacketsAssumption
<1>2. SubSeq(a, 1, Len(a)) = a /\ Len(a) <= Len(a)
  BY SubSeqFull, LenProperties
<1>3. IsPrefix(a, a)
  BY <1>2, PrefixIs
<1>4. LastBytes(a, Len(a)) = a
  <2>1. Len(a) - Len(a) + 1 = 1
    BY LenProperties
  <2> QED BY <1>2, <2>1 DEF LastBytes
<1>5. IsSuffix(a, a)
  BY <1>2, <1>4, SuffixIs
<1> QED BY <1>1, <1>3, <1>5 DEF dataIsValidPacket

(* What a format with one affix accepts begins or ends with it.            *)
LEMMA AcceptedHasAffix ==
  ASSUME NEW f, NEW a \in Seq(Bytes), f.kind = "affix", NEW p \in Seq(Bytes),
         dataIsValidPacket(f, p)
  PROVE  /\ f.prefix = a => Len(a) <= Len(p) /\ SubSeq(p, 1, Len(a)) = a
         /\ f.suffix = a => Len(a) <= Len(p) /\ LastBytes(p, Len(a)) = a
<1>1. a # Nil
  BY PacketsAssumption
<1>2. f.prefix = a => IsPrefix(a, p)
  BY <1>1 DEF dataIsValidPacket
<1>3. f.suffix = a => IsSuffix(a, p)
  BY <1>1 DEF dataIsValidPacket
<1> QED BY <1>2, <1>3, PrefixIs, SuffixIs

(* With only a suffix, the shortest packet is the suffix.                  *)
LEMMA FoundIsSuffix ==
  ASSUME IInv, NEW byte \in Bytes, ReceiveByte(byte), NEW d \in Complete(byte),
         format[d].kind = "affix", format[d].prefix = Nil, format[d].suffix \in Seq(Bytes),
         format[d].suffix # <<>>
  PROVE  Found(byte, d) = format[d].suffix
<1>1. PICK a, f, p : /\ a \in Seq(Bytes) /\ f = format[d] /\ a = f.suffix /\ a # <<>>
                     /\ p = Found(byte, d)
  OBVIOUS
<1>2. p \in Seq(Bytes)
  BY <1>1, FoundIs DEF ShortestWindow
<1>3. PICK m \in Nat, n \in Nat : m = Len(a) /\ n = Len(p) /\ m >= 1
  BY <1>1, <1>2, LenProperties, EmptySeq
<1>4. dataIsValidPacket(f, p) /\ \A k \in 1..(n - 1) : ~dataIsValidPacket(f, LastBytes(p, k))
  BY <1>1, <1>3, FoundIsShortest
<1>5. m <= n /\ LastBytes(p, m) = a
  BY <1>1, <1>2, <1>3, <1>4, AcceptedHasAffix
<1>6. dataIsValidPacket(f, a)
  BY <1>1, AffixIsValid
<1>7. m = n
  <2> SUFFICES ASSUME m # n PROVE FALSE
    OBVIOUS
  <2>1. m \in 1..(n - 1)
    BY <1>3, <1>5
  <2> QED BY <1>4, <1>5, <1>6, <2>1
<1>8. LastBytes(p, n) = p
  <2>1. n - n + 1 = 1 /\ SubSeq(p, 1, n) = p
    BY <1>2, <1>3, SubSeqFull
  <2> QED BY <1>3, <2>1 DEF LastBytes
<1> QED BY <1>1, <1>5, <1>7, <1>8

(* With only a prefix, a longer packet would begin with one that was       *)
(* complete earlier.                                                       *)
LEMMA FoundIsPrefix ==
  ASSUME IInv, NEW byte \in Bytes, ReceiveByte(byte), NEW d \in Complete(byte),
         format[d].kind = "affix", format[d].suffix = Nil, format[d].prefix \in Seq(Bytes),
         format[d].prefix # <<>>
  PROVE  Found(byte, d) = format[d].prefix
<1>1. PICK a, f, p : /\ a \in Seq(Bytes) /\ f = format[d] /\ a = f.prefix /\ a # <<>>
                     /\ p = Found(byte, d)
  OBVIOUS
<1>2. PICK l \in Nat, e \in Nat, b \in Nat :
        /\ l = Len(stream) /\ e = Len(stream') /\ e = l + 1 /\ b = from[d] /\ b <= l
        /\ e <= Len(stream')
  <2>1. d \in Descriptors /\ Len(stream') \in Nat /\ Len(stream') = Len(stream) + 1
    BY FoundIs
  <2>2. from[d] \in 0..Len(stream) /\ Len(stream) \in Nat
    BY <2>1, LenProperties DEF IInv, TypeOK
  <2> QED BY <2>1, <2>2
<1>3. PICK n \in 1..(e - b) : n <= Longest(d) /\ ShortestWindow(f, stream', e, n, p)
  BY <1>1, <1>2, FoundIs
<1>4. p \in Seq(Bytes) /\ Len(p) = n /\ p = Window(stream', e, n) /\ dataIsValidPacket(f, p)
  BY <1>3 DEF ShortestWindow
<1>5. PICK m \in Nat : m = Len(a) /\ m >= 1
  BY <1>1, LenProperties, EmptySeq
<1>6. m <= n /\ SubSeq(p, 1, m) = a
  BY <1>1, <1>4, <1>5, AcceptedHasAffix
<1>7. stream' \in Seq(Bytes) /\ n \in Nat /\ n <= e
  <2>1. stream' \in Seq(Bytes)
    BY ReceiveByteTypes DEF TypeOK
  <2> QED BY <1>2, <2>1
<1>8. m = n
  <2> SUFFICES ASSUME m # n PROVE FALSE
    OBVIOUS
  <2>1. PICK g \in Nat : g = e - n + m /\ g \in b..l /\ m \in 1..(g - b) /\ m <= g /\ g <= l
    <3>1. m < n /\ n <= e - b
      BY <1>2, <1>3, <1>6
    <3>2. PICK g \in Int : g = e - n + m
      OBVIOUS
    <3>3. b + m <= g /\ g <= l
      BY <1>2, <3>1, <3>2
    <3>4. g \in Nat /\ g \in b..l /\ m <= g
      BY <3>3
    <3>5. m \in 1..(g - b)
      BY <1>5, <3>3
    <3> QED BY <3>2, <3>3, <3>4, <3>5
  <2>2. SubSeq(Window(stream', e, n), 1, m) = Window(stream', g, m)
    <3>1. PICK t \in Seq(Bytes) : t = stream' /\ e <= Len(t)
      BY <1>2, <1>7
    <3>2. SubSeq(Window(t, e, n), 1, m) = Window(t, g, m)
      BY <1>6, <1>7, <2>1, <3>1, BeginOfWindow
    <3> QED BY <3>1, <3>2
  <2>3. Window(stream', g, m) = Window(stream, g, m)
    BY <1>2, <2>1, OldWindow
  <2>4. Window(stream, g, m) = a
    BY <1>4, <1>6, <2>2, <2>3
  <2>5. dataIsValidPacket(f, a)
    BY <1>1, AffixIsValid
  <2>6. m <= Longest(d)
    <3>1. Longest(d) \in Nat
      BY FoundIs, LongestIsNat DEF IInv
    <3> QED BY <1>3, <1>6, <3>1
  <2>7. d \in Listening
    BY FoundIs
  <2>8. ~dataIsValidPacket(f, Window(stream, g, m))
    BY <1>1, <1>2, <2>1, <2>6, <2>7 DEF IInv, SinceInv
  <2> QED BY <2>4, <2>5, <2>8
<1>9. SubSeq(p, 1, n) = p
  BY <1>4, SubSeqFull
<1> QED BY <1>1, <1>6, <1>8, <1>9

(* A byte reports of a one-sided descriptor just its affix.                *)
LEMMA OneSidedStep == IInv /\ OneSidedPackets /\ [Next]_vars => OneSidedPackets'
<1> SUFFICES ASSUME IInv, OneSidedPackets, [Next]_vars PROVE OneSidedPackets'
  OBVIOUS
<1>1. CASE UNCHANGED <<format, packets, stream>>
  BY <1>1 DEF OneSidedPackets
<1>2. ASSUME NEW byte \in Bytes, ReceiveByte(byte)
      PROVE  OneSidedPackets'
  <2>1. format' = format
    BY <1>2, ReceiveIs
  <2>2. ASSUME NEW i \in DOMAIN packets', format[packets'[i].descriptor].kind = "affix"
        PROVE  LET f == format[packets'[i].descriptor]
               IN  /\ f.suffix = Nil /\ f.prefix # <<>> => packets'[i].data = f.prefix
                   /\ f.prefix = Nil /\ f.suffix # <<>> => packets'[i].data = f.suffix
    <3>1. CASE i \in DOMAIN packets /\ packets'[i] = packets[i]
      BY <2>2, <3>1 DEF OneSidedPackets
    <3>2. CASE /\ packets'[i].descriptor \in Complete(byte)
               /\ packets'[i].data = Found(byte, packets'[i].descriptor)
      <4>1. PICK d, f, p :
              /\ d \in Complete(byte)
              /\ d = packets'[i].descriptor /\ p = packets'[i].data
              /\ p = Found(byte, d) /\ f = format[d] /\ f.kind = "affix"
        BY <2>2, <3>2
      <4>2. f.prefix \in Affix /\ f.suffix \in Affix
        <5>1. d \in Descriptors
          BY <1>2, <4>1, FoundIs
        <5>2. IsFormat(f)
          BY <4>1, <5>1, PacketsAssumption DEF IInv, TypeOK
        <5> QED BY <4>1, <5>2 DEF IsFormat
      <4>3. f.prefix # Nil \/ f.suffix # Nil
        <5>1. dataIsValidPacket(f, p)
          BY <1>2, <4>1, FoundIsShortest
        <5> QED BY <4>1, <5>1 DEF dataIsValidPacket
      <4>4. ASSUME f.suffix = Nil, f.prefix # <<>>
            PROVE  p = f.prefix
        <5>1. f.prefix \in Seq(Bytes)
          BY <4>2, <4>3, <4>4 DEF Affix
        <5> QED BY <1>2, <4>1, <4>4, <5>1, FoundIsPrefix
      <4>5. ASSUME f.prefix = Nil, f.suffix # <<>>
            PROVE  p = f.suffix
        <5>1. f.suffix \in Seq(Bytes)
          BY <4>2, <4>3, <4>5 DEF Affix
        <5> QED BY <1>2, <4>1, <4>5, <5>1, FoundIsSuffix
      <4> QED BY <4>1, <4>4, <4>5
    <3> QED BY <1>2, <3>1, <3>2, ReportIs
  <2> QED BY <2>1, <2>2 DEF OneSidedPackets
<1> QED BY <1>1, <1>2, OnlyBytesReport

(* A descriptor with a prefix or a suffix only reports just that.          *)
THEOREM OneSided == Spec => []OneSidedPackets
<1>1. Init => OneSidedPackets
  BY DEF Init, OneSidedPackets
<1> QED BY <1>1, OneSidedStep, InvCorrect, PTL DEF Spec
=============================================================================
