--------------------------- MODULE FavIcons_proofs ---------------------------
(***************************************************************************)
(* Proofs about FavIcons, for any requests, URLs and hosts: types, and the *)
(* refinement of FavIconService.                                           *)
(***************************************************************************)
EXTENDS FavIcons, SequenceTheorems, TLAPS

USE IconsAssumption

-----------------------------------------------------------------------------
(* The elements of a sequence without repetition, and what an Append and a *)
(* Tail make of them.                                                      *)
Elems(s) == { s[i] : i \in 1..Len(s) }

(* Appending adds one element.                                             *)
LEMMA AppendElems ==
  ASSUME NEW S, NEW s \in Seq(S), NEW e \in S, IsInjective(s), e \notin Elems(s)
  PROVE  /\ Append(s, e) \in Seq(S) /\ IsInjective(Append(s, e))
         /\ Elems(Append(s, e)) = Elems(s) \cup {e}
<1>1. /\ Append(s, e) \in Seq(S) /\ Len(Append(s, e)) = Len(s) + 1
      /\ \A i \in 1..Len(s) : Append(s, e)[i] = s[i]
      /\ Append(s, e)[Len(s) + 1] = e
  OBVIOUS
<1>2. DOMAIN s = 1..Len(s) /\ DOMAIN Append(s, e) = 1..(Len(s) + 1)
  OBVIOUS
<1>3. IsInjective(Append(s, e))
  <2> SUFFICES ASSUME NEW a \in 1..(Len(s) + 1), NEW b \in 1..(Len(s) + 1),
                      Append(s, e)[a] = Append(s, e)[b]
               PROVE  a = b
    BY <1>2 DEF IsInjective
  <2>1. CASE a \in 1..Len(s) /\ b \in 1..Len(s)
    BY <1>1, <1>2, <2>1 DEF IsInjective
  <2>2. CASE a = Len(s) + 1 /\ b = Len(s) + 1
    BY <2>2
  <2>3. CASE (a = Len(s) + 1) # (b = Len(s) + 1)
    BY <1>1, <2>3 DEF Elems
  <2> QED BY <2>1, <2>2, <2>3
<1>4. Elems(Append(s, e)) = Elems(s) \cup {e}
  BY <1>1 DEF Elems
<1> QED BY <1>1, <1>3, <1>4

(* The tail loses at most the head, and only if it comes once.             *)
LEMMA TailElems ==
  ASSUME NEW S, NEW s \in Seq(S), IsInjective(s), s # <<>>
  PROVE  /\ Tail(s) \in Seq(S) /\ IsInjective(Tail(s)) /\ Head(s) \in S
         /\ Elems(Tail(s)) = Elems(s) \ {Head(s)} /\ Head(s) \in Elems(s)
<1>1. /\ Tail(s) \in Seq(S) /\ Len(Tail(s)) = Len(s) - 1 /\ Len(s) > 0
      /\ \A i \in 1..(Len(s) - 1) : Tail(s)[i] = s[i + 1]
      /\ Head(s) = s[1] /\ s[1] \in S
  OBVIOUS
<1>2. DOMAIN s = 1..Len(s) /\ DOMAIN Tail(s) = 1..(Len(s) - 1)
  BY <1>1
<1>3. IsInjective(Tail(s))
  <2> SUFFICES ASSUME NEW a \in 1..(Len(s) - 1), NEW b \in 1..(Len(s) - 1),
                      Tail(s)[a] = Tail(s)[b]
               PROVE  a = b
    BY <1>2 DEF IsInjective
  <2>1. s[a + 1] = s[b + 1] /\ a + 1 \in 1..Len(s) /\ b + 1 \in 1..Len(s)
    BY <1>1
  <2>2. a + 1 = b + 1
    BY <1>2, <2>1 DEF IsInjective
  <2> QED BY <2>2
<1>4. Elems(Tail(s)) = Elems(s) \ {Head(s)}
  <2>1. \A x \in Elems(Tail(s)) : x \in Elems(s) /\ x # Head(s)
    <3> SUFFICES ASSUME NEW i \in 1..(Len(s) - 1)
                 PROVE  s[i + 1] \in Elems(s) /\ s[i + 1] # s[1]
      BY <1>1 DEF Elems
    <3>1. i + 1 \in 1..Len(s) /\ 1 \in 1..Len(s) /\ i + 1 # 1
      BY <1>1
    <3> QED BY <1>2, <3>1 DEF Elems, IsInjective
  <2>2. \A x \in Elems(s) \ {Head(s)} : x \in Elems(Tail(s))
    <3> SUFFICES ASSUME NEW i \in 1..Len(s), s[i] # s[1] PROVE s[i] \in Elems(Tail(s))
      BY <1>1 DEF Elems
    <3>1. i - 1 \in 1..(Len(s) - 1) /\ (i - 1) + 1 = i
      BY <1>1
    <3>2. Tail(s)[i - 1] = s[i]
      BY <1>1, <3>1
    <3> QED BY <1>1, <3>1, <3>2 DEF Elems
  <2> QED BY <2>1, <2>2
<1>5. Head(s) \in Elems(s)
  BY <1>1 DEF Elems
<1> QED BY <1>1, <1>3, <1>4, <1>5

-----------------------------------------------------------------------------
(* What is behind the promise of the service.  A handler is dispatched by  *)
(* the last step of an operation, and none twice; what is cached, or about *)
(* to be, was found; a note belongs to an operation for its URL.           *)
UnderWay == {"queued", "preflight", "searching", "found", "caching"}

HandledOnce ==
  \A r \in Requests :
    /\ handled[r] \in {0, 1}
    /\ ~At(r, "done") => handled[r] = 0 /\ r \notin Elems(mainQueue)
    /\ r \in Elems(mainQueue) => handled[r] = 0 /\ keyForURL(r) \in found

CachedWasFound ==
  /\ memory \subseteq found /\ disk \subseteq found
  /\ \A r \in icon : keyForURL(r) \in found
  /\ \A r \in Requests : At(r, "caching") => r \in icon

NotesFit ==
  \A u \in URLs : opsPerURL[u] # None =>
    url[opsPerURL[u]] = u /\ op[opsPerURL[u]] \in UnderWay \cup {"done"}

IInv == TypeOK /\ HandledOnce /\ CachedWasFound /\ NotesFit

(* The notes are kept under keys.                                          *)
LEMMA KeyIsKey == ASSUME TypeOK PROVE \A r \in Requests : keyForURL(r) \in Keys
  BY DEF TypeOK, keyForURL, Keys

(* The invariant holds initially.                                          *)
LEMMA InitInv == Init => IInv
<1> SUFFICES ASSUME Init PROVE IInv
  OBVIOUS
<1>1. mainQueue \in Seq(Requests) /\ IsInjective(mainQueue) /\ Elems(mainQueue) = {}
  BY DEF Init, IsInjective, Elems
<1>2. url \in [Requests -> URLs] /\ opsPerURL \in [URLs -> Requests \cup {None}]
  BY DEF Init
<1>3. TypeOK
  BY <1>1, <1>2 DEF Init, TypeOK
<1>4. HandledOnce
  BY <1>1 DEF Init, HandledOnce, At
<1> QED BY <1>3, <1>4 DEF Init, IInv, CachedWasFound, NotesFit, At

(* The steps of a request's own operation.                                 *)
LEMMA IconForURLInv ==
  ASSUME IInv, NEW r \in Requests, IconForURL(r)
  PROVE  IInv'
<1> USE DEF settings, ghostVars, cacheVars
<1>1. op[r] = "new" /\ UNCHANGED <<settings, cancelled, icon, disk, saves, mainQueue, main, ghostVars>>
  BY DEF IconForURL, Comes, At
<1>2. PICK s \in {"returned", "discarded", "queued"} : op' = [op EXCEPT ![r] = s]
  BY DEF IconForURL, Goto
<1>3. op' \in [Requests -> {"new", "returned", "discarded", "queued", "preflight",
                            "searching", "found", "caching", "done"}]
  BY <1>2 DEF IInv, TypeOK
<1>4. memory' \subseteq Keys /\ memory' \subseteq found
  BY KeyIsKey DEF IconForURL, imageForKey, IsCached, IInv, TypeOK, CachedWasFound
<1>5. opsPerURL' = opsPerURL \/ (opsPerURL' = [opsPerURL EXCEPT ![url[r]] = r] /\ op'[r] = "queued")
  BY DEF IconForURL, Goto, IInv, TypeOK
<1>6. opsPerURL' \in [URLs -> Requests \cup {None}]
  BY <1>5 DEF IInv, TypeOK
<1>7. TypeOK'
  BY <1>1, <1>3, <1>4, <1>6 DEF IInv, TypeOK
<1>8. HandledOnce'
  BY <1>1, <1>2 DEF IInv, TypeOK, HandledOnce, At, keyForURL
<1>9. CachedWasFound'
  BY <1>1, <1>2, <1>4 DEF IInv, TypeOK, CachedWasFound, At, keyForURL
<1>10. NotesFit'
  BY <1>1, <1>2, <1>3, <1>5 DEF IInv, TypeOK, NotesFit, UnderWay
<1> QED BY <1>7, <1>8, <1>9, <1>10 DEF IInv

(* Dispatching a handler once keeps the invariant.                         *)
LEMMA DispatchInv ==
  ASSUME IInv, NEW r \in Requests, op[r] \in UnderWay, keyForURL(r) \in found,
         DispatchHandler(r), Goto(r, "done"), handled' = handled, found' = found,
         url' = url
  PROVE  /\ mainQueue' \in Seq(Requests) /\ IsInjective(mainQueue')
         /\ HandledOnce'
<1>1. r \notin Elems(mainQueue) /\ handled[r] = 0
  BY DEF IInv, HandledOnce, At, UnderWay
<1>2. /\ mainQueue' \in Seq(Requests) /\ IsInjective(mainQueue')
      /\ Elems(mainQueue') = Elems(mainQueue) \cup {r}
  BY <1>1, AppendElems DEF DispatchHandler, IInv, TypeOK
<1>3. op' = [op EXCEPT ![r] = "done"]
  BY DEF Goto
<1>4. Elems(mainQueue)' = Elems(mainQueue) \cup {r}
  BY <1>2 DEF Elems
<1>5. HandledOnce'
  BY <1>1, <1>3, <1>4 DEF IInv, TypeOK, HandledOnce, At, keyForURL
<1> QED BY <1>2, <1>5

(* A download thread that lets an icon pass or drops it keeps it.          *)
LEMMA OnThreadInv ==
  ASSUME IInv, NEW r \in Requests, OnThread(r)
  PROVE  IInv'
<1> USE DEF settings, ghostVars, cacheVars, At
<1>1. CASE Start(r)
  <2>1. PICK s \in {"preflight", "done"} : op' = [op EXCEPT ![r] = s]
    BY <1>1 DEF Start, Goto
  <2>2. op[r] = "queued" /\ UNCHANGED <<settings, opsPerURL, cancelled, icon, cacheVars, mainQueue, main, ghostVars>>
    BY <1>1 DEF Start
  <2>3. TypeOK'
    BY <2>1, <2>2 DEF IInv, TypeOK
  <2>4. HandledOnce'
    BY <2>1, <2>2 DEF IInv, TypeOK, HandledOnce, keyForURL
  <2>5. CachedWasFound' /\ NotesFit'
    BY <2>1, <2>2 DEF IInv, TypeOK, CachedWasFound, NotesFit, keyForURL, UnderWay
  <2> QED BY <2>3, <2>4, <2>5 DEF IInv
<1>2. CASE Preflight(r)
  <2>1. /\ op[r] = "preflight"
        /\ UNCHANGED <<settings, opsPerURL, cancelled, icon, disk, saves, main, ghostVars>>
    BY <1>2 DEF Preflight
  <2>2. memory' \subseteq Keys /\ memory' \subseteq found
    BY <1>2, KeyIsKey DEF Preflight, imageForKey, IsCached, IInv, TypeOK, CachedWasFound
  <2>3. PICK s \in {"searching", "done"} : op' = [op EXCEPT ![r] = s]
    BY <1>2 DEF Preflight, Goto
  <2>4. mainQueue' \in Seq(Requests) /\ IsInjective(mainQueue') /\ HandledOnce'
    <3>1. CASE IsCached(keyForURL(r))
      <4>1. keyForURL(r) \in found
        BY <3>1 DEF IsCached, IInv, CachedWasFound
      <4> QED BY <1>2, <2>1, <3>1, <4>1, DispatchInv DEF Preflight, UnderWay
    <3>2. CASE ~IsCached(keyForURL(r))
      <4>1. op' = [op EXCEPT ![r] = "searching"] /\ mainQueue' = mainQueue
        BY <1>2, <3>2 DEF Preflight, Goto
      <4>2. HandledOnce'
        BY <2>1, <4>1 DEF IInv, TypeOK, HandledOnce, keyForURL
      <4> QED BY <4>1, <4>2 DEF IInv, TypeOK
    <3> QED BY <3>1, <3>2
  <2>5. TypeOK'
    BY <2>1, <2>2, <2>3, <2>4 DEF IInv, TypeOK
  <2>6. CachedWasFound' /\ NotesFit'
    BY <2>1, <2>2, <2>3 DEF IInv, TypeOK, CachedWasFound, NotesFit, keyForURL, UnderWay
  <2> QED BY <2>4, <2>5, <2>6 DEF IInv
<1>3. CASE Search(r)
  <2>1. /\ op[r] = "searching" /\ op' = [op EXCEPT ![r] = "found"]
        /\ UNCHANGED <<settings, opsPerURL, cancelled, cacheVars, mainQueue, main, handled, robbed>>
    BY <1>3 DEF Search, Goto
  <2>2. \/ icon' = icon \cup {r} /\ found' = found \cup {keyForURL(r)}
        \/ icon' = icon /\ found' = found
    BY <1>3 DEF Search
  <2>3. TypeOK'
    BY <2>1, <2>2, KeyIsKey DEF IInv, TypeOK
  <2>4. HandledOnce'
    BY <2>1, <2>2 DEF IInv, TypeOK, HandledOnce, keyForURL
  <2>5. CachedWasFound'
    BY <2>1, <2>2 DEF IInv, TypeOK, CachedWasFound, keyForURL
  <2>6. NotesFit'
    BY <2>1 DEF IInv, TypeOK, NotesFit, UnderWay
  <2> QED BY <2>3, <2>4, <2>5, <2>6 DEF IInv
<1>4. CASE RemoveNote(r)
  <2>1. /\ op[r] = "found" /\ op' = [op EXCEPT ![r] = IF r \in icon THEN "caching" ELSE "done"]
        /\ opsPerURL' = [opsPerURL EXCEPT ![url[r]] = None]
        /\ UNCHANGED <<settings, cancelled, icon, cacheVars, mainQueue, main, handled, found>>
    BY <1>4 DEF RemoveNote, Goto
  <2>2. robbed' \subseteq URLs
    BY <1>4 DEF RemoveNote, IInv, TypeOK
  <2>3. TypeOK'
    BY <2>1, <2>2 DEF IInv, TypeOK
  <2>4. HandledOnce'
    BY <2>1 DEF IInv, TypeOK, HandledOnce, keyForURL
  <2>5. CachedWasFound'
    BY <2>1 DEF IInv, TypeOK, CachedWasFound, keyForURL
  <2>6. NotesFit'
    BY <2>1 DEF IInv, TypeOK, NotesFit, UnderWay
  <2> QED BY <2>3, <2>4, <2>5, <2>6 DEF IInv
<1>5. CASE Complete(r)
  <2>1. /\ op[r] = "caching" /\ op' = [op EXCEPT ![r] = "done"]
        /\ memory' = memory \cup {keyForURL(r)} /\ saves' = saves \cup {r}
        /\ UNCHANGED <<settings, opsPerURL, cancelled, icon, disk, main, ghostVars>>
    BY <1>5 DEF Complete, Goto, setImage
  <2>2. r \in icon /\ keyForURL(r) \in found
    BY <2>1 DEF IInv, CachedWasFound
  <2>3. mainQueue' \in Seq(Requests) /\ IsInjective(mainQueue') /\ HandledOnce'
    BY <1>5, <2>1, <2>2, DispatchInv DEF Complete, UnderWay
  <2>4. TypeOK'
    BY <2>1, <2>2, <2>3, KeyIsKey DEF IInv, TypeOK
  <2>5. CachedWasFound' /\ NotesFit'
    BY <2>1, <2>2 DEF IInv, TypeOK, CachedWasFound, NotesFit, keyForURL, UnderWay
  <2> QED BY <2>3, <2>4, <2>5 DEF IInv
<1> QED BY <1>1, <1>2, <1>3, <1>4, <1>5 DEF OnThread

(* Every step keeps the invariant.                                         *)
LEMMA InvStep == IInv /\ [Next]_vars => IInv'
<1> SUFFICES ASSUME IInv, [Next]_vars PROVE IInv'
  OBVIOUS
<1> USE DEF settings, ghostVars, cacheVars
<1>1. CASE MainCallsHandler
  <2> DEFINE h == Head(mainQueue)
  <2>1. /\ mainQueue' \in Seq(Requests) /\ IsInjective(mainQueue') /\ h \in Requests
        /\ Elems(mainQueue') = Elems(mainQueue) \ {h} /\ h \in Elems(mainQueue)
    BY <1>1, TailElems DEF MainCallsHandler, IInv, TypeOK
  <2>2. handled' = [handled EXCEPT ![h] = @ + 1] /\ handled[h] = 0
    BY <1>1, <2>1 DEF MainCallsHandler, IInv, HandledOnce
  <2>3. UNCHANGED <<settings, opsPerURL, op, cancelled, icon, cacheVars, main, found, robbed>>
    BY <1>1 DEF MainCallsHandler
  <2>4. Elems(mainQueue)' = Elems(mainQueue) \ {h}
    BY <2>1 DEF Elems
  <2>5. op[h] = "done"
    BY <2>1 DEF IInv, HandledOnce, At
  <2> HIDE DEF h
  <2>6. TypeOK'
    BY <2>1, <2>2, <2>3 DEF IInv, TypeOK
  <2>7. HandledOnce'
    BY <2>1, <2>2, <2>3, <2>4, <2>5 DEF IInv, TypeOK, HandledOnce, At, keyForURL
  <2>8. CachedWasFound' /\ NotesFit'
    BY <2>3 DEF IInv, CachedWasFound, NotesFit, At, keyForURL
  <2> QED BY <2>6, <2>7, <2>8 DEF IInv
<1>2. CASE CancelAllOperations
  <2>1. cancelled' \subseteq Requests /\ main' \in {"emptying", "emptyingToClear"}
    BY <1>2 DEF CancelAllOperations, InQueue, IInv, TypeOK
  <2>2. UNCHANGED <<settings, opsPerURL, op, icon, cacheVars, mainQueue, ghostVars>>
    BY <1>2 DEF CancelAllOperations
  <2> QED BY <2>1, <2>2 DEF IInv, TypeOK, HandledOnce, CachedWasFound, NotesFit, At,
                            keyForURL, Elems
<1>3. CASE EmptyOpsPerURL
  <2>1. /\ opsPerURL' = [u \in URLs |-> None] /\ main' \in {"idle", "clearing"}
        /\ UNCHANGED <<settings, op, cancelled, icon, cacheVars, mainQueue, ghostVars>>
    BY <1>3 DEF EmptyOpsPerURL
  <2>2. opsPerURL' \in [URLs -> Requests \cup {None}] /\ NotesFit'
    BY <2>1 DEF NotesFit
  <2> QED BY <2>1, <2>2 DEF IInv, TypeOK, HandledOnce, CachedWasFound, At, keyForURL, Elems
<1>4. CASE RemoveAllObjects
  BY <1>4 DEF RemoveAllObjects, IInv, TypeOK, HandledOnce, CachedWasFound, NotesFit,
              At, keyForURL, Elems
<1>5. ASSUME NEW r \in Requests, SaveImage(r) PROVE IInv'
  <2>1. keyForURL(r) \in found /\ keyForURL(r) \in Keys
    BY <1>5, KeyIsKey DEF SaveImage, IInv, TypeOK, CachedWasFound
  <2> QED BY <1>5, <2>1 DEF SaveImage, IInv, TypeOK, HandledOnce, CachedWasFound,
                            NotesFit, At, keyForURL, Elems
<1>6. ASSUME NEW k \in Keys, Evict(k) PROVE IInv'
  BY <1>6 DEF Evict, IInv, TypeOK, HandledOnce, CachedWasFound, NotesFit, At,
              keyForURL, Elems
<1>7. CASE UNCHANGED vars
  BY <1>7 DEF vars, IInv, TypeOK, HandledOnce, CachedWasFound, NotesFit, At,
              keyForURL, Elems
<1> QED BY <1>1, <1>2, <1>3, <1>4, <1>5, <1>6, <1>7, IconForURLInv, OnThreadInv DEF Next

(* Every reachable state is well-typed; no handler is dispatched twice.    *)
THEOREM InvCorrect == Spec => []IInv
  BY InitInv, InvStep, PTL DEF Spec

-----------------------------------------------------------------------------
(* What a caller sees changes only when the request is made and when its   *)
(* handler is called.                                                      *)
LEMMA StatusIs ==
  ASSUME IInv, NEW r \in Requests
  PROVE  /\ op[r] \in {"new", "returned", "discarded"} => Status(r) = op[r]
         /\ op[r] \in UnderWay => Status(r) = "waiting"
         /\ op[r] = "done" => Status(r) = IF handled[r] = 0 THEN "waiting" ELSE "handled"
         /\ op[r] \in UnderWay \cup {"new", "returned", "discarded", "done"}
<1>1. op[r] \in UnderWay \cup {"new", "returned", "discarded", "done"}
  BY DEF IInv, TypeOK, UnderWay
<1>2. handled[r] \in {0, 1} /\ (op[r] # "done" => handled[r] = 0)
  BY DEF IInv, HandledOnce, At
<1>3. CASE op[r] \in {"new", "returned", "discarded"}
  BY <1>3 DEF Status, UnderWay
<1>4. CASE op[r] \in UnderWay
  BY <1>2, <1>4 DEF Status, UnderWay
<1>5. CASE op[r] = "done"
  BY <1>2, <1>5 DEF Status, UnderWay
<1> QED BY <1>1, <1>3, <1>4, <1>5 DEF UnderWay

(* A step that moves one operation among those under way and its end, and  *)
(* calls no handler, is not seen.                                          *)
LEMMA UnseenStep ==
  ASSUME IInv, IInv', handled' = handled,
         \A q \in Requests : op'[q] = op[q] \/ (op[q] \in UnderWay /\ op'[q] \in UnderWay \cup {"done"})
  PROVE  \A q \in Requests : Status(q)' = Status(q)
<1> SUFFICES ASSUME NEW q \in Requests PROVE Status(q)' = Status(q)
  OBVIOUS
<1>1. CASE op'[q] = op[q]
  BY <1>1 DEF Status
<1>2. CASE op[q] \in UnderWay /\ op'[q] \in UnderWay \cup {"done"}
  <2>1. Status(q) = "waiting"
    BY <1>2, StatusIs
  <2>2. handled'[q] = 0
    BY <1>2 DEF IInv, HandledOnce, At, UnderWay
  <2>3. Status(q)' = "waiting"
    BY <1>2, <2>2 DEF Status, UnderWay
  <2> QED BY <2>1, <2>3
<1> QED BY <1>1, <1>2

(* A step that leaves the handlers and notes alone is invisible.           *)
LEMMA StutterStep ==
  ASSUME found' = found, url' = url, \A q \in Requests : Status(q)' = Status(q)
  PROVE  UNCHANGED Service!vars
  BY DEF Service!vars

(* A step in which one request moves on for its caller.                    *)
LEMMA MoveStep ==
  ASSUME NEW r \in Requests, NEW to, found' = found, url' = url,
         Status(r)' = to, \A q \in Requests \ {r} : Status(q)' = Status(q),
         \/ Status(r) = "new" /\ to = "waiting"
         \/ Status(r) = "new" /\ to = "returned" /\ keyForURL(r) \in found
         \/ Status(r) = "waiting" /\ to = "handled" /\ keyForURL(r) \in found
         \/ /\ Status(r) = "new" /\ to = "discarded"
            /\ \E q \in Requests \ {r} : url[q] = url[r] /\ Status(q) \in {"waiting", "handled"}
  PROVE  Service!Next
<1> DEFINE status == [q \in Requests |-> Status(q)]
<1>1. status' = [status EXCEPT ![r] = to]
  OBVIOUS
<1>2. Service!Moves(r, Status(r), to)
  BY <1>1 DEF Service!Moves
<1>3. /\ UNCHANGED url
      /\ \/ Host(url[r]) \in found /\ Service!Moves(r, "new", "returned")
         \/ Service!Moves(r, "new", "waiting")
         \/ /\ \E q \in Requests \ {r} : url[q] = url[r] /\ status[q] \in {"waiting", "handled"}
            /\ Service!Moves(r, "new", "discarded")
         \/ Host(url[r]) \in found /\ Service!Moves(r, "waiting", "handled")
  BY <1>2 DEF keyForURL
<1> QED BY <1>3 DEF Service!Next

(* iconForURL: accepts a request of the service.                           *)
LEMMA IconForURLMoves ==
  ASSUME IInv, IInv', NEW r \in Requests, IconForURL(r)
  PROVE  Service!Next
<1>1. /\ op[r] = "new" /\ handled' = handled /\ found' = found /\ url' = url
      /\ Status(r) = "new"
  BY StatusIs DEF IconForURL, Comes, At, settings, ghostVars
<1>2. ASSUME NEW s, Goto(r, s) PROVE \A q \in Requests \ {r} : Status(q)' = Status(q)
  BY <1>1, <1>2 DEF Goto, Status, IInv, TypeOK
<1>3. ASSUME NEW s \in {"returned", "discarded"}, Goto(r, s) PROVE Status(r)' = s
  <2>1. op'[r] = s
    BY <1>3 DEF Goto, IInv, TypeOK
  <2> QED BY <2>1 DEF Status
<1>4. CASE IsCached(keyForURL(r)) /\ Goto(r, "returned")
  <2>1. keyForURL(r) \in found
    BY <1>4 DEF IsCached, IInv, CachedWasFound
  <2>2. Status(r)' = "returned"
    BY <1>3, <1>4
  <2> QED BY <1>1, <1>2, <1>4, <2>1, <2>2, MoveStep
<1>5. CASE discards /\ opsPerURL[url[r]] # None /\ Goto(r, "discarded")
  <2> DEFINE q == opsPerURL[url[r]]
  <2>1. url[r] \in URLs /\ q \in Requests
    BY <1>5 DEF IInv, TypeOK
  <2>2. url[q] = url[r] /\ op[q] \in UnderWay \cup {"done"}
    BY <1>5, <2>1 DEF IInv, NotesFit
  <2>3. q # r
    BY <1>1, <2>2 DEF UnderWay
  <2>4. Status(q) \in {"waiting", "handled"}
    BY <2>1, <2>2, StatusIs
  <2>5. Status(r)' = "discarded"
    BY <1>3, <1>5
  <2>6. \E x \in Requests \ {r} : url[x] = url[r] /\ Status(x) \in {"waiting", "handled"}
    BY <2>1, <2>2, <2>3, <2>4
  <2> QED BY <1>1, <1>2, <1>5, <2>5, <2>6, MoveStep
<1>6. CASE Goto(r, "queued")
  <2>1. op'[r] = "queued"
    BY <1>6 DEF Goto, IInv, TypeOK
  <2>2. handled'[r] = 0
    BY <2>1 DEF IInv, HandledOnce, At
  <2>3. Status(r)' = "waiting"
    BY <2>1, <2>2 DEF Status
  <2> QED BY <1>1, <1>2, <1>6, <2>3, MoveStep
<1> QED BY <1>4, <1>5, <1>6 DEF IconForURL

(* What a download thread does is a step of the service, or none.          *)
LEMMA OnThreadMoves ==
  ASSUME IInv, IInv', NEW r \in Requests, OnThread(r)
  PROVE  [Service!Next]_(Service!vars)
<1> USE DEF settings, ghostVars, At
<1>1. op[r] \in UnderWay /\ handled' = handled /\ url' = url
  BY DEF OnThread, Start, Preflight, Search, RemoveNote, Complete, UnderWay
<1>2. \E s \in UnderWay \cup {"done"} : Goto(r, s)
  BY DEF OnThread, Start, Preflight, Search, RemoveNote, Complete, UnderWay
<1>3. \A q \in Requests : op'[q] = op[q] \/ (op[q] \in UnderWay /\ op'[q] \in UnderWay \cup {"done"})
  BY <1>1, <1>2 DEF Goto, IInv, TypeOK
<1>4. \A q \in Requests : Status(q)' = Status(q)
  BY <1>1, <1>3, UnseenStep
<1>5. CASE found' = found
  BY <1>1, <1>4, <1>5, StutterStep
<1>6. CASE Search(r) /\ found' = found \cup {keyForURL(r)}
  <2>1. Status(r) = "waiting"
    BY <1>6, StatusIs DEF Search, UnderWay
  <2>2. UNCHANGED [q \in Requests |-> Status(q)]
    BY <1>4
  <2>3. Service!Finds(r)
    BY <1>6, <2>1, <2>2 DEF Service!Finds, keyForURL
  <2> QED BY <1>1, <2>3 DEF Service!Next
<1>7. found' = found \/ (Search(r) /\ found' = found \cup {keyForURL(r)})
  BY DEF OnThread, Start, Preflight, Search, RemoveNote, Complete
<1> QED BY <1>5, <1>6, <1>7

(* Running a handler block is the service calling the handler.             *)
LEMMA HandlerMoves ==
  ASSUME IInv, IInv', MainCallsHandler
  PROVE  Service!Next
<1>1. PICK h \in Requests : h = Head(mainQueue) /\ h \in Elems(mainQueue)
  BY TailElems DEF MainCallsHandler, IInv, TypeOK
<1>2. /\ handled' = [handled EXCEPT ![h] = @ + 1] /\ op' = op /\ found' = found /\ url' = url
  BY <1>1 DEF MainCallsHandler, settings
<1>3. handled[h] = 0 /\ keyForURL(h) \in found /\ op[h] = "done"
  BY <1>1 DEF IInv, HandledOnce, At
<1>4. Status(h) = "waiting"
  BY <1>1, <1>3, StatusIs
<1>5. handled'[h] = 1
  BY <1>1, <1>2, <1>3 DEF IInv, TypeOK
<1>6. Status(h)' = "handled"
  BY <1>2, <1>3, <1>5 DEF Status
<1>7. \A q \in Requests \ {h} : Status(q)' = Status(q)
  BY <1>1, <1>2 DEF Status, IInv, TypeOK
<1> QED BY <1>1, <1>2, <1>3, <1>4, <1>6, <1>7, MoveStep

(* The manager does what the header promises of a request, for any number  *)
(* of them: at most one call of the handler, none without an icon, and     *)
(* none discarded without another for its URL.                             *)
THEOREM Refinement == Spec => ImplementsService
<1>1. Init => Service!Init
  <2> SUFFICES ASSUME Init PROVE Service!Init
    OBVIOUS
  <2>1. url \in [Requests -> URLs] /\ found \in SUBSET { Host(u) : u \in URLs }
    BY DEF Init, Keys
  <2>2. \A r \in Requests : Status(r) = "new"
    BY DEF Init, Status
  <2>3. [r \in Requests |-> Status(r)] = [r \in Requests |-> "new"]
    BY <2>2
  <2> QED BY <2>1, <2>3 DEF Service!Init
<1>2. IInv /\ IInv' /\ [Next]_vars => [Service!Next]_(Service!vars)
  <2> SUFFICES ASSUME IInv, IInv', [Next]_vars PROVE [Service!Next]_(Service!vars)
    OBVIOUS
  <2>1. CASE \E r \in Requests : IconForURL(r)
    BY <2>1, IconForURLMoves
  <2>2. CASE \E r \in Requests : OnThread(r)
    BY <2>2, OnThreadMoves
  <2>3. CASE MainCallsHandler
    BY <2>3, HandlerMoves
  <2>4. CASE \/ CancelAllOperations \/ EmptyOpsPerURL \/ RemoveAllObjects
             \/ (\E r \in Requests : SaveImage(r)) \/ (\E k \in Keys : Evict(k))
             \/ UNCHANGED vars
    <3>1. op' = op /\ handled' = handled /\ found' = found /\ url' = url
      BY <2>4 DEF CancelAllOperations, EmptyOpsPerURL, RemoveAllObjects, SaveImage, Evict,
                  vars, settings, ghostVars
    <3>2. \A q \in Requests : Status(q)' = Status(q)
      BY <3>1 DEF Status
    <3> QED BY <3>1, <3>2, StutterStep
  <2> QED BY <2>1, <2>2, <2>3, <2>4 DEF Next
<1> QED BY <1>1, <1>2, InvCorrect, PTL DEF Spec, ImplementsService, Service!Spec

-----------------------------------------------------------------------------
(* Behind the notes.  An operation that found an icon reports it before it *)
(* ends, and what is reported was found or is in the cache.                *)
Emptying == {"emptying", "emptyingToClear"}
Reported(r) == handled[r] > 0 \/ r \in Elems(mainQueue)

IconsReported ==
  \A r \in Requests :
    /\ r \in icon => op[r] \in {"found", "caching", "done"}
    /\ r \in icon /\ At(r, "done") => Reported(r)
    /\ Reported(r) => answers \/ r \in icon

(* Until cancelRequests has emptied opsPerURL, which it does behind        *)
(* cancelAllOperations, a note is one of an operation that nobody          *)
(* cancelled; one that found an icon has taken its note away.              *)
NotesUncancelled ==
  /\ \A r \in cancelled : ~At(r, "new")
  /\ main \in Emptying => InQueue \subseteq cancelled
  /\ \A u \in URLs :
       LET r == opsPerURL[u]
       IN  r # None =>
             /\ ~At(r, "caching") /\ (At(r, "done") => r \notin icon)
             /\ main \notin Emptying =>
                  r \notin cancelled /\ (At(r, "done") => Reported(r))

(* If requests for what is in the queue are discarded, an operation that   *)
(* goes on and has not found its icon is the one noted for its URL.        *)
LiveAreNoted ==
  discards =>
    \A r \in InQueue \ cancelled :
      url[r] \notin robbed /\ ~At(r, "caching") => opsPerURL[url[r]] = r

NotesInv == IconsReported /\ NotesUncancelled /\ LiveAreNoted

(* A dispatch reports one more request, calling a handler none.            *)
LEMMA Dispatched ==
  ASSUME IInv, NEW r \in Requests, DispatchHandler(r), handled' = handled
  PROVE  \A q \in Requests : Reported(q)' <=> Reported(q) \/ q = r
<1>1. Elems(mainQueue)' = Elems(mainQueue) \cup {r}
  <2>1. mainQueue \in Seq(Requests) /\ mainQueue' = Append(mainQueue, r)
    BY DEF DispatchHandler, IInv, TypeOK
  <2>2. /\ Len(mainQueue') = Len(mainQueue) + 1 /\ Len(mainQueue) \in Nat
        /\ \A i \in 1..Len(mainQueue) : mainQueue'[i] = mainQueue[i]
        /\ mainQueue'[Len(mainQueue) + 1] = r
    BY <2>1
  <2> QED BY <2>2 DEF Elems
<1> QED BY <1>1 DEF Reported

(* Calling a handler takes its report from the queue to the caller.        *)
LEMMA HandlerCalled ==
  ASSUME IInv, MainCallsHandler
  PROVE  \A q \in Requests : Reported(q)' <=> Reported(q)
<1> DEFINE h == Head(mainQueue)
<1>1. Elems(mainQueue') = Elems(mainQueue) \ {h} /\ h \in Elems(mainQueue)
  BY TailElems DEF MainCallsHandler, IInv, TypeOK
<1>2. \A q \in Requests : /\ handled[q] \in Nat
                          /\ handled'[q] = IF q = h THEN handled[q] + 1 ELSE handled[q]
  BY DEF MainCallsHandler, IInv, TypeOK
<1>3. Elems(mainQueue)' = Elems(mainQueue')
  BY DEF Elems
<1> QED BY <1>1, <1>2, <1>3 DEF Reported

(* A step that leaves operations, notes and cancellations alone.           *)
LEMMA NotesKept ==
  ASSUME NotesInv, IInv,
         UNCHANGED <<settings, opsPerURL, op, cancelled, icon, main, robbed>>,
         \A q \in Requests : Reported(q)' <=> Reported(q)
  PROVE  NotesInv'
<1> USE DEF settings, At, InQueue
<1>1. IconsReported'
  BY DEF NotesInv, IconsReported
<1>2. NotesUncancelled'
  BY DEF NotesInv, NotesUncancelled, IInv, TypeOK
<1>3. LiveAreNoted'
  BY DEF NotesInv, LiveAreNoted
<1> QED BY <1>1, <1>2, <1>3 DEF NotesInv

(* A request that comes is noted, unless the cache answers it or another   *)
(* for its URL is noted already.                                           *)
LEMMA NotedOnce ==
  ASSUME IInv, NotesInv, NEW r \in Requests, IconForURL(r)
  PROVE  NotesInv'
<1> USE DEF settings, ghostVars, At
<1>1. /\ op[r] = "new" /\ main = "idle" /\ main' = main
      /\ UNCHANGED <<settings, cancelled, icon, disk, saves, mainQueue, ghostVars>>
  BY DEF IconForURL, Comes
<1>2. r \notin cancelled /\ r \notin icon
  BY <1>1 DEF NotesInv, NotesUncancelled, IconsReported
<1>3. \A q \in Requests : Reported(q)' <=> Reported(q)
  BY <1>1 DEF Reported, Elems
<1>4. url[r] \in URLs /\ opsPerURL \in [URLs -> Requests \cup {None}]
      /\ op \in [Requests -> {"new", "returned", "discarded", "queued", "preflight",
                              "searching", "found", "caching", "done"}]
      /\ cancelled \subseteq Requests
  BY DEF IInv, TypeOK
<1>5. ASSUME NEW s \in {"returned", "discarded", "queued"}, Goto(r, s)
      PROVE  \A q \in Requests : op'[q] = IF q = r THEN s ELSE op[q]
  BY <1>4, <1>5 DEF Goto
<1>6. CASE \/ Goto(r, "returned") /\ opsPerURL' = opsPerURL
           \/ Goto(r, "discarded") /\ opsPerURL' = opsPerURL
  <2>1. PICK s \in {"returned", "discarded"} : Goto(r, s) /\ opsPerURL' = opsPerURL
    BY <1>6
  <2>2. \A q \in Requests : op'[q] = IF q = r THEN s ELSE op[q]
    BY <1>5, <2>1
  <2>3. IconsReported'
    BY <1>1, <1>2, <1>3, <2>2 DEF NotesInv, IconsReported
  <2>4. NotesUncancelled'
    <3>1. main' \notin Emptying /\ cancelled' = cancelled /\ icon' = icon
      BY <1>1 DEF Emptying
    <3>2. \A q \in cancelled : op'[q] # "new"
      BY <1>2, <1>4, <2>2 DEF NotesInv, NotesUncancelled
    <3>3. ASSUME NEW u \in URLs, NEW q \in Requests, q = opsPerURL'[u]
          PROVE  /\ op'[q] # "caching" /\ (op'[q] = "done" => q \notin icon)
                 /\ q \notin cancelled /\ (op'[q] = "done" => Reported(q)')
      <4>1. q = opsPerURL[u]
        BY <2>1, <3>3
      <4>2. /\ op[q] # "caching" /\ (op[q] = "done" => q \notin icon)
            /\ q \notin cancelled /\ (op[q] = "done" => Reported(q))
        BY <1>1, <3>3, <4>1 DEF NotesInv, NotesUncancelled, Emptying
      <4>3. op'[q] \in {op[q], "returned", "discarded"}
        BY <2>2
      <4> QED BY <1>3, <4>1, <4>2, <4>3
    <3>4. \A u \in URLs : opsPerURL'[u] # None => opsPerURL'[u] \in Requests
      BY <1>4, <2>1
    <3> QED BY <3>1, <3>2, <3>3, <3>4 DEF NotesUncancelled
  <2>5. InQueue' = InQueue
    BY <1>1, <2>2 DEF InQueue
  <2>6. LiveAreNoted'
    BY <1>1, <2>1, <2>2, <2>5 DEF NotesInv, LiveAreNoted, InQueue
  <2> QED BY <2>3, <2>4, <2>6 DEF NotesInv
<1>7. CASE /\ ~(discards /\ opsPerURL[url[r]] # None)
           /\ Goto(r, "queued")
           /\ opsPerURL' = [opsPerURL EXCEPT ![url[r]] = r]
  <2>1. \A q \in Requests : op'[q] = IF q = r THEN "queued" ELSE op[q]
    BY <1>5, <1>7
  <2>2. \A u \in URLs : opsPerURL'[u] = IF u = url[r] THEN r ELSE opsPerURL[u]
    BY <1>4, <1>7
  <2>3. IconsReported'
    BY <1>1, <1>2, <1>3, <2>1 DEF NotesInv, IconsReported
  <2>4. NotesUncancelled'
    <3>1. main' \notin Emptying /\ cancelled' = cancelled /\ icon' = icon
      BY <1>1 DEF Emptying
    <3>2. \A q \in cancelled : op'[q] # "new"
      BY <1>2, <1>4, <2>1 DEF NotesInv, NotesUncancelled
    <3>3. ASSUME NEW u \in URLs, NEW q \in Requests, q = opsPerURL'[u]
          PROVE  /\ op'[q] # "caching" /\ (op'[q] = "done" => q \notin icon)
                 /\ q \notin cancelled /\ (op'[q] = "done" => Reported(q)')
      <4>1. CASE u = url[r]
        BY <1>2, <2>1, <2>2, <3>3, <4>1
      <4>2. CASE u # url[r]
        <5>1. q = opsPerURL[u]
          BY <2>2, <3>3, <4>2
        <5>2. /\ op[q] # "caching" /\ (op[q] = "done" => q \notin icon)
              /\ q \notin cancelled /\ (op[q] = "done" => Reported(q))
          BY <1>1, <3>3, <5>1 DEF NotesInv, NotesUncancelled, Emptying
        <5>3. op'[q] \in {op[q], "queued"}
          BY <2>1
        <5> QED BY <1>3, <5>1, <5>2, <5>3
      <4> QED BY <4>1, <4>2
    <3>4. \A u \in URLs : opsPerURL'[u] # None => opsPerURL'[u] \in Requests
      BY <1>4, <2>2
    <3> QED BY <3>1, <3>2, <3>3, <3>4 DEF NotesUncancelled
  <2>5. InQueue' = InQueue \cup {r} /\ InQueue \subseteq Requests
    BY <1>1, <2>1 DEF InQueue
  <2>6. LiveAreNoted'
    <3> SUFFICES ASSUME discards, NEW q \in InQueue' \ cancelled,
                        url[q] \notin robbed, op'[q] # "caching"
                 PROVE  opsPerURL'[url[q]] = q
      BY <1>1 DEF LiveAreNoted
    <3>1. q \in Requests /\ url[q] \in URLs
      BY <2>5 DEF IInv, TypeOK
    <3>2. CASE q # r
      <4>1. opsPerURL[url[q]] = q
        BY <2>1, <2>5, <3>1, <3>2 DEF NotesInv, LiveAreNoted
      <4>2. url[q] # url[r]
        BY <1>7, <3>1, <4>1
      <4> QED BY <2>2, <3>1, <4>1, <4>2
    <3> QED BY <2>2, <3>1, <3>2
  <2> QED BY <2>3, <2>4, <2>6 DEF NotesInv
<1> QED BY <1>6, <1>7 DEF IconForURL

(* The steps of an operation.                                              *)
LEMMA NotesOnThread ==
  ASSUME IInv, NotesInv, NEW r \in Requests, OnThread(r)
  PROVE  NotesInv'
<1> USE DEF settings, ghostVars, At
<1>1. /\ url \in [Requests -> URLs] /\ opsPerURL \in [URLs -> Requests \cup {None}]
      /\ op \in [Requests -> {"new", "returned", "discarded", "queued", "preflight",
                              "searching", "found", "caching", "done"}]
      /\ cancelled \subseteq Requests
  BY DEF IInv, TypeOK
<1>2. ASSUME NEW s, Goto(r, s)
      PROVE  \A q \in Requests : op'[q] = IF q = r THEN s ELSE op[q]
  BY <1>1, <1>2 DEF Goto
<1>3. ASSUME mainQueue' = mainQueue, handled' = handled
      PROVE  \A q \in Requests : Reported(q)' <=> Reported(q)
  BY <1>3 DEF Reported, Elems
<1>4. \A u \in URLs : opsPerURL[u] = r => u = url[r]
  BY DEF IInv, NotesFit
<1>5. CASE Start(r)
  <2>1. PICK s : /\ s = IF r \in cancelled THEN "done" ELSE "preflight"
                 /\ Goto(r, s)
    BY <1>5 DEF Start
  <2>2. /\ op[r] = "queued" /\ mainQueue' = mainQueue /\ handled' = handled
        /\ UNCHANGED <<discards, answers, url, opsPerURL, cancelled, icon, main, robbed>>
    BY <1>5 DEF Start
  <2>3. \A q \in Requests : Reported(q)' <=> Reported(q)
    BY <1>3, <2>2
  <2>4. \A q \in Requests : op'[q] = IF q = r THEN s ELSE op[q]
    BY <1>2, <2>1
  <2>5. r \notin icon
    BY <2>2 DEF NotesInv, IconsReported
  <2>6. IconsReported'
    BY <2>2, <2>3, <2>4, <2>5 DEF NotesInv, IconsReported
  <2>7. InQueue' \subseteq InQueue /\ InQueue \ cancelled \subseteq Requests
    BY <2>2, <2>4 DEF InQueue
  <2>8. NotesUncancelled'
    <3>1. \A q \in cancelled : op'[q] # "new"
      BY <1>1, <2>1, <2>2, <2>4 DEF NotesInv, NotesUncancelled
    <3>2. main \in Emptying => InQueue' \subseteq cancelled
      BY <2>7 DEF NotesInv, NotesUncancelled
    <3>3. \A u \in URLs : opsPerURL[u] # None =>
            /\ opsPerURL[u] \in Requests
            /\ \/ op'[opsPerURL[u]] = op[opsPerURL[u]]
               \/ opsPerURL[u] = r
      BY <1>1, <2>4
    <3>4. op'[r] = "done" => r \in cancelled
      BY <2>1, <2>4
    <3>5. op'[r] # "caching"
      BY <2>1, <2>4
    <3> QED BY <2>2, <2>3, <2>5, <3>1, <3>2, <3>3, <3>4, <3>5
            DEF NotesInv, NotesUncancelled
  <2>9. LiveAreNoted'
    BY <2>1, <2>2, <2>4, <2>7 DEF NotesInv, LiveAreNoted
  <2> QED BY <2>6, <2>8, <2>9 DEF NotesInv
<1>6. CASE Preflight(r)
  <2>1. /\ op[r] = "preflight" /\ handled' = handled
        /\ UNCHANGED <<discards, answers, url, opsPerURL, cancelled, icon, main, robbed>>
    BY <1>6 DEF Preflight
  <2>2. PICK s : /\ Goto(r, s)
                 /\ \/ s = "done" /\ DispatchHandler(r) /\ answers
                    \/ s = "searching" /\ mainQueue' = mainQueue
    BY <1>6 DEF Preflight, IsCached
  <2>3. \A q \in Requests :
          Reported(q)' <=> Reported(q) \/ (q = r /\ s = "done")
    BY <1>3, <2>1, <2>2, Dispatched
  <2>4. \A q \in Requests : op'[q] = IF q = r THEN s ELSE op[q]
    BY <1>2, <2>2
  <2>5. r \notin icon
    BY <2>1 DEF NotesInv, IconsReported
  <2>6. IconsReported'
    BY <2>1, <2>2, <2>3, <2>4, <2>5 DEF NotesInv, IconsReported
  <2>7. InQueue' \subseteq InQueue /\ InQueue \ cancelled \subseteq Requests
    BY <2>1, <2>4 DEF InQueue
  <2>8. NotesUncancelled'
    BY <1>1, <2>1, <2>2, <2>3, <2>4, <2>5, <2>7 DEF NotesInv, NotesUncancelled
  <2>9. LiveAreNoted'
    BY <2>1, <2>4, <2>7 DEF NotesInv, LiveAreNoted
  <2> QED BY <2>6, <2>8, <2>9 DEF NotesInv
<1>7. CASE Search(r)
  <2>1. /\ op[r] = "searching" /\ Goto(r, "found")
        /\ mainQueue' = mainQueue /\ handled' = handled
        /\ UNCHANGED <<discards, answers, url, opsPerURL, cancelled, main, robbed>>
        /\ icon \subseteq icon' /\ icon' \subseteq icon \cup {r}
    BY <1>7 DEF Search
  <2>2. \A q \in Requests : Reported(q)' <=> Reported(q)
    BY <1>3, <2>1
  <2>3. \A q \in Requests : op'[q] = IF q = r THEN "found" ELSE op[q]
    BY <1>2, <2>1
  <2>4. IconsReported'
    BY <2>1, <2>2, <2>3 DEF NotesInv, IconsReported
  <2>5. InQueue' \subseteq InQueue /\ InQueue \ cancelled \subseteq Requests
    BY <2>1, <2>3 DEF InQueue
  <2>6. NotesUncancelled'
    BY <1>1, <2>1, <2>2, <2>3, <2>5 DEF NotesInv, NotesUncancelled
  <2>7. LiveAreNoted'
    BY <2>1, <2>3, <2>5 DEF NotesInv, LiveAreNoted
  <2> QED BY <2>4, <2>6, <2>7 DEF NotesInv
<1>8. CASE RemoveNote(r)
  <2>1. /\ op[r] = "found" /\ mainQueue' = mainQueue /\ handled' = handled
        /\ UNCHANGED <<discards, answers, url, cancelled, icon, main>>
        /\ robbed' = IF r \in cancelled /\ opsPerURL[url[r]] \notin {None, r}
                     THEN robbed \cup {url[r]} ELSE robbed
    BY <1>8 DEF RemoveNote
  <2>2. PICK s : s = (IF r \in icon THEN "caching" ELSE "done") /\ Goto(r, s)
    BY <1>8 DEF RemoveNote
  <2>3. \A q \in Requests : Reported(q)' <=> Reported(q)
    BY <1>3, <2>1
  <2>4. \A q \in Requests : op'[q] = IF q = r THEN s ELSE op[q]
    BY <1>2, <2>2
  <2>5. \A u \in URLs : opsPerURL'[u] = IF u = url[r] THEN None ELSE opsPerURL[u]
    BY <1>1, <1>8 DEF RemoveNote
  <2>6. IconsReported'
    BY <2>1, <2>2, <2>3, <2>4 DEF NotesInv, IconsReported
  <2>7. InQueue' \subseteq InQueue /\ InQueue \subseteq Requests
        /\ r \in InQueue /\ (r \in icon \/ r \notin InQueue')
    BY <2>1, <2>2, <2>4 DEF InQueue
  <2>8. NotesUncancelled'
    <3>1. \A q \in cancelled : op'[q] # "new"
      BY <1>1, <2>2, <2>4 DEF NotesInv, NotesUncancelled
    <3>2. main \in Emptying => InQueue' \subseteq cancelled
      BY <2>7 DEF NotesInv, NotesUncancelled
    <3>3. \A u \in URLs : opsPerURL'[u] # None =>
            /\ opsPerURL'[u] = opsPerURL[u] /\ opsPerURL[u] \in Requests \ {r}
            /\ op'[opsPerURL[u]] = op[opsPerURL[u]]
      <4> SUFFICES ASSUME NEW u \in URLs, opsPerURL'[u] # None
                   PROVE  /\ opsPerURL'[u] = opsPerURL[u]
                          /\ opsPerURL[u] \in Requests \ {r}
                          /\ op'[opsPerURL[u]] = op[opsPerURL[u]]
        OBVIOUS
      <4>1. u # url[r] /\ opsPerURL'[u] = opsPerURL[u]
        BY <2>5
      <4>2. opsPerURL[u] \in Requests /\ opsPerURL[u] # r
        BY <1>1, <1>4, <4>1
      <4> QED BY <2>4, <4>1, <4>2
    <3>4. ASSUME NEW u \in URLs, NEW q \in Requests, q = opsPerURL'[u], q # None
          PROVE  /\ op'[q] # "caching" /\ (op'[q] = "done" => q \notin icon)
                 /\ main \notin Emptying =>
                      q \notin cancelled /\ (op'[q] = "done" => Reported(q)')
      <4>1. q = opsPerURL[u] /\ op'[q] = op[q]
        BY <3>3, <3>4
      <4>2. Reported(q)' <=> Reported(q)
        BY <2>3
      <4> QED BY <3>4, <4>1, <4>2 DEF NotesInv, NotesUncancelled
    <3> QED BY <2>1, <3>1, <3>2, <3>3, <3>4 DEF NotesUncancelled
  <2>9. LiveAreNoted'
    <3> SUFFICES ASSUME discards, NEW q \in InQueue' \ cancelled,
                        url[q] \notin robbed', op'[q] # "caching"
                 PROVE  opsPerURL'[url[q]] = q
      BY <2>1 DEF LiveAreNoted
    <3>1. q # r /\ q \in InQueue /\ q \in Requests /\ url[q] \in URLs /\ url[q] \notin robbed
      BY <1>1, <2>1, <2>2, <2>4, <2>7
    <3>2. opsPerURL[url[q]] = q
      BY <2>4, <3>1 DEF NotesInv, LiveAreNoted
    <3>3. url[q] # url[r]
      <4> SUFFICES ASSUME url[q] = url[r] PROVE FALSE
        OBVIOUS
      <4>1. opsPerURL[url[r]] = q
        BY <3>2
      <4>2. CASE r \in cancelled
        BY <2>1, <3>1, <4>1, <4>2
      <4>3. CASE r \notin cancelled
        <5>1. opsPerURL[url[r]] = r
          BY <2>1, <2>7, <3>1, <4>3 DEF NotesInv, LiveAreNoted
        <5> QED BY <3>1, <4>1, <5>1
      <4> QED BY <4>2, <4>3
    <3> QED BY <2>5, <3>1, <3>2, <3>3
  <2> QED BY <2>6, <2>8, <2>9 DEF NotesInv
<1>9. CASE Complete(r)
  <2>1. /\ op[r] = "caching" /\ handled' = handled /\ DispatchHandler(r) /\ Goto(r, "done")
        /\ UNCHANGED <<discards, answers, url, opsPerURL, cancelled, icon, main, robbed>>
    BY <1>9 DEF Complete
  <2>2. r \in icon
    BY <2>1 DEF IInv, CachedWasFound
  <2>3. \A q \in Requests : Reported(q)' <=> Reported(q) \/ q = r
    BY <2>1, Dispatched
  <2>4. \A q \in Requests : op'[q] = IF q = r THEN "done" ELSE op[q]
    BY <1>2, <2>1
  <2>5. IconsReported'
    BY <2>1, <2>2, <2>3, <2>4 DEF NotesInv, IconsReported
  <2>6. InQueue' \subseteq InQueue /\ InQueue \ cancelled \subseteq Requests
        /\ r \notin InQueue'
    BY <2>1, <2>4 DEF InQueue
  <2>7. NotesUncancelled'
    BY <1>1, <2>1, <2>2, <2>3, <2>4, <2>6 DEF NotesInv, NotesUncancelled
  <2>8. LiveAreNoted'
    BY <2>1, <2>4, <2>6 DEF NotesInv, LiveAreNoted
  <2> QED BY <2>5, <2>7, <2>8 DEF NotesInv
<1> QED BY <1>5, <1>6, <1>7, <1>8, <1>9 DEF OnThread

(* Every step keeps the invariant behind the notes.                        *)
LEMMA NotesStep == IInv /\ NotesInv /\ [Next]_vars => NotesInv'
<1> SUFFICES ASSUME IInv, NotesInv, [Next]_vars PROVE NotesInv'
  OBVIOUS
<1> USE DEF settings, ghostVars
<1>1. ASSUME UNCHANGED <<settings, opsPerURL, op, cancelled, icon, main, robbed>>,
             UNCHANGED <<mainQueue, handled>>
      PROVE  NotesInv'
  <2>1. \A q \in Requests : Reported(q)' <=> Reported(q)
    BY <1>1 DEF Reported, Elems
  <2> QED BY <1>1, <2>1, NotesKept
<1>2. CASE MainCallsHandler
  BY <1>2, HandlerCalled, NotesKept DEF MainCallsHandler
<1>3. CASE CancelAllOperations
  <2>1. /\ main' \in Emptying /\ cancelled' = cancelled \cup InQueue
        /\ UNCHANGED <<discards, answers, url, opsPerURL, op, icon, mainQueue, handled, robbed>>
    BY <1>3 DEF CancelAllOperations, Emptying
  <2>2. \A q \in Requests : Reported(q)' <=> Reported(q)
    BY <2>1 DEF Reported, Elems
  <2>3. InQueue' = InQueue
    BY <2>1 DEF InQueue
  <2>4. IconsReported'
    BY <2>1, <2>2 DEF NotesInv, IconsReported, At
  <2>5. NotesUncancelled'
    BY <2>1, <2>2, <2>3 DEF NotesInv, NotesUncancelled, At, InQueue
  <2>6. LiveAreNoted'
    BY <2>1, <2>3 DEF NotesInv, LiveAreNoted, At
  <2> QED BY <2>4, <2>5, <2>6 DEF NotesInv
<1>4. CASE EmptyOpsPerURL
  <2>1. /\ main \in Emptying /\ main' \notin Emptying
        /\ \A u \in URLs : opsPerURL'[u] = None
        /\ UNCHANGED <<discards, answers, url, op, cancelled, icon, mainQueue, handled, robbed>>
    BY <1>4 DEF EmptyOpsPerURL, Emptying
  <2>2. \A q \in Requests : Reported(q)' <=> Reported(q)
    BY <2>1 DEF Reported, Elems
  <2>3. InQueue' = InQueue /\ InQueue \subseteq cancelled
    BY <2>1 DEF InQueue, NotesInv, NotesUncancelled
  <2>4. IconsReported'
    BY <2>1, <2>2 DEF NotesInv, IconsReported, At
  <2>5. NotesUncancelled'
    BY <2>1, <2>2, <2>3 DEF NotesInv, NotesUncancelled, At
  <2>6. LiveAreNoted'
    BY <2>1, <2>3 DEF LiveAreNoted
  <2> QED BY <2>4, <2>5, <2>6 DEF NotesInv
<1>5. CASE RemoveAllObjects
  <2>1. /\ main \notin Emptying /\ main' \notin Emptying
        /\ UNCHANGED <<discards, answers, url, opsPerURL, op, cancelled, icon, mainQueue,
                       handled, robbed>>
    BY <1>5 DEF RemoveAllObjects, Emptying
  <2>2. \A q \in Requests : Reported(q)' <=> Reported(q)
    BY <2>1 DEF Reported, Elems
  <2>3. InQueue' = InQueue
    BY <2>1 DEF InQueue
  <2>4. IconsReported'
    BY <2>1, <2>2 DEF NotesInv, IconsReported, At
  <2>5. NotesUncancelled'
    BY <2>1, <2>2, <2>3 DEF NotesInv, NotesUncancelled, At, IInv, TypeOK
  <2>6. LiveAreNoted'
    BY <2>1, <2>3 DEF NotesInv, LiveAreNoted, At
  <2> QED BY <2>4, <2>5, <2>6 DEF NotesInv
<1>6. CASE \/ (\E r \in Requests : SaveImage(r)) \/ (\E k \in Keys : Evict(k))
           \/ UNCHANGED vars
  BY <1>1, <1>6 DEF SaveImage, Evict, vars
<1> QED BY <1>2, <1>3, <1>4, <1>5, <1>6, NotedOnce, NotesOnThread DEF Next

(* Notes, reports and cancellations fit together in every reachable state. *)
THEOREM NotesInvCorrect == Spec => []NotesInv
<1>1. Init => NotesInv
  <2> SUFFICES ASSUME Init PROVE NotesInv
    OBVIOUS
  <2>1. \A r \in Requests : ~Reported(r)
    BY DEF Init, Reported, Elems
  <2>2. InQueue = {}
    BY DEF Init, InQueue
  <2> QED BY <2>1, <2>2 DEF Init, NotesInv, IconsReported, NotesUncancelled, LiveAreNoted,
                             Emptying, At
<1> QED BY <1>1, NotesStep, InvCorrect, PTL DEF Spec

(* No request is discarded for an operation that ended without an icon:    *)
(* only a preflight that found one in the cache leaves its note.           *)
THEOREM NotesCorrect == Spec => []NotesAreLive
<1>1. IInv /\ NotesInv => NotesAreLive
  <2> SUFFICES ASSUME IInv, NotesInv, main = "idle", NEW u \in URLs,
                      opsPerURL[u] # None, At(opsPerURL[u], "done")
               PROVE  /\ opsPerURL[u] \notin icon
                      /\ \/ handled[opsPerURL[u]] > 0
                         \/ Contains(mainQueue, opsPerURL[u])
    BY DEF NotesAreLive
  <2>1. opsPerURL[u] \notin icon /\ Reported(opsPerURL[u])
    BY DEF NotesInv, NotesUncancelled, Emptying
  <2> QED BY <2>1 DEF Reported, Elems, Contains
<1> QED BY <1>1, InvCorrect, NotesInvCorrect, PTL

(* With discardRequestsForIconsWithPendingOperation no two operations that *)
(* nobody cancelled look for the icon of one URL.                          *)
THEOREM OneOperation == Spec => []OneOperationPerURL
<1>1. NotesInv => OneOperationPerURL
  <2> SUFFICES ASSUME NotesInv, discards, NEW r \in InQueue \ cancelled,
                      NEW q \in InQueue \ cancelled, url[r] = url[q],
                      url[r] \notin robbed, "caching" \notin {op[r], op[q]}
               PROVE  r = q
    BY DEF OneOperationPerURL
  <2>1. opsPerURL[url[r]] = r /\ opsPerURL[url[q]] = q
    BY DEF NotesInv, LiveAreNoted, At
  <2> QED BY <2>1
<1> QED BY <1>1, NotesInvCorrect, PTL

(* When all is quiet, every icon found has been reported exactly once, and *)
(* nothing else has, unless the cache had it.                              *)
THEOREM IconsHandled == Spec => []FoundIsHandled
<1>1. IInv /\ NotesInv => FoundIsHandled
  <2> SUFFICES ASSUME IInv, NotesInv, InQueue = {}, mainQueue = <<>>, NEW r \in Requests
               PROVE  /\ r \in icon => handled[r] = 1
                      /\ handled[r] > 0 => answers \/ r \in icon
    BY DEF FoundIsHandled
  <2>1. Elems(mainQueue) = {}
    BY DEF Elems
  <2>2. handled[r] \in {0, 1}
    BY DEF IInv, HandledOnce
  <2>3. r \in icon => op[r] = "done"
    BY DEF NotesInv, IconsReported, InQueue
  <2> QED BY <2>1, <2>2, <2>3 DEF NotesInv, IconsReported, Reported, At
<1> QED BY <1>1, InvCorrect, NotesInvCorrect, PTL
=============================================================================
