----------------------- MODULE SerialPortManager_proofs -----------------------
(***************************************************************************)
(* Proofs about SerialPortManager, for any paths, objects and number of    *)
(* times devices come and go.                                              *)
(***************************************************************************)
EXTENDS SerialPortManager, FiniteSetTheorems, TLAPS

USE ManagerAssumption

-----------------------------------------------------------------------------
(* A new object for a path is one of the path and none of the living, if   *)
(* none of the path lives.                                                 *)
LEMMA NewPortIs ==
  ASSUME NEW p \in Paths, \A o \in Live : PathOf(o) # p
  PROVE  /\ NewPort(p) \in Ports /\ PathOf(NewPort(p)) = p
         /\ NewPort(p) \notin Live
<1>1. PICK i : i \in Instances
  OBVIOUS
<1>2. <<p, i>> \in Ports /\ PathOf(<<p, i>>) = p
  BY <1>1 DEF Ports, PathOf
<1>3. \E o \in Ports : PathOf(o) = p /\ o \notin Live
  BY <1>2
<1> QED BY <1>3 DEF NewPort

(* initWithDevice: gives a port of the path, a living one if there is one. *)
LEMMA DeviceIs ==
  ASSUME NEW p \in Paths
  PROVE  /\ initWithDevice(p) \in Ports /\ PathOf(initWithDevice(p)) = p
         /\ \A o \in Live : PathOf(o) = p => initWithDevice(p) \in Live
<1> DEFINE existing == { o \in Live : PathOf(o) = p }
<1>1. CASE existing = {}
  <2>1. \A o \in Live : PathOf(o) # p
    BY <1>1
  <2> QED BY <1>1, <2>1, NewPortIs DEF initWithDevice
<1>2. CASE existing # {}
  <2>1. initWithDevice(p) = CHOOSE o \in existing : TRUE
    BY <1>2 DEF initWithDevice
  <2>2. initWithDevice(p) \in existing
    BY <1>2, <2>1
  <2> QED BY <2>2 DEF Live
<1> QED BY <1>1, <1>2

(* Every port has a path.                                                  *)
LEMMA PathIsPath == \A o \in Ports : PathOf(o) \in Paths
  BY DEF Ports, PathOf

(* A step that brings no object to life but those initWithDevice: gives    *)
(* keeps one object per path.                                              *)
LEMMA LiveGrows ==
  ASSUME SameInstance,
         \A o \in Live' : o \in Live \/ \E p \in Paths : o = initWithDevice(p)
  PROVE  SameInstance'
<1>1. \A o \in Live' : o = initWithDevice(PathOf(o))
  <2> SUFFICES ASSUME NEW o \in Live' PROVE o = initWithDevice(PathOf(o))
    OBVIOUS
  <2>1. CASE o \in Live
    <3>1. o \in Ports /\ PathOf(o) \in Paths
      BY <2>1, PathIsPath DEF Live
    <3>2. /\ initWithDevice(PathOf(o)) \in Live
          /\ PathOf(initWithDevice(PathOf(o))) = PathOf(o)
      BY <2>1, <3>1, DeviceIs
    <3> QED BY <2>1, <3>2 DEF SameInstance
  <2>2. CASE \E p \in Paths : o = initWithDevice(p)
    BY <2>2, DeviceIs
  <2> QED BY <2>1, <2>2
<1>2. \A o1, o2 \in Live' : PathOf(o1) = PathOf(o2) => o1 = o2
  BY <1>1
<1> QED BY <1>2 DEF SameInstance

-----------------------------------------------------------------------------
(* open and close keep the types of the ports, and a port that they leave  *)
(* open or closing was so before or is one they were given.                *)
PortsTyped ==
  /\ isOpen \in [Ports -> {"closed", "open", "closing"}]
  /\ openedOn \in [Ports -> 0..(MaxPlugs + 1)]
  /\ \A o \in Ports : (isOpen[o] = "closed") = (openedOn[o] = 0)

(* ... by open,                                                            *)
LEMMA OpenType ==
  ASSUME TypeOK, NEW os, open(os)
  PROVE  /\ PortsTyped'
         /\ \A o \in Ports : isOpen'[o] # "closed" => isOpen[o] # "closed" \/ o \in os
<1>1. \A o \in Ports : isOpen'[o] = IF o \in os /\ isOpen[o] = "closed" /\ Present(PathOf(o))
                                    THEN "open" ELSE isOpen[o]
  BY DEF open, OpensIn
<1>2. \A o \in Ports : openedOn'[o] = IF isOpen[o] = "closed" /\ isOpen'[o] = "open"
                                      THEN plugged[PathOf(o)] ELSE openedOn[o]
  BY DEF open
<1>3. \A o \in Ports : plugged[PathOf(o)] \in 0..(MaxPlugs + 1)
  BY PathIsPath DEF TypeOK
<1>4. \A o \in Ports : Present(PathOf(o)) => plugged[PathOf(o)] # 0
  <2>1. 0 % 2 = 0
    OBVIOUS
  <2> QED BY <2>1 DEF Present
<1>5. isOpen' \in [Ports -> {"closed", "open", "closing"}]
  BY DEF open, OpensIn, TypeOK
<1>6. openedOn' \in [Ports -> 0..(MaxPlugs + 1)]
  <2>1. openedOn' = [o \in Ports |-> IF isOpen[o] = "closed" /\ isOpen'[o] = "open"
                                     THEN plugged[PathOf(o)] ELSE openedOn[o]]
    BY DEF open
  <2> QED BY <1>3, <2>1 DEF TypeOK
<1>7. \A o \in Ports : (isOpen'[o] = "closed") = (openedOn'[o] = 0)
  BY <1>1, <1>2, <1>4 DEF TypeOK
<1>8. \A o \in Ports : isOpen'[o] # "closed" => isOpen[o] # "closed" \/ o \in os
  BY <1>1
<1> QED BY <1>5, <1>6, <1>7, <1>8 DEF PortsTyped

(* ... and by close.                                                       *)
LEMMA CloseType ==
  ASSUME TypeOK, NEW os, close(os)
  PROVE  /\ PortsTyped'
         /\ \A o \in Ports : isOpen'[o] # "closed" => isOpen[o] # "closed"
<1>1. \A o \in Ports : isOpen'[o] = IF o \in os /\ isOpen[o] = "open"
                                    THEN "closing" ELSE isOpen[o]
  BY DEF close
<1>2. isOpen' \in [Ports -> {"closed", "open", "closing"}] /\ openedOn' = openedOn
  BY DEF close, TypeOK
<1> QED BY <1>1, <1>2 DEF PortsTyped, TypeOK

(* The list after serialPortsWerePublished: counts each object; what it    *)
(* lists was listed or comes from initWithDevice:.                         *)
LEMMA PublishedType ==
  ASSUME TypeOK, SerialPortsWerePublished
  PROVE  /\ availablePorts' \in [Ports -> Nat]
         /\ \A o \in Ports : availablePorts'[o] > 0 =>
              availablePorts[o] > 0 \/ \E p \in Paths : o = initWithDevice(p)
<1> DEFINE ports == initWithDevices(published)
           At(o) == { i \in DOMAIN ports : ports[i] = o }
<1>1. DOMAIN ports = 1..Len(published) /\ \A i \in DOMAIN ports :
        ports[i] = initWithDevice(published[i]) /\ published[i] \in Paths
  BY DEF initWithDevices, TypeOK
<1>2. \A o : IsFiniteSet(At(o)) /\ Cardinality(At(o)) \in Nat
  <2> SUFFICES ASSUME NEW o PROVE IsFiniteSet(At(o)) /\ Cardinality(At(o)) \in Nat
    OBVIOUS
  <2>1. IsFiniteSet(1..Len(published))
    BY FS_Interval DEF TypeOK
  <2>2. At(o) \subseteq 1..Len(published)
    BY <1>1
  <2>3. IsFiniteSet(At(o))
    BY <2>1, <2>2, FS_Subset
  <2> QED BY <2>3, FS_CardinalityType
<1>3. availablePorts' = [o \in Ports |-> IF Listed(PathOf(o)) THEN availablePorts[o]
                                         ELSE Cardinality(At(o))]
  BY DEF SerialPortsWerePublished
<1> HIDE DEF At
<1>4. availablePorts' \in [Ports -> Nat]
  BY <1>2, <1>3 DEF TypeOK
<1>5. \A o \in Ports : At(o) = {} => Cardinality(At(o)) = 0
  BY FS_EmptySet
<1>6. \A o \in Ports : At(o) # {} => \E p \in Paths : o = initWithDevice(p)
  BY <1>1 DEF At
<1>7. \A o \in Ports : availablePorts'[o] > 0 =>
              availablePorts[o] > 0 \/ \E p \in Paths : o = initWithDevice(p)
  BY <1>3, <1>5, <1>6
<1> QED BY <1>4, <1>7

-----------------------------------------------------------------------------
(* Every reachable state is well-typed, and a port has a descriptor        *)
(* exactly if it is not closed.                                            *)
LEMMA TypeStep == TypeOK /\ [Next]_vars => TypeOK'
<1> SUFFICES ASSUME TypeOK, [Next]_vars PROVE TypeOK'
  OBVIOUS
<1> USE DEF deviceVars, portVars, sleepVars
<1>1. CASE RegisterForTerminations
  BY <1>1 DEF RegisterForTerminations, TypeOK
<1>2. CASE SerialPortsWerePublished
  <2>1. availablePorts' \in [Ports -> Nat]
    BY <1>2, PublishedType
  <2>2. published' \in Seq(Paths)
    BY <1>2 DEF SerialPortsWerePublished
  <2> QED BY <1>2, <2>1, <2>2 DEF SerialPortsWerePublished, TypeOK
<1>3. CASE SerialPortsWereTerminated
  <2>1. PortsTyped'
    BY <1>3, CloseType DEF SerialPortsWereTerminated
  <2>2. availablePorts' \in [Ports -> Nat] /\ terminated' \in Seq(Paths)
    BY <1>3 DEF SerialPortsWereTerminated, Without, TypeOK
  <2> QED BY <1>3, <2>1, <2>2 DEF SerialPortsWereTerminated, PortsTyped, TypeOK
<1>4. CASE SystemWillSleep
  <2>1. PortsTyped'
    BY <1>4, CloseType DEF SystemWillSleep
  <2>2. portsToReopenAfterSleep' \subseteq Ports /\ openBefore' \subseteq Paths
    BY <1>4, PathIsPath DEF SystemWillSleep, InList, TypeOK
  <2> QED BY <1>4, <2>1, <2>2 DEF SystemWillSleep, PortsTyped, TypeOK
<1>5. CASE SystemDidWake
  <2>1. PICK refused \in SUBSET portsToReopenAfterSleep : Wakes(refused)
    BY <1>5 DEF SystemDidWake
  <2>2. PortsTyped'
    BY <2>1, OpenType DEF Wakes
  <2> QED BY <2>1, <2>2 DEF Wakes, PortsTyped, TypeOK
<1>6. CASE ApplicationWillTerminate
  <2>1. PortsTyped'
    BY <1>6, CloseType DEF ApplicationWillTerminate
  <2>2. availablePorts' \in [Ports -> Nat]
    BY <1>6 DEF ApplicationWillTerminate, Without, TypeOK
  <2> QED BY <1>6, <2>1, <2>2 DEF ApplicationWillTerminate, PortsTyped, TypeOK
<1>7. ASSUME NEW p \in Paths, PlugIn(p) PROVE TypeOK'
  <2>1. plugged' \in [Paths -> 0..(MaxPlugs + 1)]
    BY <1>7 DEF PlugIn, TypeOK
  <2>2. published' \in Seq(Paths) /\ unseen' \subseteq Paths
    BY <1>7 DEF PlugIn, TypeOK
  <2> QED BY <1>7, <2>1, <2>2 DEF PlugIn, TypeOK
<1>8. ASSUME NEW p \in Paths, Unplug(p) PROVE TypeOK'
  <2>1. plugged' \in [Paths -> 0..(MaxPlugs + 1)]
    BY <1>8 DEF Unplug, TypeOK
  <2>2. terminated' \in Seq(Paths) /\ unseen' \subseteq Paths
    BY <1>8 DEF Unplug, TypeOK
  <2> QED BY <1>8, <2>1, <2>2 DEF Unplug, TypeOK
<1>9. ASSUME NEW o \in Ports, ReallyClosePort(o) PROVE TypeOK'
  BY <1>9 DEF ReallyClosePort, TypeOK
<1>10. ASSUME NEW o \in Ports, PollerNotices(o) \/ ClientCloses(o) PROVE TypeOK'
  <2>1. PortsTyped'
    BY <1>10, CloseType DEF PollerNotices, ClientCloses
  <2> QED BY <1>10, <2>1 DEF PollerNotices, ClientCloses, PortsTyped, TypeOK
<1>11. ASSUME NEW o \in Ports, ClientGets(o) \/ ClientReleases(o) PROVE TypeOK'
  BY <1>11 DEF ClientGets, ClientReleases, TypeOK
<1>12. ASSUME NEW o \in Ports, ClientOpens(o) PROVE TypeOK'
  <2>1. PortsTyped'
    BY <1>12, OpenType DEF ClientOpens
  <2> QED BY <1>12, <2>1 DEF ClientOpens, PortsTyped, TypeOK
<1>13. CASE UNCHANGED vars
  BY <1>13 DEF vars, TypeOK
<1> QED BY <1>1, <1>2, <1>3, <1>4, <1>5, <1>6, <1>7, <1>8, <1>9, <1>10, <1>11,
           <1>12, <1>13 DEF Next

(* The types of the variables hold in every reachable state.               *)
THEOREM TypeCorrect == Spec => []TypeOK
<1>1. Init => TypeOK
  <2> SUFFICES ASSUME Init PROVE TypeOK
    OBVIOUS
  <2>1. plugged \in [Paths -> 0..(MaxPlugs + 1)]
    BY DEF Init
  <2>2. availablePorts \in [Ports -> Nat]
    BY DEF Init
  <2>3. published \in Seq(Paths) /\ terminated \in Seq(Paths)
    BY DEF Init
  <2>4. PortsTyped
    BY DEF Init, PortsTyped
  <2> QED BY <2>1, <2>2, <2>3, <2>4 DEF Init, PortsTyped, TypeOK
<1> QED BY <1>1, TypeStep, PTL DEF Spec

(* What each step brings to life.                                          *)
LEMMA LiveStep ==
  ASSUME TypeOK, [Next]_vars
  PROVE  \A o \in Live' : o \in Live \/ \E p \in Paths : o = initWithDevice(p)
<1> USE DEF Live, InList, deviceVars, portVars, sleepVars
<1>1. CASE RegisterForTerminations
  BY <1>1 DEF RegisterForTerminations
<1>2. CASE SerialPortsWerePublished
  BY <1>2, PublishedType DEF SerialPortsWerePublished
<1>3. CASE SerialPortsWereTerminated
  <2>1. \A o \in Ports : availablePorts'[o] > 0 => availablePorts[o] > 0
    BY <1>3 DEF SerialPortsWereTerminated, Without
  <2> QED BY <1>3, <2>1, CloseType DEF SerialPortsWereTerminated
<1>4. CASE SystemWillSleep
  BY <1>4, CloseType DEF SystemWillSleep
<1>5. CASE SystemDidWake
  <2>1. PICK refused \in SUBSET portsToReopenAfterSleep : Wakes(refused)
    BY <1>5 DEF SystemDidWake
  <2>2. \A o \in Ports : isOpen'[o] # "closed" =>
          isOpen[o] # "closed" \/ o \in portsToReopenAfterSleep \ refused
    BY <2>1, OpenType DEF Wakes
  <2> QED BY <2>1, <2>2 DEF Wakes
<1>6. CASE ApplicationWillTerminate
  <2>1. \A o \in Ports : availablePorts'[o] > 0 => availablePorts[o] > 0
    BY <1>6 DEF ApplicationWillTerminate, Without
  <2> QED BY <1>6, <2>1, CloseType DEF ApplicationWillTerminate
<1>7. CASE \E p \in Paths : PlugIn(p) \/ Unplug(p)
  BY <1>7 DEF PlugIn, Unplug
<1>8. CASE \E o \in Ports : ReallyClosePort(o)
  BY <1>8 DEF ReallyClosePort, TypeOK
<1>9. CASE \E o \in Ports : PollerNotices(o) \/ ClientCloses(o)
  BY <1>9, CloseType DEF PollerNotices, ClientCloses
<1>10. CASE \E o \in Ports : ClientGets(o)
  BY <1>10, PathIsPath DEF ClientGets
<1>11. CASE \E o \in Ports : ClientReleases(o)
  BY <1>11 DEF ClientReleases
<1>12. CASE \E o \in Ports : ClientOpens(o)
  BY <1>12, OpenType DEF ClientOpens
<1>13. CASE UNCHANGED vars
  BY <1>13 DEF vars
<1> QED BY <1>1, <1>2, <1>3, <1>4, <1>5, <1>6, <1>7, <1>8, <1>9, <1>10, <1>11,
           <1>12, <1>13 DEF Next

(* However devices come and go, ports are opened, closed, held and         *)
(* released, the Mac sleeps and wakes: one object for each device.         *)
THEOREM OneObjectPerDevice == Spec => []SameInstance
<1>1. Init => SameInstance
  <2> SUFFICES ASSUME Init PROVE SameInstance
    OBVIOUS
  <2>1. \A o \in Live : o = <<PathOf(o), CHOOSE k \in Instances : TRUE>>
    BY DEF Init, Live, InList
  <2> QED BY <2>1 DEF SameInstance
<1>2. TypeOK /\ SameInstance /\ [Next]_vars => SameInstance'
  BY LiveStep, LiveGrows
<1> QED BY <1>1, <1>2, TypeCorrect, PTL DEF Spec

-----------------------------------------------------------------------------
(* Behind the list.  Of a device whose changes IOKit reported in order     *)
(* there is one report to come at most: that it came, while it is present  *)
(* and not listed, or that it went.  When there is none, the list has it   *)
(* exactly if it is present.                                               *)
ListedOnce(p) ==
  \E o \in Ports : { q \in InList : PathOf(q) = p } = {o} /\ availablePorts[o] = 1

Comes(p) == \E i \in DOMAIN published : published[i] = p
Goes(p)  == \E i \in DOMAIN terminated : terminated[i] = p

ReportedInOrder(p) ==
  /\ \A i, j \in DOMAIN published : published[i] = p /\ published[j] = p => i = j
  /\ Comes(p) => Present(p) /\ ~Goes(p)
  /\ Goes(p) => ~Present(p)

ListedIfPresent(p) ==
  /\ Comes(p) => ~Listed(p)
  /\ Present(p) /\ ~Comes(p) => ListedOnce(p)
  /\ ~Present(p) /\ ~Goes(p) => ~Listed(p)

(* A descriptor was opened while its device was present, and what is to be *)
(* opened again after the sleep has a port to open.                        *)
OpenedPresent == \A o \in Ports : openedOn[o] # 0 => openedOn[o] % 2 = 1

WillReopen ==
  asleep => \A p \in openBefore : \E o \in portsToReopenAfterSleep : PathOf(o) = p

DevicesInv ==
  /\ \A p \in Paths \ unseen : ReportedInOrder(p)
  /\ ~willTerminate => \A p \in Paths \ unseen : ListedIfPresent(p)
  /\ OpenedPresent /\ WillReopen

(* What the invariant is about is left alone by a step that leaves the     *)
(* devices, their reports and the list alone.                              *)
LEMMA DevicesKept ==
  ASSUME UNCHANGED <<plugged, published, terminated, unseen, availablePorts>>,
         NEW p \in Paths
  PROVE  /\ ReportedInOrder(p)' <=> ReportedInOrder(p)
         /\ ListedIfPresent(p)' <=> ListedIfPresent(p)
  BY DEF ReportedInOrder, ListedIfPresent, Comes, Goes, Present, Listed, ListedOnce, InList

(* Coming and going alternate.                                             *)
LEMMA Alternates ==
  ASSUME TypeOK, NEW p \in Paths, plugged' = [plugged EXCEPT ![p] = @ + 1]
  PROVE  /\ Present(p)' <=> ~Present(p)
         /\ \A q \in Paths \ {p} : Present(q)' <=> Present(q)
<1>1. plugged[p] \in Nat /\ plugged'[p] = plugged[p] + 1
  BY DEF TypeOK
<1>2. \A n \in Nat : n % 2 = 1 <=> (n + 1) % 2 # 1
  OBVIOUS
<1>3. \A q \in Paths \ {p} : plugged'[q] = plugged[q]
  BY DEF TypeOK
<1> QED BY <1>1, <1>2, <1>3 DEF Present

(* A report joins those of its iterator.                                   *)
LEMMA ReportJoins ==
  ASSUME NEW s \in Seq(Paths), NEW p \in Paths, NEW t, t = Append(s, p)
  PROVE  /\ \A q : (\E i \in DOMAIN t : t[i] = q) <=> (\E i \in DOMAIN s : s[i] = q) \/ q = p
         /\ \A q : /\ ~(q = p /\ \E i \in DOMAIN s : s[i] = q)
                   /\ \A i, j \in DOMAIN s : s[i] = q /\ s[j] = q => i = j
                   => \A i, j \in DOMAIN t : t[i] = q /\ t[j] = q => i = j
<1> DEFINE n == Len(s)
<1>1. /\ DOMAIN s = 1..n /\ n \in Nat /\ DOMAIN t = 1..(n + 1)
      /\ \A i \in 1..n : t[i] = s[i]
      /\ t[n + 1] = p
  OBVIOUS
<1> HIDE DEF n
<1>2. 1..(n + 1) = 1..n \cup {n + 1}
  BY <1>1
<1>3. \A q : (\E i \in DOMAIN t : t[i] = q) <=> (\E i \in DOMAIN s : s[i] = q) \/ q = p
  BY <1>1, <1>2
<1>4. ASSUME NEW q, ~(q = p /\ \E i \in DOMAIN s : s[i] = q),
             \A i, j \in DOMAIN s : s[i] = q /\ s[j] = q => i = j
      PROVE  \A i, j \in DOMAIN t : t[i] = q /\ t[j] = q => i = j
  BY <1>1, <1>2, <1>4
<1> QED BY <1>3, <1>4

(* A device that comes is reported, and was not listed if it went in       *)
(* order.                                                                  *)
LEMMA PlugInReported ==
  ASSUME TypeOK, DevicesInv, NEW d \in Paths, PlugIn(d)
  PROVE  DevicesInv'
<1>1. /\ ~Present(d) /\ plugged' = [plugged EXCEPT ![d] = @ + 1]
      /\ published' = Append(published, d) /\ published \in Seq(Paths)
      /\ unseen \subseteq unseen' /\ (d \notin unseen' => ~Goes(d))
      /\ UNCHANGED <<terminated, availablePorts, openedOn, portsToReopenAfterSleep,
                     asleep, openBefore, willTerminate>>
  BY DEF PlugIn, Goes, Contains, portVars, sleepVars, TypeOK
<1>2. /\ Present(d)'
      /\ \A q \in Paths \ {d} : Present(q)' <=> Present(q)
  BY <1>1, Alternates
<1>3. \A q : Goes(q)' <=> Goes(q)
  BY <1>1 DEF Goes
<1>4. \A q : Comes(q)' <=> Comes(q) \/ q = d
  BY <1>1, ReportJoins DEF Comes
<1>5. \A q : /\ Listed(q)' <=> Listed(q)
             /\ ListedOnce(q)' <=> ListedOnce(q)
  BY <1>1 DEF Listed, ListedOnce, InList
<1>6. ASSUME NEW p \in Paths \ unseen'
      PROVE  ReportedInOrder(p)'
  <2>1. p \notin unseen /\ ReportedInOrder(p)
    BY <1>1, <1>6 DEF DevicesInv
  <2>2. p = d => ~Comes(p)
    BY <1>1, <2>1 DEF ReportedInOrder
  <2>3. (\A i, j \in DOMAIN published : published[i] = p /\ published[j] = p => i = j)'
    BY <1>1, <2>1, <2>2, ReportJoins DEF ReportedInOrder, Comes
  <2> QED BY <1>1, <1>2, <1>3, <1>4, <1>6, <2>1, <2>3 DEF ReportedInOrder
<1>7. ASSUME ~willTerminate, NEW p \in Paths \ unseen'
      PROVE  ListedIfPresent(p)'
  <2>1. ListedIfPresent(p)
    BY <1>1, <1>7 DEF DevicesInv
  <2>2. p = d => ~Listed(p)
    BY <1>1, <1>7, <2>1 DEF ListedIfPresent
  <2> QED BY <1>2, <1>3, <1>4, <1>5, <2>1, <2>2 DEF ListedIfPresent
<1>8. OpenedPresent' /\ WillReopen'
  BY <1>1 DEF DevicesInv, OpenedPresent, WillReopen
<1> QED BY <1>1, <1>6, <1>7, <1>8 DEF DevicesInv

(* A device that goes is reported, and was listed if it came in order.     *)
LEMMA UnplugReported ==
  ASSUME TypeOK, DevicesInv, NEW d \in Paths, Unplug(d)
  PROVE  DevicesInv'
<1>1. /\ Present(d) /\ plugged' = [plugged EXCEPT ![d] = @ + 1]
      /\ terminated \in Seq(Paths) /\ unseen \subseteq unseen'
      /\ d \notin unseen' => ~Comes(d) /\ terminated' = Append(terminated, d)
      /\ terminated' \in {terminated, Append(terminated, d)}
      /\ UNCHANGED <<published, availablePorts, openedOn, portsToReopenAfterSleep,
                     asleep, openBefore, willTerminate>>
  BY DEF Unplug, Comes, Contains, portVars, sleepVars, TypeOK
<1>2. /\ ~Present(d)'
      /\ \A q \in Paths \ {d} : Present(q)' <=> Present(q)
  BY <1>1, Alternates
<1>3. \A q : Comes(q)' <=> Comes(q)
  BY <1>1 DEF Comes
<1>4. \A q : q \notin unseen' => (Goes(q)' <=> Goes(q) \/ q = d)
  <2>1. CASE terminated' = Append(terminated, d)
    BY <1>1, <2>1, ReportJoins DEF Goes
  <2>2. CASE terminated' = terminated /\ d \in unseen'
    BY <2>2 DEF Goes
  <2> QED BY <1>1, <2>1, <2>2
<1>5. \A q : /\ Listed(q)' <=> Listed(q)
             /\ ListedOnce(q)' <=> ListedOnce(q)
  BY <1>1 DEF Listed, ListedOnce, InList
<1>6. ASSUME NEW p \in Paths \ unseen'
      PROVE  ReportedInOrder(p)'
  <2>1. p \notin unseen /\ ReportedInOrder(p)
    BY <1>1, <1>6 DEF DevicesInv
  <2> QED BY <1>1, <1>2, <1>3, <1>4, <1>6, <2>1 DEF ReportedInOrder
<1>7. ASSUME ~willTerminate, NEW p \in Paths \ unseen'
      PROVE  ListedIfPresent(p)'
  <2>1. ListedIfPresent(p)
    BY <1>1, <1>7 DEF DevicesInv
  <2> QED BY <1>1, <1>2, <1>3, <1>4, <1>5, <1>7, <2>1 DEF ListedIfPresent
<1>8. OpenedPresent' /\ WillReopen'
  BY <1>1 DEF DevicesInv, OpenedPresent, WillReopen
<1> QED BY <1>1, <1>6, <1>7, <1>8 DEF DevicesInv

(* serialPortsWerePublished: lists each device that came, once.            *)
LEMMA PublishedListed ==
  ASSUME TypeOK, DevicesInv, SerialPortsWerePublished
  PROVE  DevicesInv'
<1> DEFINE ports == initWithDevices(published)
           At(o) == { i \in DOMAIN ports : ports[i] = o }
<1>1. /\ published' = <<>> /\ ~willTerminate
      /\ UNCHANGED <<plugged, terminated, unseen, openedOn, portsToReopenAfterSleep,
                     asleep, openBefore, willTerminate>>
  BY DEF SerialPortsWerePublished, portVars, sleepVars
<1>2. \A q : ~Comes(q)' /\ (Goes(q)' <=> Goes(q)) /\ (Present(q)' <=> Present(q))
  BY <1>1 DEF Comes, Goes, Present
<1>3. \A o \in Ports : availablePorts'[o] = IF Listed(PathOf(o)) THEN availablePorts[o]
                                            ELSE Cardinality(At(o))
  BY DEF SerialPortsWerePublished
<1>4. /\ DOMAIN ports = DOMAIN published
      /\ \A i \in DOMAIN published : /\ ports[i] = initWithDevice(published[i])
                                     /\ ports[i] \in Ports /\ PathOf(ports[i]) = published[i]
  BY DeviceIs DEF initWithDevices, TypeOK
<1> HIDE DEF ports
<1>5. \A p \in Paths \ unseen : ReportedInOrder(p)'
  BY <1>1, <1>2 DEF DevicesInv, ReportedInOrder
<1>6. ASSUME NEW p \in Paths \ unseen, Listed(p)
      PROVE  /\ Listed(p)' /\ (ListedOnce(p)' <=> ListedOnce(p))
  <2>1. \A o \in Ports : PathOf(o) = p => availablePorts'[o] = availablePorts[o]
    BY <1>3, <1>6
  <2>2. { q \in InList' : PathOf(q) = p } = { q \in InList : PathOf(q) = p }
    BY <2>1 DEF InList
  <2>3. ListedOnce(p) => ListedOnce(p)'
    BY <2>1, <2>2 DEF ListedOnce, InList
  <2>4. ListedOnce(p)' => ListedOnce(p)
    BY <2>1, <2>2 DEF ListedOnce, InList
  <2> QED BY <1>6, <2>2, <2>3, <2>4 DEF Listed
<1>7. ASSUME NEW p \in Paths \ unseen, ~Listed(p), ~Comes(p)
      PROVE  ~Listed(p)'
  <2>1. ASSUME NEW o \in Ports, PathOf(o) = p
        PROVE  availablePorts'[o] = 0
    <3>1. At(o) = {}
      BY <1>4, <1>7, <2>1 DEF Comes
    <3> QED BY <1>3, <1>7, <2>1, <3>1, FS_EmptySet
  <2> QED BY <2>1 DEF Listed, InList
<1>8. ASSUME NEW p \in Paths \ unseen, ~Listed(p), Comes(p)
      PROVE  Listed(p)' /\ ListedOnce(p)'
  <2>1. PICK k \in DOMAIN published : published[k] = p
    BY <1>8 DEF Comes
  <2>2. \A i \in DOMAIN published : published[i] = p => i = k
    BY <2>1 DEF DevicesInv, ReportedInOrder
  <2>3. ports[k] \in Ports /\ PathOf(ports[k]) = p
    BY <1>4, <2>1
  <2>4. At(ports[k]) = {k}
    BY <1>4, <2>1, <2>2
  <2>5. availablePorts'[ports[k]] = 1
    BY <1>3, <1>8, <2>3, <2>4, FS_Singleton
  <2>6. ASSUME NEW o \in Ports, PathOf(o) = p, o # ports[k]
        PROVE  availablePorts'[o] = 0
    <3>1. At(o) = {}
      BY <1>4, <2>2, <2>6
    <3> QED BY <1>3, <1>8, <2>6, <3>1, FS_EmptySet
  <2>7. { q \in InList' : PathOf(q) = p } = {ports[k]}
    BY <2>3, <2>5, <2>6 DEF InList
  <2>8. ListedOnce(p)'
    BY <2>3, <2>5, <2>7 DEF ListedOnce
  <2> QED BY <2>7, <2>8 DEF Listed
<1>9. \A p \in Paths \ unseen : ListedIfPresent(p)'
  <2> SUFFICES ASSUME NEW p \in Paths \ unseen PROVE ListedIfPresent(p)'
    OBVIOUS
  <2>1. ListedIfPresent(p) /\ ReportedInOrder(p)
    BY <1>1 DEF DevicesInv
  <2>2. ListedOnce(p) => Listed(p)
    BY DEF ListedOnce, Listed
  <2>3. Present(p) => ListedOnce(p)'
    <3>1. CASE Comes(p)
      BY <1>8, <2>1, <3>1 DEF ListedIfPresent
    <3>2. CASE ~Comes(p)
      BY <1>6, <2>1, <2>2, <3>2 DEF ListedIfPresent
    <3> QED BY <3>1, <3>2
  <2>4. ~Present(p) /\ ~Goes(p) => ~Listed(p)'
    BY <1>7, <2>1 DEF ListedIfPresent, ReportedInOrder
  <2> QED BY <1>2, <2>3, <2>4 DEF ListedIfPresent
<1>10. OpenedPresent' /\ WillReopen'
  BY <1>1 DEF DevicesInv, OpenedPresent, WillReopen
<1> QED BY <1>1, <1>5, <1>9, <1>10 DEF DevicesInv

(* serialPortsWereTerminated: takes those that went out of the list.       *)
LEMMA TerminatedUnlisted ==
  ASSUME TypeOK, DevicesInv, SerialPortsWereTerminated
  PROVE  DevicesInv'
<1>1. /\ terminated' = <<>> /\ ~willTerminate /\ openedOn' = openedOn
      /\ UNCHANGED <<plugged, published, unseen, portsToReopenAfterSleep,
                     asleep, openBefore, willTerminate>>
  BY DEF SerialPortsWereTerminated, close, sleepVars
<1>2. \A q : ~Goes(q)' /\ (Comes(q)' <=> Comes(q)) /\ (Present(q)' <=> Present(q))
  BY <1>1 DEF Comes, Goes, Present
<1>3. \A q : q \in ToSet(terminated) <=> Goes(q)
  BY DEF ToSet, Goes
<1>4. \A o \in Ports : availablePorts'[o] = IF Goes(PathOf(o)) THEN 0 ELSE availablePorts[o]
  BY <1>3 DEF SerialPortsWereTerminated, Without
<1>5. \A p \in Paths \ unseen : ReportedInOrder(p)'
  BY <1>1, <1>2 DEF DevicesInv, ReportedInOrder
<1>6. ASSUME NEW p \in Paths \ unseen, ~Goes(p)
      PROVE  (Listed(p)' <=> Listed(p)) /\ (ListedOnce(p) => ListedOnce(p)')
  <2>1. \A o \in Ports : PathOf(o) = p => availablePorts'[o] = availablePorts[o]
    BY <1>4, <1>6
  <2>2. { q \in InList' : PathOf(q) = p } = { q \in InList : PathOf(q) = p }
    BY <2>1 DEF InList
  <2>3. ListedOnce(p) => ListedOnce(p)'
    BY <2>1, <2>2 DEF ListedOnce, InList
  <2> QED BY <2>2, <2>3 DEF Listed
<1>7. ASSUME NEW p \in Paths \ unseen, Goes(p)
      PROVE  ~Listed(p)'
  BY <1>4, <1>7 DEF Listed, InList
<1>8. \A p \in Paths \ unseen : ListedIfPresent(p)'
  <2> SUFFICES ASSUME NEW p \in Paths \ unseen PROVE ListedIfPresent(p)'
    OBVIOUS
  <2>1. ListedIfPresent(p) /\ ReportedInOrder(p)
    BY <1>1 DEF DevicesInv
  <2> QED BY <1>2, <1>6, <1>7, <2>1 DEF ListedIfPresent, ReportedInOrder
<1>9. OpenedPresent' /\ WillReopen'
  BY <1>1 DEF DevicesInv, OpenedPresent, WillReopen
<1> QED BY <1>1, <1>5, <1>8, <1>9 DEF DevicesInv

(* What opens ports opens them on devices that are present.                *)
LEMMA OpensPresent ==
  ASSUME TypeOK, OpenedPresent, NEW os, open(os)
  PROVE  OpenedPresent'
<1>1. ASSUME NEW o \in Ports, openedOn'[o] # openedOn[o]
      PROVE  Present(PathOf(o)) /\ openedOn'[o] = plugged[PathOf(o)]
  <2>1. /\ isOpen[o] = "closed" /\ isOpen'[o] = "open"
        /\ openedOn'[o] = plugged[PathOf(o)]
    BY <1>1 DEF open
  <2>2. Present(PathOf(o))
    BY <2>1 DEF open, OpensIn
  <2> QED BY <2>1, <2>2
<1> QED BY <1>1 DEF OpenedPresent, Present

(* Every step keeps the invariant behind the list.                         *)
LEMMA DevicesStep == TypeOK /\ DevicesInv /\ [Next]_vars => DevicesInv'
<1> SUFFICES ASSUME TypeOK, DevicesInv, [Next]_vars PROVE DevicesInv'
  OBVIOUS
<1> USE DEF deviceVars, portVars, sleepVars
<1>1. ASSUME UNCHANGED <<plugged, published, terminated, unseen, availablePorts>>,
             willTerminate' = willTerminate, OpenedPresent', WillReopen'
      PROVE  DevicesInv'
  BY <1>1, DevicesKept DEF DevicesInv
<1>2. OpenedPresent /\ WillReopen
  BY DEF DevicesInv
<1>3. ASSUME UNCHANGED <<asleep, openBefore, portsToReopenAfterSleep>>
      PROVE  WillReopen'
  BY <1>2, <1>3 DEF WillReopen
<1>4. ASSUME openedOn' = openedOn
      PROVE  OpenedPresent'
  BY <1>2, <1>4 DEF OpenedPresent
<1>5. CASE SystemWillSleep
  <2>1. /\ openedOn' = openedOn
        /\ portsToReopenAfterSleep' = portsToReopenAfterSleep
                                        \cup { o \in InList : isOpen[o] # "closed" }
        /\ openBefore' = { PathOf(o) : o \in { x \in InList : isOpen[x] = "open" } }
        /\ UNCHANGED <<deviceVars, availablePorts, willTerminate>>
    BY <1>5 DEF SystemWillSleep, close
  <2>2. WillReopen'
    BY <2>1 DEF WillReopen
  <2> QED BY <1>1, <1>4, <2>1, <2>2
<1>6. CASE SystemDidWake
  <2>0. PICK refused \in SUBSET portsToReopenAfterSleep : Wakes(refused)
    BY <1>6 DEF SystemDidWake
  <2>1. OpenedPresent'
    BY <1>2, <2>0, OpensPresent DEF Wakes
  <2>2. asleep' = FALSE /\ UNCHANGED <<deviceVars, availablePorts, willTerminate>>
    BY <2>0 DEF Wakes
  <2>3. WillReopen'
    BY <2>2 DEF WillReopen
  <2> QED BY <1>1, <2>1, <2>2, <2>3
<1>7. CASE ApplicationWillTerminate
  <2>1. /\ openedOn' = openedOn /\ willTerminate'
        /\ UNCHANGED <<deviceVars, sleepVars>>
    BY <1>7 DEF ApplicationWillTerminate, close
  <2>2. \A p \in Paths : ReportedInOrder(p)' <=> ReportedInOrder(p)
    BY <2>1 DEF ReportedInOrder, Comes, Goes, Present
  <2> QED BY <1>3, <1>4, <2>1, <2>2 DEF DevicesInv
<1>8. CASE \E o \in Ports : \/ PollerNotices(o) \/ ClientGets(o)
                            \/ ClientReleases(o) \/ ClientCloses(o)
  <2>1. openedOn' = openedOn /\ UNCHANGED <<deviceVars, availablePorts, sleepVars, willTerminate>>
    BY <1>8 DEF PollerNotices, ClientGets, ClientReleases, ClientCloses, close
  <2> QED BY <1>1, <1>3, <1>4, <2>1
<1>9. ASSUME NEW o \in Ports, ReallyClosePort(o)
      PROVE  DevicesInv'
  <2>1. /\ \A x \in Ports : openedOn'[x] = IF x = o THEN 0 ELSE openedOn[x]
        /\ UNCHANGED <<deviceVars, availablePorts, sleepVars, willTerminate>>
    BY <1>9 DEF ReallyClosePort, TypeOK
  <2>2. OpenedPresent'
    BY <1>2, <2>1 DEF OpenedPresent
  <2> QED BY <1>1, <1>3, <2>1, <2>2
<1>10. ASSUME NEW o \in Ports, ClientOpens(o)
       PROVE  DevicesInv'
  <2>1. open({o}) /\ UNCHANGED <<deviceVars, availablePorts, sleepVars, willTerminate>>
    BY <1>10 DEF ClientOpens
  <2> QED BY <1>1, <1>2, <1>3, <2>1, OpensPresent
<1>11. CASE RegisterForTerminations \/ UNCHANGED vars
  <2>1. openedOn' = openedOn /\ UNCHANGED <<plugged, published, terminated, unseen,
                                            availablePorts, sleepVars, willTerminate>>
    BY <1>11 DEF RegisterForTerminations, vars
  <2> QED BY <1>1, <1>3, <1>4, <2>1
<1> QED BY <1>5, <1>6, <1>7, <1>8, <1>9, <1>10, <1>11, PlugInReported, UnplugReported,
           PublishedListed, TerminatedUnlisted DEF Next

(* Devices, reports and the list fit together in every reachable state.    *)
THEOREM DevicesCorrect == Spec => []DevicesInv
<1>1. Init => DevicesInv
  <2> SUFFICES ASSUME Init PROVE DevicesInv
    OBVIOUS
  <2>1. \A p \in Paths : ~Comes(p) /\ ~Goes(p)
    BY DEF Init, Comes, Goes
  <2>2. \A p \in Paths : ReportedInOrder(p)
    BY <2>1 DEF Init, ReportedInOrder, Comes, Goes
  <2> DEFINE First(p) == <<p, CHOOSE k \in Instances : TRUE>>
  <2>3. \A o \in Ports : availablePorts[o] = IF Present(PathOf(o)) /\ o = First(PathOf(o))
                                             THEN 1 ELSE 0
    BY DEF Init
  <2>4. ASSUME NEW p \in Paths
        PROVE  ListedIfPresent(p)
    <3>1. First(p) \in Ports /\ PathOf(First(p)) = p
      BY DEF Ports, PathOf
    <3> HIDE DEF First
    <3>2. CASE Present(p)
      <4>1. availablePorts[First(p)] = 1
        BY <2>3, <3>1, <3>2
      <4>2. { q \in InList : PathOf(q) = p } = {First(p)}
        BY <2>3, <3>1, <3>2, <4>1 DEF InList
      <4> QED BY <2>1, <3>1, <3>2, <4>1, <4>2 DEF ListedIfPresent, ListedOnce
    <3>3. CASE ~Present(p)
      BY <2>1, <2>3, <3>3 DEF ListedIfPresent, Listed, InList
    <3> QED BY <3>2, <3>3
  <2>5. OpenedPresent /\ WillReopen
    BY DEF Init, OpenedPresent, WillReopen
  <2> QED BY <2>2, <2>4, <2>5 DEF DevicesInv
<1> QED BY <1>1, DevicesStep, TypeCorrect, PTL DEF Spec

(* Once every notification is handled availablePorts has each device that  *)
(* is present exactly once and no other.                                   *)
THEOREM ListCorrect == Spec => []ListIsExact
<1>1. DevicesInv => ListIsExact
  <2> SUFFICES ASSUME DevicesInv, published = <<>>, terminated = <<>>, ~willTerminate,
                      NEW p \in Paths \ unseen
               PROVE  LET listed == { o \in InList : PathOf(o) = p }
                      IN  IF Present(p)
                          THEN \E o \in Ports : listed = {o} /\ availablePorts[o] = 1
                          ELSE listed = {}
    BY DEF ListIsExact
  <2>1. ~Comes(p) /\ ~Goes(p) /\ ListedIfPresent(p)
    BY DEF DevicesInv, Comes, Goes
  <2> QED BY <2>1 DEF ListedIfPresent, ListedOnce, Listed
<1> QED BY <1>1, DevicesCorrect, PTL

-----------------------------------------------------------------------------
(* A port that is open is open on the device of this moment, or the        *)
(* device's termination is still to be handled; and while terminations are *)
(* not reported yet nobody has a port.                                     *)
RemovalInv ==
  /\ \A o \in Ports : isOpen[o] = "open" =>
       openedOn[o] = plugged[PathOf(o)] \/ Goes(PathOf(o))
  /\ \A o \in Ports : isOpen[o] # "closed" \/ o \in held
                        \/ o \in portsToReopenAfterSleep => registered

(* It is only about ports, who has them, the devices and the terminations. *)
LEMMA RemovalKept ==
  ASSUME RemovalInv, UNCHANGED <<plugged, terminated, registered, openedOn>>,
         \A o \in Ports : /\ isOpen'[o] # "closed" => isOpen[o] # "closed"
                          /\ isOpen'[o] = "open" => isOpen[o] = "open",
         \A o \in held' : o \in held \/ registered,
         \A o \in portsToReopenAfterSleep' : o \in portsToReopenAfterSleep \/ registered
  PROVE  RemovalInv'
  BY DEF RemovalInv, Goes

(* open opens on the device of this moment.                                *)
LEMMA OpenKeepsRemoval ==
  ASSUME TypeOK, RemovalInv, NEW os, open(os),
         UNCHANGED <<plugged, terminated, registered, held>>,
         \A o \in os : o \in held \/ o \in portsToReopenAfterSleep,
         portsToReopenAfterSleep' \subseteq portsToReopenAfterSleep
  PROVE  RemovalInv'
<1>1. \A o \in Ports : isOpen'[o] = IF o \in os /\ isOpen[o] = "closed" /\ Present(PathOf(o))
                                    THEN "open" ELSE isOpen[o]
  BY DEF open, OpensIn
<1>2. \A o \in Ports : openedOn'[o] = IF isOpen[o] = "closed" /\ isOpen'[o] = "open"
                                      THEN plugged[PathOf(o)] ELSE openedOn[o]
  BY DEF open
<1> QED BY <1>1, <1>2 DEF RemovalInv, Goes

(* close opens nothing.                                                    *)
LEMMA CloseOpensNothing ==
  ASSUME NEW os, close(os)
  PROVE  \A o \in Ports : /\ isOpen'[o] # "closed" => isOpen[o] # "closed"
                          /\ isOpen'[o] = "open" => isOpen[o] = "open" /\ o \notin os
  BY DEF close

(* A device that comes is not the one of an open port; one that goes is    *)
(* reported if a port is open.                                             *)
LEMMA DevicesKeepRemoval ==
  ASSUME TypeOK, OpenedPresent, RemovalInv, NEW p \in Paths, PlugIn(p) \/ Unplug(p)
  PROVE  RemovalInv'
<1>1. UNCHANGED <<isOpen, openedOn, held, portsToReopenAfterSleep, registered>>
  BY DEF PlugIn, Unplug, portVars, sleepVars
<1>2. \A q \in Paths : q # p => plugged'[q] = plugged[q]
  BY DEF PlugIn, Unplug, TypeOK
<1>3. \A q : Goes(q) => Goes(q)'
  <2>1. CASE terminated' = terminated
    BY <2>1 DEF Goes
  <2>2. CASE terminated' = Append(terminated, p)
    <3>1. \A i \in DOMAIN terminated : i \in DOMAIN terminated' /\ terminated'[i] = terminated[i]
      BY <2>2 DEF TypeOK
    <3> QED BY <3>1 DEF Goes
  <2> QED BY <2>1, <2>2 DEF PlugIn, Unplug
<1>4. ASSUME NEW o \in Ports, isOpen[o] = "open", PathOf(o) = p
      PROVE  Goes(p)'
  <2>1. registered /\ openedOn[o] # 0
    BY <1>4 DEF RemovalInv, TypeOK
  <2>2. CASE PlugIn(p)
    <3>1. openedOn[o] # plugged[p]
      BY <2>1, <2>2 DEF PlugIn, Present, OpenedPresent
    <3> QED BY <1>3, <1>4, <3>1 DEF RemovalInv
  <2>3. CASE Unplug(p)
    <3>1. terminated' = Append(terminated, p)
      BY <2>1, <2>3 DEF Unplug
    <3>2. /\ Len(terminated) + 1 \in DOMAIN terminated'
          /\ terminated'[Len(terminated) + 1] = p
      BY <3>1 DEF TypeOK
    <3> QED BY <3>2 DEF Goes
  <2> QED BY <2>2, <2>3
<1>5. \A o \in Ports : PathOf(o) \in Paths
  BY PathIsPath
<1> QED BY <1>1, <1>2, <1>3, <1>4, <1>5 DEF RemovalInv

(* The termination of a device closes its port: the registry has it, since *)
(* it is open, and no other of that path.                                  *)
LEMMA TerminationCloses ==
  ASSUME TypeOK, SameInstance, RemovalInv, SerialPortsWereTerminated
  PROVE  RemovalInv'
<1>1. /\ UNCHANGED <<plugged, openedOn, registered, held, portsToReopenAfterSleep>>
      /\ close(ToSet(initWithDevices(terminated)))
  BY DEF SerialPortsWereTerminated, close, sleepVars
<1>2. ASSUME NEW o \in Ports, isOpen[o] = "open", Goes(PathOf(o))
      PROVE  o \in ToSet(initWithDevices(terminated))
  <2>1. PICK i \in DOMAIN terminated : terminated[i] = PathOf(o)
    BY <1>2 DEF Goes
  <2>2. o \in Live /\ PathOf(o) \in Paths
    BY <1>2, PathIsPath DEF Live
  <2>3. /\ initWithDevice(PathOf(o)) \in Live
        /\ PathOf(initWithDevice(PathOf(o))) = PathOf(o)
    BY <2>2, DeviceIs
  <2>4. initWithDevice(terminated[i]) = o
    BY <2>1, <2>2, <2>3 DEF SameInstance
  <2> QED BY <2>4 DEF ToSet, initWithDevices
<1>3. \A o \in Ports : isOpen'[o] = "open" =>
        isOpen[o] = "open" /\ o \notin ToSet(initWithDevices(terminated))
  BY <1>1, CloseOpensNothing
<1>4. \A o \in Ports : isOpen'[o] # "closed" => isOpen[o] # "closed"
  BY <1>1, CloseOpensNothing
<1>5. \A o \in Ports : isOpen'[o] = "open" => openedOn'[o] = plugged'[PathOf(o)]
  BY <1>1, <1>2, <1>3 DEF RemovalInv
<1>6. \A o \in Ports : (\/ isOpen'[o] # "closed" \/ o \in held'
                        \/ o \in portsToReopenAfterSleep') => registered'
  BY <1>1, <1>4 DEF RemovalInv
<1> QED BY <1>5, <1>6 DEF RemovalInv

(* Every step keeps it.                                                    *)
LEMMA RemovalStep ==
  ASSUME TypeOK, SameInstance, DevicesInv, RemovalInv, [Next]_vars
  PROVE  RemovalInv'
<1> USE DEF deviceVars, portVars, sleepVars
<1>1. CASE RegisterForTerminations
  BY <1>1 DEF RegisterForTerminations, RemovalInv, Goes
<1>2. CASE SerialPortsWerePublished \/ UNCHANGED vars
  BY <1>2, RemovalKept DEF SerialPortsWerePublished, vars
<1>3. CASE SystemWillSleep
  <2>1. close(InList) /\ registered /\ UNCHANGED <<deviceVars, held>>
    BY <1>3 DEF SystemWillSleep
  <2> QED BY <2>1, CloseOpensNothing, RemovalKept DEF close
<1>4. CASE SystemDidWake
  <2>1. PICK refused \in SUBSET portsToReopenAfterSleep : Wakes(refused)
    BY <1>4 DEF SystemDidWake
  <2> QED BY <2>1, OpenKeepsRemoval DEF Wakes
<1>5. CASE ApplicationWillTerminate
  <2>1. close(InList) /\ UNCHANGED <<deviceVars, held, sleepVars>>
    BY <1>5 DEF ApplicationWillTerminate
  <2> QED BY <2>1, CloseOpensNothing, RemovalKept DEF close
<1>6. ASSUME NEW o \in Ports, ReallyClosePort(o)
      PROVE  RemovalInv'
  <2>1. UNCHANGED <<plugged, terminated, registered, held, portsToReopenAfterSleep>>
    BY <1>6 DEF ReallyClosePort
  <2>2. \A x \in Ports : isOpen'[x] = IF x = o THEN "closed" ELSE isOpen[x]
    BY <1>6 DEF ReallyClosePort, TypeOK
  <2>3. \A x \in Ports : x # o => openedOn'[x] = openedOn[x]
    BY <1>6 DEF ReallyClosePort, TypeOK
  <2>4. \A x \in Ports : isOpen'[x] = "open" =>
          openedOn'[x] = plugged'[PathOf(x)] \/ Goes(PathOf(x))'
    BY <2>1, <2>2, <2>3 DEF RemovalInv, Goes
  <2>5. \A x \in Ports : (\/ isOpen'[x] # "closed" \/ x \in held'
                          \/ x \in portsToReopenAfterSleep') => registered'
    BY <1>6, <2>1, <2>2 DEF RemovalInv, ReallyClosePort
  <2> QED BY <2>4, <2>5 DEF RemovalInv
<1>7. ASSUME NEW o \in Ports, PollerNotices(o) \/ ClientCloses(o)
      PROVE  RemovalInv'
  <2>1. close({o}) /\ UNCHANGED <<deviceVars, held, sleepVars>>
    BY <1>7 DEF PollerNotices, ClientCloses
  <2> QED BY <2>1, CloseOpensNothing, RemovalKept DEF close
<1>8. ASSUME NEW o \in Ports, ClientGets(o) \/ ClientReleases(o)
      PROVE  RemovalInv'
  <2>1. /\ UNCHANGED <<deviceVars, portVars, sleepVars>>
        /\ \A x \in held' : x \in held \/ registered
    BY <1>8 DEF ClientGets, ClientReleases
  <2> QED BY <2>1, RemovalKept
<1>9. ASSUME NEW o \in Ports, ClientOpens(o)
      PROVE  RemovalInv'
  <2>1. open({o}) /\ o \in held /\ UNCHANGED <<deviceVars, held, sleepVars>>
    BY <1>9 DEF ClientOpens
  <2> QED BY <2>1, OpenKeepsRemoval
<1>10. OpenedPresent
  BY DEF DevicesInv
<1> QED BY <1>1, <1>2, <1>3, <1>4, <1>5, <1>6, <1>7, <1>8, <1>9, <1>10,
           DevicesKeepRemoval, TerminationCloses DEF Next

(* Once every termination is handled no port is open on a device that      *)
(* went, listed or not, whoever holds it.                                  *)
THEOREM RemovalsClose == Spec => []RemovalCloses
<1>1. Init => RemovalInv
  BY DEF Init, RemovalInv
<1>2. TypeOK /\ SameInstance /\ DevicesInv /\ RemovalInv /\ [Next]_vars => RemovalInv'
  BY RemovalStep
<1>3. RemovalInv => RemovalCloses
  BY DEF RemovalInv, RemovalCloses, Healthy, Goes
<1> QED BY <1>1, <1>2, <1>3, TypeCorrect, OneObjectPerDevice, DevicesCorrect, PTL DEF Spec

-----------------------------------------------------------------------------
(* A device whose listed port was open when the Mac went to sleep is open  *)
(* again after the wake, if it is present, no port still has to close and  *)
(* open(2) works.                                                          *)
THEOREM ReopensOnWake == Spec => WakeRestores
<1>1. TypeOK /\ DevicesInv /\ [Next]_vars =>
        [\A refused \in SUBSET Ports : Wakes(refused) =>
           \A p \in openBefore :
             /\ Present(p)
             /\ \A o \in Ports : PathOf(o) = p => isOpen[o] = "closed"
             => \E o \in Ports : PathOf(o) = p /\ (Healthy(o)' \/ o \in refused)]_vars
  <2> SUFFICES ASSUME TypeOK, DevicesInv, NEW refused \in SUBSET Ports, Wakes(refused),
                      NEW p \in openBefore, Present(p),
                      \A o \in Ports : PathOf(o) = p => isOpen[o] = "closed"
               PROVE  \E o \in Ports : PathOf(o) = p /\ (Healthy(o)' \/ o \in refused)
    OBVIOUS
  <2>1. asleep /\ plugged' = plugged /\ open(portsToReopenAfterSleep \ refused)
    BY DEF Wakes, deviceVars
  <2>2. PICK o \in portsToReopenAfterSleep : PathOf(o) = p
    BY <2>1 DEF DevicesInv, WillReopen
  <2>3. o \in Ports /\ isOpen[o] = "closed"
    BY <2>2 DEF TypeOK
  <2>4. CASE o \in refused
    BY <2>2, <2>3, <2>4
  <2>5. CASE o \notin refused
    <3>1. isOpen'[o] = "open"
      BY <2>1, <2>2, <2>3, <2>5 DEF open, OpensIn
    <3>2. openedOn'[o] = plugged[p]
      BY <2>1, <2>2, <2>3, <3>1 DEF open
    <3> QED BY <2>1, <2>2, <2>3, <3>1, <3>2 DEF Healthy
  <2> QED BY <2>4, <2>5
<1> QED BY <1>1, TypeCorrect, DevicesCorrect, PTL DEF Spec, WakeRestores
=============================================================================
