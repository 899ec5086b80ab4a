-------------------------- MODULE SerialPortManager -------------------------
(***************************************************************************)
(* ORSSerialPortManager and the registry of ports behind                   *)
(* serialPortWithPath: (ORSSerialPort.m:97-192): which ports are listed    *)
(* while devices come and go, which object stands for a device, and the    *)
(* closing and reopening of ports around the sleep of the Mac.             *)
(*                                                                         *)
(* The manager and the client run on the main thread, a step at a time.    *)
(* IOKit queues what was published and what was terminated in two          *)
(* iterators, on two notification ports (227, 269): the run loop may       *)
(* handle them in either order.  Of a port only whether it is open is      *)
(* kept here: SerialPortLifecycle has the rest.                            *)
(***************************************************************************)
EXTENDS Naturals, FiniteSets, SequencesExt

CONSTANTS
  Paths,       \* paths of devices
  Instances,   \* ORSSerialPort objects that may live at a time for a path
  MaxPlugs     \* bound of the times a device is plugged in or out

ASSUME ManagerAssumption == Instances # {} /\ MaxPlugs \in Nat

VARIABLES
  plugged,      \* plugged[p]: how often p was plugged in or out; odd: present
  published,    \* iterator of the publications not handled yet
  terminated,   \* iterator of the terminations not handled yet
  registered,   \* terminations are reported
  availablePorts,  \* how often each object is in it; its order is left out
  portsToReopenAfterSleep,
  held,         \* objects the client holds
  isOpen,       \* isOpen[o]: "closed", "open" or "closing"
  openedOn,     \* openedOn[o]: the plugged its descriptor was opened at, or 0
  asleep,       \* between systemWillSleep: and systemDidWake:
  willTerminate,\* the application ends
  unseen,       \* ghost: paths whose changes IOKit did not report in order
  openBefore    \* ghost: paths with a listed open port when the Mac slept

deviceVars == <<plugged, published, terminated, registered, unseen>>
portVars   == <<isOpen, openedOn>>
sleepVars  == <<portsToReopenAfterSleep, asleep, openBefore>>
vars == <<deviceVars, availablePorts, held, portVars, sleepVars, willTerminate>>

Ports == Paths \X Instances
PathOf(o) == o[1]
Present(p) == plugged[p] % 2 = 1

-----------------------------------------------------------------------------
InList == { o \in Ports : availablePorts[o] > 0 }

(* An object lives while someone refers to it.  The sources of a port that *)
(* is not closed do (286, 300).  allSerialPorts, which does not retain,    *)
(* has exactly the living objects: from the end of init (189) to dealloc   *)
(* (203).                                                                  *)
Live ==
  { o \in Ports : \/ isOpen[o] # "closed" \/ o \in held
                  \/ o \in portsToReopenAfterSleep \/ o \in InList }

(* alloc makes an object that is none of the living ones.                  *)
NewPort(p) == CHOOSE o \in Ports : PathOf(o) = p /\ o \notin Live

(* Mutant: the registry is not asked for the path.                         *)
ForgetLookup(p) == NewPort(p)

(* initWithDevice: gives the object registered for the path, or a new one. *)
(* (That the registered one isKindOfClass: (157) is so for all of them, as *)
(* the repository has no subclass of ORSSerialPort.)                       *)
initWithDevice(p) ==
  LET existing == { o \in Live : PathOf(o) = p }
  IN  IF existing # {} THEN CHOOSE o \in existing : TRUE
      ELSE NewPort(p)

initWithDevices(paths) == [i \in DOMAIN paths |-> initWithDevice(paths[i])]

-----------------------------------------------------------------------------
(* The singleton is created: it lists the devices present (257-266), and   *)
(* registers for terminations a moment later (268-289).  All that is one   *)
(* call on the main thread: until it returns no other callback runs.       *)

Init ==
  /\ plugged \in [Paths -> {0, 1}]
  /\ published = <<>> /\ terminated = <<>>
  /\ registered = FALSE
  /\ held = {} /\ portsToReopenAfterSleep = {}
  /\ isOpen = [o \in Ports |-> "closed"] /\ openedOn = [o \in Ports |-> 0]
  /\ asleep = FALSE /\ willTerminate = FALSE
  /\ availablePorts =
       [o \in Ports |-> IF /\ Present(PathOf(o))
                           /\ o = <<PathOf(o), CHOOSE k \in Instances : TRUE>>
                        THEN 1 ELSE 0]
  /\ unseen = {} /\ openBefore = {}

RegisterForTerminations ==
  /\ ~registered
  /\ registered' = TRUE
  /\ UNCHANGED <<plugged, published, terminated, unseen, availablePorts, held,
                 portVars, sleepVars, willTerminate>>

-----------------------------------------------------------------------------
(* The device of a path comes or goes: IOKit adds it to an iterator.       *)

PlugIn(p) ==
  /\ ~Present(p) /\ plugged[p] < MaxPlugs
  /\ plugged' = [plugged EXCEPT ![p] = @ + 1]
  /\ published' = Append(published, p)
  /\ unseen' = IF Contains(terminated, p) THEN unseen \cup {p} ELSE unseen
  /\ UNCHANGED <<terminated, registered, availablePorts, held, portVars, sleepVars,
                 willTerminate>>

Unplug(p) ==
  /\ Present(p) /\ plugged[p] < MaxPlugs
  /\ plugged' = [plugged EXCEPT ![p] = @ + 1]
  /\ terminated' = IF registered THEN Append(terminated, p) ELSE terminated
  /\ unseen' = IF registered /\ ~Contains(published, p) THEN unseen ELSE unseen \cup {p}
  /\ UNCHANGED <<published, registered, availablePorts, held, portVars, sleepVars,
                 willTerminate>>

-----------------------------------------------------------------------------
(* open does nothing while isOpen is YES (248), and fails without a        *)
(* device (254-258); close only starts closing (345).  A port whose        *)
(* open(2) fails for another reason is left out of os by the caller.       *)

OpensIn(os, states) ==
  [o \in Ports |-> IF o \in os /\ states[o] = "closed" /\ Present(PathOf(o))
                   THEN "open" ELSE states[o]]

open(os) ==
  /\ isOpen' = OpensIn(os, isOpen)
  /\ openedOn' = [o \in Ports |-> IF isOpen[o] = "closed" /\ isOpen'[o] = "open"
                                  THEN plugged[PathOf(o)] ELSE openedOn[o]]

close(os) ==
  /\ isOpen' = [o \in Ports |-> IF o \in os /\ isOpen[o] = "open"
                                THEN "closing" ELSE isOpen[o]]
  /\ UNCHANGED openedOn

ReallyClosePort(o) ==
  /\ isOpen[o] = "closing"
  /\ isOpen' = [isOpen EXCEPT ![o] = "closed"]
  /\ openedOn' = [openedOn EXCEPT ![o] = 0]
  /\ UNCHANGED <<deviceVars, availablePorts, held, sleepVars, willTerminate>>

(* The pin poll finds that the device it was opened on is gone.            *)
PollerNotices(o) ==
  /\ isOpen[o] = "open" /\ openedOn[o] # plugged[PathOf(o)]
  /\ close({o})
  /\ UNCHANGED <<deviceVars, availablePorts, held, sleepVars, willTerminate>>

-----------------------------------------------------------------------------
(* The notification callbacks run their iterator out.  Ports are equal if  *)
(* their paths are (236-242).                                              *)

Listed(p) == \E o \in InList : PathOf(o) = p

Without(ports) == [o \in Ports |-> IF o \in ports THEN 0 ELSE availablePorts[o]]

(* Mutant: of the iterator only the first device is looked at.             *)
PublishedFirst ==
  /\ published # <<>> /\ registered /\ ~willTerminate
  /\ published' = <<>>
  /\ availablePorts' =
       [o \in Ports |-> IF ~Listed(PathOf(o)) /\ o = initWithDevice(Head(published))
                        THEN 1 ELSE availablePorts[o]]
  /\ UNCHANGED <<plugged, terminated, registered, unseen, held, portVars, sleepVars,
                 willTerminate>>

SerialPortsWerePublished ==
  /\ published # <<>> /\ registered /\ ~willTerminate
  /\ published' = <<>>
  /\ availablePorts' =
       LET ports == initWithDevices(published)
       IN  [o \in Ports |-> IF Listed(PathOf(o)) THEN availablePorts[o]
                            ELSE Cardinality({ i \in DOMAIN ports : ports[i] = o })]
  /\ UNCHANGED <<plugged, terminated, registered, unseen, held, portVars, sleepVars,
                 willTerminate>>

(* Mutant: only a port that is in the list is told and closed.             *)
TerminatedClosesListed ==
  /\ terminated # <<>> /\ ~willTerminate
  /\ terminated' = <<>>
  /\ close({ o \in InList : PathOf(o) \in ToSet(terminated) })
  /\ availablePorts' = Without({ o \in Ports : PathOf(o) \in ToSet(terminated) })
  /\ UNCHANGED <<plugged, published, registered, unseen, held, sleepVars, willTerminate>>

SerialPortsWereTerminated ==
  /\ terminated # <<>> /\ ~willTerminate
  /\ terminated' = <<>>
  /\ close(ToSet(initWithDevices(terminated)))
  /\ availablePorts' = Without({ o \in Ports : PathOf(o) \in ToSet(terminated) })
  /\ UNCHANGED <<plugged, published, registered, unseen, held, sleepVars, willTerminate>>

-----------------------------------------------------------------------------
(* The client takes ports from the list or by their path, lets go of them, *)
(* opens (an open that fails changes nothing) and closes them.             *)

ClientGets(o) ==
  /\ registered /\ ~willTerminate /\ o \notin held
  /\ o \in InList \/ (Present(PathOf(o)) /\ o = initWithDevice(PathOf(o)))
  /\ held' = held \cup {o}
  /\ UNCHANGED <<deviceVars, availablePorts, portVars, sleepVars, willTerminate>>

ClientReleases(o) ==
  /\ o \in held
  /\ held' = held \ {o}
  /\ UNCHANGED <<deviceVars, availablePorts, portVars, sleepVars, willTerminate>>

ClientOpens(o) ==
  /\ ~willTerminate /\ o \in held /\ isOpen[o] = "closed" /\ Present(PathOf(o))
  /\ open({o})
  /\ UNCHANGED <<deviceVars, availablePorts, held, sleepVars, willTerminate>>

ClientCloses(o) ==
  /\ o \in held /\ isOpen[o] = "open"
  /\ close({o})
  /\ UNCHANGED <<deviceVars, availablePorts, held, sleepVars, willTerminate>>

-----------------------------------------------------------------------------
(* Sleep, wake and the end of the application.                             *)

SystemWillSleep ==
  /\ registered /\ ~asleep /\ ~willTerminate
  /\ asleep' = TRUE
  /\ close(InList)
  /\ portsToReopenAfterSleep' =
       portsToReopenAfterSleep \cup { o \in InList : isOpen[o] # "closed" }
  /\ openBefore' = { PathOf(o) : o \in { x \in InList : isOpen[x] = "open" } }
  /\ UNCHANGED <<deviceVars, availablePorts, held, willTerminate>>

(* Mutant: only what is still listed is reopened.                          *)
WakeOpensListed(refused) ==
  /\ asleep /\ ~willTerminate
  /\ asleep' = FALSE
  /\ open((portsToReopenAfterSleep \cap InList) \ refused)
  /\ portsToReopenAfterSleep' = {} /\ openBefore' = {}
  /\ UNCHANGED <<deviceVars, availablePorts, held, willTerminate>>

(* open(2) of the ports in refused fails for a reason of its own.          *)
Wakes(refused) ==
  /\ asleep /\ ~willTerminate
  /\ asleep' = FALSE
  /\ open(portsToReopenAfterSleep \ refused)
  /\ portsToReopenAfterSleep' = {} /\ openBefore' = {}
  /\ UNCHANGED <<deviceVars, availablePorts, held, willTerminate>>

SystemDidWake == \E refused \in SUBSET portsToReopenAfterSleep : Wakes(refused)

ApplicationWillTerminate ==
  /\ registered /\ ~willTerminate
  /\ willTerminate' = TRUE
  /\ close(InList)
  /\ availablePorts' = Without(Ports)
  /\ UNCHANGED <<deviceVars, held, sleepVars>>

-----------------------------------------------------------------------------
Next ==
  \/ RegisterForTerminations \/ SerialPortsWerePublished \/ SerialPortsWereTerminated
  \/ SystemWillSleep \/ SystemDidWake \/ ApplicationWillTerminate
  \/ \E p \in Paths : PlugIn(p) \/ Unplug(p)
  \/ \E o \in Ports : \/ ReallyClosePort(o) \/ PollerNotices(o)
                      \/ ClientGets(o) \/ ClientReleases(o)
                      \/ ClientOpens(o) \/ ClientCloses(o)

Spec == Init /\ [][Next]_vars

-----------------------------------------------------------------------------
(* Every variable has its type.                                            *)
TypeOK ==
  /\ plugged \in [Paths -> 0..(MaxPlugs + 1)]
  /\ published \in Seq(Paths) /\ terminated \in Seq(Paths)
  /\ availablePorts \in [Ports -> Nat]
  /\ portsToReopenAfterSleep \subseteq Ports /\ held \subseteq Ports
  /\ isOpen \in [Ports -> {"closed", "open", "closing"}]
  /\ openedOn \in [Ports -> 0..(MaxPlugs + 1)]
  /\ {registered, asleep, willTerminate} \subseteq BOOLEAN
  /\ unseen \subseteq Paths /\ openBefore \subseteq Paths
  /\ \A o \in Ports : (isOpen[o] = "closed") = (openedOn[o] = 0)

(* "There is a 1:1 correspondence between port devices on the system and   *)
(* instances of ORSSerialPort" (ORSSerialPort.h:67): the objects that the  *)
(* list, the client, the sleep of the Mac and open ports keep alive never  *)
(* are two for one path (155-161), through any removal and return.         *)
SameInstance ==
  \A o1, o2 \in Live : PathOf(o1) = PathOf(o2) => o1 = o2

(* Once every notification is handled availablePorts has each device that  *)
(* is present exactly once and no other (195, 218), except for devices     *)
(* that came and went before the run loop looked.                          *)
ListIsExact ==
  published = <<>> /\ terminated = <<>> /\ ~willTerminate =>
    \A p \in Paths \ unseen :
      LET listed == { o \in InList : PathOf(o) = p }
      IN  IF Present(p) THEN \E o \in Ports : listed = {o} /\ availablePorts[o] = 1
          ELSE listed = {}

Healthy(o) == isOpen[o] = "open" /\ openedOn[o] = plugged[PathOf(o)]

(* The registry finds the port of a device that was removed, in the list   *)
(* or not (212, 217, 396): once every termination is handled no port is    *)
(* open on a device that went, even if the device is back and nobody       *)
(* polled the port meanwhile.                                              *)
RemovalCloses ==
  terminated = <<>> => \A o \in Ports : isOpen[o] = "open" => Healthy(o)

(* "It will also handle closing open serial ports when the Mac goes to     *)
(* sleep, and reopening them automatically on wake"                        *)
(* (ORSSerialPortManager.h:64-65): a device whose listed port was open is  *)
(* open again after the wake if it is present, even if it was removed and  *)
(* came back meanwhile, unless the port has not finished closing (248) or  *)
(* its open(2) fails for a reason of its own (254-258).                    *)
WakeRestores ==
  [][\A refused \in SUBSET Ports : Wakes(refused) =>
       \A p \in openBefore :
         /\ Present(p)
         /\ \A o \in Ports : PathOf(o) = p => isOpen[o] = "closed"
         => \E o \in Ports : PathOf(o) = p /\ (Healthy(o)' \/ o \in refused)]_vars
=============================================================================
