---------------------- MODULE SerialPortLifecycle_proofs ----------------------
(***************************************************************************)
(* Proofs about SerialPortLifecycle, for any number of client threads and  *)
(* of sessions, whatever the delegate implements and close(2) returns.     *)
(***************************************************************************)
EXTENDS SerialPortLifecycle, SequenceTheorems, TLAPS

USE LifecycleAssumption

-----------------------------------------------------------------------------
(* Only the opener is ever between the steps of open or of a setter.       *)
OneOpener ==
  \A c \in Clients \ {Opener} :
    client[c].pc \in {"idle", "closing"} /\ ~client[c].reopen

(* While open runs, the session it makes is the last one, and its steps    *)
(* come in order: descriptor, assignment, source, property.                *)
Opening ==
  /\ At(Opener, "opening") \/ At(Opener, "opened") => fileDescriptor = 0
  /\ At(Opener, "opened") \/ At(Opener, "assigned") \/ At(Opener, "resumed")
       \/ At(Opener, "kept")
     => client[Opener].fd = sessions /\ sessions > 0
  /\ At(Opener, "opened") =>
       openDescriptors = {sessions} /\ source[sessions] = "none"
  /\ At(Opener, "assigned") =>
       /\ fileDescriptor = sessions /\ sessions \in openDescriptors
       /\ source[sessions] = "none"
  /\ At(Opener, "resumed") => source[sessions] # "none"

(* Sessions to come have no source, and the property holds a source that   *)
(* was resumed.                                                            *)
Sources ==
  /\ \A n \in Sessions : source[n] # "none" => n <= sessions
  /\ readPollSource # 0 => source[readPollSource] # "none"

(* Until reallyClosePort has cleared it, the descriptor of a session whose *)
(* source was resumed is the port's; until it has closed it, it is open.   *)
(* reallyClosePort runs for cancelled sources only.                        *)
Holding ==
  \A n \in Sessions :
    /\ closer[n] # "idle" => source[n] = "cancelled"
    /\ source[n] # "none" /\ closer[n] \in {"idle", "closing"} =>
         fileDescriptor = n /\ n \in openDescriptors
    /\ closer[n] = "closed" => fileDescriptor = n /\ n \notin openDescriptors

(* One descriptor at most is open, that of the last session.               *)
LastIsOpen ==
  /\ openDescriptors \subseteq {sessions}
  /\ fileDescriptor \in {0, sessions}

(* A read handler that is running has the descriptor of its own session,   *)
(* and the cancel handler has not started.                                 *)
Reading ==
  \A n \in Sessions :
    reader[n].step # "idle" =>
      reader[n].fd = n /\ source[n] # "none" /\ closer[n] = "idle"

(* The one timer that may be armed is the property's.                      *)
OneTimer == \A n \in Sessions : timer[n] = "active" => pinPollTimer = n

(* serialPortWasClosed: runs for a close that waits for it.                *)
WasClosedWaits ==
  mainRunning.op = "closed" =>
    mainRunning.id \in Sessions /\ closer[mainRunning.id] = "waiting"

DescriptorInv ==
  /\ OneOpener /\ Opening /\ Sources /\ Holding /\ LastIsOpen
  /\ NoDescriptorLeak /\ Reading

IInv == TypeOK /\ DescriptorInv /\ OneTimer /\ WasClosedWaits

-----------------------------------------------------------------------------
(* Wherever a step leaves a caller, it is in a place of its kind.          *)
LEMMA ClientType ==
  ASSUME IInv, [Next]_vars
  PROVE  client' \in [Clients -> Calls]
<1>0. /\ client \in [Clients -> Calls]
      /\ fileDescriptor \in 0..MaxSessions /\ sessions \in 0..MaxSessions
  BY DEF IInv, TypeOK
<1>1. ASSUME NEW c \in Clients, NEW call \in Calls,
             client' = [client EXCEPT ![c] = call]
      PROVE  client' \in [Clients -> Calls]
  BY <1>0, <1>1
<1>2. ASSUME NEW c \in Clients, Return(c)
      PROVE  client' \in [Clients -> Calls]
  <2>1. NoCall \in Calls
    BY DEF NoCall, Calls
  <2> QED BY <1>1, <1>2, <2>1 DEF Return
<1>3. ASSUME NEW c \in Clients,
             NEW pc \in {"opening", "assigned", "resumed", "kept", "timed",
                         "crashed", "reopening"},
             Goto(c, pc)
      PROVE  client' \in [Clients -> Calls]
  BY <1>0, <1>3 DEF Goto, Calls
<1>4. ASSUME NEW c \in Clients, CloseChecks(c)
      PROVE  client' \in [Clients -> Calls]
  <2> DEFINE call == [client[c] EXCEPT !.pc = "closing", !.fd = fileDescriptor]
  <2>1. call \in Calls
    BY <1>0 DEF Calls
  <2>2. client' = [client EXCEPT ![c] = call]
    BY <1>0, <1>4 DEF CloseChecks
  <2> QED BY <1>1, <2>1, <2>2
<1>5. ASSUME NEW c \in Clients, Enter(c)
      PROVE  client' \in [Clients -> Calls]
  <2>1. CASE Open(c)
    BY <1>2, <1>3, <2>1 DEF Open
  <2>2. CASE Close(c)
    BY <1>4, <2>2 DEF Close
  <2>3. CASE SetFlowControl(c)
    <3>1. client' = [client EXCEPT ![c].pc = "setting", ![c].reopen = TRUE]
      BY <2>3 DEF SetFlowControl
    <3>2. [client[c] EXCEPT !.pc = "setting", !.reopen = TRUE] \in Calls
      BY <1>0 DEF Calls
    <3>3. client' = [client EXCEPT ![c] = [client[c] EXCEPT !.pc = "setting", !.reopen = TRUE]]
      BY <1>0, <3>1
    <3> QED BY <1>1, <3>2, <3>3
  <2> QED BY <1>5, <2>1, <2>2, <2>3 DEF Enter
<1>6. ASSUME NEW c \in Clients, Continue(c)
      PROVE  client' \in [Clients -> Calls]
  <2>1. CASE Open(c)
    BY <1>2, <1>3, <2>1 DEF Open
  <2>2. CASE OpenFails(c) \/ ResumeTimer(c)
    BY <1>2, <1>3, <2>2 DEF OpenFails, ResumeTimer
  <2>3. CASE OpenSucceeds(c)
    <3>1. sessions + 1 \in 0..MaxSessions
      BY <1>0, <2>3 DEF OpenSucceeds
    <3> DEFINE call == [client[c] EXCEPT !.pc = "opened", !.fd = sessions + 1]
    <3>2. call \in Calls
      BY <1>0, <3>1 DEF Calls
    <3>3. client' = [client EXCEPT ![c] = call]
      BY <1>0, <2>3 DEF OpenSucceeds
    <3> QED BY <1>1, <3>2, <3>3
  <2>4. CASE \/ AssignDescriptor(c) \/ ResumeReadSource(c) \/ KeepReadSource(c)
             \/ AssignTimer(c)
    BY <1>3, <2>4 DEF AssignDescriptor, ResumeReadSource, KeepReadSource, AssignTimer
  <2>5. CASE CloseCancels(c)
    <3>1. Reopening \in Calls
      BY DEF Reopening, Calls
    <3> QED BY <1>1, <1>2, <2>5, <3>1 DEF CloseCancels
  <2>6. CASE SetterCloses(c)
    BY <1>3, <1>4, <2>6 DEF SetterCloses
  <2> QED BY <1>6, <2>1, <2>2, <2>3, <2>4, <2>5, <2>6 DEF Continue
<1>7. CASE MainReturns
  BY <1>0, <1>4, <1>7 DEF MainReturns
<1>8. ASSUME NEW n \in Sessions,
             \/ ReaderStep(n) \/ CloserStep(n) \/ PollerStep(n)
             \/ PollerCancelsTimer(n) \/ MainRunsWasClosed(n)
             \/ MainRunsWasRemoved(n)
      PROVE  UNCHANGED client
  BY <1>8 DEF ReaderStep, ReadEvent, ReaderChecks, ReaderReads, CloserStep,
              StopPolling, CloseDescriptor, CloseDescriptorFails,
              ClearDescriptor, DispatchReset, PollerStep, PollerFires,
              PollerAsks, PollerReadsErrno, PollerCloses, PollerCancels,
              PollerCancelsTimer, MainRunsWasClosed, MainRunsWasRemoved
<1>9. MainRunsBlock \/ SystemReportsRemoval \/ DeviceRemoved \/ UNCHANGED vars
        => UNCHANGED client
  BY DEF MainRunsBlock, SystemReportsRemoval, DeviceRemoved, vars
<1> QED BY <1>0, <1>5, <1>6, <1>7, <1>8, <1>9 DEF Next, Alive, Step

(* The opener's session is one that open(2) has made.                      *)
LEMMA OpenerSession ==
  ASSUME IInv, NEW c \in Clients,
         At(c, "opened") \/ At(c, "assigned") \/ At(c, "resumed") \/ At(c, "kept")
  PROVE  /\ c = Opener /\ client[c].fd = sessions
         /\ sessions \in Sessions /\ sessions \in Nat
<1>1. c = Opener
  BY DEF IInv, DescriptorInv, OneOpener, At
<1>2. client[c].fd = sessions /\ sessions > 0
  BY <1>1 DEF IInv, DescriptorInv, Opening
<1> QED BY <1>1, <1>2 DEF IInv, TypeOK, Sessions

(* Cancelling a source or a timer leaves the others as they were.          *)
LEMMA CancelledType ==
  ASSUME NEW state \in [Sessions -> SourceStates], NEW n
  PROVE  Cancelled(state, n) \in [Sessions -> SourceStates]
  BY DEF Cancelled, SourceStates

LEMMA CancelledTimerType ==
  ASSUME NEW state \in [Sessions -> TimerStates], NEW n
  PROVE  Cancelled(state, n) \in [Sessions -> TimerStates]
  BY DEF Cancelled, TimerStates, SourceStates

(* Assigning the property nil or a session leaves a session or nil.        *)
LEMMA ReadPollSourceType ==
  ASSUME TypeOK, NEW n, SetReadPollSource(n)
  PROVE  readPollSource' = n /\ source' \in [Sessions -> SourceStates]
  BY CancelledType DEF SetReadPollSource, TypeOK

(* Every step leaves every variable of its kind.                           *)
LEMMA TypeStep ==
  ASSUME IInv, [Next]_vars
  PROVE  TypeOK'
<1> TypeOK /\ client' \in [Clients -> Calls]
  BY ClientType DEF IInv
<1> USE DEF TypeOK, portVars, sourceVars, timerVars,
            mainVars, ghosts
<1>1. ASSUME NEW c \in Clients, Open(c)
      PROVE  TypeOK'
  BY <1>1 DEF Open, At
<1>2. ASSUME NEW c \in Clients, Close(c) \/ SetFlowControl(c) \/ SetterCloses(c)
      PROVE  TypeOK'
  BY <1>2 DEF Close, SetFlowControl, SetterCloses
<1>3. ASSUME NEW c \in Clients, OpenFails(c)
      PROVE  TypeOK'
  BY <1>3 DEF OpenFails
<1>4. ASSUME NEW c \in Clients, OpenSucceeds(c)
      PROVE  TypeOK'
  BY <1>4 DEF OpenSucceeds, Sessions
<1>5. ASSUME NEW c \in Clients, AssignDescriptor(c)
      PROVE  TypeOK'
  <2>1. client[c].fd = sessions /\ sessions \in Sessions
    BY <1>5, OpenerSession DEF AssignDescriptor
  <2>2. [op |-> "opened", id |-> client[c].fd] \in Blocks
    BY <2>1 DEF Blocks
  <2> QED BY <1>5, <2>1, <2>2 DEF AssignDescriptor
<1>6. ASSUME NEW c \in Clients, ResumeReadSource(c)
      PROVE  TypeOK'
  BY <1>6 DEF ResumeReadSource, SourceStates
<1>7. ASSUME NEW c \in Clients, KeepReadSource(c)
      PROVE  TypeOK'
  <2>1. client[c].fd = sessions
    BY <1>7, OpenerSession DEF KeepReadSource
  <2> QED BY <1>7, <2>1, ReadPollSourceType DEF KeepReadSource
<1>8. ASSUME NEW c \in Clients, AssignTimer(c) \/ ResumeTimer(c)
      PROVE  TypeOK'
  <2>1. AssignTimer(c) => client[c].fd = sessions
    BY OpenerSession DEF AssignTimer
  <2>2. Cancelled(timer, pinPollTimer) \in [Sessions -> TimerStates]
    BY CancelledTimerType
  <2>3. timer' \in [Sessions -> TimerStates]
    BY <1>8, <2>2 DEF AssignTimer, ResumeTimer, TimerStates, SourceStates
  <2>4. /\ pinPollTimer' \in 0..sessions
        /\ UNCHANGED <<portVars, sourceVars, poller, cancelBlocks, mainVars, ghosts>>
    BY <1>8, <2>1 DEF AssignTimer, ResumeTimer
  <2> QED BY <2>3, <2>4
<1>9. ASSUME NEW c \in Clients, CloseCancels(c)
      PROVE  TypeOK'
  <2>1. saidYes' \in BOOLEAN /\ reopenOwed' \in BOOLEAN
    BY <1>9 DEF CloseCancels
  <2> QED BY <1>9, <2>1, ReadPollSourceType DEF CloseCancels
<1>10. ASSUME NEW n \in Sessions, ReaderStep(n)
       PROVE  TypeOK'
  <2>0. NoReader \in ReadSteps
    BY DEF NoReader, ReadSteps
  <2>1. reader' \in [Sessions -> ReadSteps]
    <3>1. CASE ReadEvent(n)
      BY <3>1 DEF ReadEvent, ReadSteps
    <3>2. CASE ReaderChecks(n)
      <4>1. CASE reader' = [reader EXCEPT ![n].step = "reading"]
        BY <4>1 DEF ReadSteps
      <4>2. CASE reader' = [reader EXCEPT ![n] = NoReader]
        BY <2>0, <4>2
      <4> QED BY <3>2, <4>1, <4>2 DEF ReaderChecks
    <3>3. CASE ReaderReads(n)
      BY <2>0, <3>3 DEF ReaderReads
    <3> QED BY <1>10, <3>1, <3>2, <3>3 DEF ReaderStep
  <2> QED BY <1>10, <2>1 DEF ReaderStep, ReadEvent, ReaderChecks, ReaderReads
<1>11. ASSUME NEW n \in Sessions, StopPolling(n)
       PROVE  TypeOK'
  BY <1>11, CancelledTimerType DEF StopPolling, CloserGoes, CloseSteps
<1>12. ASSUME NEW n \in Sessions, CloseDescriptor(n) \/ CloseDescriptorFails(n)
       PROVE  TypeOK'
  BY <1>12 DEF CloseDescriptor, CloseDescriptorFails, CloserGoes, CloseSteps
<1>13. ASSUME NEW n \in Sessions, ClearDescriptor(n) \/ DispatchReset(n)
       PROVE  TypeOK'
  <2>1. CASE ClearDescriptor(n)
    <3>1. closer' \in [Sessions -> CloseSteps]
      BY <2>1 DEF ClearDescriptor, CloserGoes, CloseSteps
    <3>2. /\ fileDescriptor' = 0 /\ saidYes' = FALSE
          /\ UNCHANGED <<openDescriptors, sessions, device, readPollSource,
                         source, reader, timerVars, client, mainVars,
                         reopenOwed>>
      BY <2>1 DEF ClearDescriptor
    <3>3. fileDescriptor' \in 0..sessions'
      BY <3>2
    <3> QED BY <3>1, <3>2, <3>3, Zenon
  <2>2. CASE DispatchReset(n)
    BY <2>2 DEF DispatchReset, CloserGoes, CloseSteps
  <2> QED BY <1>13, <2>1, <2>2
<1>14. ASSUME NEW n \in Sessions, PollerFires(n) \/ PollerReadsErrno(n) \/ PollerCloses(n)
       PROVE  TypeOK'
  BY <1>14 DEF PollerFires, PollerReadsErrno, PollerCloses, PollerGoes, PollSteps
<1>15. ASSUME NEW n \in Sessions, PollerCancels(n)
       PROVE  TypeOK'
  <2>1. poller' \in [Sessions -> PollSteps]
    BY <1>15 DEF PollerCancels, PollerGoes, PollSteps
  <2>2. readPollSource' = 0 /\ source' \in [Sessions -> SourceStates]
    BY <1>15, ReadPollSourceType DEF PollerCancels
  <2>3. /\ reopenOwed' = FALSE
        /\ UNCHANGED <<portVars, reader, closer, pinPollTimer, timer,
                       cancelBlocks, client, mainVars, saidYes>>
    BY <1>15 DEF PollerCancels
  <2>4. readPollSource' \in 0..sessions'
    BY <2>2, <2>3
  <2> QED BY <2>1, <2>2, <2>3, <2>4, Zenon
<1>16. ASSUME NEW n \in Sessions, PollerCancelsTimer(n)
       PROVE  TypeOK'
  BY <1>16, CancelledTimerType DEF PollerCancelsTimer
<1>17. ASSUME NEW n \in Sessions, PollerAsks(n)
       PROVE  TypeOK'
  <2>1. \A op \in {"pins", "error"} : [op |-> op, id |-> n] \in Blocks
    BY DEF Blocks
  <2>2. mainQueue' \in Seq(Blocks)
    <3>1. \/ UNCHANGED mainQueue
          \/ \E b \in Blocks : mainQueue' = Append(mainQueue, b)
      BY <1>17, <2>1 DEF PollerAsks, QueueSync
    <3>2. ASSUME NEW b \in Blocks, mainQueue' = Append(mainQueue, b)
          PROVE  mainQueue' \in Seq(Blocks)
      BY <3>2, AppendProperties
    <3> QED BY <3>1, <3>2
  <2>3. poller' \in [Sessions -> PollSteps]
    BY <1>17 DEF PollerAsks, PollerGoes, PollSteps
  <2>4. UNCHANGED <<portVars, sourceVars, pinPollTimer, timer, cancelBlocks,
                    client, mainRunning, ghosts>>
    BY <1>17 DEF PollerAsks
  <2> QED BY <2>2, <2>3, <2>4
<1>18. CASE MainRunsBlock
  <2>1. Head(mainQueue) \in Blocks /\ Tail(mainQueue) \in Seq(Blocks)
    BY <1>18, HeadTailProperties DEF MainRunsBlock
  <2>2. mainRunning' \in Running
    <3>1. Blocks \subseteq Running
      BY DEF Blocks, Running, Sessions
    <3> QED BY <1>18, <2>1, <3>1 DEF MainRunsBlock
  <2> QED BY <1>18, <2>1, <2>2 DEF MainRunsBlock
<1>19. ASSUME NEW n \in Sessions, MainRunsWasClosed(n)
       PROVE  TypeOK'
  <2>1. [op |-> "closed", id |-> n] \in Running
    BY DEF Running, Sessions
  <2> QED BY <1>19, <2>1 DEF MainRunsWasClosed, CloserGoes, CloseSteps
<1>20. ASSUME NEW n \in Sessions, MainRunsWasRemoved(n)
       PROVE  TypeOK'
  <2>1. [op |-> "removed", id |-> n] \in Running
    BY DEF Running, Sessions
  <2> QED BY <1>20, <2>1 DEF MainRunsWasRemoved, PollerGoes, PollSteps
<1>21. CASE SystemReportsRemoval
  BY <1>21 DEF SystemReportsRemoval, Running
<1>22. CASE MainReturns
  <2>1. mainRunning' \in Running
    BY <1>22 DEF MainReturns, Idle, Running
  <2>2. closer' \in [Sessions -> CloseSteps]
    BY <1>22 DEF MainReturns, CloseSteps
  <2>3. poller' \in [Sessions -> PollSteps]
    BY <1>22 DEF MainReturns, PollSteps
  <2> QED BY <1>22, <2>1, <2>2, <2>3 DEF MainReturns
<1>23. CASE DeviceRemoved
  BY <1>23 DEF DeviceRemoved
<1>24. CASE UNCHANGED vars
  BY <1>24 DEF vars
<1> QED BY <1>1, <1>2, <1>3, <1>4, <1>5, <1>6, <1>7, <1>8, <1>9, <1>10,
           <1>11, <1>12, <1>13, <1>14, <1>15, <1>16, <1>17, <1>18, <1>19,
           <1>20, <1>21, <1>22, <1>23, <1>24
        DEF Next, Alive, Step, Enter, Continue, CloserStep, PollerStep

-----------------------------------------------------------------------------
(* Steps that leave the descriptor, the sources and the threads that use   *)
(* them alone.                                                             *)
LEMMA Undisturbed ==
  ASSUME IInv,
         UNCHANGED <<fileDescriptor, openDescriptors, sessions, readPollSource,
                     source, reader, closer, client>>
  PROVE  DescriptorInv'
  BY DEF IInv, DescriptorInv, OneOpener, Opening, Sources, Holding,
         LastIsOpen, NoDescriptorLeak, Reading, At

(* Steps of open that come before the source, and of the setters: only the *)
(* opener moves, between places where it holds nothing.                    *)
LEMMA OpenerWaits ==
  ASSUME IInv, client' \in [Clients -> Calls],
         UNCHANGED <<portVars, sourceVars>>,
         \A c \in Clients \ {Opener} : client'[c] = client[c],
         ~At(Opener, "opened"),
         client'[Opener].pc \in {"idle", "opening", "timed", "crashed", "closing",
                                "setting", "reopening"},
         client'[Opener].pc = "opening" => fileDescriptor = 0
  PROVE  DescriptorInv'
<1> USE DEF portVars, sourceVars
<1>1. OneOpener' /\ Sources' /\ Holding' /\ LastIsOpen' /\ Reading'
  BY DEF IInv, DescriptorInv, OneOpener, Sources, Holding, LastIsOpen, Reading
<1>2. Opening'
  BY DEF Opening, At
<1>3. NoDescriptorLeak'
  BY DEF IInv, DescriptorInv, NoDescriptorLeak
<1> QED BY <1>1, <1>2, <1>3 DEF DescriptorInv

(* Another thread enters or leaves close.                                  *)
LEMMA OthersClose ==
  ASSUME IInv, client' \in [Clients -> Calls],
         UNCHANGED <<portVars, sourceVars>>,
         NEW c \in Clients \ {Opener},
         \A d \in Clients \ {c} : client'[d] = client[d],
         client'[c].pc \in {"idle", "closing"}, ~client'[c].reopen
  PROVE  DescriptorInv'
<1> USE DEF portVars, sourceVars
<1>0. client'[Opener] = client[Opener]
  OBVIOUS
<1>1. OneOpener' /\ Sources' /\ Holding' /\ LastIsOpen' /\ Reading'
  BY DEF IInv, DescriptorInv, OneOpener, Sources, Holding, LastIsOpen, Reading
<1>2. Opening' /\ NoDescriptorLeak'
  BY <1>0 DEF IInv, DescriptorInv, Opening, NoDescriptorLeak, At
<1> QED BY <1>1, <1>2 DEF DescriptorInv

(* Setting the property makes no source and forgets none, whoever does it. *)
LEMMA SourceNoneKept ==
  ASSUME IInv, NEW n, SetReadPollSource(n)
  PROVE  \A m \in Sessions : source'[m] = "none" <=> source[m] = "none"
<1>1. \A m \in Sessions : m = readPollSource => source[m] # "none"
  BY DEF IInv, DescriptorInv, Sources, Sessions
<1>2. \A m \in Sessions :
        \/ source'[m] = source[m]
        \/ m = readPollSource /\ source'[m] = "cancelled"
  <2>1. CASE n = readPollSource
    BY <2>1 DEF SetReadPollSource
  <2>2. CASE n # readPollSource
    BY <2>2 DEF SetReadPollSource, Cancelled
  <2> QED BY <2>1, <2>2
<1> QED BY <1>1, <1>2

(* What the setter of readPollSource leaves of the sources.                *)
LEMMA SourceSet ==
  ASSUME IInv, TypeOK', NEW n \in 0..sessions, SetReadPollSource(n),
         UNCHANGED <<portVars, reader, closer>>,
         n # 0 => source[n] # "none"
  PROVE  Sources' /\ Holding' /\ LastIsOpen' /\ Reading'
<1> USE DEF portVars
<1>1. \A m \in Sessions : source'[m] = "none" <=> source[m] = "none"
  BY SourceNoneKept
<1>2. \A m \in Sessions : source[m] = "cancelled" => source'[m] = "cancelled"
  BY DEF SetReadPollSource, Cancelled
<1>3. readPollSource' = n /\ (n # 0 => n \in Sessions)
  BY DEF SetReadPollSource, Sessions, IInv, TypeOK
<1> QED BY <1>1, <1>2, <1>3
        DEF IInv, DescriptorInv, Sources, Holding, LastIsOpen, Reading

(* One lemma for each step of open from the descriptor on.                 *)
LEMMA OpenSucceedsKeeps ==
  ASSUME IInv, TypeOK', NEW c \in Clients, OpenSucceeds(c)
  PROVE  DescriptorInv'
<1> USE DEF IInv, DescriptorInv, At
<1>1. /\ c = Opener /\ fileDescriptor = 0 /\ sessions' = sessions + 1
      /\ openDescriptors' = {sessions'} /\ sessions \in Nat /\ sessions' \in Sessions
      /\ UNCHANGED <<fileDescriptor, readPollSource, source, reader, closer>>
  <2>1. c = Opener
    BY DEF OpenSucceeds, OneOpener
  <2>2. fileDescriptor = 0
    BY <2>1 DEF OpenSucceeds, Opening
  <2>3. sessions' \in Sessions /\ sessions \in Nat
    BY DEF OpenSucceeds, TypeOK, Sessions
  <2> QED BY <2>1, <2>2, <2>3 DEF OpenSucceeds, sourceVars
<1>2. /\ \A d \in Clients \ {Opener} : client'[d] = client[d]
      /\ client'[Opener].pc = "opened" /\ client'[Opener].fd = sessions'
  BY <1>1 DEF OpenSucceeds, TypeOK, Calls
<1>3. source[sessions'] = "none"
  BY <1>1 DEF Sources
<1>4. OneOpener' /\ Opening'
  BY <1>1, <1>2, <1>3 DEF OneOpener, Opening
<1>5. Sources' /\ LastIsOpen' /\ NoDescriptorLeak' /\ Reading'
  BY <1>1, <1>2 DEF Sources, LastIsOpen, NoDescriptorLeak, Reading
<1>6. Holding'
  BY <1>1 DEF Holding, Sessions
<1> QED BY <1>4, <1>5, <1>6

(* The port takes the descriptor that open(2) returned.                    *)
LEMMA AssignDescriptorKeeps ==
  ASSUME IInv, TypeOK', NEW c \in Clients, AssignDescriptor(c)
  PROVE  DescriptorInv'
<1> USE DEF IInv, DescriptorInv
<1>1. c = Opener /\ client[c].fd = sessions /\ sessions \in Sessions
  BY OpenerSession DEF AssignDescriptor
<1>2. openDescriptors = {sessions} /\ source[sessions] = "none" /\ fileDescriptor = 0
  BY <1>1 DEF AssignDescriptor, Opening
<1>3. /\ fileDescriptor' = sessions
      /\ UNCHANGED <<openDescriptors, sessions, readPollSource, source, reader, closer>>
  BY <1>1 DEF AssignDescriptor, sourceVars
<1>4. /\ \A d \in Clients \ {Opener} : client'[d] = client[d]
      /\ client'[Opener].pc = "assigned" /\ client'[Opener].fd = sessions
  BY <1>1 DEF AssignDescriptor, Goto, TypeOK, Calls
<1>5. OneOpener' /\ Opening'
  BY <1>1, <1>2, <1>3, <1>4 DEF OneOpener, Opening, At, Sessions
<1>6. Sources' /\ LastIsOpen' /\ NoDescriptorLeak' /\ Reading'
  BY <1>2, <1>3 DEF Sources, LastIsOpen, NoDescriptorLeak, Reading
<1>7. Holding'
  BY <1>2, <1>3 DEF Holding, Sessions
<1> QED BY <1>5, <1>6, <1>7

(* The session's read source starts after its descriptor was assigned.     *)
LEMMA ResumeReadSourceKeeps ==
  ASSUME IInv, TypeOK', NEW c \in Clients, ResumeReadSource(c)
  PROVE  DescriptorInv'
<1> USE DEF IInv, DescriptorInv
<1>1. c = Opener /\ client[c].fd = sessions /\ sessions \in Sessions
  BY OpenerSession DEF ResumeReadSource
<1>2. fileDescriptor = sessions /\ sessions \in openDescriptors
  BY <1>1 DEF ResumeReadSource, Opening
<1>3. /\ \A n \in Sessions : source'[n] = IF n = sessions THEN "active" ELSE source[n]
      /\ UNCHANGED <<fileDescriptor, openDescriptors, sessions, readPollSource, reader, closer>>
  BY <1>1 DEF ResumeReadSource, portVars, TypeOK
<1>4. /\ \A d \in Clients \ {Opener} : client'[d] = client[d]
      /\ client'[Opener].pc = "resumed" /\ client'[Opener].fd = sessions
  BY <1>1 DEF ResumeReadSource, Goto, TypeOK, Calls
<1>5. OneOpener' /\ Opening'
  BY <1>1, <1>3, <1>4 DEF OneOpener, Opening, At, Sessions
<1>6. Sources'
  BY <1>1, <1>3 DEF Sources, TypeOK, Sessions
<1>7. LastIsOpen' /\ NoDescriptorLeak'
  BY <1>2, <1>3 DEF LastIsOpen, NoDescriptorLeak
<1>8. source[sessions] = "none"
  BY <1>1 DEF ResumeReadSource, Opening
<1>9. closer[sessions] = "idle"
  BY <1>1, <1>8 DEF Holding
<1>10. Holding' /\ Reading'
  BY <1>2, <1>3, <1>8, <1>9 DEF Holding, Reading
<1> QED BY <1>5, <1>6, <1>7, <1>10

(* The property holds the new source; the one it held was cancelled before.*)
LEMMA KeepReadSourceKeeps ==
  ASSUME IInv, TypeOK', NEW c \in Clients, KeepReadSource(c)
  PROVE  DescriptorInv'
<1> USE DEF IInv, DescriptorInv
<1>1. c = Opener /\ client[c].fd = sessions /\ sessions \in Sessions
  BY OpenerSession DEF KeepReadSource
<1>2. source[sessions] # "none" /\ sessions \in 0..sessions
  BY <1>1 DEF KeepReadSource, Opening, Sessions
<1>3. Sources' /\ Holding' /\ LastIsOpen' /\ Reading'
  BY <1>1, <1>2, SourceSet DEF KeepReadSource
<1>4. /\ \A d \in Clients \ {Opener} : client'[d] = client[d]
      /\ client'[Opener].pc = "kept" /\ client'[Opener].fd = sessions
  BY <1>1 DEF KeepReadSource, Goto, TypeOK, Calls
<1>5. OneOpener' /\ Opening' /\ NoDescriptorLeak'
  BY <1>1, <1>4 DEF KeepReadSource, portVars, OneOpener, Opening, NoDescriptorLeak, At, Sessions
<1> QED BY <1>3, <1>5

(* The last steps of open touch timers only.                               *)
LEMMA TimerKeeps ==
  ASSUME IInv, TypeOK', NEW c \in Clients, AssignTimer(c) \/ ResumeTimer(c)
  PROVE  DescriptorInv'
<1>1. c = Opener /\ ~At(Opener, "opened")
  BY DEF IInv, DescriptorInv, OneOpener, AssignTimer, ResumeTimer, At
<1>2. ASSUME NEW pc, Goto(c, pc)
      PROVE  client'[Opener].pc = pc /\ \A d \in Clients \ {Opener} : client'[d] = client[d]
  BY <1>1, <1>2 DEF Goto, IInv, TypeOK, Calls
<1>3. ASSUME Return(c)
      PROVE  client'[Opener].pc = "idle" /\ \A d \in Clients \ {Opener} : client'[d] = client[d]
  BY <1>1, <1>3 DEF Return, NoCall, IInv, TypeOK
<1>4. Goto(c, "timed") \/ Goto(c, "crashed") \/ Return(c)
  BY DEF AssignTimer, ResumeTimer
<1>5. /\ \A d \in Clients \ {Opener} : client'[d] = client[d]
      /\ client'[Opener].pc \in {"timed", "crashed", "idle"}
  BY <1>2, <1>3, <1>4
<1>6. UNCHANGED <<portVars, sourceVars>> /\ client' \in [Clients -> Calls]
  BY DEF AssignTimer, ResumeTimer, TypeOK
<1> QED BY <1>1, <1>5, <1>6, OpenerWaits

(* Open, the setters and close, up to the cancelling of the source.        *)
LEMMA CallsKeep ==
  ASSUME IInv, TypeOK', NEW c \in Clients,
         Open(c) \/ OpenFails(c) \/ SetFlowControl(c) \/ SetterCloses(c)
  PROVE  DescriptorInv'
<1>1. c = Opener
  BY DEF IInv, DescriptorInv, OneOpener, Open, OpenFails, SetFlowControl, SetterCloses, At
<1>2. client \in [Clients -> Calls] /\ client' \in [Clients -> Calls]
  BY DEF IInv, TypeOK
<1>3. UNCHANGED <<portVars, sourceVars>>
  BY DEF Open, OpenFails, SetFlowControl, SetterCloses
<1>4. ~At(Opener, "opened")
  BY <1>1 DEF Open, OpenFails, SetFlowControl, SetterCloses, At
<1>5. ASSUME NEW call, client' = [client EXCEPT ![c] = call]
      PROVE  client'[Opener] = call /\ \A d \in Clients \ {Opener} : client'[d] = client[d]
  BY <1>1, <1>2, <1>5
<1>6. ASSUME NEW pc, Goto(c, pc)
      PROVE  client'[Opener].pc = pc /\ \A d \in Clients \ {Opener} : client'[d] = client[d]
  BY <1>1, <1>2, <1>6 DEF Goto, Calls
<1>7. ASSUME CloseChecks(c)
      PROVE  client'[Opener].pc = "closing" /\ \A d \in Clients \ {Opener} : client'[d] = client[d]
  BY <1>1, <1>2, <1>7 DEF CloseChecks, Calls
<1>8. ASSUME Return(c)
      PROVE  client'[Opener].pc = "idle" /\ \A d \in Clients \ {Opener} : client'[d] = client[d]
  <2>1. client'[Opener] = NoCall /\ \A d \in Clients \ {Opener} : client'[d] = client[d]
    BY <1>5, <1>8 DEF Return
  <2> QED BY <2>1 DEF NoCall
<1>9. CASE Open(c)
  <2>1. CASE Goto(c, "opening") /\ ~isOpen
    BY <1>2, <1>3, <1>4, <1>6, <2>1, OpenerWaits DEF isOpen
  <2>2. CASE Return(c)
    BY <1>2, <1>3, <1>4, <1>8, <2>2, OpenerWaits
  <2> QED BY <1>9, <2>1, <2>2 DEF Open
<1>10. CASE OpenFails(c)
  <2>1. Return(c)
    BY <1>10 DEF OpenFails
  <2> QED BY <1>2, <1>3, <1>4, <1>8, <2>1, OpenerWaits
<1>11. CASE SetFlowControl(c)
  <2>1. client'[Opener].pc = "setting" /\ \A d \in Clients \ {Opener} : client'[d] = client[d]
    BY <1>1, <1>2, <1>11 DEF SetFlowControl, Calls
  <2> QED BY <1>2, <1>3, <1>4, <2>1, OpenerWaits
<1>12. CASE SetterCloses(c)
  <2>1. CloseChecks(c) \/ Goto(c, "reopening")
    BY <1>12 DEF SetterCloses
  <2>2. /\ client'[Opener].pc \in {"closing", "reopening"}
        /\ \A d \in Clients \ {Opener} : client'[d] = client[d]
    BY <1>6, <1>7, <2>1
  <2> QED BY <1>2, <1>3, <1>4, <2>2, OpenerWaits
<1> QED BY <1>9, <1>10, <1>11, <1>12

(* close takes note of the descriptor: of any thread that is in no method. *)
LEMMA CloseChecksKeeps ==
  ASSUME IInv, TypeOK', NEW c \in Clients, At(c, "idle"), CloseChecks(c),
         UNCHANGED <<portVars, sourceVars>>
  PROVE  DescriptorInv'
<1>1. /\ client \in [Clients -> Calls] /\ client' \in [Clients -> Calls]
  BY DEF IInv, TypeOK
<1>2. /\ client'[c].pc = "closing" /\ client'[c].reopen = client[c].reopen
      /\ \A d \in Clients \ {c} : client'[d] = client[d]
  BY <1>1 DEF CloseChecks, Calls
<1>3. CASE c = Opener
  BY <1>1, <1>2, <1>3, OpenerWaits DEF At
<1>4. CASE c # Opener
  <2>1. ~client'[c].reopen
    BY <1>2, <1>4 DEF IInv, DescriptorInv, OneOpener
  <2> QED BY <1>1, <1>2, <1>4, <2>1, OthersClose
<1> QED BY <1>3, <1>4

(* close cancels the source the property holds, and forgets it.            *)
LEMMA CloseCancelsKeeps ==
  ASSUME IInv, TypeOK', NEW c \in Clients, CloseCancels(c)
  PROVE  DescriptorInv'
<1>1. Sources' /\ Holding' /\ LastIsOpen' /\ Reading'
  <2>1. 0 \in 0..sessions
    BY DEF IInv, TypeOK
  <2> QED BY <2>1, SourceSet DEF CloseCancels
<1>2. /\ client \in [Clients -> Calls] /\ client' \in [Clients -> Calls]
      /\ UNCHANGED <<fileDescriptor, openDescriptors, sessions>>
  BY DEF IInv, TypeOK, CloseCancels, portVars
<1>3. /\ \A d \in Clients \ {c} : client'[d] = client[d]
      /\ client'[c].pc \in {"idle", "reopening"}
      /\ ~client[c].reopen => client'[c].pc = "idle" /\ ~client'[c].reopen
  <2>1. CASE client[c].reopen /\ client' = [client EXCEPT ![c] = Reopening]
    BY <1>2, <2>1 DEF Reopening
  <2>2. CASE ~client[c].reopen /\ client' = [client EXCEPT ![c] = NoCall]
    BY <1>2, <2>2 DEF NoCall
  <2> QED BY <2>1, <2>2 DEF CloseCancels, Return
<1>4. OneOpener'
  BY <1>3 DEF IInv, DescriptorInv, OneOpener
<1>5. \/ client'[Opener] = client[Opener]
      \/ /\ At(Opener, "closing")
         /\ client'[Opener].pc \in {"idle", "reopening"}
  BY <1>3 DEF CloseCancels
<1>6. NoDescriptorLeak'
  BY <1>2, <1>5 DEF IInv, DescriptorInv, NoDescriptorLeak, At
<1>7. Opening'
  <2>1. CASE client'[Opener] = client[Opener]
    <3>1. \A n \in Sessions : source'[n] = "none" <=> source[n] = "none"
      BY SourceNoneKept DEF CloseCancels
    <3>2. sessions > 0 => sessions \in Sessions
      BY DEF IInv, TypeOK, Sessions
    <3> QED BY <1>2, <2>1, <3>1, <3>2 DEF IInv, DescriptorInv, Opening, At
  <2>2. CASE client'[Opener].pc \in {"idle", "reopening"}
    BY <2>2 DEF Opening, At
  <2> QED BY <1>5, <2>1, <2>2
<1> QED BY <1>1, <1>4, <1>6, <1>7 DEF DescriptorInv

(* The read handler takes the descriptor of its own session, since its     *)
(* source is active.                                                       *)
LEMMA ReaderKeeps ==
  ASSUME IInv, TypeOK', NEW n \in Sessions, ReaderStep(n)
  PROVE  DescriptorInv'
<1>1. /\ OneOpener' /\ Opening' /\ Sources' /\ Holding' /\ LastIsOpen'
      /\ NoDescriptorLeak'
      /\ UNCHANGED <<source, closer>>
  <2>1. UNCHANGED <<portVars, readPollSource, source, closer, client>>
    BY DEF ReaderStep, ReadEvent, ReaderChecks, ReaderReads
  <2> QED BY <2>1 DEF portVars, IInv, DescriptorInv, OneOpener, Opening, Sources,
                      Holding, LastIsOpen, NoDescriptorLeak, At
<1>2. \A m \in Sessions \ {n} : reader'[m] = reader[m]
  BY DEF ReaderStep, ReadEvent, ReaderChecks, ReaderReads, IInv, TypeOK
<1>3. \/ reader'[n].step = "idle"
      \/ reader[n].step # "idle" /\ reader'[n].fd = reader[n].fd
      \/ source[n] = "active" /\ reader'[n].fd = fileDescriptor
  <2>1. CASE ReadEvent(n)
    BY <2>1 DEF ReadEvent, IInv, TypeOK
  <2>2. CASE ReaderChecks(n)
    <3>1. CASE reader' = [reader EXCEPT ![n].step = "reading"]
      BY <2>2, <3>1 DEF ReaderChecks, ReaderAt, IInv, TypeOK, ReadSteps
    <3>2. CASE reader' = [reader EXCEPT ![n] = NoReader]
      BY <3>2 DEF NoReader, IInv, TypeOK
    <3> QED BY <2>2, <3>1, <3>2 DEF ReaderChecks
  <2>3. CASE ReaderReads(n)
    BY <2>3 DEF ReaderReads, NoReader, IInv, TypeOK
  <2> QED BY <2>1, <2>2, <2>3 DEF ReaderStep
<1>4. source[n] = "active" => closer[n] = "idle" /\ fileDescriptor = n
  BY DEF IInv, DescriptorInv, Holding
<1>5. Reading'
  BY <1>1, <1>2, <1>3, <1>4 DEF IInv, DescriptorInv, Reading
<1> QED BY <1>1, <1>5 DEF DescriptorInv

(* The cancel handler of one session moves on and leaves the descriptor.   *)
LEMMA CloserMoves ==
  ASSUME IInv, NEW n \in Sessions, NEW step, CloserGoes(n, step),
         UNCHANGED <<fileDescriptor, openDescriptors, sessions, readPollSource,
                     source, reader, client>>,
         \/ closer[n] \notin {"idle", "closed"} /\ step \notin {"idle", "closing", "closed"}
         \/ closer[n] = "idle" /\ source[n] = "cancelled" /\ step = "closing"
              /\ reader[n].step = "idle"
  PROVE  DescriptorInv'
<1>1. /\ \A m \in Sessions \ {n} : closer'[m] = closer[m]
      /\ closer'[n] = step
  BY DEF CloserGoes, IInv, TypeOK
<1>2. OneOpener' /\ Opening' /\ Sources' /\ LastIsOpen' /\ NoDescriptorLeak'
  BY DEF IInv, DescriptorInv, OneOpener, Opening, Sources, LastIsOpen, NoDescriptorLeak, At
<1>3. Holding' /\ Reading'
  BY <1>1 DEF IInv, DescriptorInv, Holding, Reading
<1> QED BY <1>2, <1>3 DEF DescriptorInv

(* close(2) takes the port's own descriptor, and no other is open.         *)
LEMMA CloseDescriptorKeeps ==
  ASSUME IInv, TypeOK', NEW n \in Sessions,
         CloseDescriptor(n) \/ CloseDescriptorFails(n)
  PROVE  DescriptorInv'
<1>1. closer[n] = "closing" /\ source[n] = "cancelled"
  BY DEF CloseDescriptor, CloseDescriptorFails, CloserAt, IInv, DescriptorInv, Holding
<1>2. fileDescriptor = n /\ openDescriptors = {n} /\ sessions = n
  BY <1>1 DEF IInv, DescriptorInv, Holding, LastIsOpen
<1>3. PICK step \in {"closed", "done"} :
        /\ CloserGoes(n, step)
        /\ step = "closed" => openDescriptors' = {}
        /\ openDescriptors' \in {{}, {n}}
  BY <1>2 DEF CloseDescriptor, CloseDescriptorFails
<1>4. UNCHANGED <<fileDescriptor, sessions, readPollSource, source, reader, client>>
  BY DEF CloseDescriptor, CloseDescriptorFails
<1>5. /\ \A m \in Sessions \ {n} : closer'[m] = closer[m]
      /\ closer'[n] = step
  BY <1>3 DEF CloserGoes, IInv, TypeOK
<1>6. \A m \in Sessions \ {n} :
        ~(source[m] # "none" /\ closer[m] \in {"idle", "closing"}) /\ closer[m] # "closed"
  BY <1>2 DEF IInv, DescriptorInv, Holding
<1>7. Holding'
  BY <1>1, <1>2, <1>3, <1>4, <1>5, <1>6 DEF IInv, DescriptorInv, Holding
<1>8. Reading'
  BY <1>1, <1>4, <1>5 DEF IInv, DescriptorInv, Reading
<1>9. OneOpener' /\ Opening' /\ Sources'
  <2>1. sessions > 0 /\ source[sessions] # "none"
    BY <1>1, <1>2 DEF Sessions
  <2>2. ~At(Opener, "opened") /\ ~At(Opener, "assigned")
    BY <2>1 DEF IInv, DescriptorInv, Opening
  <2>3. At(Opener, "opening")' => fileDescriptor = 0
    BY <1>4 DEF IInv, DescriptorInv, Opening, At
  <2> QED BY <1>4, <2>1, <2>2, <2>3 DEF IInv, DescriptorInv, OneOpener, Opening, Sources, At
<1>10. LastIsOpen' /\ NoDescriptorLeak'
  BY <1>2, <1>3, <1>4 DEF IInv, DescriptorInv, LastIsOpen, NoDescriptorLeak
<1> QED BY <1>7, <1>8, <1>9, <1>10 DEF DescriptorInv

(* The port is cleared when no descriptor is open.                         *)
LEMMA ClearDescriptorKeeps ==
  ASSUME IInv, TypeOK', NEW n \in Sessions, ClearDescriptor(n)
  PROVE  DescriptorInv'
<1>1. closer[n] = "closed" /\ source[n] = "cancelled"
  BY DEF ClearDescriptor, CloserAt, IInv, DescriptorInv, Holding
<1>2. fileDescriptor = n /\ openDescriptors = {} /\ sessions = n
  <2>1. fileDescriptor = n /\ n \notin openDescriptors
    BY <1>1 DEF IInv, DescriptorInv, Holding
  <2> QED BY <2>1 DEF IInv, DescriptorInv, LastIsOpen, Sessions
<1>3. /\ fileDescriptor' = 0
      /\ UNCHANGED <<openDescriptors, sessions, readPollSource, source, reader, client>>
  BY DEF ClearDescriptor
<1>4. /\ \A m \in Sessions \ {n} : closer'[m] = closer[m]
      /\ closer'[n] \in {"telling", "done"}
  BY DEF ClearDescriptor, CloserGoes, IInv, TypeOK
<1>5. \A m \in Sessions \ {n} :
        ~(source[m] # "none" /\ closer[m] \in {"idle", "closing"}) /\ closer[m] # "closed"
  BY <1>2 DEF IInv, DescriptorInv, Holding
<1>6. Holding' /\ Reading'
  BY <1>1, <1>3, <1>4, <1>5 DEF IInv, DescriptorInv, Holding, Reading
<1>7. OneOpener' /\ Opening' /\ Sources'
  <2>1. ~At(Opener, "opened") /\ ~At(Opener, "assigned")
    BY <1>1, <1>2 DEF IInv, DescriptorInv, Opening
  <2> QED BY <1>3, <2>1 DEF IInv, DescriptorInv, OneOpener, Opening, Sources, At
<1>8. LastIsOpen' /\ NoDescriptorLeak'
  BY <1>2, <1>3 DEF LastIsOpen, NoDescriptorLeak
<1> QED BY <1>6, <1>7, <1>8 DEF DescriptorInv

(* The poller cancels the source of whatever session is current.           *)
LEMMA PollerCancelsKeeps ==
  ASSUME IInv, TypeOK', NEW n \in Sessions, PollerCancels(n)
  PROVE  DescriptorInv'
<1>1. Sources' /\ Holding' /\ LastIsOpen' /\ Reading'
  <2>1. 0 \in 0..sessions
    BY DEF IInv, TypeOK
  <2> QED BY <2>1, SourceSet DEF PollerCancels
<1>2. UNCHANGED <<fileDescriptor, openDescriptors, sessions, client>>
  BY DEF PollerCancels, portVars
<1>3. OneOpener' /\ NoDescriptorLeak'
  BY <1>2 DEF IInv, DescriptorInv, OneOpener, NoDescriptorLeak, At
<1>4. Opening'
  <2>1. \A m \in Sessions : source'[m] = "none" <=> source[m] = "none"
    BY SourceNoneKept DEF PollerCancels
  <2>2. sessions > 0 => sessions \in Sessions
    BY DEF IInv, TypeOK, Sessions
  <2> QED BY <1>2, <2>1, <2>2 DEF IInv, DescriptorInv, Opening, At
<1> QED BY <1>1, <1>3, <1>4 DEF DescriptorInv

(* Every step keeps the descriptor, the sources and their threads in step. *)
LEMMA DescriptorStep ==
  ASSUME IInv, TypeOK', [Next]_vars
  PROVE  DescriptorInv'
<1>1. ASSUME NEW c \in Clients, Close(c)
      PROVE  DescriptorInv'
  BY <1>1, CloseChecksKeeps DEF Close
<1>2. ASSUME NEW n \in Sessions, StopPolling(n)
      PROVE  DescriptorInv'
  BY <1>2, CloserMoves DEF StopPolling, CloserAt, ReaderAt, portVars
<1>3. ASSUME NEW n \in Sessions, DispatchReset(n)
      PROVE  DescriptorInv'
  BY <1>3, CloserMoves DEF DispatchReset, CloserAt, portVars
<1>4. ASSUME NEW n \in Sessions, MainRunsWasClosed(n)
      PROVE  DescriptorInv'
  BY <1>4, CloserMoves DEF MainRunsWasClosed, CloserAt, portVars
<1>5. CASE MainReturns
  <2> DEFINE n == mainRunning.id
  <2>1. UNCHANGED <<portVars, readPollSource, source, reader>>
    BY <1>5 DEF MainReturns
  <2>2. CASE UNCHANGED <<closer, client>>
    BY <2>1, <2>2, Undisturbed DEF portVars
  <2>3. CASE n = 0 /\ closer' = closer /\ CloseChecks(Main)
    BY <1>5, <2>1, <2>3, CloseChecksKeeps DEF MainReturns, sourceVars
  <2>4. CASE /\ mainRunning.op = "closed" /\ n # 0 /\ client' = client
             /\ closer' = [closer EXCEPT ![n] = "told"]
    <3>1. n \in Sessions /\ closer[n] = "waiting"
      BY <2>4 DEF IInv, WasClosedWaits
    <3>2. CloserGoes(n, "told")
      BY <2>4 DEF CloserGoes
    <3> QED BY <2>1, <2>4, <3>1, <3>2, CloserMoves DEF portVars
  <2> QED BY <1>5, <2>2, <2>3, <2>4 DEF MainReturns
<1>6. ASSUME NEW n \in Sessions,
             \/ PollerFires(n) \/ PollerAsks(n) \/ PollerReadsErrno(n) \/ PollerCloses(n)
             \/ PollerCancelsTimer(n) \/ MainRunsWasRemoved(n)
      PROVE  DescriptorInv'
  BY <1>6, Undisturbed DEF PollerFires, PollerAsks, PollerReadsErrno, PollerCloses,
     PollerCancelsTimer, MainRunsWasRemoved, portVars, sourceVars
<1>7. CASE MainRunsBlock \/ SystemReportsRemoval \/ DeviceRemoved \/ UNCHANGED vars
  BY <1>7, Undisturbed DEF MainRunsBlock, SystemReportsRemoval, DeviceRemoved, vars,
     portVars, sourceVars
<1> QED BY <1>1, <1>2, <1>3, <1>4, <1>5, <1>6, <1>7, CallsKeep, OpenSucceedsKeeps,
           AssignDescriptorKeeps, ResumeReadSourceKeeps, KeepReadSourceKeeps,
           TimerKeeps, CloseCancelsKeeps, ReaderKeeps, CloseDescriptorKeeps,
           ClearDescriptorKeeps, PollerCancelsKeeps
        DEF Next, Alive, Step, Enter, Continue, CloserStep, PollerStep

(* Setting up a timer or cancelling it leaves the property's alone armed.  *)
LEMMA TimerStep ==
  ASSUME IInv, TypeOK', [Next]_vars
  PROVE  OneTimer'
<1>1. ASSUME UNCHANGED <<pinPollTimer, timer>>
      PROVE  OneTimer'
  BY <1>1 DEF IInv, OneTimer
<1>2. ASSUME NEW c \in Clients, AssignTimer(c) \/ ResumeTimer(c)
      PROVE  OneTimer'
  <2>1. CASE AssignTimer(c)
    <3>1. \A n \in Sessions : Cancelled(timer, pinPollTimer)[n] # "active"
      BY DEF Cancelled, IInv, OneTimer
    <3>2. \A n \in Sessions : timer'[n] # "active"
      BY <2>1, <3>1 DEF AssignTimer, Cancelled
    <3> QED BY <3>2 DEF OneTimer
  <2>2. CASE ResumeTimer(c) /\ pinPollTimer # 0
    <3>1. timer' = [timer EXCEPT ![pinPollTimer] = "active"] /\ pinPollTimer' = pinPollTimer
      BY <2>2 DEF ResumeTimer
    <3> QED BY <3>1 DEF IInv, TypeOK, OneTimer
  <2>3. CASE ResumeTimer(c) /\ pinPollTimer = 0
    BY <1>1, <2>3 DEF ResumeTimer
  <2> QED BY <1>2, <2>1, <2>2, <2>3
<1>3. ASSUME NEW n \in Sessions, StopPolling(n)
      PROVE  OneTimer'
  BY <1>3 DEF StopPolling, Cancelled, IInv, OneTimer
<1>4. ASSUME NEW n \in Sessions, PollerCancelsTimer(n)
      PROVE  OneTimer'
  BY <1>4 DEF PollerCancelsTimer, Cancelled, IInv, OneTimer
<1>5. ASSUME NEW c \in Clients,
             \/ Open(c) \/ OpenFails(c) \/ OpenSucceeds(c) \/ AssignDescriptor(c)
             \/ ResumeReadSource(c) \/ KeepReadSource(c) \/ Close(c)
             \/ CloseCancels(c) \/ SetFlowControl(c) \/ SetterCloses(c)
      PROVE  OneTimer'
  <2>1. UNCHANGED timerVars
    BY <1>5 DEF Open, OpenFails, OpenSucceeds, AssignDescriptor, ResumeReadSource,
       KeepReadSource, Close, CloseCancels, SetFlowControl, SetterCloses
  <2> QED BY <1>1, <2>1 DEF timerVars
<1>6. ASSUME NEW n \in Sessions,
             \/ ReaderStep(n) \/ CloseDescriptor(n) \/ CloseDescriptorFails(n)
             \/ ClearDescriptor(n) \/ DispatchReset(n) \/ MainRunsWasClosed(n)
      PROVE  OneTimer'
  <2>1. UNCHANGED timerVars
    BY <1>6 DEF ReaderStep, ReadEvent, ReaderChecks, ReaderReads, CloseDescriptor,
       CloseDescriptorFails, ClearDescriptor, DispatchReset, MainRunsWasClosed
  <2> QED BY <1>1, <2>1 DEF timerVars
<1>7. ASSUME NEW n \in Sessions, PollerStep(n) \/ MainRunsWasRemoved(n)
      PROVE  OneTimer'
  BY <1>1, <1>7 DEF PollerStep, PollerFires, PollerAsks, PollerReadsErrno,
     PollerCloses, PollerCancels, MainRunsWasRemoved
<1>8. CASE \/ MainRunsBlock \/ MainReturns \/ SystemReportsRemoval
           \/ DeviceRemoved \/ UNCHANGED vars
  BY <1>1, <1>8 DEF MainRunsBlock, MainReturns, SystemReportsRemoval, DeviceRemoved,
     vars, timerVars
<1> QED BY <1>2, <1>3, <1>4, <1>5, <1>6, <1>7, <1>8
        DEF Next, Alive, Step, Enter, Continue, CloserStep

(* A close that waits for serialPortWasClosed: is woken by its return only. *)
LEMMA WasClosedStep ==
  ASSUME IInv, TypeOK', [Next]_vars
  PROVE  WasClosedWaits'
<1>1. ASSUME UNCHANGED <<mainRunning, closer>>
      PROVE  WasClosedWaits'
  BY <1>1 DEF IInv, WasClosedWaits
<1>2. ASSUME mainRunning'.op # "closed"
      PROVE  WasClosedWaits'
  BY <1>2 DEF WasClosedWaits
<1>3. ASSUME NEW n \in Sessions, CloserStep(n)
      PROVE  WasClosedWaits'
  <2>1. closer[n] # "waiting" /\ \E step : CloserGoes(n, step)
    BY <1>3 DEF CloserStep, StopPolling, CloseDescriptor, CloseDescriptorFails,
       ClearDescriptor, DispatchReset, CloserAt
  <2>2. mainRunning' = mainRunning
    BY <1>3 DEF CloserStep, StopPolling, CloseDescriptor, CloseDescriptorFails,
       ClearDescriptor, DispatchReset, mainVars
  <2>3. \A m \in Sessions : closer[m] = "waiting" => closer'[m] = "waiting"
    BY <2>1 DEF CloserGoes, IInv, TypeOK
  <2> QED BY <2>2, <2>3 DEF IInv, WasClosedWaits
<1>4. ASSUME NEW n \in Sessions, MainRunsWasClosed(n)
      PROVE  WasClosedWaits'
  BY <1>4 DEF MainRunsWasClosed, CloserGoes, WasClosedWaits, IInv, TypeOK
<1>5. CASE MainRunsBlock
  <2>1. Head(mainQueue) \in Blocks
    BY <1>5, HeadTailProperties DEF MainRunsBlock, IInv, TypeOK
  <2> QED BY <1>2, <1>5, <2>1 DEF MainRunsBlock, Blocks
<1>6. CASE MainReturns \/ SystemReportsRemoval
  BY <1>2, <1>6 DEF MainReturns, SystemReportsRemoval, Idle
<1>7. ASSUME NEW n \in Sessions, MainRunsWasRemoved(n)
      PROVE  WasClosedWaits'
  BY <1>2, <1>7 DEF MainRunsWasRemoved
<1>8. ASSUME NEW c \in Clients, Enter(c) \/ Continue(c)
      PROVE  WasClosedWaits'
  <2>1. UNCHANGED <<mainRunning, closer>>
    BY <1>8 DEF Enter, Continue, Open, OpenFails, OpenSucceeds, AssignDescriptor,
       ResumeReadSource, KeepReadSource, AssignTimer, ResumeTimer, Close,
       CloseCancels, SetFlowControl, SetterCloses, mainVars, sourceVars
  <2> QED BY <1>1, <2>1
<1>9. ASSUME NEW n \in Sessions, ReaderStep(n) \/ PollerStep(n) \/ PollerCancelsTimer(n)
      PROVE  WasClosedWaits'
  <2>1. UNCHANGED <<mainRunning, closer>>
    BY <1>9 DEF ReaderStep, ReadEvent, ReaderChecks, ReaderReads, PollerStep,
       PollerFires, PollerAsks, PollerReadsErrno, PollerCloses, PollerCancels,
       PollerCancelsTimer, mainVars, sourceVars
  <2> QED BY <1>1, <2>1
<1>10. CASE DeviceRemoved \/ UNCHANGED vars
  BY <1>1, <1>10 DEF DeviceRemoved, vars, mainVars, sourceVars
<1> QED BY <1>3, <1>4, <1>5, <1>6, <1>7, <1>8, <1>9, <1>10 DEF Next, Alive, Step

-----------------------------------------------------------------------------
(* The inductive invariant holds in every reachable state.                 *)
THEOREM InvCorrect == Spec => []IInv
<1>1. Init => IInv
  <2> SUFFICES ASSUME Init PROVE IInv
    OBVIOUS
  <2> USE DEF Init
  <2>1. TypeOK
    <3>1. NoReader \in ReadSteps /\ NoCall \in Calls /\ Idle \in Running
      BY DEF NoReader, ReadSteps, NoCall, Calls, Idle, Running
    <3>2. mainQueue \in Seq(Blocks)
      BY EmptySeq
    <3>3. /\ source \in [Sessions -> SourceStates] /\ timer \in [Sessions -> TimerStates]
          /\ closer \in [Sessions -> CloseSteps] /\ poller \in [Sessions -> PollSteps]
      BY DEF SourceStates, TimerStates, CloseSteps, PollSteps
    <3>4. reader \in [Sessions -> ReadSteps] /\ client \in [Clients -> Calls]
      BY <3>1
    <3>5. /\ fileDescriptor \in 0..sessions /\ sessions \in 0..MaxSessions
          /\ readPollSource \in 0..sessions /\ pinPollTimer \in 0..sessions
      OBVIOUS
    <3>6. /\ openDescriptors \subseteq 1..sessions /\ cancelBlocks \subseteq Sessions
          /\ device \in {"present", "gone", "reported"} /\ mainRunning \in Running
          /\ saidYes \in BOOLEAN /\ reopenOwed \in BOOLEAN
      BY <3>1
    <3> HIDE DEF Init
    <3> QED BY <3>2, <3>3, <3>4, <3>5, <3>6 DEF TypeOK
  <2>2. \A c \in Clients : client[c].pc = "idle" /\ ~client[c].reopen
    BY DEF NoCall
  <2>3. \A n \in Sessions : reader[n].step = "idle"
    BY DEF NoReader
  <2>4. DescriptorInv
    BY <2>2, <2>3 DEF DescriptorInv, OneOpener, Opening, Sources, Holding,
       LastIsOpen, NoDescriptorLeak, Reading, At
  <2>5. OneTimer /\ WasClosedWaits
    BY DEF OneTimer, WasClosedWaits, Idle
  <2> QED BY <2>1, <2>4, <2>5 DEF IInv
<1>2. IInv /\ [Next]_vars => IInv'
  <2> SUFFICES ASSUME IInv, [Next]_vars PROVE IInv'
    OBVIOUS
  <2>1. TypeOK'
    BY TypeStep
  <2> QED BY <2>1, DescriptorStep, TimerStep, WasClosedStep DEF IInv
<1> QED BY <1>1, <1>2, PTL DEF Spec

(* Every reachable state is well-typed.                                    *)
THEOREM TypeCorrect == Spec => []TypeOK
<1>1. IInv => TypeOK
  BY DEF IInv
<1> QED BY <1>1, InvCorrect, PTL

(* An active read source has its own descriptor open behind it, and the    *)
(* port holds it, for any interleaving of opens, closes and handlers.      *)
THEOREM SourcesHaveDescriptors == Spec => []SourceHasDescriptor
<1>1. IInv => SourceHasDescriptor
  BY DEF IInv, DescriptorInv, Holding, SourceHasDescriptor
<1> QED BY <1>1, InvCorrect, PTL

(* The read handler never reads a closed descriptor or another session's.  *)
THEOREM ReadsAreOwn == Spec => []ReadsOwnDescriptor
<1>1. IInv => ReadsOwnDescriptor
  BY DEF IInv, DescriptorInv, Reading, Holding, ReadsOwnDescriptor, ReaderAt
<1> QED BY <1>1, InvCorrect, PTL

(* No open descriptor is ever lost.                                        *)
THEOREM DescriptorsKept == Spec => []NoDescriptorLeak
<1>1. IInv => NoDescriptorLeak
  BY DEF IInv, DescriptorInv
<1> QED BY <1>1, InvCorrect, PTL

(* No two timers poll the pins at a time.                                  *)
THEOREM PollersAlone == Spec => []OnePoller
<1>1. IInv => OnePoller
  BY DEF IInv, OneTimer, OnePoller
<1> QED BY <1>1, InvCorrect, PTL

-----------------------------------------------------------------------------
(* SerialRequests sees the port itself, the closes that wait for the main  *)
(* thread or have returned from it, and serialPortWasClosed:, no more.     *)
LEMMA Unseen ==
  ASSUME UNCHANGED fileDescriptor,
         \A n \in Sessions : /\ CloserAt(n, "telling")' <=> CloserAt(n, "telling")
                             /\ CloserAt(n, "told")' <=> CloserAt(n, "told"),
         mainRunning.op = "closed" \/ mainRunning'.op = "closed" => UNCHANGED mainRunning
  PROVE  UNCHANGED Sees!vars
<1>1. isOpen' = isOpen
  BY DEF isOpen
<1>2. /\ {n \in Sessions : CloserAt(n, "telling")}' = {n \in Sessions : CloserAt(n, "telling")}
      /\ {n \in Sessions : CloserAt(n, "told")}' = {n \in Sessions : CloserAt(n, "told")}
  OBVIOUS
<1>3. (IF mainRunning.op = "closed" THEN {mainRunning.id} ELSE {})'
        = IF mainRunning.op = "closed" THEN {mainRunning.id} ELSE {}
  OBVIOUS
<1> QED BY <1>1, <1>2, <1>3 DEF Sees!vars

(* The port opens when open assigns its descriptor.                        *)
LEMMA AssignDescriptorSeen ==
  ASSUME IInv, NEW c \in Clients, AssignDescriptor(c)
  PROVE  Sees!Open
<1>1. client[c].fd = sessions /\ sessions # 0 /\ fileDescriptor = 0
  BY OpenerSession DEF AssignDescriptor, IInv, DescriptorInv, Opening, At, Sessions
<1>2. fileDescriptor' # 0 /\ UNCHANGED <<closer, mainRunning>>
  BY <1>1 DEF AssignDescriptor, sourceVars
<1> QED BY <1>1, <1>2 DEF Sees!Open, isOpen, CloserAt

(* It closes when reallyClosePort clears it, which starts the close's wait.*)
LEMMA ClearDescriptorSeen ==
  ASSUME IInv, NEW n \in Sessions, ClearDescriptor(n)
  PROVE  Sees!ReallyClosePort
<1> DEFINE telling == {m \in Sessions : CloserAt(m, "telling")}
           told    == {m \in Sessions : CloserAt(m, "told")}
           inWasClosed == IF mainRunning.op = "closed" THEN {mainRunning.id} ELSE {}
<1>1. closer[n] = "closed" /\ fileDescriptor = n /\ n # 0
  BY DEF ClearDescriptor, CloserAt, IInv, DescriptorInv, Holding, Sessions
<1>2. /\ fileDescriptor' = 0 /\ mainRunning' = mainRunning
      /\ closer' = [closer EXCEPT ![n] = IF HandlesClosed THEN "telling" ELSE "done"]
  BY DEF ClearDescriptor, CloserGoes, mainVars
<1>3. closer'[n] = (IF HandlesClosed THEN "telling" ELSE "done")
      /\ \A m \in Sessions \ {n} : closer'[m] = closer[m]
  BY <1>2 DEF IInv, TypeOK
<1>4. n \notin telling \cup inWasClosed \cup told
  BY <1>1 DEF CloserAt, IInv, WasClosedWaits
<1>5. told' = told /\ telling' = IF HandlesClosed THEN telling \cup {n} ELSE telling
  BY <1>1, <1>3 DEF CloserAt
<1>6. isOpen /\ ~isOpen' /\ inWasClosed' = inWasClosed
  BY <1>1, <1>2 DEF isOpen
<1> HIDE DEF telling, told, inWasClosed
<1>7. IF HandlesClosed
      THEN \E m \in Sessions \ (telling \cup inWasClosed \cup told) :
             telling' = telling \cup {m}
      ELSE telling' = telling
  BY <1>4, <1>5
<1> QED BY <1>5, <1>6, <1>7 DEF Sees!ReallyClosePort, isOpen, telling, told, inWasClosed

(* The main thread takes a close that waits.                               *)
LEMMA MainRunsWasClosedSeen ==
  ASSUME IInv, NEW n \in Sessions, MainRunsWasClosed(n)
  PROVE  Sees!MainRunsWasClosed
<1> DEFINE telling == {m \in Sessions : CloserAt(m, "telling")}
           told    == {m \in Sessions : CloserAt(m, "told")}
           inWasClosed == IF mainRunning.op = "closed" THEN {mainRunning.id} ELSE {}
<1>1. /\ mainRunning.op = "idle" /\ closer[n] = "telling"
      /\ mainRunning' = [op |-> "closed", id |-> n]
      /\ closer' = [closer EXCEPT ![n] = "waiting"]
      /\ fileDescriptor' = fileDescriptor
  BY DEF MainRunsWasClosed, MainIsFree, Idle, CloserAt, CloserGoes, portVars
<1>2. closer'[n] = "waiting" /\ \A m \in Sessions \ {n} : closer'[m] = closer[m]
  BY <1>1 DEF IInv, TypeOK
<1>3. n \in telling /\ telling' = telling \ {n} /\ told' = told
  BY <1>1, <1>2 DEF CloserAt
<1>4. inWasClosed = {} /\ inWasClosed' = {n} /\ isOpen' = isOpen
  BY <1>1 DEF isOpen
<1> HIDE DEF telling, told, inWasClosed
<1> QED BY <1>3, <1>4 DEF Sees!MainRunsWasClosed, isOpen, telling, told, inWasClosed

(* When serialPortWasClosed: returns the close may dispatch its reset.     *)
LEMMA MainReturnsSeen ==
  ASSUME IInv, MainReturns, mainRunning.op = "closed"
  PROVE  Sees!MainReturns
<1> DEFINE n       == mainRunning.id
           telling == {m \in Sessions : CloserAt(m, "telling")}
           told    == {m \in Sessions : CloserAt(m, "told")}
           inWasClosed == IF mainRunning.op = "closed" THEN {mainRunning.id} ELSE {}
<1>1. n \in Sessions /\ n # 0 /\ closer[n] = "waiting"
  BY DEF IInv, WasClosedWaits, Sessions
<1>2. /\ closer' = [closer EXCEPT ![n] = "told"]
      /\ mainRunning' = Idle /\ fileDescriptor' = fileDescriptor
  BY <1>1 DEF MainReturns, portVars
<1>3. closer'[n] = "told" /\ \A m \in Sessions \ {n} : closer'[m] = closer[m]
  BY <1>1, <1>2 DEF IInv, TypeOK
<1>4. telling' = telling /\ told' = told \cup {n}
  BY <1>1, <1>3 DEF CloserAt
<1>5. inWasClosed = {n} /\ inWasClosed' = {} /\ isOpen' = isOpen
  BY <1>2 DEF isOpen, Idle
<1> HIDE DEF n, telling, told, inWasClosed
<1> QED BY <1>4, <1>5 DEF Sees!MainReturns, isOpen, telling, told, inWasClosed

(* It dispatches it.                                                       *)
LEMMA DispatchResetSeen ==
  ASSUME IInv, NEW n \in Sessions, DispatchReset(n)
  PROVE  Sees!DispatchReset
<1> DEFINE telling == {m \in Sessions : CloserAt(m, "telling")}
           told    == {m \in Sessions : CloserAt(m, "told")}
<1>1. /\ closer[n] = "told" /\ closer' = [closer EXCEPT ![n] = "done"]
      /\ UNCHANGED <<mainRunning, fileDescriptor>>
  BY DEF DispatchReset, CloserAt, CloserGoes, mainVars, portVars
<1>2. closer'[n] = "done" /\ \A m \in Sessions \ {n} : closer'[m] = closer[m]
  BY <1>1 DEF IInv, TypeOK
<1>3. n \in told /\ told' = told \ {n} /\ telling' = telling
  BY <1>1, <1>2 DEF CloserAt
<1>4. isOpen' = isOpen
  BY <1>1 DEF isOpen
<1> HIDE DEF telling, told
<1> QED BY <1>1, <1>3, <1>4 DEF Sees!DispatchReset, isOpen, telling, told

(* Every other step of a close happens before serialPortWasClosed: waits   *)
(* for the main thread, or ends a close that failed.                       *)
LEMMA CloserUnseen ==
  ASSUME IInv, NEW n \in Sessions,
         StopPolling(n) \/ CloseDescriptor(n) \/ CloseDescriptorFails(n)
  PROVE  UNCHANGED Sees!vars
<1>1. UNCHANGED <<fileDescriptor, mainRunning>>
  BY DEF StopPolling, CloseDescriptor, CloseDescriptorFails, portVars, mainVars
<1>2. /\ closer[n] \in {"idle", "closing"}
      /\ \E step \in {"closing", "closed", "done"} :
           closer' = [closer EXCEPT ![n] = step]
  BY DEF StopPolling, CloseDescriptor, CloseDescriptorFails, CloserAt, CloserGoes
<1>3. \A m \in Sessions : /\ closer'[m] = "telling" <=> closer[m] = "telling"
                          /\ closer'[m] = "told" <=> closer[m] = "told"
  BY <1>2 DEF IInv, TypeOK
<1> QED BY <1>1, <1>3, Unseen DEF CloserAt

(* Callers, read handlers and pollers move neither a close nor the main    *)
(* thread; only AssignDescriptor among them changes fileDescriptor.        *)
LEMMA OthersUnseen ==
  ASSUME IInv,
         \/ \E c \in Clients :
              \/ Enter(c)
              \/ Continue(c) /\ ~AssignDescriptor(c)
         \/ \E n \in Sessions :
              ReaderStep(n) \/ PollerStep(n) \/ PollerCancelsTimer(n)
         \/ DeviceRemoved
         \/ UNCHANGED vars
  PROVE  UNCHANGED Sees!vars
<1>1. ASSUME UNCHANGED <<fileDescriptor, closer, mainRunning>>
      PROVE  UNCHANGED Sees!vars
  BY <1>1, Unseen DEF CloserAt
<1>2. ASSUME NEW c \in Clients, Enter(c)
      PROVE  UNCHANGED Sees!vars
  <2>1. UNCHANGED <<fileDescriptor, closer, mainRunning>>
    BY <1>2 DEF Enter, Open, Close, SetFlowControl, portVars, sourceVars, mainVars
  <2> QED BY <1>1, <2>1
<1>3. ASSUME NEW c \in Clients, Continue(c), ~AssignDescriptor(c)
      PROVE  UNCHANGED Sees!vars
  <2>1. UNCHANGED <<fileDescriptor, closer, mainRunning>>
    BY <1>3 DEF Continue, Open, OpenFails, OpenSucceeds, ResumeReadSource,
       KeepReadSource, AssignTimer, ResumeTimer, CloseCancels, SetterCloses, portVars,
       sourceVars, mainVars
  <2> QED BY <1>1, <2>1
<1>4. ASSUME NEW n \in Sessions, ReaderStep(n)
      PROVE  UNCHANGED Sees!vars
  <2>1. UNCHANGED <<fileDescriptor, closer, mainRunning>>
    BY <1>4 DEF ReaderStep, ReadEvent, ReaderChecks, ReaderReads, portVars, mainVars
  <2> QED BY <1>1, <2>1
<1>5. ASSUME NEW n \in Sessions, PollerStep(n) \/ PollerCancelsTimer(n)
      PROVE  UNCHANGED Sees!vars
  <2>1. UNCHANGED <<fileDescriptor, closer, mainRunning>>
    BY <1>5 DEF PollerStep, PollerFires, PollerAsks, PollerReadsErrno,
       PollerCloses, PollerCancels, PollerCancelsTimer, portVars, sourceVars,
       mainVars
  <2> QED BY <1>1, <2>1
<1>6. CASE DeviceRemoved \/ UNCHANGED vars
  <2>1. UNCHANGED <<fileDescriptor, closer, mainRunning>>
    BY <1>6 DEF DeviceRemoved, vars, portVars, sourceVars, mainVars
  <2> QED BY <1>1, <2>1
<1> QED BY <1>2, <1>3, <1>4, <1>5, <1>6

(* Neither are the main thread's other callbacks and blocks seen.          *)
LEMMA MainUnseen ==
  ASSUME IInv,
         \/ MainRunsBlock
         \/ MainReturns /\ mainRunning.op # "closed"
         \/ \E n \in Sessions : MainRunsWasRemoved(n)
         \/ SystemReportsRemoval
  PROVE  UNCHANGED Sees!vars
<1>1. ASSUME UNCHANGED <<fileDescriptor, closer>>,
             mainRunning.op # "closed", mainRunning'.op # "closed"
      PROVE  UNCHANGED Sees!vars
  BY <1>1, Unseen DEF CloserAt
<1>2. CASE MainRunsBlock
  <2>1. Head(mainQueue) \in Blocks
    BY <1>2, HeadTailProperties DEF MainRunsBlock, IInv, TypeOK
  <2>2. mainRunning.op # "closed" /\ mainRunning'.op # "closed"
    BY <1>2, <2>1 DEF MainRunsBlock, MainIsFree, Idle, Blocks
  <2>3. UNCHANGED <<fileDescriptor, closer>>
    BY <1>2 DEF MainRunsBlock, portVars, sourceVars
  <2> QED BY <1>1, <2>2, <2>3
<1>3. CASE MainReturns /\ mainRunning.op # "closed"
  <2>1. UNCHANGED <<fileDescriptor, closer>> /\ mainRunning' = Idle
    BY <1>3 DEF MainReturns, portVars
  <2> QED BY <1>1, <1>3, <2>1 DEF Idle
<1>4. CASE SystemReportsRemoval \/ \E n \in Sessions : MainRunsWasRemoved(n)
  <2>1. mainRunning.op # "closed" /\ mainRunning'.op # "closed"
    BY <1>4 DEF SystemReportsRemoval, MainRunsWasRemoved, MainIsFree, Idle
  <2>2. UNCHANGED <<fileDescriptor, closer>>
    BY <1>4 DEF SystemReportsRemoval, MainRunsWasRemoved, portVars, sourceVars
  <2> QED BY <1>1, <2>1, <2>2
<1> QED BY <1>2, <1>3, <1>4

(* The life of the port is the one SerialRequests assumes: whatever the    *)
(* threads that open, read, poll and close do, it is opened when closed,   *)
(* closed when open, and each close is told and then resets the requests.  *)
THEOREM Refinement == Spec => ImplementsPortSessions
<1>1. Init => Sees!Init
  <2> SUFFICES ASSUME Init PROVE Sees!Init
    OBVIOUS
  <2>1. \A n \in Sessions : closer[n] = "idle"
    BY DEF Init
  <2>2. ~isOpen /\ mainRunning.op # "closed"
    BY DEF Init, isOpen, Idle
  <2> QED BY <2>1, <2>2 DEF Sees!Init, CloserAt
<1>2. IInv /\ [Next]_vars => [Sees!Next]_(Sees!vars)
  <2> SUFFICES ASSUME IInv, [Next]_vars PROVE Sees!Next \/ UNCHANGED Sees!vars
    OBVIOUS
  <2>1. ASSUME NEW c \in Clients, Enter(c) \/ Continue(c)
        PROVE  Sees!Next \/ UNCHANGED Sees!vars
    BY <2>1, AssignDescriptorSeen, OthersUnseen DEF Sees!Next
  <2>2. ASSUME NEW n \in Sessions, CloserStep(n)
        PROVE  Sees!Next \/ UNCHANGED Sees!vars
    BY <2>2, ClearDescriptorSeen, DispatchResetSeen, CloserUnseen
       DEF CloserStep, Sees!Next
  <2>3. ASSUME NEW n \in Sessions, MainRunsWasClosed(n)
        PROVE  Sees!Next \/ UNCHANGED Sees!vars
    BY <2>3, MainRunsWasClosedSeen DEF Sees!Next
  <2>4. CASE MainReturns
    BY <2>4, MainReturnsSeen, MainUnseen DEF Sees!Next
  <2>5. CASE MainRunsBlock \/ SystemReportsRemoval
             \/ \E n \in Sessions : MainRunsWasRemoved(n)
    BY <2>5, MainUnseen
  <2>6. CASE DeviceRemoved \/ UNCHANGED vars
             \/ \E n \in Sessions :
                  ReaderStep(n) \/ PollerStep(n) \/ PollerCancelsTimer(n)
    BY <2>6, OthersUnseen
  <2> QED BY <2>1, <2>2, <2>3, <2>4, <2>5, <2>6 DEF Next, Alive, Step
<1> QED BY <1>1, <1>2, InvCorrect, PTL DEF Spec, ImplementsPortSessions, Sees!Spec
=============================================================================
