------------------------ MODULE SerialPortLifecycle ------------------------
(***************************************************************************)
(* Opening, reading, polling and closing in ORSSerialPort                  *)
(* (ORSSerialPort.m:246-397): the threads that share fileDescriptor,       *)
(* readPollSource and pinPollTimer without a lock.                         *)
(*                                                                         *)
(* open runs on its caller's thread; the read source's event handler, its  *)
(* cancel handler (reallyClosePort) and the pin poller's event handler run *)
(* on global-queue threads; delegate callbacks run on the main thread.     *)
(* Each step below is one access to the shared state.  The n-th successful *)
(* open(2) is session n, and n stands for its descriptor, its read source  *)
(* and its timer.                                                          *)
(***************************************************************************)
EXTENDS Naturals, SequencesExt

CONSTANTS
  Clients, Main,  \* threads that call the public methods; Main is one
  Opener,         \* the client that calls open and the flow control setters
  HandlesClosed,  \* delegate implements serialPortWasClosed:
  HandlesError,   \* delegate implements serialPort:didEncounterError:
  CloseMayFail,   \* close(2) may return an error
  ErrnoKept,      \* errno is still ENXIO after the delegate was told
  MaxSessions     \* bound of the model

ASSUME LifecycleAssumption ==
  /\ Main \in Clients /\ Opener \in Clients
  /\ {HandlesClosed, HandlesError, CloseMayFail, ErrnoKept} \subseteq BOOLEAN
  /\ MaxSessions \in Nat

VARIABLES
  fileDescriptor,   \* 0, or the session whose descriptor the port holds
  openDescriptors,  \* descriptors of the device this process has open
  sessions,         \* how often open(2) succeeded
  device,           \* "present", "gone", or "reported" by the manager too
  readPollSource,   \* the property: 0 for nil, or a session
  source,           \* source[n]: state of session n's read source
  reader,           \* reader[n]: where its event handler is
  closer,           \* closer[n]: where its cancel handler is
  pinPollTimer,     \* the property: 0 for nil, or a session
  timer,            \* timer[n]: state of session n's timer, armed if active
  poller,           \* poller[n]: where its event handler is
  cancelBlocks,     \* timers whose dispatch_source_cancel block is queued
  client,           \* client[c]: where a caller is in a public method
  mainQueue,        \* blocks of the main queue, in order
  mainRunning,      \* the block or delegate callback the main thread is in
  saidYes,          \* ghost: close returned YES for the session held
  reopenOwed        \* ghost: a setter has reopened, nobody has closed since

portVars   == <<fileDescriptor, openDescriptors, sessions, device>>
sourceVars == <<readPollSource, source, reader, closer>>
timerVars  == <<pinPollTimer, timer, poller, cancelBlocks>>
mainVars   == <<mainQueue, mainRunning>>
ghosts     == <<saidYes, reopenOwed>>
vars == <<portVars, sourceVars, timerVars, client, mainVars, ghosts>>

(* What tells states apart if no property is about the ghosts, which no    *)
(* step depends on.                                                        *)
WithoutGhosts == <<portVars, sourceVars, timerVars, client, mainVars>>

Sessions == 1..MaxSessions
(* Where the threads of a session, a caller and the main thread can be.    *)
SourceStates == {"none", "active", "cancelled"}
TimerStates  == SourceStates \cup {"suspended"}
ReadSteps  == [step : {"idle", "taken", "reading"}, fd : 0..MaxSessions]
CloseSteps == {"idle", "closing", "closed", "telling", "waiting", "told",
               "done"}
PollSteps  == {"idle", "polling", "waiting", "reported", "removing",
               "removed", "closing"}
Calls   == [pc : {"idle", "opening", "opened", "assigned", "resumed", "kept",
                  "timed", "crashed", "closing", "setting", "reopening"},
            fd : 0..MaxSessions, reopen : BOOLEAN]
Blocks  == [op : {"opened", "pins", "error"}, id : Sessions]
Running == [op : {"idle", "opened", "pins", "error", "closed", "removed"},
            id : 0..MaxSessions]

NoReader == [step |-> "idle", fd |-> 0]
NoCall   == [pc |-> "idle", fd |-> 0, reopen |-> FALSE]
Reopening == [pc |-> "reopening", fd |-> 0, reopen |-> FALSE]
Idle     == [op |-> "idle", id |-> 0]
isOpen   == fileDescriptor # 0

Init ==
  /\ fileDescriptor = 0 /\ openDescriptors = {} /\ sessions = 0
  /\ device = "present"
  /\ readPollSource = 0 /\ pinPollTimer = 0 /\ cancelBlocks = {}
  /\ source = [n \in Sessions |-> "none"]
  /\ timer  = [n \in Sessions |-> "none"]
  /\ reader = [n \in Sessions |-> NoReader]
  /\ closer = [n \in Sessions |-> "idle"]
  /\ poller = [n \in Sessions |-> "idle"]
  /\ client = [c \in Clients |-> NoCall]
  /\ mainQueue = <<>> /\ mainRunning = Idle
  /\ saidYes = FALSE /\ reopenOwed = FALSE

At(c, pc) == client[c].pc = pc
Goto(c, pc) == client' = [client EXCEPT ![c].pc = pc]
Return(c) == client' = [client EXCEPT ![c] = NoCall]

(* A thread has crashed, and the process with it.                          *)
Crashed == \E c \in Clients : At(c, "crashed")

(* The setters of the two properties cancel what they replace.             *)
Cancelled(state, n) == [m \in Sessions |-> IF m = n THEN "cancelled" ELSE state[m]]

(* Mutant: assigning nil forgets the source without cancelling it.         *)
ForgetReadPollSource(n) ==
  readPollSource' = n /\ source' = source

SetReadPollSource(n) ==
  /\ readPollSource' = n
  /\ source' = IF n = readPollSource THEN source
               ELSE Cancelled(source, readPollSource)

-----------------------------------------------------------------------------
(* open (246-340).                                                         *)

Open(c) ==
  /\ c = Opener
  /\ \/ At(c, "idle") /\ ~isOpen /\ Goto(c, "opening")
     \/ /\ At(c, "reopening")
        /\ IF isOpen THEN Return(c) ELSE Goto(c, "opening")
  /\ reopenOwed' = At(c, "reopening")
  /\ UNCHANGED <<portVars, sourceVars, timerVars, mainVars, saidYes>>

OpenFails(c) ==
  /\ At(c, "opening")
  /\ Return(c)
  /\ reopenOwed' = FALSE
  /\ UNCHANGED <<portVars, sourceVars, timerVars, mainVars, saidYes>>

(* O_EXLOCK | O_NONBLOCK: open(2) fails while a descriptor is open.        *)
OpenSucceeds(c) ==
  /\ At(c, "opening")
  /\ device = "present" /\ openDescriptors = {} /\ sessions < MaxSessions
  /\ sessions' = sessions + 1
  /\ openDescriptors' = {sessions + 1}
  /\ client' = [client EXCEPT ![c].pc = "opened", ![c].fd = sessions + 1]
  /\ UNCHANGED <<fileDescriptor, device, sourceVars, timerVars, mainVars,
                 ghosts>>

AssignDescriptor(c) ==
  /\ At(c, "opened")
  /\ fileDescriptor' = client[c].fd
  /\ mainQueue' = Append(mainQueue, [op |-> "opened", id |-> client[c].fd])
  /\ Goto(c, "assigned")
  /\ UNCHANGED <<openDescriptors, sessions, device, sourceVars, timerVars,
                 mainRunning, ghosts>>

(* Mutant: the source is resumed before the descriptor is assigned.        *)
ResumeEarly(c) ==
  \/ /\ At(c, "opened") /\ source[client[c].fd] = "none"
     /\ source' = [source EXCEPT ![client[c].fd] = "active"]
     /\ UNCHANGED <<portVars, readPollSource, reader, closer, timerVars,
                    client, mainVars, ghosts>>
  \/ /\ At(c, "assigned") /\ Goto(c, "resumed")
     /\ UNCHANGED <<portVars, sourceVars, timerVars, mainVars, ghosts>>

ResumeReadSource(c) ==
  /\ At(c, "assigned")
  /\ source' = [source EXCEPT ![client[c].fd] = "active"]
  /\ Goto(c, "resumed")
  /\ UNCHANGED <<portVars, readPollSource, reader, closer, timerVars,
                 mainVars, ghosts>>

KeepReadSource(c) ==
  /\ At(c, "resumed")
  /\ SetReadPollSource(client[c].fd)
  /\ Goto(c, "kept")
  /\ UNCHANGED <<portVars, reader, closer, timerVars, mainVars, ghosts>>

(* Mutant: the timer of the session before is replaced but not cancelled.  *)
AssignTimerOnly(c) ==
  /\ At(c, "kept")
  /\ pinPollTimer' = client[c].fd
  /\ timer' = [timer EXCEPT ![client[c].fd] = "suspended"]
  /\ Goto(c, "timed")
  /\ UNCHANGED <<portVars, sourceVars, poller, cancelBlocks, mainVars, ghosts>>

AssignTimer(c) ==
  /\ At(c, "kept")
  /\ pinPollTimer' = client[c].fd
  /\ timer' = [Cancelled(timer, pinPollTimer) EXCEPT ![client[c].fd] = "suspended"]
  /\ Goto(c, "timed")
  /\ UNCHANGED <<portVars, sourceVars, poller, cancelBlocks, mainVars, ghosts>>

(* dispatch_resume reads the property again (338): the timer just          *)
(* assigned, or nil if reallyClosePort has cleared it meanwhile (351),     *)
(* and dispatch_resume(nil) crashes.                                       *)
ResumeTimer(c) ==
  /\ At(c, "timed")
  /\ \/ /\ pinPollTimer # 0
        /\ timer' = [timer EXCEPT ![pinPollTimer] = "active"]
        /\ Return(c)
     \/ /\ pinPollTimer = 0
        /\ Goto(c, "crashed")
        /\ UNCHANGED timer
  /\ UNCHANGED <<portVars, sourceVars, pinPollTimer, poller, cancelBlocks,
                 mainVars, ghosts>>

-----------------------------------------------------------------------------
(* close (342-347) and the flow control setters (883-928).                 *)

CloseChecks(c) ==
  client' = [client EXCEPT ![c].pc = "closing", ![c].fd = fileDescriptor]

Close(c) ==
  /\ At(c, "idle") /\ isOpen
  /\ CloseChecks(c)
  /\ UNCHANGED <<portVars, sourceVars, timerVars, mainVars, ghosts>>

CloseCancels(c) ==
  /\ At(c, "closing")
  /\ SetReadPollSource(0)
  /\ \/ /\ client[c].reopen
        /\ client' = [client EXCEPT ![c] = Reopening]
        /\ UNCHANGED ghosts
     \/ /\ ~client[c].reopen
        /\ Return(c)
        /\ saidYes' = (saidYes \/ client[c].fd = fileDescriptor)
        /\ reopenOwed' = FALSE
  /\ UNCHANGED <<portVars, reader, closer, timerVars, mainVars>>

SetFlowControl(c) ==
  /\ c = Opener /\ At(c, "idle") /\ isOpen
  /\ client' = [client EXCEPT ![c].pc = "setting", ![c].reopen = TRUE]
  /\ UNCHANGED <<portVars, sourceVars, timerVars, mainVars, ghosts>>

SetterCloses(c) ==
  /\ At(c, "setting")
  /\ IF isOpen THEN CloseChecks(c) ELSE Goto(c, "reopening")
  /\ UNCHANGED <<portVars, sourceVars, timerVars, mainVars, ghosts>>

-----------------------------------------------------------------------------
(* The read source's event handler (286-299): it takes the descriptor,     *)
(* checks isOpen, reads.  libdispatch runs one handler of a source at a    *)
(* time and the cancel handler after the last of them.                     *)

ReaderAt(n, step) == reader[n].step = step

ReadEvent(n) ==
  /\ source[n] = "active" /\ ReaderAt(n, "idle")
  /\ reader' = [reader EXCEPT ![n] = [step |-> "taken", fd |-> fileDescriptor]]
  /\ UNCHANGED <<portVars, readPollSource, source, closer, timerVars, client,
                 mainVars, ghosts>>

ReaderChecks(n) ==
  /\ ReaderAt(n, "taken")
  /\ reader' = IF isOpen THEN [reader EXCEPT ![n].step = "reading"]
               ELSE [reader EXCEPT ![n] = NoReader]
  /\ UNCHANGED <<portVars, readPollSource, source, closer, timerVars, client,
                 mainVars, ghosts>>

ReaderReads(n) ==
  /\ ReaderAt(n, "reading")
  /\ reader' = [reader EXCEPT ![n] = NoReader]
  /\ UNCHANGED <<portVars, readPollSource, source, closer, timerVars, client,
                 mainVars, ghosts>>

-----------------------------------------------------------------------------
(* The read source's cancel handler: reallyClosePort (349-382).            *)

CloserAt(n, step) == closer[n] = step
CloserGoes(n, step) == closer' = [closer EXCEPT ![n] = step]

(* Mutant: the port is closed while the event handler may be running.      *)
StopPollingAtOnce(n) ==
  /\ source[n] = "cancelled" /\ CloserAt(n, "idle")
  /\ CloserGoes(n, "closing")
  /\ pinPollTimer' = 0
  /\ timer' = Cancelled(timer, pinPollTimer)
  /\ UNCHANGED <<portVars, readPollSource, source, reader, poller,
                 cancelBlocks, client, mainVars, ghosts>>

StopPolling(n) ==
  /\ source[n] = "cancelled" /\ ReaderAt(n, "idle") /\ CloserAt(n, "idle")
  /\ CloserGoes(n, "closing")
  /\ pinPollTimer' = 0
  /\ timer' = Cancelled(timer, pinPollTimer)
  /\ UNCHANGED <<portVars, readPollSource, source, reader, poller,
                 cancelBlocks, client, mainVars, ghosts>>

(* Mutant: fileDescriptor is cleared before close(2) is called with it.    *)
ClearFirst(n) ==
  /\ CloserAt(n, "closing")
  /\ fileDescriptor' = 0
  /\ openDescriptors' = openDescriptors \ {fileDescriptor'}
  /\ CloserGoes(n, "closed")
  /\ UNCHANGED <<sessions, device, readPollSource, source, reader, timerVars,
                 client, mainVars, ghosts>>

CloseDescriptor(n) ==
  /\ CloserAt(n, "closing")
  /\ openDescriptors' = openDescriptors \ {fileDescriptor}
  /\ CloserGoes(n, "closed")
  /\ UNCHANGED <<fileDescriptor, sessions, device, readPollSource, source,
                 reader, timerVars, client, mainVars, ghosts>>

(* close(2) fails: reallyClosePort returns and fileDescriptor stays, with  *)
(* or without an open descriptor behind it.                                *)
CloseDescriptorFails(n) ==
  /\ CloseMayFail /\ CloserAt(n, "closing")
  /\ openDescriptors' \in {openDescriptors, openDescriptors \ {fileDescriptor}}
  /\ CloserGoes(n, "done")
  /\ UNCHANGED <<fileDescriptor, sessions, device, readPollSource, source,
                 reader, timerVars, client, mainVars, ghosts>>

(* Mutant: a closed port holds -1.                                         *)
ClearToMinusOne(n) ==
  /\ CloserAt(n, "closed")
  /\ fileDescriptor' = 0 - 1
  /\ CloserGoes(n, IF HandlesClosed THEN "telling" ELSE "done")
  /\ saidYes' = FALSE
  /\ UNCHANGED <<openDescriptors, sessions, device, readPollSource, source,
                 reader, timerVars, client, mainVars, reopenOwed>>

(* Mutant: the request queue is reset without waiting for the delegate.    *)
ClearWithoutWaiting(n) ==
  /\ CloserAt(n, "closed")
  /\ fileDescriptor' = 0
  /\ CloserGoes(n, "told")
  /\ saidYes' = FALSE
  /\ UNCHANGED <<openDescriptors, sessions, device, readPollSource, source,
                 reader, timerVars, client, mainVars, reopenOwed>>

ClearDescriptor(n) ==
  /\ CloserAt(n, "closed")
  /\ fileDescriptor' = 0
  /\ CloserGoes(n, IF HandlesClosed THEN "telling" ELSE "done")
  /\ saidYes' = FALSE
  /\ UNCHANGED <<openDescriptors, sessions, device, readPollSource, source,
                 reader, timerVars, client, mainVars, reopenOwed>>

(* The block that discards the requests; SerialRequests models its work.   *)
DispatchReset(n) ==
  /\ CloserAt(n, "told")
  /\ CloserGoes(n, "done")
  /\ UNCHANGED <<portVars, readPollSource, source, reader, timerVars,
                 client, mainVars, ghosts>>

-----------------------------------------------------------------------------
(* The pin poller (305-336), one event handler of a timer at a time.       *)

PollerAt(n, step) == poller[n] = step
PollerGoes(n, step) == poller' = [poller EXCEPT ![n] = step]
QueueSync(op, n) == mainQueue' = Append(mainQueue, [op |-> op, id |-> n])

(* Mutant: the handler of a closed port returns without cancelling.        *)
PollerFiresOn(n) ==
  /\ timer[n] = "active" /\ PollerAt(n, "idle")
  /\ isOpen /\ PollerGoes(n, "polling")
  /\ UNCHANGED <<portVars, sourceVars, pinPollTimer, timer, cancelBlocks,
                 client, mainVars, ghosts>>

PollerFires(n) ==
  /\ timer[n] = "active" /\ PollerAt(n, "idle")
  /\ \/ isOpen /\ PollerGoes(n, "polling") /\ UNCHANGED cancelBlocks
     \/ /\ ~isOpen
        /\ cancelBlocks' = cancelBlocks \cup {n}
        /\ UNCHANGED poller
  /\ UNCHANGED <<portVars, sourceVars, pinPollTimer, timer, client,
                 mainVars, ghosts>>

PollerCancelsTimer(n) ==
  /\ n \in cancelBlocks
  /\ cancelBlocks' = cancelBlocks \ {n}
  /\ timer' = Cancelled(timer, n)
  /\ UNCHANGED <<portVars, sourceVars, pinPollTimer, poller, client,
                 mainVars, ghosts>>

(* ioctl(TIOCMGET) on the fileDescriptor of this moment: it succeeds, and  *)
(* a changed pin is stored by a block the poller waits for; or ENXIO; or,  *)
(* if the port was closed meanwhile, another error, reported without       *)
(* waiting.                                                                *)
PollerAsks(n) ==
  /\ PollerAt(n, "polling")
  /\ \/ /\ fileDescriptor \notin openDescriptors \/ device = "present"
        /\ PollerGoes(n, "idle")
        /\ UNCHANGED mainQueue
     \/ /\ fileDescriptor \in openDescriptors /\ device = "present"
        /\ PollerGoes(n, "waiting")
        /\ QueueSync("pins", n)
     \/ /\ fileDescriptor \in openDescriptors /\ device # "present"
        /\ \/ /\ HandlesError
              /\ PollerGoes(n, "waiting")
              /\ QueueSync("error", n)
           \/ /\ ~HandlesError
              /\ PollerGoes(n, "removing")
              /\ UNCHANGED mainQueue
  /\ UNCHANGED <<portVars, sourceVars, pinPollTimer, timer, cancelBlocks,
                 client, mainRunning, ghosts>>

(* errno is read again after the delegate was told of the error.           *)
PollerReadsErrno(n) ==
  /\ PollerAt(n, "reported")
  /\ \/ PollerGoes(n, "removing")
     \/ ~ErrnoKept /\ PollerGoes(n, "idle")
  /\ UNCHANGED <<portVars, sourceVars, pinPollTimer, timer, cancelBlocks,
                 client, mainVars, ghosts>>

(* Mutant: the port is not closed after serialPortWasRemovedFromSystem:.   *)
PollerJustReturns(n) ==
  /\ PollerAt(n, "removed") /\ PollerGoes(n, "idle")
  /\ UNCHANGED <<portVars, sourceVars, pinPollTimer, timer, cancelBlocks,
                 client, mainVars, ghosts>>

(* The close of cleanupAfterSystemRemoval.                                 *)
PollerCloses(n) ==
  /\ PollerAt(n, "removed")
  /\ PollerGoes(n, IF isOpen THEN "closing" ELSE "idle")
  /\ UNCHANGED <<portVars, sourceVars, pinPollTimer, timer, cancelBlocks,
                 client, mainVars, ghosts>>

PollerCancels(n) ==
  /\ PollerAt(n, "closing")
  /\ SetReadPollSource(0)
  /\ PollerGoes(n, "idle")
  /\ reopenOwed' = FALSE
  /\ UNCHANGED <<portVars, reader, closer, pinPollTimer, timer, cancelBlocks,
                 client, mainVars, saidYes>>

-----------------------------------------------------------------------------
(* The main thread.  Between the start and the return of a block or of a   *)
(* callback the delegate may call the public methods as client Main.       *)

MainIsFree == mainRunning = Idle /\ At(Main, "idle")

MainRunsBlock ==
  /\ MainIsFree /\ mainQueue # <<>>
  /\ mainRunning' = Head(mainQueue)
  /\ mainQueue' = Tail(mainQueue)
  /\ UNCHANGED <<portVars, sourceVars, timerVars, client, ghosts>>

(* performSelectorOnMainThread:withObject:waitUntilDone:YES                *)
MainRunsWasClosed(n) ==
  /\ MainIsFree /\ CloserAt(n, "telling")
  /\ mainRunning' = [op |-> "closed", id |-> n]
  /\ CloserGoes(n, "waiting")
  /\ UNCHANGED <<portVars, readPollSource, source, reader, timerVars, client,
                 mainQueue, ghosts>>

MainRunsWasRemoved(n) ==
  /\ MainIsFree /\ PollerAt(n, "removing")
  /\ mainRunning' = [op |-> "removed", id |-> n]
  /\ PollerGoes(n, "waiting")
  /\ UNCHANGED <<portVars, sourceVars, pinPollTimer, timer, cancelBlocks,
                 client, mainQueue, ghosts>>

(* ORSSerialPortManager's termination handler, once, on the main thread.   *)
SystemReportsRemoval ==
  /\ MainIsFree /\ device = "gone"
  /\ device' = "reported"
  /\ mainRunning' = [op |-> "removed", id |-> 0]
  /\ UNCHANGED <<fileDescriptor, openDescriptors, sessions, sourceVars,
                 timerVars, client, mainQueue, ghosts>>

(* The waiting thread goes on when the block or callback has returned; the *)
(* manager's own call goes on to close.                                    *)
MainReturns ==
  /\ mainRunning # Idle /\ At(Main, "idle")
  /\ mainRunning' = Idle
  /\ LET n == mainRunning.id
         returns(ops) == mainRunning.op \in ops /\ n # 0
     IN  /\ closer' = IF returns({"closed"})
                      THEN [closer EXCEPT ![n] = "told"] ELSE closer
         /\ poller' = CASE returns({"pins"})    -> [poller EXCEPT ![n] = "idle"]
                        [] returns({"error"})   -> [poller EXCEPT ![n] = "reported"]
                        [] returns({"removed"}) -> [poller EXCEPT ![n] = "removed"]
                        [] OTHER -> poller
         /\ IF n = 0 /\ isOpen THEN CloseChecks(Main) ELSE UNCHANGED client
  /\ UNCHANGED <<portVars, readPollSource, source, reader, pinPollTimer,
                 timer, cancelBlocks, mainQueue, ghosts>>

DeviceRemoved ==
  /\ device = "present"
  /\ device' = "gone"
  /\ reopenOwed' = FALSE
  /\ UNCHANGED <<fileDescriptor, openDescriptors, sessions, sourceVars,
                 timerVars, client, mainVars, saidYes>>

-----------------------------------------------------------------------------
(* A client inside a method goes on; entering one is its own choice.       *)
Enter(c) ==
  \/ At(c, "idle") /\ Open(c)
  \/ Close(c)
  \/ SetFlowControl(c)

Continue(c) ==
  \/ At(c, "reopening") /\ Open(c)
  \/ OpenFails(c) \/ OpenSucceeds(c) \/ AssignDescriptor(c)
  \/ ResumeReadSource(c) \/ KeepReadSource(c)
  \/ AssignTimer(c) \/ ResumeTimer(c)
  \/ CloseCancels(c) \/ SetterCloses(c)

ReaderStep(n) == ReadEvent(n) \/ ReaderChecks(n) \/ ReaderReads(n)
CloserStep(n) == \/ StopPolling(n) \/ CloseDescriptor(n)
                 \/ CloseDescriptorFails(n)
                 \/ ClearDescriptor(n) \/ DispatchReset(n)
PollerStep(n) == \/ PollerFires(n) \/ PollerAsks(n) \/ PollerReadsErrno(n)
                 \/ PollerCloses(n) \/ PollerCancels(n)

Step ==
  \/ \E c \in Clients : Enter(c) \/ Continue(c)
  \/ \E n \in Sessions :
       \/ ReaderStep(n) \/ CloserStep(n) \/ PollerStep(n)
       \/ PollerCancelsTimer(n)
       \/ MainRunsWasClosed(n) \/ MainRunsWasRemoved(n)
  \/ MainRunsBlock \/ MainReturns
  \/ SystemReportsRemoval \/ DeviceRemoved

(* A process that has crashed does nothing more.                           *)
Alive(A) == ~Crashed /\ A

Next == \/ Alive(Step)
        \/ Crashed /\ UNCHANGED vars

Spec == Init /\ [][Next]_vars

(* A thread that is inside a method or a handler goes on, libdispatch      *)
(* starts cancel handlers, queued blocks and armed timers, and the main    *)
(* run loop serves each of its sources.  No fairness for reads, for        *)
(* clients' calls or for the removal of the device and its report.         *)
Fairness ==
  /\ \A c \in Clients : WF_vars(Alive(Continue(c)))
  /\ \A n \in Sessions :
       /\ WF_vars(Alive(ReaderChecks(n) \/ ReaderReads(n)))
       /\ WF_vars(Alive(CloserStep(n))) /\ WF_vars(Alive(PollerStep(n)))
       /\ WF_vars(Alive(PollerCancelsTimer(n)))
       /\ WF_vars(Alive(MainRunsWasClosed(n)))
       /\ WF_vars(Alive(MainRunsWasRemoved(n)))
  /\ WF_vars(Alive(MainRunsBlock)) /\ WF_vars(Alive(MainReturns))

FairSpec == Spec /\ Fairness

-----------------------------------------------------------------------------
(* Every variable holds a value of its kind.                               *)
TypeOK ==
  /\ fileDescriptor \in 0..sessions /\ sessions \in 0..MaxSessions
  /\ openDescriptors \subseteq 1..sessions
  /\ device \in {"present", "gone", "reported"}
  /\ readPollSource \in 0..sessions /\ pinPollTimer \in 0..sessions
  /\ source \in [Sessions -> SourceStates]
  /\ timer \in [Sessions -> TimerStates]
  /\ reader \in [Sessions -> ReadSteps]
  /\ closer \in [Sessions -> CloseSteps]
  /\ poller \in [Sessions -> PollSteps]
  /\ cancelBlocks \subseteq Sessions
  /\ client \in [Clients -> Calls]
  /\ mainQueue \in Seq(Blocks)
  /\ mainRunning \in Running
  /\ saidYes \in BOOLEAN /\ reopenOwed \in BOOLEAN

(* The read source's handler takes fileDescriptor, checks isOpen and then  *)
(* reads (288-293), with closes and reopenings on other threads between:   *)
(* it only ever reads the open descriptor of its own session.              *)
ReadsOwnDescriptor ==
  \A n \in Sessions :
    ReaderAt(n, "reading") => reader[n].fd = n /\ n \in openDescriptors

(* libdispatch requires the descriptor of a source to stay open until its  *)
(* cancel handler runs, and the port to hold it, or nobody could close it. *)
SourceHasDescriptor ==
  \A n \in Sessions :
    source[n] = "active" => n \in openDescriptors /\ fileDescriptor = n

(* No descriptor is lost: with O_EXLOCK a descriptor that nothing refers   *)
(* to would keep the device from being opened again.                       *)
NoDescriptorLeak ==
  \A n \in openDescriptors :
    fileDescriptor = n \/ (At(Opener, "opened") /\ client[Opener].fd = n)

(* A timer that open installed or resumed after its session was closed     *)
(* never polls beside the timer of a later session (337, 338, 351).        *)
OnePoller ==
  \A m, n \in Sessions : timer[m] = "active" /\ timer[n] = "active" => m = n

(* close, called once open has kept its read source, closes the port       *)
(* whatever the reader, the poller and the main thread are doing, provided *)
(* close(2) works and open does not resume the timer just then (338).      *)
CloseWorks ==
  \A n \in Sessions :
    (\E c \in Clients : At(c, "closing") /\ readPollSource = n)
      ~> n \notin openDescriptors \/ Crashed

(* A port whose device is removed ends closed (320-322, 390-397), also     *)
(* when the manager does not report it and the removal meets an open,      *)
(* unless the close meets the open at its last line (338).                 *)
RemovedPortCloses == device # "present" ~> ~isOpen \/ Crashed

(* A port that stays closed is not polled for ever (308-311), also if its  *)
(* timer was assigned or resumed when it was closed already (337-338).     *)
PollingStops ==
  <>[](~isOpen) => <>[](\A n \in Sessions : timer[n] # "active")

-----------------------------------------------------------------------------
(* What the documentation says and the code does not do.                   *)
Quiet == /\ \A c \in Clients : At(c, "idle")
         /\ \A n \in Sessions : source[n] = "cancelled" => CloserAt(n, "done")

(* close returns "YES if closing the port was closed successfully"         *)
(* (ORSSerialPort.h:217): when nothing is going on any more, the session a *)
(* call found open and returned YES for is closed.                         *)
YesMeansClosed == Quiet => ~saidYes

(* The flow control setters "close it then reopen it if needed"            *)
(* (ORSSerialPort.m:887-888): when nothing is going on any more, a port    *)
(* that a setter has reopened and nobody closed since is open.             *)
FlowControlReopens == Quiet /\ reopenOwed => isOpen

-----------------------------------------------------------------------------
(* The port as SerialRequests sees it.                                     *)
Sees == INSTANCE PortSessions WITH
  portOpen       <- isOpen,
  closeWaiting   <- {n \in Sessions : CloserAt(n, "telling")},
  inWasClosed    <- IF mainRunning.op = "closed" THEN {mainRunning.id} ELSE {},
  closeReturning <- {n \in Sessions : CloserAt(n, "told")}

ImplementsPortSessions == Sees!Spec
=============================================================================
