# TLA+ models of AtoZ.framework

This directory holds TLA+ specifications of the parts of AtoZ.framework that
have a state machine worth checking, TLC configurations that check them on
small instances, and TLAPS proofs of the most important facts.

AtoZ.framework is an umbrella of Objective-C categories, views, vendored
libraries and sample applications.  Most of it is drawing code and
convenience categories without state of its own.  The part whose correctness
depends on interleavings is small: the serial-port library
`Frameworks/ORSSerialPort`, which is the most intricate and the best
documented, the runner of concurrent operations, and the icon manager.

## Inventory

| Component | State | Operations | Interaction |
|---|---|---|---|
| `ORSSerialPort`, requests | `requestsQueue`, `pendingRequest`, `pendingRequestTimeoutTimer` | `sendRequest:`, `cancelQueuedRequest:`, `cancelAllQueuedRequests`, `receiveData:`, the timeout handler | client threads, read source, serial queue `requestHandlingQueue`, main queue for the delegate |
| `ORSSerialPort`, lifecycle | `fileDescriptor`, `readPollSource`, `pinPollTimer` | `open`, `close`, `reallyClosePort`, `cleanupAfterSystemRemoval`, flow-control setters | client threads, dispatch sources on global queues, main thread, kernel |
| `ORSSerialPacketDescriptor`, `ORSSerialBuffer` | receive buffers per descriptor | start/stop listening, append, trim, clear, match | blocks of `requestHandlingQueue` |
| `ORSSerialPortManager` | `availablePorts`, `portsToReopenAfterSleep`, registry of ports | sleep, wake, publication, termination, application end | notifications on the main thread; calls `open`, `close`, `cleanupAfterSystemRemoval` |
| `MM2200087` | partial packet | `didReceiveData` | delegate callbacks of a port |
| `OperationsRunner`, `ConcurrentOperation`, `WebFetcher` | set of running operations, `executing`/`finished` flags | run, cancel, finish, deliver | operation threads, serial `operationsQueue`, delegate thread |
| `AZFavIconManager` | icon cache, `opsPerURL` | request, cancel, clear, finish | operation threads and main thread, unlocked |
| `AZBoxGrid` | visible cells, reuse queues, selection | reload, scroll, layout, select | main thread only |
| `NSObject+AZBlockObservation` | observer map per object | observe, remove, notify | any thread, serial mutation queue |
| `CWTask` | has-run flag | launch, asynchronous launch | caller's queue |

Hard behaviour, component by component, is listed line by line under
`hazards` in `PROJECT.json`.  What makes each component correct:

* requests: FIFO order on the wire; one pending request; every call settled
  exactly once; timer and pending request agree; a close forgets the session's
  requests and only those; `sendRequest:` returns and nothing stays pending
  for ever.
* lifecycle: no thread reads a descriptor that is not its session's, no
  descriptor leaks, a close closes, a removed device ends closed.
* packets: each packet is the shortest valid one at the end of what was
  received, none is missed, none shares bytes with another.
* manager: one `ORSSerialPort` per path; ports open before sleep are open
  after wake; removed ports are forgotten.
* operations: an operation is delivered at most once, never after
  `cancelOperations` returned, and the set becomes empty again.
* icons: a handler is called once at most and only with an icon; with
  discarding on, one download for a URL at a time.
* multimeter: readings are whole packets, in order, decoded as the meter
  shows them.

## Modules

| Module | Models | Kind |
|---|---|---|
| `RequestService` | what the header promises of `sendRequest:` | abstract |
| `SerialRequests`, `MCSerialRequests` | the request half of `ORSSerialPort` | implements `RequestService` |
| `PortSessions` | a port as its users see it | abstract |
| `SerialPortLifecycle` | the descriptor half of `ORSSerialPort` | implements `PortSessions` |
| `SerialPackets`, `MCSerialPackets` | packet descriptors and receive buffers | algorithm with its inputs as steps |
| `SerialPortManager` | `ORSSerialPortManager` and the registry of ports | composes abstract ports |
| `MultiMeter`, `MCMultiMeter` | the driver `MM2200087` and its reference decoder | algorithm with its inputs as steps |
| `OperationService` | what `OperationsRunner` promises its owner | abstract |
| `OperationsRunner` | the runner with `ConcurrentOperation` and `WebFetcher` | implements `OperationService` |
| `FavIconService` | what `AZFavIconManager.h` promises a caller | abstract |
| `FavIcons`, `MCFavIcons` | the icon manager, its operations and its cache | implements `FavIconService` |
| `SerialRequests_proofs`, `SerialRequestsService_proofs`, `SerialPortLifecycle_proofs`, `SerialPackets_proofs`, `SerialPortManager_proofs`, `MultiMeter_proofs`, `OperationsRunner_proofs`, `FavIcons_proofs` | | theorems |

How they hang together: `SerialRequests` opens and closes the port as
`PortSessions` allows, which `SerialPortLifecycle` is shown to implement;
`SerialPortManager` keeps of each port only whether it is open, closing or
closed; `SerialPackets` and `MultiMeter` take the bytes that the read source
of the lifecycle hands on.  `OperationsRunner` and `FavIcons` are separate:
they share no state with the serial port.

What could follow, in this order: `BoxGrid` (reuse of the cells of
`AZBoxGrid`), `BlockObservation` (block observers of
`NSObject+AZBlockObservation`), `CWTask`.

## SerialRequests

`SerialRequests.tla` models the request half of `ORSSerialPort.m`.

*Threads.*  Everything that touches the queue runs as a block of the serial
queue `requestHandlingQueue`: variable `handlingQueue` is its list of blocks,
and one action runs one block (one byte of a `receive` block).  A running
block is not interleaved with another, so `RunReceive` keeps its block at the
head, marked `begun`, until the last byte.  `sendRequest:` is a
`dispatch_sync`: the caller is in `blocked` until its block ran.  Delegate
callbacks are blocks of the main queue (`mainQueue`, `mainRunning`); between
the start and the end of a callback the delegate may call any public method
as client `Main`.  `serialPortWasClosed:` comes through
`performSelectorOnMainThread:waitUntilDone:`, not through that queue, so it
may overtake it (`closeWaiting`, `MainRunsWasClosed`); the reset block is
dispatched by the closing thread when the callback returned
(`closeReturning`, `DispatchReset`).

One callback does not wait for its turn.  When `sendData:` fails, it reports
the error with `notifyDelegateOfPosixError` (411), which on the main thread
calls `serialPort:didEncounterError:` at once (774-775), inside the block of
`sendRequest:` and with the serial queue held (426).  `RunSend` then sets
`inError`: until `ErrorReturns` no other block runs, and the delegate may call
any public method.  If it calls `sendRequest:`, its `dispatch_sync` waits for
the queue that it holds itself, and neither ever returns (`Reentered`).  That
is what the code does, and nothing in the header warns of it; the liveness
properties name it as their only exception.  Starting or stopping to listen
for packets from that callback waits in the same way (455, 465); `SerialRequests`
does not have those calls.  On another thread the error is a block of the main
queue that changes nothing here, and is left out.

*Data.*  The i-th call of `sendRequest:` is the number i, `sent[i]` the
request object passed, so that an object may be sent twice.  A response is
the byte that completes it, `Answers[r]`.  `SendFrom` is the mutual recursion
of `reallySendRequest:`, `checkResponse...` with `nil` and `sendNextRequest`,
written as one relation: of the calls in line, the first n are written and
need no response, the next one stays pending, either because it needs one or
because `sendData:` failed.  `wire` and `fate` are ghosts: what was written,
and how each call ended.  The port is open or closed; the other half of the
class is `SerialPortLifecycle`'s.

*Abstractions.*  A write takes no time (one that blocks holds the queue for as
long as the device does not read, against which no property here is proof);
the timeout interval is positive or not, and an armed timer may fire at any
later moment.

### Runs

| Run | Instance | Shows |
|---|---|---|
| `requests_sessions` | 3 calls, 2 clients, 2 sessions, 1 read, 1 cancel in the queue | type, `IdleMeansEmpty`, `WireInOrder`, `ClosedPortForgets` with every kind of step |
| `requests_service` | no `requestDidTimeout:` method, every request timed | refinement of `RequestService`, by which nothing is written before the call ahead is settled; every call is in one place or settled in one way; the timer is the pending request's own; every call is settled, unless `Reentered` |
| `requests_liveness` | every request timed, no reset, a delegate told of failed writes | `sendRequest:` returns, nothing stays pending, unless `Reentered` |
| `late_response` (violation) | a `requestDidTimeout:` method, one timed request object sent three times | a response during the timeout hop drops the next request, against ORSSerialPort.h:261-262 |

Three of these instances have a delegate with `didEncounterError:`;
`late_response` has none, which its counterexample does not need.

The further disagreements of this half with the header are listed under
"Known divergences".  They are why `requests_service` leaves out the timeout
callback, `TimerIsPending` the two kinds of call whose timer the code
forgets, and `requests_liveness` the reset: with them the property is one the
code does not have.

*Bounds.*  Three calls are the fewest for which one is pending, one is next
and one is behind it, which is what overtaking, dropping and double sending
need; two sessions are what a late reset needs; a read of two equal bytes
answers two requests in one block; a cancel in the middle of the queue needs
a second request object, which `requests_service` has; `MaxBacklog` limits only the cancels in
line, never a step of the code.

*Fairness.*  Weak fairness on the blocks of `requestHandlingQueue`, on an
armed timer, on the main run loop and on the closing thread: libdispatch runs
what is queued, writes end and delegate methods return.  None on clients and none on the
device.  `CHECK_DEADLOCK FALSE`: with all calls made and settled, and the
port closed, nothing remains to do.

### Proofs

`SerialRequests_proofs.tla` proves, for all constants that satisfy
`RequestsAssumption`:

* `TypeCorrect`: `Spec => []TypeOK`.
* `OrderCorrect`: `Spec => []OrderInv`.  `WireInOrder` is not inductive: a
  step appends the head of `requestsQueue` to `wire`, so one needs that the
  queue is sorted and lies after the wire, and that the calls still being
  accepted are sorted and lie after both (`QueueSorted`, `Ahead`,
  `AcceptedInOrder`).  A call accepted while nothing is pending is sent at
  once; that it overtakes nobody needs `IdleMeansEmpty`.
* `FIFO` and `NothingStranded`: the two properties of `requests_sessions`
  that follow.

The lemmas are about `SendFrom` (`SendFromType`, `SendFromOrder`), about
sequences (`AppendPrefix`, `DropPrefix`, `RemoveOrder`) and about the ways a
step may change `handlingQueue`.

`SerialRequestsService_proofs.tla` proves what becomes of the calls.  Its
theorems have a hypothesis on what the delegate implements, the same as the
settings of the run that checks the property:

* under `~HandlesTimeout`: `CallsAccounted` (every call is being accepted,
  queued, pending, or settled in one way), `TimerCorrect`
  (`TimerIsPending`), `PreviousSettled`, and `Refinement`, i.e.
  `Spec => ImplementsService`;
* under `HandlesClosed`: `ClosedForgets` (`ClosedPortForgets`).

With a `requestDidTimeout:` method the first group is false: a response that
comes while the delegate is told of the timeout takes the next request off
the line, and the hop back then sends another (`late_response`).  Without a
`serialPortWasClosed:` method the last is false (see "Known divergences").

*Accounting.*  What the many steps do to the calls is stated once, as the
relation `CallsMove`: waiting calls become pending or are settled in order,
the pending one is settled when another takes its place, and nothing else
changes.  Each step but a new call is shown to be such a move (lemmas
`...Moves`), and the invariant `ServiceInv` is shown of all moves at once:
`PendingApart` and `SettledOnce` say that waiting, pending and settled calls
are apart, `NoTimeoutCallback` that nothing is on its way to the main queue
and back.  The refinement maps each move to the step of `RequestService` of
the same calls; that a call begins only when all before it are settled is the
last conjunct of `CallsMove`.

*Closing.*  `ClosedForgets` needs no accounting: a close is over only when
its reset block has run (`OverByReset`), and nothing is written while the
port is closed (`ClosedSends`), so that what is pending then was sent after
the reopening.

Liveness, of the service too, is model-checked only.

## SerialPortLifecycle

`SerialPortLifecycle.tla` models the other half of `ORSSerialPort.m`, the
threads that share `fileDescriptor`, `readPollSource` and `pinPollTimer`
without a lock.  One step is one access to that state:

| Code | Actions |
|---|---|
| `open` (246-340) | `Open` (the `isOpen` check), `OpenFails` / `OpenSucceeds` (`open(2)`), `AssignDescriptor` (269, with the dispatch of `serialPortWasOpened:`), `ResumeReadSource` (301), `KeepReadSource` (302), `AssignTimer` (337), `ResumeTimer` (338, which reads the property again) |
| `close` (342-347) | `Close` (the check), `CloseCancels` (`readPollSource = nil`, which cancels) |
| event handler of the read source (286-299) | `ReadEvent` (takes the descriptor), `ReaderChecks`, `ReaderReads` |
| cancel handler, `reallyClosePort` (349-382) | `StopPolling` (351), `CloseDescriptor` / `CloseDescriptorFails` (365), `ClearDescriptor` (372), `DispatchReset` (377) |
| event handler of the pin poller (305-336) | `PollerFires`, `PollerCancelsTimer`, `PollerAsks` (`ioctl(2)`), `PollerReadsErrno`, `PollerCloses`, `PollerCancels` |
| main thread | `MainRunsBlock`, `MainRunsWasClosed`, `MainRunsWasRemoved`, `SystemReportsRemoval`, `MainReturns` |
| flow-control setters (883-928) | `SetFlowControl`, `SetterCloses`, `CloseCancels`, `Open` |

The n-th successful `open(2)` is session n; n names its descriptor, its read
source and its timer.  Of libdispatch the model takes what its manual
guarantees: the handlers of one source do not overlap, the cancel handler
runs once and after the last event handler, a cancelled timer fires no more.
Of the kernel: with `O_EXLOCK | O_NONBLOCK` a second `open(2)` fails while a
descriptor is open; `close(2)` may fail (`CloseMayFail`) and then may or may
not have released the descriptor; `ioctl(2)` on a removed device is `ENXIO`.
`notifyDelegateOfPosixErrorWaitingUntilDone:` runs the main loop's block
between two reads of `errno`; `ErrnoKept` says whether the second still sees
`ENXIO`.  Error reports nobody waits for change nothing and are left out.

Between lines 337 and 338 `reallyClosePort` may clear `pinPollTimer` (351).
`dispatch_resume(self.pinPollTimer)` then resumes nil, and the program crashes:
`ResumeTimer` leaves its thread at `crashed`, after which no step is taken.
The safety properties cover every state up to there; `CloseWorks` and
`RemovedPortCloses` say what happens unless the program crashed.

*Assumptions.*  One thread opens (`Opener`, which may be any client); any
thread closes.  Two threads in `open` can lose a descriptor between lines 365
and 372; nothing in the header allows two, and it is listed as a hazard.
The assignment of a property is one step: a data race on the retain counts of
the dispatch sources is not modelled.  A removed device does not come back.

`PortSessions.tla` is the port as `SerialRequests` uses it: open or closed,
one `serialPortWasClosed:` at a time, and the reset only after it returned.
`ImplementsPortSessions` is the refinement; it is what justifies `Open`,
`ReallyClosePort`, `MainRunsWasClosed` and `DispatchReset` of
`SerialRequests`.

| Run | Instance | Shows |
|---|---|---|
| `lifecycle_safety` | 2 sessions, a worker opens, main and worker close, `close(2)` may fail, `errno` may change | type; a reader reads only its own open descriptor; an active source has its descriptor; no descriptor is lost; never two pollers; refinement of `PortSessions` |
| `lifecycle_liveness` | 1 session, `close(2)` works, `errno` is kept | unless the program crashed, a close of an opened port closes it and a removed device ends closed even if only the poller notices; a closed port is not polled for ever |

`YesMeansClosed` (see "Known divergences") also fails with a single thread when `close(2)` fails
(`CloseMayFail = TRUE`): the port then keeps its descriptor without a read
source, and neither `close` nor `open` does anything any more.  That `close`
returns before `serialPortWasClosed:` is called, although the header
(214-215) says the opposite, is visible in the actions: `CloseCancels`
returns, `MainRunsWasClosed` comes later.

The ghosts `saidYes` and `reopenOwed` serve the two divergences below.  No step
depends on them, so `lifecycle_safety` has a view without them
(`WithoutGhosts`).

*Bounds.*  Two sessions are what it takes for a thread of one session to meet
the state of the next; the liveness properties are about one session each.
*Fairness.*  Weak fairness for each thread inside a method or handler, for
cancel handlers, queued blocks and armed timers, and for each source of the
main run loop; none for the start of a read, for clients or for the device.

*Proofs* (`SerialPortLifecycle_proofs.tla`, any number of sessions and of
clients, whatever the delegate implements): `TypeCorrect`, the four safety
invariants of `lifecycle_safety` (`SourcesHaveDescriptors`, `ReadsAreOwn`,
`DescriptorsKept`, `PollersAlone`) and `Refinement`,
`Spec => ImplementsPortSessions`.  None of the four is inductive.  `IInv`
says what the unlocked accesses leave true between each other: only the
opener is inside `open`, whose steps come in order (`OneOpener`, `Opening`);
from the assignment of the descriptor until `reallyClosePort` has cleared it
the port refers to that of the last session, which is open until it is closed
(`Holding`, `LastIsOpen`); a read handler that runs holds the descriptor of
its own session, whose cancel handler has not started (`Reading`); and an
armed timer is the property's (`OneTimer`).  It is the kernel's refusal of a
second `open(2)` that keeps two sessions apart, and libdispatch's order of
event and cancel handlers that makes lines 286-299 safe.

## SerialPackets

`SerialPackets.tla` models listening for packets: `appendData` is the trimmed
`ORSSerialBuffer`, `dataIsValidPacket` the evaluators that the initializers
of `ORSSerialPacketDescriptor` build, `packetMatchingDescriptor` the search
from the shortest window up.  A regular expression or a client's block is the
set of data it accepts.  `StartListening` and `InstallBuffer` are the two
halves of `startListening...`, which looks the descriptor up before it waits
for the queue.  `stream` and `from` are ghosts: all bytes received, and where
the buffer of a descriptor was last empty.

The run `packets` checks every stream of nine bytes over two letters, for
each of ten formats (exact data, overlapping, equal and one-sided affixes,
affixes longer than a packet may be, an arbitrary set), while two threads
start and stop listening.  `NoPacketMissed` is stated on the stream, not on
the buffer: neither trimming nor clearing ever hides a complete packet.
`OneSidedPackets` is the header's claim that with a nil suffix a packet is
the bare prefix; the evaluator accepts far more, and only the search after
every byte makes it so.  Nine bytes hold two packets of the longest format
with a byte to spare.

*Proofs* (`SerialPackets_proofs.tla`, any bytes, any formats that the
initializers can make, any finite set of descriptors and any stream; a map
table is finite, which `PacketsAssumption` says): `TypeCorrect`, and all four
properties of the run as `NoneMissed`, `AsReceived`, `Disjoint` and
`OneSided`.  The invariant relates the buffer to the stream: it holds the
bytes since it was last empty, as far back as a packet may reach
(`BufferInv`), and, for every earlier moment as well, no packet was complete
since (`SinceInv`).  The latter is stronger than `NoPacketMissed`, which is
about the present, and `OneSided` needs it: a longer packet that begins with
the prefix would have been reported when the prefix was complete.  For a
suffix the reason is another one, that the search tries the shortest window
first.  `Disjoint` needs that a packet was reported before its buffer was
last emptied (`ReportedInv`).  The lemmas are about windows of sequences:
the end of a window, its beginning, and what an appended byte changes
(`EndOfWindow`, `BeginOfWindow`, `WindowOfAppend`, `AppendToWindow`,
`SuffixIs`).

## SerialPortManager

`SerialPortManager.tla` models `ORSSerialPortManager.m` and the registry
`allSerialPorts` of `ORSSerialPort.m` (97-192).

*State.*  A device is a path; `plugged[p]` counts how often it came or went,
so that a descriptor opened before a removal (`openedOn`) differs from one
opened after the return.  An object is a pair of a path and an instance
number, and lives (`Live`) while the list, the client, the set of ports to
reopen, or its own sources refer to it; the registry holds objects weakly,
so looking a path up finds exactly the live ones.  `NewPort` is an object that
is none of them, as `alloc` makes it.  The registry of a class is asked for
objects of that class or its subclasses (157); the repository has no subclass
of `ORSSerialPort`, so that check is always passed.  `open(2)` fails without a
device, and may fail for reasons of its own (254-258): a client's failed open
changes nothing, the ports that a wake cannot open are its `refused`.  `availablePorts` is a bag:
its order is left out, that an object may come twice in it is not.

| Code | Actions |
|---|---|
| `retrieveAvailablePorts...` (225-290) | `Init` (the first listing), `RegisterForTerminations` |
| `serialPortsWerePublished:` (188-204), `serialPortsWereTerminated:` (206-223) | `SerialPortsWerePublished`, `SerialPortsWereTerminated`: each runs its iterator out |
| `systemWillSleep:`, `systemDidWake:` (164-184) | `SystemWillSleep`, `SystemDidWake` (`Wakes`, for the ports refused) |
| the termination block (134-158) | `ApplicationWillTerminate` |
| `open`, `close`, `reallyClosePort`, the pin poll | `ClientOpens`, `ClientCloses`, `ReallyClosePort`, `PollerNotices` |
| `serialPortWithPath:`, `initWithDevice:`, `dealloc` | `ClientGets`, `ClientReleases` |
| IOKit (external) | `PlugIn`, `Unplug`: they only fill an iterator |

The run `port_manager` takes two devices, two instances of each and three
changes per device.  Three changes are a device that is there, goes, returns
and goes again, the shortest history in which a late notice meets a port
opened after it was sent; a second instance is what a duplicate would be.
It checks that a path has one object; that the list is exact once all notices
are handled; that, once all terminations are handled, no port is open on a
device that went, listed or not and whoever holds it (`RemovalCloses`); and
that a wake reopens what the sleep closed.  The conditions in the properties
are there because the code needs them: `unseen` are the paths whose
publication and termination the run loop handled out of order, or whose
removal came before the manager registered for it; `WakeRestores` requires
that the port has finished closing, since `open` returns at once while it has
not (248), and that its `open(2)` works.  No property says that a late notice
of a removal spares a port that was opened on the device's return: the notice
names a path, and the code closes what is open on it.

*Proof* (`SerialPortManager_proofs.tla`, all paths, instances and bounds):
`TypeCorrect`, and `OneObjectPerDevice`, i.e. `Spec => []SameInstance`.
`SameInstance` is inductive given the types: the lemma `LiveStep` shows that
whatever a step brings to life was live before or is what `initWithDevice`
gives for its path, and `initWithDevice` gives the live one if there is one.
It is that lookup which carries the proof: without it `NewPort` is a second
object of the path.

`ListCorrect` (`ListIsExact`) and the action property `ReopensOnWake`
(`WakeRestores`) rest on `DevicesInv`.  For a path that is not `unseen` the reports still to be handled
are in order: one publication at most, not after the device went, and no
removal once it is back (`ReportedInOrder`); and the list lags behind the
device tree by exactly these reports (`ListedIfPresent`).  A descriptor was
opened on a device that was there (`OpenedPresent`), and during a sleep each
path that was open has a port in `portsToReopenAfterSleep` (`WillReopen`).

`RemovalsClose` (`RemovalCloses`) rests on `RemovalInv`: a port that is open
is open on the device of this moment, or a termination of its path is still to
be handled.  `TerminationCloses` shows that handling it closes that port: it is
open, so it lives, the registry finds a live object of the path, and by
`SameInstance` there is no other.

## OperationsRunner

`OperationsRunner.tla` models `OperationsRunner.m` (193-408) together with
`ConcurrentOperation.m` and the `setup` and completion of `WebFetcher.m`.

*Threads.*  The owner's thread is the main thread (OperationsRunner.h:102);
`owner` says which method it is in, and it runs a perform (`mainQueue`) only
from its run loop.  `operationsQueue` is the serial queue by its blocks:
`dispatch_async` (`runOperation`) only appends, a `dispatch_sync` appends and
the caller waits in `emptying`, `checking` or `removing` until its block has
run.  `thread[op]` is the place of the operation's thread:

| Code | Steps |
|---|---|
| `start` (ConcurrentOperation.m:47-79) | `Start` (the check of `isCancelled`), `BeginExecuting`, `Setup` / `SetupFails`, `RunLoopFinishes`, `LeaveRunLoop` |
| `cancel` (98-105) | `CancelSetsFlag`, then `CancelSendsFinish`, which looks at `isExecuting` and `thread` later than the flag |
| `completed`, `failed` (WebFetcher.m:124-155) | `Completed`, `Failed`: `finish` is sent to `thread`, which is nil if `setup` has not set it |
| KVO of `isFinished` (OperationsRunner.m:390-406) | `ObserveFinished`, on the operation's thread |
| `operationDidFinish:` (315-343) | `CheckContained` (the block), `OperationDidFinish` |
| `_operationFinished:` (348-369) | `MainPerforms`, `RemoveOperation` (the block), `TellDelegate` |
| `cancelOperations` (281-297) | `CancelOperations`, `EmptyOperations` (the block), the loop over the operations, `CancelReturns` |

`fetchers` are operations whose `setup` is that of `WebFetcher`, which does
not call super and so never sets `thread`.  `lost` is a ghost: operations
whose `finish` message had nowhere to go.

`OperationService` says what the owner may rely on: an operation is delivered
at most once and, when `cancelOperations` has run its block, only if its
delivery was already under way on another thread.

| Run | Instance | Shows |
|---|---|---|
| `operations` | 2 operations, plain or fetchers, 1 or 2 at a time, either delivery | type; leftovers in the set were cancelled one by one; refinement of `OperationService`; `cancelOperations` returns and every operation settles unless a `finish` was lost |
| `fetcher_hangs` (violation) | 1 operation | a completed `WebFetcher` never finishes: it has no thread to send `finish` to |

*Bounds.*  Two operations are what it takes for one to wait for a place, for
one delivery to meet another, and for `cancelOperations` to meet operations
in different places.  *Fairness.*  Weak fairness of the serial queue, of an
operation's thread inside `start` and the notification, of NSOperationQueue
starting what waits while a place is free, and of the main thread;
`Completed` or `Failed` only as long as the operation is not cancelled, since
a cancelled operation may drop its work.  None for the owner's calls.
`CHECK_DEADLOCK FALSE`: with everything delivered or cancelled nothing
remains to do.

*Proof* (`OperationsRunner_proofs.tla`, any number of operations and
places): `InvCorrect` and `Refinement`, i.e. `Spec => ImplementsService`.
The refinement needs to know that an operation whose `remove` block runs is
not being delivered already and that no `add` block follows a `cancelAll`
block.  The invariant `IInv` says it: each block of the serial queue belongs
to exactly one waiting thread (`Fits`), none comes twice and none adds after
the set was emptied (`Ordered`), an operation that was never added is
nowhere (`SetInv`), and whatever is being told to the delegate has left the
set.  Every other step is shown to leave the status of every operation as it
was (the lemmas named `...Unseen`).

`TypeCorrect` and `LeftoversCorrect` (`LeftoversWereCancelled`) are the other
two.  `LeftoverInv` says that the operations observed are those in the set
and that an operation there which nobody cancelled is waited for: by its own
thread, by a perform on the main thread, or by the owner that is removing it.

## FavIcons

`FavIcons.tla` models `AZFavIconManager.m`: `IconForURL` is the whole of
`iconForURL:downloadHandler:`, a call of the main thread; an operation then
goes on a thread of its own through `Start`, `Preflight` (the cache once
more), `Search`, `RemoveNote` and `Complete` (the two halves of the
completion block, between which other threads run); `MainCallsHandler` is the
handler, a block of the main queue.  `CancelAllOperations`, `EmptyOpsPerURL`
and `RemoveAllObjects` are the steps of `cancelRequests` and `clearCache`.
The cache is a set of keys in memory, a set on disk and the writes still to
do; `Evict` (external) is `NSCache` dropping an object.

*Abstractions.*  The search of a page for its icon (191-300) either finds one
or not.  `opsPerURL` is changed by several threads without a lock: every call
on it is one step, so lost updates inside NSMutableDictionary are not
modelled.  `answers` says whether `imageForKey:` gets past its first line,
which asks the cache for a property of a name that depends on code outside
this repository.

`FavIconService` is the header: a handler is called at most once, and only
with an icon; a request is discarded only if another for its URL came first.
The run `fav_icons` checks the refinement; that once all is quiet exactly the
requests with an icon were handled (`FoundIsHandled`), also when they were
cancelled meanwhile; that a note in `opsPerURL` is of an operation under way,
or of one that its preflight ended (`NotesAreLive`); and that with discarding
on no two live operations fetch the same URL (`OneOperationPerURL`), except
where a cancelled operation took away the note of its successor (68), which
the ghost `robbed` records.

*Bounds.*  Three requests: one that is cancelled, the one that takes its
place, and the one that finds the note gone; two pages of one site share a
key of the cache and not a note.  `CHECK_DEADLOCK FALSE`: the manager stops
when all requests are settled.

*Proof* (`FavIcons_proofs.tla`, any requests, URLs and hosts): `InvCorrect`
and `Refinement`, `Spec => ImplementsService`.  The invariant says that the
main queue holds a handler once, and only of an operation at its end
(`HandledOnce`), that only icons that were found are cached or about to be
(`CachedWasFound`), and that a note is of an operation for that URL
(`NotesFit`).

The three invariants of the run, `NotesCorrect` (`NotesAreLive`),
`OneOperation` (`OneOperationPerURL`) and `IconsHandled` (`FoundIsHandled`),
need more (`NotesInv`): an operation with an icon reports it before it ends
(`IconsReported`); outside of a cancellation a noted operation is
uncancelled, because `cancelRequests` cancels all before it empties the notes
on the same thread (`NotesUncancelled`); and with discarding on an operation
that goes on is the one noted for its URL, unless it was robbed
(`LiveAreNoted`).

## MultiMeter

`MultiMeter.tla` models the driver `MM2200087.m`: `didReceiveData` appends
what a read gave and, when that read was the single byte e0, takes the buffer
for a packet; `display` and `flags` decode a packet through tables of bits
(`segmentD`, `flagsD`).  The header of the JSMultiMeter example keeps, in a
comment, the decoder the driver was written from, which names the segments of
a digit; `strToDigits` and `strToFlags` are that decoder and
`DecodesAsReference` compares the two.  They differ in two ways, which the
property names: the header does not list a minus as a flag, and of a packet
with points at two of the digits 1 to 3, which no sample shows, the driver
keeps one point and the header both.  The point of digit 4 is the flag MAX
and no point in either.

What a reader should know of the framing: a packet whose last byte carries a
flag (OHMS is bit 2 of byte 13, so its last byte is e4) or whose last byte
comes in one read with others never ends by itself and joins the next one;
both are lost.  A buffer of 13 bytes passes the length check at line 55 but
has no byte 13 to look a flag up in: a range exception.  `ReadingsInOrder`
holds in all these cases, `PacketsReported` says what holds without them.

The run `multimeter` sends scripts of three packets, the first one cut by 0,
1 or 5 bytes, in every split into reads of 1, 2 or 13 bytes.  The 32 samples
show all 128 patterns of segments and set every flag but those of the last
byte.  A packet of 14 bytes with reads of 13 is the case in which the last
byte comes alone; three packets are one to be lost, one to follow it, and one
to show that the driver recovers.  `CHECK_DEADLOCK FALSE`: the run ends with
the script, or with the exception.

`MultiMeter_proofs.tla` proves `ReadingsInOrder` for any packets, any cut of
the first and any sizes of reads (`InOrder`).  The invariant `IInv` relates
the driver to all that was sent: the buffer is what was read since the last
byte of some packet k, so the driver is always in step with the packets, and
the readings are some of the first k, in order.  A read of the single byte e0
ends a packet m after k (`EndOfPacket`: the high nibble says which byte of a
packet it is), and the buffer then has 14 bytes only if m is the next packet,
13 only if it is the rest of the first one (`WholePackets`); in the latter
case the exception leaves the buffer, and nothing was reported yet.  What the
meter sends is a `FlattenSeq`, a recursion over the data: `FlattenIsSent`
shows, by a least counterexample (`LeastNumber`), that it has the closed form
`FirstSent`, in which the place of each byte is known.

That no packet is missed (`NoneMissed`) needs more than `IInv`, which allows
the driver to be any number of packets behind.  `StepInv` says that, as long
as each packet ends with a byte e0 that is read by itself, the buffer is
shorter than the next packet and the readings list exactly the packets before
it that are due (`InStep`, `Due`).  A read that does not end a packet cannot
reach the end of the next one (`ReadsOnInStep`): its last byte would have been
read with others.  A read that ends a packet ends the very next one
(`ReadsEndInStep`), and the readings grow by it exactly if it differs from the
last (`ListsGrow`); two packets have equal bits only if they are equal
(`BitsTell`).

`Decodes` proves `DecodesAsReference` for every packet, not only the samples.
Seven bits and the names of the lit segments stand for one another
(`SameLit`); the bits the driver picks for a digit and those the header picks
do (`DigitLit`), and so do the rows of the two tables for each of the sixteen
characters (`SameRows`), so both look up the same character or none
(`SameChar`).  The flags are compared row by row (`FlagRows`).  With at most
one point the driver's place for it, an index into the digits, is in front of
the digit where the header puts it (`PlaceIs`, `SamePoint`).

## Known divergences

Two disagreements between code and documentation are kept as runs
(`late_response`, `fetcher_hangs`; `findings` in `PROJECT.json`).  The others
that were met are stated as invariants in the modules; each is violated
within seconds under the configuration given, which is a run's cfg with the
changes described.

| Property | Documentation | The code | Configuration |
|---|---|---|---|
| `SerialRequests.OnlyTimedTimeOut` | an interval of -1.0 waits indefinitely (ORSSerialRequest.h:58) | a request that needs no response leaves its timer armed (504), and a reset leaves the timer too (379): it times out a later request | `requests_liveness` with `Timed = {"c"}`, `MaxSends = 2` |
| `SerialRequests.PendingWasSent` | `pendingRequest` is the previously sent request (ORSSerialPort.h:353) | a request whose `sendData:` failed stays pending (502) | `late_response` with `HandlesClosed = TRUE`, `MaxSends = 1` |
| `SerialRequests.FreshCallsSurvive` | a close discards the requests of its session (ORSSerialPort.h:655-658) | the reset queued after `serialPortWasClosed:` discards requests of the next session (377) | `requests_sessions` with `MaxSends = 2` |
| `SerialRequests.ClosedPortForgets` with a delegate without `serialPortWasClosed:` | every close discards pending and queued requests (ORSSerialPort.h:655-656) | only if the delegate implements `serialPortWasClosed:` (374) | `requests_sessions` with `HandlesClosed = FALSE` |
| `SerialPortLifecycle.YesMeansClosed` | `close` returns YES if the port was closed (ORSSerialPort.h:217) | a close between lines 269 and 302 of `open` returns YES and closes nothing | `lifecycle_liveness` as it is |
| `SerialPortLifecycle.FlowControlReopens` | the setters "close it then reopen it" (ORSSerialPort.m:887-888) | `open` finds the port still open, `close` then closes it (890-895) | `lifecycle_liveness` with `Clients = {"main"}`, `Opener = "main"` |

## Mutants

Definitions introduced by a comment that begins with "Mutant" are variants of
the definition that follows them, each with a mistake the code could contain
(a guard left out, an order swapped, a reset forgotten).  No specification
uses them; `PROJECT.json` names, for every property of a passing run, the
variant under which that property fails.

## Not modelled

`PROJECT.json` gives the reason for each component that is `not_modelled` or
`partly` modelled.  In short:

* AZBoxGrid, AZBlockObservation and CWTask have a state machine and no module
  yet; they run on one thread or behind one serial queue, and come after the
  components above.
* `AZOperation` (OperationsRunner.m:24-193) is an NSOperation that tells a
  delegate of its start, cancellation and end; the runner does not use it.
* The search for an icon in the text of a page is string handling; the
  settings of the serial line are calls of `tcsetattr`.
* Vendored code, drawing, preference panes, sample applications and resources
  are left out for good.  So are categories and geometry: pure functions on
  floating-point numbers and strings that no finite instance represents.
* Headers, apart from the decoder in the example's, declare and do not do
  anything: the models map the `.m` files.

Behaviour of modelled components that the models leave out: two threads in
`open` at once and the pin poll handler using a descriptor closed after its
check (the lifecycle has one opener, and asks through its own session's
descriptor); repeated reports of one removal; the registry of ports being used
from a second thread; a write of the icon cache that ends after
`clearCache` has emptied the disk.

Model-checked only: all liveness, which the provers cannot do, also where an
abstract specification is refined (the theorems named `Refinement` are about
its steps); and what the calls of `SerialRequests` come to when the delegate
implements `requestDidTimeout:`.  Every invariant and every action property
of the passing runs is the conclusion of a theorem.
