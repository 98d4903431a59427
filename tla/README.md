# CFB: TLA+ specifications, model checking and proofs

CFB captures the I/O request packets (IRPs) sent to Windows drivers. A kernel
driver, IrpMonitor, hooks other drivers and queues what passes through them; a
user-land process, the broker, loads that driver, reads the queue and serves
it over TCP; clients (the GUI, the command line) talk to the broker. This
directory holds TLA+ modules that model the driver and the broker, the TLC
configurations that check them, and TLAPS proofs. `PROJECT.json` maps every
definition to the lines it models.

## 1. The system

| Component | State it keeps | Operations | What makes it correct |
|---|---|---|---|
| `CapturedIrpManager`, `LinkedList`, `DriverReadRoutine` | the list of captured IRPs, two counters of it, the notification event, two locks | `Push`, `Pop`, `SetEvent`, `ForEach`, a read of the device | each IRP delivered once, in order; the event tells the truth |
| `HookedDriverManager`, `HookedDriver` | the list of hooked drivers, each one's state, copy of the driver object and reference | insert, remove, enable, disable, unload | a driver hooked once, its requests dispatched soundly, everything restored |
| Interception routines, `CapturedIrp` | nothing of their own; the IRP being captured | pre-call capture, original routine, post-call capture, push | the original routine runs once; what is queued is whole |
| Device sessions (`Entry.cpp`) | `Owner`, `SessionId` | create, close, device control | one process at a time commands the driver |
| `DriverEntry`, `DriverUnload` | the global context, device and symbolic link | load, unload | a failed load can be repeated, nothing goes while it is open |
| Broker `GlobalContext`, `ManagerBase`, `main()` | the global state, two events per manager, the termination event, four threads | `SetState`, `WaitForState`, `Stop`, join | it starts, it ends, in the right order |
| `ServiceManager`, `Win32Service` | the driver's file and service, the broker's own service | extract, load, unload, install, run | the last broker leaves nothing, the next one gets ready, the driver outlives its users |
| `IrpManager` | the device handle, the shared event, the read buffer's length | `Setup`, `Run`, `GetNextIrps` | reads end, no wake-up is missed |
| `ConnectorManager`, `JsonQueue` | the dispatcher, the connectors, the IRPs for clients | `SetCallback`, `Setup`, `Pop` | IRPs stored in order, none stored twice |
| `DriverManager`, `TcpListener` | the listening socket, a thread per client | accept, `ExecuteCommand`, `SendSynchronous` | one answer per request, clients end with the broker |
| Message codecs (`Common`) | none | serialise, parse, align, Base64 | round trips |
| GUI | a socket, the maps of drivers and IRPs, background threads | connect, refresh, hook, fetch, quit | answers matched to requests, IRPs shown once and none lost, what is shown is so |

How they meet: an I/O thread of the target runs the interception routine,
which pushes onto the queue and signals the event; the broker's `IrpManager`
thread waits for that event, reads the device until its buffer is large
enough, resets the event, and hands each IRP to a callback that the
`ConnectorManager` thread installs; `DriverManager` turns client requests into
IOCTLs, which the driver accepts from the process that owns the device.

What is hard here: steps of I/O threads, IOCTL threads and readers under two
locks and sometimes none; an event with three writers; a size measured and
used later; a pointer found under a lock and used after it; four threads that
wait for states they announce to each other; the end of the process, and what
it leaves for the next one; two brokers on one service; a stream of answers
that several threads read, in chunks. `PROJECT.json`, "hazards", has them line by line.

## 2. The modules

| Module | Models | Composes |
|---|---|---|
| `IrpChannel` | what the queue promises its reader: batches, in order, once | |
| `IrpQueue` | the driver's queue and `DriverReadRoutine` | refines `IrpChannel` |
| `IrpPump` | the broker's `IrpManager` and `ConnectorManager` around the queue | extends `IrpQueue` |
| `HookedDrivers` | hooking, unhooking and the interception routines | |
| `DeviceSession` | what the driver promises the processes that open its device | |
| `DriverLifecycle` | `DriverEntry` step by step, `DriverUnloadRoutine` | extends `DeviceSession` |
| `DriverService` | the brokers of a machine, the SCM, failures and crashes | extends `DriverLifecycle`, refines `DeviceSession` |
| `BrokerLifecycle` | the four managers, the global state, `main()`, the Windows service | |
| `JsonQueue` | the connector's queue, and what its lock that locks nothing lets happen | |
| `TcpServer` | the listener, a thread per client, `ExecuteCommand` | extends `JsonQueue` |
| `GuiClient` | the GUI's threads on one socket, the broker and hooks at its other end | |
| `IrpData` | the bytes of an IRP, from the request to the client's JSON | |
| `IrpQueueProofs`, `HookedDriversProofs`, `DriverServiceProofs`, `BrokerLifecycleProofs`, `TcpServerProofs`, `GuiClientProofs`, `IrpDataProofs` | theorems | extend their modules |
| `IrpPumpProofs` | theorems | extends `IrpPump` and `IrpQueueProofs` |
| `MC*` | values of the constants for TLC | extend their modules |

Each module names its variables after the fields of the code where it can; its
comments give the rest. In every one, an action is what a thread does between
two points where another thread can see or disturb it.

**IrpQueue.** `entries` is the list, head first, `total` its own counter,
`count` the manager's. `mutex` is the manager's lock, which `Push`, `Pop` and
`SetEvent` hold; `listMutex` is the list's lock, a variable only because
`ForEach` keeps it over a whole walk. `PushBack`/`PushNotify` and
`PopFront`/`PopCount` are the halves of `Push` and `Pop`: between them the
list has changed and the count has not. A read is
`ReadRequest -> MeasureEntry* -> MeasureDone -> (PopFront -> PopCount)* -> ReadDone`,
with an exit at each check of the code. An IRP is a value with a size; the
three bounds checks of the copy (header, input, output) are one, which fails
exactly when one of the three would. The step that maps the buffer may fail.
`pushed`, `offset`, `delivered` and `lost` are histories.

**IrpPump** takes the one reader of `IrpQueue` for the broker's thread and adds
the loop of `GetNextIrps` (`IssueRead`, `Grow` with a length that wraps at
`LengthWidth`, `GiveUp`, `Parse`, and the reset of the event), the dispatch of
the batch, and `ConnectorManager::Setup` in the two steps that another thread
can see.

**HookedDrivers.** A target is a driver with one device. `driverObject[t]` is
the copy the device points to, `fastPatched` the targets whose own fast I/O
table was overwritten (the copy shares it), `refs` the references held on the
original. The operations of the manager are ordered by `mutex`; the
interception routine is not, and goes through
`enter -> pre -> call -> post -> push` with the raw pointer in `driver`.
An exception in the original routine adds the two steps `disable` and `flag`.
The order of the list is not observable and `listed` is a set; its counter
`total` is kept apart because `LinkedList::Remove` updates it wrongly. After
a fast I/O routine has called itself, what follows the call is not modelled:
the recursion has no end, and `MaxDepth` bounds how far it is followed.

**DeviceSession.** One pc per process: a command is checked (`DeviceControl`)
and then executed (`Execute`); in between, other threads of the process may
close other handles (`CloseMeanwhile`). `Exit` closes what a killed process
has open, `RefuseUnknownDevice` is a command that comes before the driver knows
its own device, and `NewContext` replaces the context while nobody has the
device open: that is all a load and an unload may do to a session.

**DriverLifecycle.** `driver` is how far `DriverEntry` got:
`context, device, linked, open, running`, then `stopping`. From `open` on
processes can open the device; at `running` the driver knows it too.
`CleanupOnFailure` undoes a failure at `context` or `device`, and leaves the
device behind in the second case (`orphan`), because the context is told of it
later. `DriverUnload` waits for the last handle.

**DriverService.** Each broker goes through
`extract, write, create, open, start, starting, ready`, or to `failed` at the
call that fails, and then through `stop` and `delete` to `off`: the destructor
of `ServiceManager` runs after a failed `Setup` too. `file` and `writer` are the
driver's file, one for all brokers, `entry` the service as the SCM has it, which
goes when it is `marked`, no handle on it is left (`hold`) and the driver is
unloaded. A call fails for the reason its action gives or, `MaxFailures` times,
for none. `Crash` closes a broker's handles at any step and undoes nothing else.

**BrokerLifecycle.** Each manager's thread is a path through
`setup, open, ready, run, serve, leave, done` or `failed`; `changed` and
`terminated` are the two events of each. `SetState` makes the change under the
mutex and then notifies the managers one by one, each a step. `Stop` sets the
events one by one. `service` is the `Win32Service` of a broker started as one:
the SCM's stop (`ScmStops`) and `RunForever` leaving its loop. The driver may be
`loaded` from the start, by a broker of which `DriverService` tells. `handles` are
the managers that have opened the device: `DriverManager` goes on without one,
with `failed` set, when `CreateFile` fails.

**JsonQueue.** `std::scoped_lock(m_Lock);` declares a variable named `m_Lock`
and locks nothing, so `IrpCallback` and `Pop` race. Each is two steps, what it
reads and what it writes back; a write to the size or to the offset of the
deque may undo what the other side wrote in between. That is the deque of the
compiler the project builds with, and part of the model's environment. A push
needs the slot it writes to be one of `MaxSlots`.

**TcpServer.** The listener goes through `setup, loop, blocked, accept, reap,
left`, a client's thread through `start, loop, blocked`, then
`terminating, restop` when it sees the termination event, or
`network, receive, execute, pop, popped, send` when it sees an event of its
socket. `loop` is about to wait and `blocked` waits: `Stop` releases who is
blocked, and who is about to wait finds the event set or, if a client's thread
has just reset it, not. `record` holds the network events as Windows records
them: once, and `FD_READ` again only after a receive. A message may come in
pieces and two may come as one, so that what is received need not be one
request.

**GuiClient.** Three kinds of thread: the window's (`ui`), the one that asks
for IRPs every second (`poller`), and one per click on "Refresh". `command[t]`
is the command thread `t` waits for. `sent` are the requests the broker has not
read; it reads one or, if they have arrived together, several as one that is
not JSON, and answers an error. `wire` are the answers not yet read. `Receive`
takes a chunk: the end of the first `n` answers and, if `more`, the head of the
next; the loop in `SendCommand` stops at a chunk that is not full or ends in a
brace, so that a thread may get an answer, none, or parts of two. `headless`
says who has the head of the first answer on the wire. `Disconnect` ends the
`recv()` of the threads that are in it (`failed`), while another that is about
to call it goes on to the next socket; the broker's thread may still execute a
command of that connection (`late`), of which nobody gets the answer. A
connection ends at the broker's end too (`BrokerCloses`), or with the broker
(`BrokerEnds`): the driver is unloaded then, all hooks with it, and the window
may show hooks of that broker (`outdated`) until a refresh clears its map. A broker
that is killed is the same to the GUI, only later: the hooks stay until the next
broker has had the driver stopped, without which it does not get ready
(`DriverService`). The history `trouble` records what went
wrong on the connection: the properties say which trouble excuses what.

**IrpData.** A buffer is a sequence of bytes of which only the origin is kept:
`sent` by the requester, `wrote` by the original routine, `zero`, and so on. A
request has a major function, a transfer method, two lengths and the offset of
its pages. `SystemBuffer`, `Type3InputBuffer`, `Mdl` and `UserBuffer` say where
the I/O manager puts what; `CapturePreCallData` and `CapturePostCallData` what
is kept of it. What is read through an IRP that may have been completed is any
of the outcomes. A `DriverRead` is one turn of the loop of `DriverReadRoutine`, which
lays one IRP out behind the others; a `GetNextIrps` is one turn of the parser, which
takes an IRP from `offset` on by the lengths it meets and appends it to `irps`;
`ThroughJson` makes a client's IRPs of them. `Toggle` switches capturing between
any two steps.

## 3. The runs

Passing runs:

| Run | Bounds | Shows |
|---|---|---|
| `queue_two` | 1 producer, 2 readers, the IRPs of `pump`, read lengths 1, 3, 6 | `Conservation`: with two reads in flight an IRP is still in one place exactly, if that place may be "lost" |
| `pump` | 2 producers, the broker as the one reader, 3 IRPs of sizes 1, 2, 3, lengths of 4 bits, fairness | `CountersAgree`: the counters follow the list through the half-done steps. `SignalMeansData`: a signalled event means a queue that is not empty. `DeliveryInOrder`: every IRP once, in order, none lost. `SnapshotHolds`: what a read measured is still the head of the queue when it copies. `ImplementsChannel`: the queue and its reader refine `IrpChannel`. `StoredInOrder`: the JsonQueue holds what was delivered, once and in order, but for a first part dropped before the connectors were in place. `ReadTerminates`: the doubling overtakes the queue. `SignalledIsRead`: a wake-up leads to a delivery |
| `hooks_hooks` | 2 IOCTL threads, 1 I/O thread, 2 targets (one with fast I/O), 3 hooks, at most 2 hooked | `HookedOnce`: no driver hooked twice, nor more than the limit. `DispatchSound`: a device on a copy has a `HookedDriver` that can be found, or one that an insertion or removal is working on, or one that was flagged invalid. `ReferencesBalanced`: no insertion keeps the reference of its look-up |
| `driver` | 2 brokers, a client, a process without the privileges, 2 handles each, sessions of 2 values, 1 crash, 1 failure without a cause, fairness | `OwnerIsPresent`: an owner has a handle and will release the device. `Exclusive`: one handle per process makes the session exclusive. `SessionPerOwner`: a session for each owner. `ImplementsSessions`: the device behaves as `DeviceSession` says, whoever loads and unloads the driver. `NothingLeft`: the last broker leaves neither driver nor service. `Recovers`: what a crash or a failure leaves is no dead end for a broker that is started again and again, but for the two that section 3 lists |
| `lifecycle` | all three modes, failures, the driver loaded before or not, fairness | `DriverOutlivesHandles`: the driver is not stopped under a manager that has the device open. `StartupServes`, `StopEnds`: the broker gets to serve, and a standalone one ends when asked |
| `server_safety` | 2 clients, 2 requests of every kind, 2 IRPs, room for one client's handle, any call may fail | `IrpsOnce`: no IRP is given to two clients or twice to one, though the queue is filled without a lock |
| `server_live` | 2 clients, 2 requests, 1 IRP, fairness, failing accepts and sends | `ListenerStops`: the listener gets to leave. `ClientsReaped`: a client that has left is given up. `RequestsAnswered`: what is sent is received and answered |
| `gui` | 1 driver, 1 refresher, 2 IRPs, 2 threads at a time on the socket, fairness | `Matched`: with one thread at a time on the socket and no answer cut short, each command gets its answer. `ShownIsHooked`: what is shown as hooked is hooked, unless the window has not been refreshed since its broker ended. `CapturedOnceInOrder`: an IRP is shown once, in order, whatever happens to answers. `NothingLost`: each IRP is shown, on the wire, or queued. `CommandsEnd`: nobody waits for ever. `QueueDrains`: IRPs do not pile up |
| `data` | 2 requests of every major function and method, buffers of 2 bytes, names of 1 or 2 characters in a field of 2 | `SystemInputAsSent`: the input in a system buffer is kept as it was sent, not what the routine made of it. `WholeOrEmpty`: an IRP is queued with all that was asked for or with nothing. `RoundTrip`: a client gets back what was captured, byte for byte |

Each module's type invariant is checked with it (not for `queue_two`,
whose variables `pump` types, nor for `IrpData`).

Why these bounds: the lengths lie below, between and above the sizes of the
queue, so that a read is too small, exact and generous, and three IRPs are
enough for a read to have one taken, one to take and one arriving. Four bits
for a length are twice what all IRPs need, so that the doubling does not wrap
(see "what is not shown"). Three hooks for two targets let one be hooked,
removed and hooked again while the other stays; a limit of two is met and
would be exceeded. The brokers and a client with the privileges and a
process without cover each branch of create; two handles tell the first close from the last.
Two brokers are enough for one to fail on, stop or delete what the other has
made, at any step of either (for `NothingLeft` the theorem has any number); one crash
and one unexplained failure reach every place where a broker can leave
something (`driver` has 403,328 states). Two clients are enough for one
to hold the lock the other wants, or to reset the event the other waits for;
two IRPs for one to be pushed while the other is popped. A client connects
once: without that bound, a stream of connections could keep the listener from
ever looking at the termination event while it is set.

In `gui`, two threads at a time on the socket are enough to swap answers, and the
three threads take turns in being those two. Once answers are mixed up or cut
(`Clear` is false), the window's clicks, new connections and captures stop and
what remains is what the threads do with what is under way, which is where the
properties that are not excused have to hold; at most one kind of trouble beside
the swapping it leads to, and one cut, happen in a behaviour, and an outdated
window counts as one kind. Of the requests that were sent
before a `Disconnect` the first may still be executed, one at a time. The run has one
driver, and no minifilter: a second enumeration is then an empty answer, and
what it does to a map with entries is reached by the first. In `data`, a name is at
most as long as its field, and loses its last character if it fills it; two bytes and an offset of one tell a shifted buffer from a whole one, and a second
IRP is what a wrong length of the first is seen by.

Fairness. `IrpPump` assumes that a thread inside a driver routine, the
broker's and the connector's thread are scheduled (weak fairness each); nobody
has to start a capture or to stop. `BrokerLifecycle` assumes it of each
manager's thread, each pending notification, `Stop` once it is called, and
`main()`. `TcpServer` assumes it of the listener and of each client's thread.
`DriverService` assumes it of each broker's and the system's steps, and of
two people: whoever runs a broker ends one whose setup failed, and a client does
not keep open for ever the device of a driver that was asked to stop (strong
fairness, since its commands come in between). Nobody has to start a broker:
`Recovers` speaks of one that is started again and again. A broker that is
ready never has to leave. `GuiClient` assumes it of the threads that wait
for an answer, and of the broker, which is what `RequestsAnswered` shows of it;
nobody has to click and no IRP has to come. The poller sends every second,
whoever else uses the socket; the bound on troubles takes that step away while
another thread waits and a trouble was met before, and strong fairness gives it
back when that thread is done.
`WaitForState` polls every ten seconds, so a condition that stays true is
seen. Ctrl-C, a failing listener and the SCM's stop are never forced.

Runs that end in a violation each check one statement of a comment or a string
of the code, and TLC shows a behaviour of the code that breaks it:

| Run | Statement | What happens |
|---|---|---|
| `pump_lost` | the event notifies the broker | it is reset after the read, with what was signalled since; the IRP waits for the next capture |
| `lifecycle_wait` | code runs only in the state waited for | a manual-reset event that nothing resets lets it through |
| `data_input` | the content of the input buffer is copied to the `CapturedIrp` (`CapturedIrp.cpp:201`) | `METHOD_FROM_CTL_CODE(m_IoctlCode)` is taken before `m_IoctlCode` is set (`CapturedIrp.cpp:170`) and is always `METHOD_BUFFERED`: the input of a `METHOD_NEITHER` control, and of a write that has no system buffer, is queued as zeros |

The remedy of `data_input` takes more than the right method: with it, a direct
control would be captured from its MDL (`CapturedIrp.cpp:232`), whose pages are
those of its output, and not from the system buffer that has its input.
`SystemInputAsSent` would see that.

Modelling the code met more places where it and its comments part. The models
keep what the code does there; no run is spent on them:

* `Entry.cpp:303` names no lock variable, so "Critical region for the IRP copy"
  is empty. Two reads may pop each other's IRPs and fail: the IRPs they have popped
  are neither delivered nor deleted. The broker has one read in flight at a time.
* The wait of `lifecycle_wait` has consequences: the IrpManager may announce
  `IrpManagerReady` after `Running` (`Context.cpp:123` warns and steps back),
  start collecting before the connectors are installed and drop those IRPs
  (`ConnectorManager.cpp:107`), and the ServiceManager does not "wait for the
  other managers to be done" (`ServiceManager.cpp:96`).
* A service that the SCM stops ("Stops the service, this method is invoked from
  the SCM", `ServiceManager.hpp:47`) leaves its dispatcher and then joins
  threads that nobody has told to stop, as an installer and a `main()` without
  the privileges do; `RunForever` polls without a pause, because its
  manual-reset event stays set, and a stopped service is an "Unknown state"
  (`ServiceManager.cpp:535`).
* The service that `InstallBackgroundService` registers is started with
  `service`, quoted as a part of the path, which `main()` has no mode for.
* `LinkedList::Remove` counts an entry out only if the list becomes empty
  (`DriverUtils.hpp:599`), so after some removals there is no longer "currently
  %d driver%s hooked" (`Driver/Client/Main.cpp:117`), and the limit is met early.
* The `JsonQueue`'s lock locks nothing: a push that overlaps a pop may leave an
  IRP hidden behind the end of the queue, where the next push overwrites it.
* The thread of a client never ends because the broker stops: it resets the
  termination event, calls `Stop` and begins again, until the process is gone,
  with what it uses freed before. A request without an id throws where nothing
  catches. `GetPendingIrp` empties the queue whatever number is asked for, and
  `WSAAccept` goes on until the wait has one handle too many, which stops the
  broker (`CFB_BROKER_TCP_MAX_CONNECTIONS`, 16, is the length of the backlog).
* `RemoveDriver` releases the driver object, and the destructor it calls does
  so again (`HookedDriverManager.cpp:146`), for one reference taken.
* "Execute the original callback" (`Callbacks.cpp:214`): the copy of a driver object
  shares the fast I/O table with the original, so that installing the interceptors
  overwrites the driver's own entries (`HookedDriver.cpp:86`), and a fast I/O
  interceptor calls itself until the stack ends. Nothing restores the table.
* `RestoreCallbacks` does nothing for a driver flagged `Invalid`: its device
  goes on pointing to a copy that is freed (`HookedDriver.cpp:119`).
  `EnableCapturing` refuses such a driver, and `SetMonitoringState` reports
  success.
* "Invalid to never touch the invalid memory area again"
  (`Callbacks.cpp:100`): the next request goes to it all the same.
* The fallback "by calling the original routine" (`Callbacks.cpp:61`) calls what
  the device's driver object says, which is the interceptor while it is hooked.
* The interception routine keeps the raw pointer of a `HookedDriver` that
  `RemoveDriver` may free, and asks `CanCapture` twice around the original
  routine: an IRP may be queued without its input.
* "Not more than one handle to the device is allowed" (`Driver/Headers/Context.hpp:36`): the
  owner may open more, closing any of them clears `Owner`, and the other
  handles are denied. `Owner` is read without the lock that orders its writes.
* A broker that is killed leaves the driver running, and `StartService` of the
  next one fails (`ServiceManager.cpp:253`); what clears it away is that the
  broker that has failed stops the driver too, and so does one that fails while
  another broker is using it. One that fails before it has opened the service,
  because its file cannot be written say, clears nothing. The run met one dead
  end: a broker stops the driver and is slow to delete the service; another
  starts the driver in between and is killed; then the service is marked for
  deletion, no broker gets a handle on it, and the driver runs until the machine
  is restarted (`Unstoppable`, which `Recovers` excepts).
* "Make sure we clean everything correctly on function exit" (`Entry.cpp:429`):
  the context is told of the device after the symbolic link is made, and if that
  fails the device stays, and no later `DriverEntry` can make it.
* "delete the PE file from disk" (`ServiceManager.cpp:18`):
  `DeleteDriverFromDisk` shortens a path, and nothing calls it.
* `DriverUnloadRoutine` deletes the context, whose members go in reverse order:
  the queue before the hooks that push to it.
* The output of a direct read is copied to `ByteOffset` in the buffer, past its end
  (`CapturedIrp.cpp:299`), and output is read through an IRP that may have been
  completed. An IRP captured from the middle on looks like an `IRP_MJ_CREATE`.
* `ExportHeader` copies a name to a field of fixed size without a check
  (`CapturedIrp.cpp:435`); longer names are not modelled. A name that fills the
  field loses its last character in `from_json` (`Comms.cpp:56`).
* `CreateFileW` reports a failure as `INVALID_HANDLE_VALUE`, which `!hDevice` takes
  for a handle (`DriverManager.cpp:69`, `IrpManager.cpp:71`): the IrpManager fails one
  call later, and the DriverManager serves clients whose every command fails.
* The window goes on showing what a broker that has ended had hooked, until it is
  refreshed: nothing tells it that the connection is lost, and a reconnection
  keeps the map.
* The GUI's threads share a socket without a lock (`App.hpp:243`). Commands that
  overlap may swap their answers; two that arrive together get one error, and
  the thread without an answer waits for ever, with the window if it is the
  window's. An answer that is cut short shifts all later ones. A refresher that
  gets IRPs throws where nothing catches.
* A refresh shows every driver as unhooked (`App.hpp:101`); unhooking leaves a
  driver shown as monitored; "Restart" (`App.cpp:156`) ends the GUI, since nothing
  sets `KeepRunning` again; the poller asks for one IRP (`App.hpp:306`), keeps
  all it is given, and is detached and joined both.

Deadlock is checked in the runs of `IrpQueue`, `IrpPump` and `DriverService`.
It is not in `TcpServer` and `GuiClient` (the process has ended), in `IrpData`
(all has been read and capturing no longer matters; `Toggle` goes on), in `HookedDrivers` (an unload that has finished with no request left,
and all hooks used up) nor in `BrokerLifecycle` (the process has ended, or a
service waits forever).

## 4. What is proved

TLAPS checks these for every value of the constants, under the named
assumptions of each module (`QueueAssumption`, `PumpAssumption`, `HookAssumption`,
`SessionAssumption`, `ServiceAssumption`, `LifecycleAssumption`,
`JsonQueueAssumption`, `ServerAssumption`, `GuiAssumption`, `NoneIsNeither`,
`DataAssumption`), which TLC evaluates in the runs. Every invariant that a passing
run checks is among them.

| Theorem | States |
|---|---|
| `IrpQueueProofs!Types` | `TypeOK`, `CountersAgree` and the lock discipline |
| `IrpQueueProofs!EventSound` | `SignalMeansData` |
| `IrpQueueProofs!NothingDuplicated` | `Conservation`, for any number of readers |
| `IrpQueueProofs!DeliveredInOrder`, `NoCopyFails` | `DeliveryInOrder`, `SnapshotHolds`, for one reader |
| `IrpQueueProofs!QueueIsChannel` | the queue with one reader implements `IrpChannel` |
| `IrpPumpProofs!QueueHoldsInPump`, `PumpIsChannel` | all of the above of the queue in the hands of the broker, which resets its event |
| `IrpPumpProofs!PumpTypes`, `StoresInOrder` | `PumpTypeOK`, `StoredInOrder` |
| `HookedDriversProofs!Types`, `Once` | `TypeOK`, `HookedOnce` |
| `HookedDriversProofs!DispatchIsSound` | `DispatchSound` |
| `HookedDriversProofs!References` | `ReferencesBalanced` |
| `DriverServiceProofs!Types`, `OwnerSound`, `OneHandleIsExclusive` | `TypeOK`, `OwnerIsPresent`, `Exclusive` of `DeviceSession` |
| `DriverServiceProofs!SessionsAreSeparate` | `SessionPerOwner`, for a session number of at least two values |
| `DriverServiceProofs!ServiceImplementsSessions` | `ImplementsSessions` |
| `DriverServiceProofs!OwnerSoundAcrossLoads`, `SessionsAreSeparateAcrossLoads` | by the refinement, the same of every behaviour of the brokers |
| `DriverServiceProofs!ServiceTypes` | `ServiceTypeOK` |
| `DriverServiceProofs!NothingIsLeft` | `NothingLeft`, for any number of brokers |
| `BrokerLifecycleProofs!LifecycleTypes`, `DriverIsLast` | `TypeOK`, `DriverOutlivesHandles` |
| `TcpServerProofs!Types`, `OnlyOnce` | `TypeOK`, `IrpsOnce`, for any clients, requests and IRPs |
| `GuiClientProofs!AnswersMatch` | `Matched`, for any drivers, threads, IRPs and chunks |
| `GuiClientProofs!ShownOnceInOrder`, `NoneLost` | `CapturedOnceInOrder`, `NothingLost` |
| `GuiClientProofs!ShownAreHooked`, `GuiTypes` | `ShownIsHooked`, `GuiTypeOK` |
| `IrpDataProofs!SystemInputsAsSent`, `QueuedWholeOrEmpty` | `SystemInputAsSent`, `WholeOrEmpty`, for any number of requests of any length |
| `IrpDataProofs!ReadIsWhatWasQueued` | `RoundTrip`, likewise |

Each is an induction over the steps, with an invariant stronger than what it
states:

* **IrpQueue.** `Base` is `TypeOK`, `CountersAgree` and `LockDiscipline`.
  `CountersAgree` alone is not inductive: that `PopCount` may subtract one needs
  that the reader at `popped` is the holder of `mutex` and has taken an entry.
  `EventSound` follows from `Base`: an event is set with the count that was just
  incremented, and reset by the `Pop` that takes the last entry, and `mutex`
  keeps one from the other. `NothingDuplicated` needs `Kept`: the entries of the
  list are distinct, so that taking the first one takes it out of the range of
  the list, and a reader that is idle has nothing in hand.
* **IrpQueue, one reader.** `Single(R)` is the invariant of one reader. `Offsets` says what
  the bytes delivered up to each IRP are (sums over what was pushed), `InOrder`
  that delivered, taken and queued IRPs are, in this order, what was pushed,
  `Snapshot` that what the reader measured is what it has taken and the head of
  the queue, `Clean` that its copy has room for all of it. `InOrder` alone says
  nothing of the copy: it is `Snapshot` that keeps a check from failing and an
  IRP from being lost, and it holds only because the other threads push at the
  other end. From `Single` each step is shown to be a send, a delivery of a
  prefix, or a stutter of `IrpChannel`.
* **IrpPump.** `PumpStepIsQueueStep`: what the broker does is a step of the queue, a
  step that leaves it alone, or the reset of its event, and `ResetKeepsQueue` says
  that the last one breaks nothing, since a signal that is not there promises
  nothing. So the queue's invariants are those of the pump. `StoreInv` splits what
  was delivered into a part that is gone, what is stored and what the thread has
  in hand. That the gone part comes first needs `Hands`: nothing is stored before
  the connectors are up, and they do not go down.
* **HookedDrivers.** `Inv` adds to `TypeOK` and `HookedOnce` that the thread past
  the checks holds `mutex` (`MutualExclusion`), that what is listed was born and
  has a target (`Born`), and what the holder has in hand (`InHand`): an entry
  being added is not listed, nor is any other for its target, and there was
  room; one being removed is no longer listed. Without `InHand` the checks of
  `InsertDriver` say nothing about the list four steps later. The count is too
  high at times and never too low, which is what makes the limit hold.
  `DispatchSound` needs three more: where a device that is on a copy got it from
  (`Dispatched`), that what is listed is alive and is the copy of its device or
  flagged invalid (`Listed`), and the same for what is in hand (`Worked`).
  `Accounted` counts references: only an insertion has an argument, and a
  `HookedDriver` that is not born has no target. A release may come twice; then
  there is a `HookedDriver` that is not inserted, and its target is out of account.
* **DeviceSession** (in `DriverServiceProofs`). `Granted`: a process whose command is under way has a
  handle. `NoneDoubled`: the history records the second handles.
* **DriverService.** Every step is one of the session or a stutter of it:
  `EnterDriver` is a `NewContext`, because (`Closed`) nobody has the device
  open before `DriverEntry` lets it be opened. `NothingLeft` speaks of the
  moment when all have gone, and needs what leads to it. `CleanInv` says it of
  behaviours without a crash and without an unexplained failure: a driver that
  runs has a broker that holds the service and will stop it (`RunningWillStop`),
  a driver that stops has one that will delete the service, a service without a
  driver has one that will start or delete it (`Listed`), and the file is whole
  whenever nobody writes it, so that no start fails for its sake
  (`FileIsWritten`). Each alone is broken by the step that another describes.
* **GuiClient.** While no thread has met another on the socket and no answer was
  cut (`Calm`), one thread at most waits (`OneAtATime`), and what is on the way
  is its command, not yet read, or its answer, and not both; `Shape` says what
  the two sequences consist of and who has the head of the first answer.
  `Matched` says nothing of `sent`, and is not inductive without it.
  `Heads` says of that time which thread has the head of an answer it reads in
  pieces. `InOrder` puts the IRPs shown, those of each answer on the wire and those
  queued one after the other; it holds whatever is mixed up, since an answer that
  is not understood is thrown away as a whole and none comes back. `Conserved` adds
  that without trouble there is no gap between them. `Hooks` says that the window
  is behind the driver by the answer on the wire only, which `Shape`
  and `OneAtATime` make the answer to its own command; it is excused while the
  window is `outdated`, and back when a refresh has cleared the map, for which
  the window's thread must not wait for an answer of the ended broker (an answer
  still on the wire would put its hook back). `Left`: a command that is executed
  late belongs to a lost answer. `Balanced` counts answers
  against the threads that wait: a thread that stops waiting has taken an answer,
  left one cut, or was on a connection that is gone.
* **TcpServer.** `Locked`: who is inside a pop holds the lock of `ExecuteCommand`, and
  has seen a queue that is not empty, which no overlapping push changes.
  `Counted`: a push under way has not been counted. `Apart` is `IrpsOnce` by
  place: slots differ, answers differ, what was given is in no answer, and a slot
  whose IRP is already in an answer is the first one of the pop under way
  (`MovedOut`). A push that reads the queue before a pop and writes after it
  puts the size back too high or hides a slot; what `Apart` says is
  that it writes a slot with an IRP of its own, never an old one.
* **IrpData.** `UnderWay` says what was captured of the request under way, with
  `Queued` the same of the queue: the input is what it was before the call,
  whichever origin the post-call capture reads from. For `RoundTrip`, `Placed(at)`
  says that the IRPs copied so far lie one behind the other in the stream, each
  between `at[k - 1]` and `at[k]`, and `Follows(at)` that the parser stands at one
  of these places with the IRPs before it parsed. Its check that a buffer fits
  never skips one then, and the offset moves by what the header says because
  (`CapturedTyped`) that is the length of what was captured.
* **BrokerLifecycle.** `Moves` says what a step of any manager has in common, so
  that the proof goes over a few kinds of step and not over all of them: a
  manager opens the device only while the driver is loaded. The driver is
  unloaded by `Destroy` only, which the join keeps from coming while the thread of
  a manager with the device open has not ended.

Out of the prover's reach, and left to TLC: liveness (fairness and ENABLED), and
what a recursive operator computes. The modules with theorems have none: the loops
that lay out and parse a stream are steps, with an invariant, and of the fold in
`NothingLost` the proof needs one turn, since one answer at most is on the wire
when it has something to say.

## 5. What is not shown

* Only model-checked, since no prover at hand takes fairness: `ReadTerminates`,
  `SignalledIsRead`, `Recovers`, `StartupServes`, `StopEnds`, `ListenerStops`,
  `ClientsReaped`, `RequestsAnswered`, `CommandsEnd`, `QueueDrains`.
* A queue of more than half of 2^32 bytes, whose length wraps in
  `GetNextIrps` (`IrpManager.cpp:198`); a read of zero bytes, which has no MDL
  (`Entry.cpp:292`); an event shared while IRPs are queued, which wait for the
  next capture (`CapturedIrpManager.cpp:59`); the drift of the count of hooked
  drivers, met but not stated as a property; the wait of the listener on more
  than 64 handles, likewise.
* The request that uses the `HookedDriver` it found while `RemoveDriver` frees
  it (`Callbacks.cpp:70`) and the members destroyed in reverse order
  (`Entry.cpp:43`) are races the code has: no property of it could hold.
* A failing `WSAEnumNetworkEvents`; the races on the deque's map when it grows;
  that the answers a client gets are whole. `BrokerLifecycle` has no
  clients: that its threads see the termination event in spite of them is what
  `ListenerStops` shows for the one that waits longest.
* A target with several devices, and the data races on the callback and the
  connectors (`IrpManager.cpp:292`) beyond the order of their two writes.
* Of the GUI: its window, the files of IRPs, the races on the map of drivers (a
  refresh clears it while the window walks it) and several GUIs on one
  broker, which `TcpServer` has as clients.
* String helpers, names of codes, hexadecimal dumps, the enumeration of object
  directories, logging.
* `Broker/Headers/Native.hpp`, the icon font and the hexadecimal editor of the GUI
  are declarations of the system and third-party code, and more than half of
  the lines of the repository.

## 6. The plan

Order of work, the most important behaviour first. Done: `IrpQueue` with
`IrpChannel`, the delivery and their proofs, `IrpPump`, `HookedDrivers`,
`DeviceSession`, `BrokerLifecycle`, `TcpServer` with `JsonQueue`,
`DriverLifecycle` with `DriverService`, `GuiClient`, `IrpData`, each with its
proofs: every invariant and every refinement that a passing run checks is a
theorem. Left, in this order:

1. Proofs that go with liveness: that a step is possible where the runs show that
   one is taken (the reader of `IrpQueue` is never stuck between its locks).
2. The teardown of `delete Globals`: the order of queue and hooks against
   requests that are still in the interception routine, as a run that ends in a
   violation once a statement of the code is found to check it against.
3. Several devices per target in `HookedDrivers`.
4. The read-only commands of `ExecuteCommand`, and the string codecs against
   reference definitions.

The runs stay few: a new component gets one passing run, or takes the place of
one whose theorem has made it redundant.
