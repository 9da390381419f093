# A TLA+ model of HyComm

HyComm lets client processes use communication interfaces (serial ports, and an
echo interface for tests) that a daemon opens for them. A client asks the daemon
over iceoryx2 shared-memory services; the daemon opens the device, keeps it in a
table, and hands the client a duplicate of the file descriptor over a one-shot
UNIX socket. The client then reads and writes the descriptor itself, with
io_uring, and asks the daemon again to reconfigure or close the device.

This directory models the parts of it that are hard to test: the handshake between
concurrent clients and the daemon, with its failures, the life of an open
interface against the daemon's table and the terminal settings of its device, the
echo backend with its threads and descriptors, and the event loop that reads and
writes. TLC checks the models on small instances; TLAPS proves every safety
property they check, and the refinement, for every size.
Paths below are relative to the repository's root.

## 1. The system

| Part | State it keeps | Operations | Talks to |
|---|---|---|---|
| `Session` (`src/Detail/Session.cpp`) | iceoryx2 node, notifier, client; during a call a listener, a future and a pending response | `open_interface`, `control_interface`, `close_interface` | daemon: request, then notification; polls for the response. `FdTransfer` in a `std::async` task |
| `FdTransfer` (`src/Common/FdTransfer.cpp`) | listening socket and its path in /tmp | `create_listener`, `accept_and_receive`, `connect_and_send`, `cleanup` | client task and daemon meet at the path |
| `DaemonNode` (`src/Daemon/src/DaemonNode.cpp`) | server, listener | `run`: wait, then drain all requests | clients; calls `InterfaceManager` |
| `InterfaceManager` (`src/Daemon/src/InterfaceManager.cpp`) | backend per request type (fixed) | `handle_request` | the backends |
| `SerialBackend` (`src/Daemon/src/Backends/SerialBackend.cpp`) | `m_open_devices`: name to descriptor | `handle_open`, `handle_config`, `handle_close`, termios translation | kernel; `FdTransfer::connect_and_send` |
| `EchoBackend` (`src/Daemon/src/Backends/EchoBackend.cpp`) | `m_instances`: id to socket pair; a detached thread per instance | the same three handlers | kernel; the thread |
| `Manager`, `InterfaceHandle` (`include/HyComm/`) | session, ring; per handle the state `Closed ... Error` and the configuration | `create_interface`; `open`, `close`, `reconfigure` | `Session`, `GenericInterface` |
| `GenericInterface` (`include/HyComm/Detail/GenericInterface.hpp`) | descriptor, `m_state`, one read buffer, the user's callback | `open_internal`, `close_internal`, `send`, the read chain | `UringManager` |
| `UringManager` (`src/Detail/UringManager.cpp`) | ring, running flag, table of callbacks | `submit_read`, `submit_write`, `run`, `stop` | kernel; callbacks |

What makes each of them correct:

* the handshake: a request that was sent is served; an answer and a descriptor
  reach the call they belong to and no other; a call that was answered returns;
  an abandoned call leaves no listener behind and disturbs no later call;
* the daemon: one entry per name, exactly the descriptors of its entries are
  open, a refusal changes nothing;
* the two together: a device in the table reached its client, and every decision
  is one the table justifies at the moment it was taken;
* the life of an interface: while the client has a handle on a device, the table
  has the device, and the line is set as the handle's configuration says;
* the echo backend: every descriptor is closed once, by the one who owns it; what
  is sent comes back, once and in order; a closed instance gives its thread back;
* the I/O side: every submitted operation completes once, in its own callback,
  with an intact buffer, and an open interface keeps reading.

What is hard: every line of `open_interface` interleaves with the async task,
with the daemon's loop and with the other clients; the client can leave at the
notification, in the poll loop, by a signal or by dying, with its request still
in the daemon's queue; the descriptor, the answer and the end of the request
travel on three channels; the daemon can die anywhere, and while it starts its server
answers to senders before its listener exists; the destructors of the
future and of the pending response do part of the work. A handle learns of its
device only from its own calls: it does not see other clients' closes, a restart
of the daemon, or a request of its own that is served after it gave up. The echo
handler and its threads name descriptors by numbers that the kernel reuses. An
entry of the submission queue is visible to `run()` before its thread has filled it.
`PROJECT.json` lists
each hazard at its line with the property that watches it.

## 2. The modules

| Module | Models | Correspondence |
|---|---|---|
| `Ipc` | the iceoryx2 services, as the code uses them (external) | `requests`: queue of the request-response server; `event`: the daemon's listener, absent, quiet or notified; `pending`, `connected`, `inbox`: a client's `PendingResponse` |
| `FdTransfer` | `FdTransfer.cpp` | per socket path: listener `sock`, connection `conn`, descriptor queued on it `inFlight` |
| `Session` | `Session.cpp`, and the use of it by `Manager` and `InterfaceHandle` | `pc` is the place in the call, `task` the place of the `std::async` task, `got` the value of `receive()`, `result` what the call returns |
| `DaemonNode` | `DaemonNode.cpp`, `InterfaceManager.cpp`, `SerialBackend.cpp` | `dpc` is the place in the constructor (`Start` makes the server, `StartListening` the listener), in the loop and in `handle_open`; `registry` is `m_open_devices`; `daemonFds` the device descriptors open in the process |
| `HyComm` | the processes together; fairness, properties, refinement mapping | |
| `DeviceService` | abstract specification: what a client may rely on | a table, requests that are decided atomically and at most once, results |
| `SerialSettings` | termios translation of `SerialBackend.cpp`, `SerialConfig`, `SerialBuilder`, `SerialTraits` | operators: a line is its speed and the set of flags that are set; `Basic` names what `configure_serial_port` sees to besides the framing; `Configured` is `configure_serial_port`, `Reconfigured` what `handle_config` changes; `Effective` reads the flags back |
| `InterfaceHandle` | `InterfaceHandle.hpp`, `Manager::create_interface`, over `DeviceService` and `SerialSettings` | `handle` is the handle (`state`, `config`) and the interface under it (`fd`, `reading`); `calling` the request a call waits for; `line` the settings of each device |
| `MCInterfaceHandle` | the instance for TLC: configurations, lines as found, symmetry | |
| `HandleProofs`, `LineProofs` | theorems about handles and the daemon's table, and about the terminal settings | |
| `EchoBackend` | `EchoBackend.cpp` | `fds` is the daemon's descriptor table, `instances` is `m_instances`, `handler` the place in `handle_open`, `thread` the place in the echo thread, `stream` what is queued on a socket |
| `MCEchoBackend` | the instances for TLC | |
| `EchoProofs` | theorems of the echo backend | |
| `MCHyComm` | instances for TLC: sets of faults, symmetry | |
| `HyCommProofs`, `HandshakeProofs` | theorems about the daemon's loop and table, and about the handshake | |
| `ServiceProofs` | that `HyComm` implements `DeviceService` | |
| `UringManager` | `UringManager.cpp`, with liburing and the kernel (external) | `sqes` are the slots of the submission queue, `sq` and `free` the slots in it and out of it, `cell` the slot a thread was given; `inKernel`, `cq`: where an operation is afterwards; `active` is `m_active_requests`; `step` is a thread's place in `submit_*`, `lpc` the place of `run()` |
| `GenericInterface` | `GenericInterface.hpp` on a `UringManager`; the device (external) | `ifState` is `m_state`, `buffer` is `m_read_buffer`, `delivered` what the user's callback was given |
| `MCGenericInterface` | the instance for TLC | |
| `RingProofs`, `ReadProofs` | theorems of the event loop, and of the interfaces that read through it | |

One action is one point at which another process can see or cause a difference:
a system call, an iceoryx2 operation, or the return of a call with all its
destructors. `handle_open` is split at `connect` and `sendmsg`, because the
client can leave between them; the lookup, `open` and `configure` before them are
one action, because only this thread touches the table and the device.
`m_device_mutex` is not modelled: one thread runs all handlers.

The constructor of `DaemonNode` makes the server, then the listener, and `run()`
waits on the listener before it has looked at the server. The services live in
shared memory, so a client may send and notify between the two: the request is
queued, the notification finds no listener, which is no error. `unheard` is a
history variable with the clients in a call to which this has happened. It is
what `NoLostWakeup` and `CallsAreAnswered` have to except, and the run
`HyCommEarlyRequest` shows that they have to.

Returning from `open_interface` runs destructors in reverse order: first the
pending response (the server's answer then has no receiver), last the future. The
future of an asynchronous task blocks until the task ends (`pc = "unwind"`); a
deferred task is dropped at once with its listener. `Fail` and `Finish` say so.

A descriptor is named by its interface and by the request it was created for, so that a descriptor which reaches the wrong call can be told
from the right one. Error codes keep their names; the codes of a failed `accept`
and `recvmsg` are one, `InvalidFdReceived`. The result of `receive().expect("")`
and the other `expect` calls either succeed or end the process (`ClientExit`,
`Crash`).

`Faults` selects what the environment may do: a failed `create_listener`, a
failed notification, a signal in the poll loop, a failed `accept`, exit of a
client; in the daemon failures of `open`, of the configuration, of `connect`, of
`sendmsg`, and its death. One death needs no fault: `sendmsg` on a connection
whose other end is gone raises SIGPIPE (`BrokenPipe`).

`InterfaceHandle` is one level up. A call of the session is not repeated step by
step there: it issues a request to `DeviceService`, which decides it at some later
moment, and returns with the decision, or gives up; that the processes of `HyComm`
do no more than that is what `ImplementsService` says. A client that gives up or
exits drops the answer that was on its way (`Forget`); its request may be served
afterwards. A refused open may have set the line: `open_serial_port` and
`configure_serial_port` come before the RTS and DTR lines and before the transfer.
The module needs to know where the code itself breaks the agreement of table and
handle. `disturbed` collects the names on which one of these happened: a call was
given up, a client left without closing, the daemon was restarted, a closed handle
was opened again (`InterfaceHandle::open` asks nothing of the daemon), a handle was
reconfigured with the path of another device. Each is needed: without any one of
them TLC finds a counterexample to `TableAgreesWithHandles`. On all other names the
properties hold.

`EchoBackend` keeps the descriptor numbers, since handler and thread share them
without synchronisation. A `read()` looks its number up when it is entered and
keeps the socket it found: closing the number does not end it. The lowest free
number is given to the next socket. A frame is a number and whether it was
upper-cased; frames stand for the bytes of a stream, and one `read` may take
several. The daemon can also die of SIGPIPE in the transfer of `handle_open`, as in
`HyComm` (`TransferBreaks`). Requests the lookup refuses change nothing and are not steps.
`failed` collects the pairs whose transfer failed: after the double close of
that path nothing is promised of the numbers, and the properties of the passing
run speak of executions before it.

The I/O side is a system of its own: it shares only the descriptor with the
handshake, and the daemon takes no part in it. `submit_read` and `submit_write`
are five steps of the calling thread, because `run()` and other threads come
between any two of them: `io_uring_get_sqe` reads the tail and advances it, which
puts the slot into the queue as it is; the operation is prepared; the callback is
registered under the mutex; the id is set. Any number of threads may be in these
steps together. Two accidents are possible, and `early` and `corrupt` remember
them. `early`: `run()` has handed over a slot that its thread had not finished.
The kernel then does what the slot held before, or does the right operation under
an old id, and the model goes on with that; the properties that do not survive it
say `~early`. `corrupt`: a second thread has read the tail before the first advanced
it, a data race on a plain integer, and the model stops there. One application
thread beside `run()` is enough for both.
`io_uring_submit_and_wait` takes the whole queue in one step:
an entry added between its reading of the tail and the kernel's is as if it was
added after. A completion is handled in `next`, its callback runs in `call` and
`repost`, where the user's code may open, close, send and stop, whether it is the
callback of a read or of a write. An error result
of a read is converted to a huge length, the deserialisation throws, and `run()`
is left (`terminated`).

## 3. What is checked

Bounds: `MaxCalls` (calls of one client process) and `MaxStarts` (starts of the
daemon) only end a behaviour; no guard of the code is replaced by them. Two
clients with two calls each are enough for the cases at stake: an abandoned call
followed by another call of the same client while its first request is still
queued; a second client opening the same device, closing a device it does not
own, or being served in the same drain; a restart between two calls. Behaviours
end when calls and faults are used up, so the runs do not check for deadlock;
that a call does not get stuck is what the liveness properties say. Clients are
symmetric in the safety runs. `HyCommLive` and `HyCommRefines` contain the
start of the daemon among running clients, `HyCommRefines` a second one.

| Run | Instance | Shows |
|---|---|---|
| `HyCommFaults` | 2 clients, 1 name, 2 calls, all client faults, failed `create_listener`, `open` and `sendmsg`, both launch policies | `TypeOK`; the daemon does not sleep on a queued request, unless its notification fell into the start (`NoLostWakeup`); a task produces only its own call's descriptor (`DescriptorIsForThisCall`); after a successful answer `get()` does not wait for the daemon (`GetDoesNotBlock`); the daemon's descriptors are accounted for (`DaemonHoldsOnlyItsDevices`); no listener outlives its call (`ListenerLivesWithItsTask`) |
| `HyCommLive` | 2 clients, 1 name, failed notification, configuration, `connect` and `sendmsg`; fair | a device in the table reached its client or the call is still going on (`RegisteredDeviceReachedItsClient`); calls leave the poll loop, with the same exception (`CallsAreAnswered`); an open call the daemon has connected to returns (`TransferredOpenReturns`) |
| `HyCommRefines` | 2 clients, 1 name, 2 starts of the daemon, crash, failed notification and `sendmsg` | the processes implement `DeviceService` (`ImplementsService`); `NoLostWakeup` and `DaemonHoldsOnlyItsDevices` over crashes and restarts |
| `HandleLife` | 2 clients, 2 names, 3 calls each, 1 fault; 2 configurations per name that differ in every setting, lines found with every flag set | table, open handles and pending opens agree on undisturbed names (`TableAgreesWithHandles`); there the line is framed as the handle says, whatever was set before, and keeps the basic settings of the open (`LineFollowsHandle`); reads go on until a close that succeeds (`ReadsUntilClosed`); `Error` is for ever (`ErrorIsForEver`) |
| `EchoLife` | 2 ids, 2 socket pairs, 4 descriptors, 3 frames per pair, reads and sockets of 2; fair | descriptors have one owner (`DescriptorsHaveOwners`); a registered instance is served, also when its client is gone (`RegisteredIsServed`); every frame comes back once and in order (`EchoedInOrder`); a closed instance whose client is gone ends (`ClosedInstanceEnds`) |
| `InterfaceIo` | 1 application thread, the thread of `run()`, 1 interface opened twice, queue of 2, 2 frames, 3 submissions or reads; fair | a callback runs once (`CallbackRunsOnce`), a completion finds its own unless `early` (`CompletionFindsItsCallback`) and runs it (`CompletionRunsCallback`); an open interface keeps a read posted unless a full queue refused it (`OpenInterfaceKeepsReading`), one per open (`OneReadPerOpen`); frames are delivered in order while it was opened once and not `early` (`FramesInOrder`); a completion after `stop()` ends `run()` (`StopEndsRun`) |

Two opens of one interface reach the second read chain that `close_internal` and
`open_internal` leave behind; a queue of two fills up; three submissions allow a
read and a write in one batch with a third operation posted while it is handled,
and a slot that is used again. Larger bounds were left to the proofs, which hold for all.
Three calls are an open, a reconfiguration and a close, or an open, a close and
another open; the second client's interleave with them. Two socket pairs and four
numbers let the second open take the numbers of the first; three frames against a
socket of two block a writer, a read of two takes more than one frame.
The other bounds, `MaxFaults`, `MaxFrames`, `MaxWork` and `MaxOpens`, end a behaviour.

`RegisteredDeviceReachedItsClient` is checked without failed `accept` or
`recvmsg`: those do lose a descriptor that the daemon has registered, since it
registers on the success of its own `sendmsg`.

Fairness. `ClientFairness`: the client thread in a call and its async thread run
on (weak fairness of each); nothing obliges a client to make a call or to fail.
`DaemonFairness`: the daemon is started and its one thread runs on. Both are what
an operating system's scheduler gives to a runnable thread; a blocked `accept`,
`recvmsg` or `get` is a disabled action. `HyCommLive` leaves out the faults that
can end the daemon through SIGPIPE (a client that leaves its connection early):
without a daemon nothing is answered. `IoFairness`: a thread in `submit_*` and the
thread of `run()` go on as long as the ring is not `corrupt`, and the kernel
finishes writes; a device may stay silent
for ever, so reads have no fairness, and nobody is obliged to call `run()`. In
`EchoBackend` each echo thread runs on, and `handle_open` returns; clients may stop
reading for ever, so a thread may block in `write` for ever, except that
`ClosedInstanceEnds` speaks of clients that are gone.

### Where the code does something else than it says

Each of these runs expects a violation; the counterexample is the evidence.

* `HyCommRefusedOpen` - `OpenReturnsAfterResponse`. Without any fault: a second
  client opens an open device, the daemon answers `AlreadyOpen` and connects to
  nobody, and `open_interface` waits for ever in `uds_fut.get()`
  (`src/Detail/Session.cpp:76-77`).
* `HyCommDroppedResponse` - `ReceivedResponseIsReturned`. The answer is received,
  the daemon ends its request, `is_connected()` is false, the answer is thrown away
  (`src/Detail/Session.cpp:67-78`).
* `HyCommEarlyRequest` - `NotifiedDaemonIsAwake`. A client sends and notifies after
  the daemon has created its server and before its listener: `run()` waits with the
  request in the queue until somebody notifies it again
  (`src/Daemon/src/DaemonNode.cpp:11-26`, `34`, against `src/Detail/Session.cpp:56`).
* `EchoDoubleClose` - `ServerEndIsClosedByItsThread`. After a failed transfer the
  handler closes the server end, which its thread also closes; in between the number
  may be that of another, registered instance (`src/Daemon/src/Backends/EchoBackend.cpp:89`,
  `95-96`, against the comments at `64` and `139`).
* `InterfaceEarlyEntry` - `CompletionHasCallback`. A thread is between
  `io_uring_get_sqe` and `io_uring_sqe_set_data` when `run()` hands over the queue: the
  completion carries an id nobody registered, `run()` prints its warning, and the
  callback registered meanwhile is never called (`src/Detail/UringManager.cpp:35`,
  `85`, `116`, `160`).
* `InterfaceLateSend` - `WriteCallbackIsCalled`. The header says that
  `submit_write` submits; only `run()` does, in the call that then blocks. A write
  of another thread stays in the queue until a completion ends the wait, and on a
  quiet device, or with no operation in the kernel at all, none comes
  (`include/HyComm/Detail/UringManager.hpp:41-46`, `src/Detail/UringManager.cpp:85`).

Other disagreements met while modelling, which no run of their own shows. The
models do what the code does, and the properties of the passing runs claim nothing
of these points:

* An echo instance never upper-cases. The thread copies `uppercase_mode` before
  anything can set it, and `EchoTraits::make_open_request` drops it;
  `tests/test_echo_interface.cpp:124-134` expects upper case after `reconfigure`.
  `EchoedInOrder` is about which frames come back, not about their case.
* `reconfigure` with another baud rate succeeds and changes the handle's
  configuration, not the line: `make_config_request` does not carry the rate
  (`include/HyComm/Protocols/SerialTraits.hpp:33-42`; the example does this,
  `examples/DaemonClient/main.cpp:37-43`). `LineFollowsHandle` leaves the speed out.
* `configure_serial_port` says that it disables special characters
  (`SerialBackend.cpp:182`) and clears `OPOST`; `ICRNL`, `INLCR` or `ISTRIP` stay as
  they were found. `Basic` is what the code sees to, and does not name them.
* The example closes and reopens a handle (`main.cpp:45-47`); the reopened handle is
  `Open`, the daemon does not have the device, and the next `close` fails for good.
  Reopening is a cause of `disturbed`.
* The "Timeout" branch of a configure or close call (`Session.cpp:142`, `156-159`)
  cannot be reached by the passing of time: a wait of zero duration returns a value.
  A daemon that is alive and does not answer is polled for ever.
* `sendmsg` without `MSG_NOSIGNAL` (`FdTransfer.cpp:236`) kills the daemon where lines
  241-247 mean to return `MessageSendFailed` (`BrokenPipe`, `TransferBreaks`).
* `stop()` is said to end a blocked `run()` from another thread
  (`UringManager.hpp:50`, `55`) and only clears a flag; the cause is that of
  `InterfaceLateSend`. `StopEndsRun` is the half that holds.
* `GenericInterface::on_receive` stores a callback that nothing calls:
  `dispatch_received_frame` uses the derived class's own `m_callback`.

## 4. What is proved

Every invariant and action property of the passing runs, and the refinement, as
theorems of `Spec`:

| Theorem | Module | Property |
|---|---|---|
| `TypeCorrect` | `HyCommProofs` | `TypeOK` |
| `WakeupsAreNotLost` | `HyCommProofs` | `NoLostWakeup` |
| `DaemonDescriptorsAreAccounted` | `HyCommProofs` | `DaemonHoldsOnlyItsDevices` |
| `SuccessDoesNotBlock` | `HandshakeProofs` | `GetDoesNotBlock` |
| `DescriptorsReachTheirCall` | `HandshakeProofs` | `DescriptorIsForThisCall` |
| `ListenersLiveWithTheirTasks` | `HandshakeProofs` | `ListenerLivesWithItsTask` |
| `RegisteredDevicesReachTheirClients` | `HandshakeProofs` | `RegisteredDeviceReachedItsClient` |
| `ProcessesImplementService` | `ServiceProofs` | `ImplementsService` |
| `HandleTypeCorrect` | `HandleProofs` | `TypeOK` of `InterfaceHandle` |
| `ReadsStopOnlyByClose` | `HandleProofs` | `ReadsUntilClosed` |
| `ErrorsAreForEver` | `HandleProofs` | `ErrorIsForEver` |
| `TableAndHandlesAgree` | `HandleProofs` | `TableAgreesWithHandles` |
| `FramingTakesEffect`, `OpenTakesEffect` | `LineProofs` | what the termios translation does to every line |
| `LinesFollowTheirHandles` | `LineProofs` | `LineFollowsHandle` |
| `EchoTypeCorrect` | `EchoProofs` | `TypeOK` of `EchoBackend` |
| `DescriptorsAreOwned` | `EchoProofs` | `DescriptorsHaveOwners` |
| `InstancesAreServed` | `EchoProofs` | `RegisteredIsServed` |
| `FramesComeBackInOrder` | `EchoProofs` | `EchoedInOrder` |
| `EndsAreTakenByFailedTransfersOnly` | `EchoProofs` | an action property, see below |
| `RingTypeCorrect` | `RingProofs` | `TypeOK` of `GenericInterface` |
| `CallbacksRunOnce` | `RingProofs` | `CallbackRunsOnce` |
| `CompletionsFindTheirCallback` | `RingProofs` | `CompletionFindsItsCallback` |
| `OpenInterfacesKeepReading` | `ReadProofs` | `OpenInterfaceKeepsReading` |
| `ReadsAreOpens` | `ReadProofs` | `OneReadPerOpen` |
| `FramesAreInOrder` | `ReadProofs` | `FramesInOrder` |

### Assumptions

TLC evaluates each of them on the runs.

* `ConstantsAssumption`, `LaunchAssumption` (`HyComm`): any sets of clients, names
  and faults, any number of calls and starts; the launch policy is `async` or
  `deferred`.
* `HandleAssumption` (`InterfaceHandle`): any clients, names and configurations. The
  path of a configuration is a name, its framing has values of the enums of
  `SerialRequest.hpp`, and a line as found has a speed and flags.
* `EchoAssumption` (`EchoBackend`): any ids, and natural numbers for the numbers,
  frames and sizes.
* `RingAssumption`, `OpensAssumption`: any threads, interfaces and queue depth.
* `RegisteredDevicesReachTheirClients` alone has hypotheses of its own: the fault
  `accept` is absent and every task is started at once. They are the conditions of
  the run `HyCommLive`, and they are needed: the daemon registers the
  device when its own `sendmsg` succeeds, and a task that then fails in `accept` or
  `recvmsg`, or a deferred one that is dropped with its future, loses the
  descriptor. All other faults, the exit of clients and the death of the daemon
  among them, are allowed.

### The arguments

`TypeOK` of `HyComm` is not inductive: the request of a call is dereferenced
wherever a client is in a call, so `TypeInv` adds that the `call` field is a
request exactly then (`CallShape`). `NoLostWakeup` needs that a client which has
sent but not yet notified will notify (it is in `notify`): the invariant is that
a queued request of a polling client implies a pending notification, a daemon
that is draining, or a notification lost in the start. The last needs its own part
(`EarlyInv`): while the daemon is between its server and its listener, every
polling client whose request is queued is in `unheard`. The daemon's descriptors need the shape of `active` in each
place of the loop (`DeviceInv`).

The first two theorems of `HandshakeProofs` rest on one invariant, `SafeHandshake`. A
call is told from another by its number, and the path of its listener is a
function of client and number (`SocketPath`); `RequestsInv` says every request in
the queue or being served has a number its client has already used, and that no
two of them are the same request; `PathsInv` that the sockets of numbers not yet
used are untouched; `AnswersInv` that an answer `Success` in an inbox or in the
client's hand belongs to the current call and that its connection is complete;
`TransferInv` that whatever is queued on a connection, or produced by the task,
is of the request whose path that is.

Listeners need one thing more (`SafeListener`): every step of a client starts,
keeps or ends its task, and each does the same to the listener at its path. For
`RegisteredDevicesReachTheirClients` the invariant (`SafeHandover`) follows the
descriptor over the connection: an open connection has a task at its other end
(`ConnectionsInv`), a task that has its descriptor has seen the connection closed
by the daemon (`TasksInv`), and so a registered descriptor is held by the client or
queued for a task that is about to take it (`RegisteredInv`).

`ServiceProofs` shows that every step of the processes is one of `DeviceService`
or none under the mapping of `HyComm`. The mapping reads the decision of a request
from wherever it is: the reply about to be sent, the inbox, the client's hand.
`DecisionsInv` says that it is in one of these places only, and that a
request with a decision is not waiting any more; without it a decision could be
handed over twice. `SuccessInv` says that the request of a call to which a
descriptor is under way was decided, with `Success` wherever the decision is: an
open that returns with the descriptor therefore returns what was decided.
`OpensInv` ties tasks and connections to open requests. `Spent` names the
calls that can send no more, so the service, which issues one request per number,
decides a call once (`CallsSpend`). A call that gives up maps
to a step that drops the verdict, a crash to the loss of the table.

`HandleProofs`: `ReadsUntilClosed` is not inductive, since a failed close must be
known to have started from a reading handle. `CallsMatchStates` says which state a
handle keeps during each kind of call (`Closing` during a close); a handle in
`Error` then has no call, so only `open()` could change it, and it refuses because
the handle reads.

`TableAndHandlesAgree` adds to that invariant what happens to a request. A call has one
request of its own, which is decided at most once (`RequestsInv`); while the
request is undecided and nothing has disturbed its name, the call still waits for
it (`CallsInv`). So a close the daemon decides is the one of the handle whose
device the table has, which nobody else can have closed (`DevicesInv`: a device
names the client it was opened for), and it succeeds; hence a handle keeps its
device in the table until its own close is decided (`HeldInv`). In the other
direction a device enters the table for an open call that still waits
(`OpenedInv`, `TakenInv`), and the handle takes over when that call returns.

`LineProofs` first proves the translation itself: `FramingTakesEffect` says that
what `handle_config` sets is what can be read back, for every request and whatever
flags the line had before, so no earlier parity or stop bit survives;
`OpenTakesEffect` says the same of an open, with the basic settings and the speed of the request. A step of
the service changes the line of one name only. The invariant (`LinesInv`) has to
speak of the moments in between: after a configuration was decided and before its
answer, the line is ahead of the handle and is set as the request says; after an
open was decided, the line is ready for a handle that does not exist yet.
`TableInv` gives the rest: a refused open of a device that is already open is
refused before the line is touched.

`EchoProofs` has three layers. `TypeInv` holds always. `PairsInv` holds while no
transfer has failed: it reads the descriptor table in both directions
(`OwnersInv`) and says that every instance, and the open in progress, has a pair of
its own with a thread that serves it (`InstancesInv`); that a blocked `read` waits
on its own pair's socket is part of it (`ReadsInv`), because the number it was
called with may have been given out again. `FramesInv` counts a pair's
frames in their three places: back to the client, in the thread's buffer, and on
the way there. Together they are the numbers sent and not yet received, in order. It
holds while the daemon lives, since SIGPIPE ends a thread with its buffer.
`EndsAreTakenByFailedTransfersOnly` completes the run `EchoDoubleClose`: without a
failed transfer no step of a living daemon takes the server end from a registered
instance, so the double close of `handle_open` is the only cause.

`RingProofs` follows a slot, then a request id. Each slot is in the queue or free,
once (`SlotInv`); until `early`, a slot that is being filled is in the queue and has
one thread (`FillInv`), so each thread sets its id in the slot it was given.
`CompletionFindsItsCallback` speaks of the completions only and is not inductive: a
completion's entry came from the kernel, before that from a finished slot, and
before that from a thread that had registered it. `PlacesInv` says of all four
places that what is in them is registered, `OnceInv` and `ApartInv` that an id is
in one of them, once, and `IdsInv` that ids are given out in order and that no
registered id was run. Removing the callback of the completion at hand then
removes no other's. `IdsInv` and `SlotInv` outlive `early`, the others do not: an
entry taken half written can bring an old id back.

`ReadProofs` counts. `ReadChains` adds the requests, the threads in a submission
and the callback at hand; every step of the ring moves a read from one of these to
another, and only `open_internal` adds one (`ChainsInv`). The three numbers are
cardinalities, so their sets must be known to be finite (`FiniteInv`).
`FramesInOrder` follows from at most one chain: between the kernel's
writing of `m_read_buffer` and the callback's reading there is one frame
(`Waiting`), and the buffer holds the last one taken (`DeliveryInv`), again before `early`.

### Only model-checked

`CallsAreAnswered`, `TransferredOpenReturns`, `ClosedInstanceEnds`,
`CompletionRunsCallback` and `StopEndsRun`: they are liveness properties, which rest
on fairness, hence on `ENABLED`, and the prover handles neither. The findings are
counterexamples of TLC. No module uses `RECURSIVE`, and no theorem needs
induction over data: sequences are compared by length and by place.

## 5. What is not modelled, and the plan

| Part | Status |
|---|---|
| Socket path collisions | the clock in a path is abstracted to the call's number: two listeners of one path need two threads in one session's process or a clock that is set back |
| `VMIN`, `VTIME`, modem lines, partial success of `tcsetattr` | no state the program reads back |
| Two threads on one handle or one session | the classes are not synchronised and say nothing about it |
| Serialisation | views of a buffer. The requests hold `std::string` members and are copied into shared memory as they are; that they arrive intact is assumed |
| liburing below the calls | the depth is taken as given (liburing rounds it up to a power of two); `io_uring_prep_*` leaves `user_data` alone, as liburing does since 2.2 |
| `stop()` before `run()` | it changes nothing that lasts; `rts_dtr_on` of a reconfiguration is dropped with the rate |
| Hazards without a property | each has its reason in `PROJECT.json`: the code does it, and nothing in the repository says otherwise in a form that a passing property could state |
| Shared-memory payloads, loans, buffer limits of iceoryx2 | external |

Proofs left: that the two levels fit, in one theorem. `ServiceProofs` shows that the
processes implement `DeviceService`, and `InterfaceHandle` is built from its actions;
that the steps of `InterfaceHandle` are steps of the service is read off its
definitions, not stated.

## 6. Running it

    tlc -workers 2 -config HyCommFaults.cfg MCHyComm
    tlc -workers 2 -config InterfaceIo.cfg MCGenericInterface
    tlc -workers 2 -config HandleLife.cfg MCInterfaceHandle
    tlc -workers 2 -config EchoLife.cfg MCEchoBackend
    tlapm HyCommProofs.tla       # then HandshakeProofs, ServiceProofs,
    tlapm RingProofs.tla         # then ReadProofs,
    tlapm HandleProofs.tla       # then LineProofs
    tlapm EchoProofs.tla

The larger runs take one to three minutes. Operators commented "Mutant" are
plausible bugs; no specification uses them. `PROJECT.json` pairs each with the
property that detects it.
