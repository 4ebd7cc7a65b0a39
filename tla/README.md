# TLA+ models of rdk-hdmicec

The repository is the HDMI-CEC stack of the RDK: an operating-system layer
(`osal`), the CEC library (`ccec`), a HAL adapter over the IARM bus
(`ccec/drivers/iarmbus`), the CEC daemon (`daemon`), a device manager
(`devmgr`) and a host library (`host`). This directory holds TLA+ models of these
parts, the TLC configurations that check them, and theorems about all of them
with proofs for TLAPS. All paths below are relative to the root of the repository.

## 1. Inventory

| Part | State | Operations | Uses | What makes it correct |
|---|---|---|---|---|
| Event queue, `osal/include/osal/EventQueue.hpp`, `osal/src/ConditionVariable.cpp` | deque, condition flag, two mutexes | `offer`, `poll`, `size` | pthreads | behaves as a bounded FIFO; no consumer sleeps beside an element |
| Threads, `osal/src/Thread.cpp`, `Mutex.cpp`, `Stoppable.hpp` | Stoppable state, mutex owner | `start`, `lock`, `runStarted`, `stopStarted`, `stopCompleted` | pthreads | one thread per Runnable; stop means stopped |
| Driver, `ccec/src/DriverImpl.cpp` | `status`, `rQueue`, logical addresses | `open`, `close`, `read`, `write`, `poll`, address calls, HAL callbacks | HAL, event queue | frames reach the reader in order; the sentinel wakes the reader and is never a frame; an address that is listed was accepted |
| Bus, `ccec/src/Bus.cpp` | `started`, listeners, `wQueue`, the reader and writer threads | `start`, `stop`, `send`, `sendAsync`, `poll`, `ping`, listeners | driver, threads, event queue | `stop` ends; frames in order; a send has the bus to itself |
| Library, `ccec/src/LibCCEC.cpp` | `initialized` | `init`, `term`, address calls | driver, bus | library, bus and driver are up or down together |
| Connection, `ccec/src/Connection.cpp` | source, filter, listeners | `open`, `close`, listeners, the sends, `matchSource` | bus, driver | a listener is called for its frames while registered, and never after; the initiator on the wire is the right one |
| Frames and messages, `CECFrame.cpp`, `Header.hpp`, `Operands.hpp`, `Messages.hpp`, `MessageDecoder.cpp` | bytes | append, serialize, encode, decode | - | decode inverts encode; a malformed frame is dropped; nothing indexes past an operand or a table |
| IARM HAL adapter, `ccec/drivers/iarmbus/hdmi_cec_driver.c` | `driverCtx` | the HAL calls over IARM | daemon | callbacks never see a half-made or freed context; codes survive the way |
| Daemon, `daemon/src/CecIARMBusMgr.cpp` | `m_connection`, `started`, `enabled` | enable, send, address calls, frame listener | library, connection, IARM | no use of a deleted connection; the daemon is up when it was told to be |
| Device manager, `devmgr/src/DeviceManager.cpp` | `conn_`, `phy`, `powerState`, `isConnected` | message handlers, power callback | library, connection, host plugin | no callback before the connection; what it says follows the state of the box |
| Plugin loader, `devmgr/src/Host.cpp` | the plugin, a pointer for each function | load, unload, the forwarding functions | `dlopen` | no call into a library that is gone |
| Host library, `host/src/RDK.cpp` | status table, callbacks, power state, OSD name | `Init`, `SetCallback`, status calls, event handlers | IARM | the cache follows the last report; those who listen know it too |

How they interact: an application calls `LibCCEC::init`, which opens the driver
and starts the bus. The HAL delivers frames by callback on its own thread into
`rQueue`; the reader thread takes them with `DriverImpl::read` and calls the
listeners of the bus under `rMutex`. `Bus::sendAsync` queues frames into
`wQueue` for the writer thread; `Bus::send` transmits on the caller's thread
with both bus mutexes held, retries included. `LibCCEC::term` stops the bus,
which closes the driver (its sentinel wakes the reader) and waits for both
threads, and closes the driver again. In a process that does not own the hardware
the HAL is the IARM adapter: each of its calls is a message to the daemon, which
has the same library with the real HAL below it. The device manager is such a
process, with a host library that is loaded as a plugin.

What is hard: the condition flag and the deque are guarded by different mutexes;
`Bus::stop` waits for a thread that needs a mutex `stop` holds; `close` leaves a
sentinel that nobody may take; `status` is read without its mutex in the HAL's
callback; a thread says itself that it runs, some time after it was started;
every call of the HAL can fail half-way through `init` or `term`; listeners change
the lists that are being walked; the daemon's calls, its events and the adapter's
receive handler take no common lock; remote answers and events overtake each
other; and frames come from devices that may send anything.
`PROJECT.json` lists each of these as a hazard, at its line.

## 2. Plan

1. **Event queue** (done): `BoundedFifo`, the abstract queue; `EventQueue`,
   refined to it; proofs of the invariants and of the refinement.
2. **Core library** (done): `Osal`, `DriverImpl`, `Bus`, `LibCCEC`, each
   extending the one before, `LibCCEC` being the whole program; `CecLibrary`, the
   abstract library it implements; proofs of typing, of the agreement of library,
   bus and driver, of the isolation of a send, and of the refinement.
3. **Connection** (done): `Connection`, and the sends in `Transmit`.
4. **Transmission** (done): `Transmit`, the classification of the HAL's answers,
   the list of addresses, `matchSource`.
5. **Daemon and IARM adapter** (done): `IarmHal` and `CecDaemon`, composed with
   `Transmit` and `CecLibrary`.
6. **Device manager, loader and host library** (done): `RdkHost`, `DeviceManager`
   on top of it, `HostLoader`.
7. **Frames and messages** (done): `Operands`, `Messages`, `Codec`.
8. **Proofs** (done): every safety property that a passing run checks is a theorem,
   for every value of the constants; so are the two refinements. What is left to TLC
   are the three liveness properties (section 5).

## 3. Modules

| Module | Models |
|---|---|
| `Queues` | what an offer does to a queue's contents |
| `BoundedFifo` | the event queue as its callers see it |
| `EventQueue` | `offer` and `poll` with their two mutexes, step by step |
| `EventQueueProofs` | theorems about `EventQueue` |
| `Osal` | threads, mutex owners, AutoLock, Stoppable |
| `DriverImpl` | the driver: `open`, `close`, the receive callback, `read`, the status test of `write` |
| `Bus` | the reader and writer threads, `start`, `stop`, the sends |
| `LibCCEC` | `init`, `term`, the composition of all the threads, and the properties |
| `CecLibrary` | the library as its users see it: down, up, driver lost |
| `LibCCECProofs` | theorems about `LibCCEC`: typing, life cycle, sends, refinement |
| `LibOrderProofs` | theorems about `LibCCEC`: the order of the frames |
| `Connection` | open, close and listeners of connections, and the dispatch of a frame through bus and connection |
| `ConnectionProofs` | theorems about `Connection` |
| `Transmit` | what a frame and its outcome become in `Connection`, `LibCCEC` and `DriverImpl`; the list of addresses |
| `IarmHal` | clients of the daemon: the HAL adapter over the IARM bus |
| `CecDaemon` | the daemon, composed with its clients and its library |
| `CecDaemonProofs` | theorems about `CecDaemon` with `IarmHal` |
| `Operands`, `Messages`, `Codec` | operand classes; messages; encoder, frame and decoder |
| `CodecProofs` | theorems about `Codec`, and the lemmas about sequences they rest on |
| `RdkHost` | the host library: power state, device status, OSD name |
| `DeviceManager` | `main()`, the power callback and `DevMgrProcessor`, on `RdkHost` |
| `DeviceManagerProofs` | theorems about `RdkHost` and `DeviceManager` |
| `HostLoader` | the plugin loader |
| `HostLoaderProofs` | theorems about `HostLoader` |
| `MC...` | instances for TLC |

**EventQueue.** `events` is the deque, `condSet` the flag of the `Condition`,
`mutex` the owner of the queue's mutex, `pc` the place of each thread, `taken` the
result of each consumer's last `poll`. A critical section of `offer` is three
steps (push, `cond.set()`, `cond.notifyAll()` and unlock) because `poll` waits on
the condition variable's own mutex and sees the flag between them; a `poll` is a
wait (at once, or asleep until a broadcast or a spurious wake-up), then the pop
under the mutex, then the reset of the flag. `ConditionVariable`'s operations
hold its mutex throughout and take nothing else, so each is atomic.

**Osal to LibCCEC.** One specification with a `pc` for each application thread,
each possible reader and writer thread, and the HAL's thread. A step of the model
is a stretch of code between two points where another thread can see or change
what it uses: a lock that is kept over further steps, an unlocked read or write of
shared state, a queue operation. `owner` says who holds each of the four mutexes
(`lib`, `read`, `write`, `drv`) over such points; a section that starts and ends
in one step only tests that the mutex is free. The queues are the abstract FIFO
that `EventQueue` was shown to implement: a `poll` takes the front, blocks on an
empty queue, or, woken for nothing, returns NULL.

* `DriverImpl`: `close()` is `CloseBegin` (status and sentinel) and `CloseEnd` or
  `CloseFails` (the answer of `HdmiCecClose`), with the mutex held between them;
  the receive callback is `ReceiveCheck` (`getIncomingQueue`, unlocked) and
  `ReceiveOffer`; `read()` is its status test, the poll, and the branch for NULL,
  which polls again or flushes. `crashed` becomes TRUE where a NULL is
  dereferenced, and the process takes no step after that.
* `Bus`: `delivered` and `written` are histories: the frames given to the
  listeners and the asynchronous frames given to the HAL. `overlapped` records
  that a thread was started while one of its kind was still alive. A thread that
  ends goes back to `"none"` and its identifier can be started again.
* Frames are integers in the order they entered the system, so that order and
  duplication can be seen; NULL is 0. The bytes of a frame do not matter here.
* `CecLibrary` has two variables, `initialized` and `driver`. The refinement
  mapping `DriverSeen` reads the driver from `status` and from the mutex that a
  `close()` in progress holds. A failed `init()` leaves the abstract driver open,
  as it does in the code, and a failed close loses it for good.

**Connection.** It stands beside `LibCCEC`: the bus is only `started`, the list of
listeners and `rMutex`, and the reader thread is the two nested loops of
`Bus::Reader::run` and `DefaultFrameListener::notify`. Those loops are the only
code that keeps `rMutex` or a connection's mutex over several steps, so both
mutexes can be read off the reader's place (`frame`, `inside`), and every other
section is one step; `close()` has two. Both mutexes are recursive, so the
listener being called may do anything an application may, on the reader's thread:
`busAt` and `listAt` are positions that follow their element as an iterator of
`std::list` does (`Shifted`), and `broken` marks the undefined case in which a
listener erased the very element the loop stands on. A frame is its destination.
`due` and `heard` record who should get it and who did; `closed` and `moved`
which connections were closed in order and which had their source changed. A
destructor does nothing in the code, so `Destroy` is taken only as the daemon
uses it: after a `close()` that returned, by nobody else in the middle of one.

**Transmit.** Operators, not a state machine: each is one function of the code as a
map from what it is given to `"ok"`, an exception's name or a value. A frame is its
two addresses and the one opcode `DriverImpl::write` asks about. `Bus` and
`DriverImpl` above model when these functions run; `IarmHal` and `CecDaemon` use
them for what they answer, on both sides of the IARM bus.

**IarmHal and CecDaemon.** `at` is how far a client's `HdmiCecOpen` or
`HdmiCecClose` has got, `ctx` and `registered` what the receive handler will meet;
the handler runs on the IARM bus's thread and takes no lock, so that its entry and
its use of the context are two steps, with `edge` recording that an open or a close
was under way. A call is made (`Begins`), served by the daemon (`Serves`), and
answered through both adapters. The daemon's event thread is `doing`, one step for
each line of `start()` and `stop()` that another thread can see. `published` is
`m_connection`, `connection` whether the object exists, and `_Send` reads the one
(`SendTests`) before it uses the other (`SendUses`, `SendFaults`). An exception that
leaves a function the bus called ends the process (`dead`). The daemon's library is
an instance of `CecLibrary`. `direct` records what the caller would have been told by
the hardware, `wire` the frame that reached it, `accepted` and `masked` what became
of each address.

**Operands, Messages, Codec.** An operand class is a record of what its code says of
it: the bytes it takes from a frame, those its accessors index without a test, the size
of its table of texts and the entry a byte picks. A message is its name and its
operands' bytes; `Layout` says which classes it goes through, in order. `Codec` lets
one message or foreign frame at a time through encoder, frame and decoder. `Given` is
what the constructors of a class are given. `Start`
computes the offset of an operand, which the code writes by hand in every message.

**RdkHost and DeviceManager.** The threads are the application's, the one on which
IARM delivers events, and one for each remote call. A remote call and the
assignments after it are two steps (`Ask`, `Store`), a power event is taken, handled by
the callback and stored. A change of a device's status is stored and broadcast under
`devStatMutex`, but the event is delivered later: it waits in `told`, in order,
until the listening process `Hears` it and takes the one field the event names. A
`_GetDevStatus` is answered in one step (`GetDevStatus`, which copies the table) and known in
another (`Learns`), with events in between or not. `view` is what the process makes of
both. `untold` records the fields whose last change had no event, and `spoiled` what
`untold` will be when the answer under way arrives: an event delivered meanwhile, one
still under way when the table was copied, or a silent change. The OSD name is two
halves. Each thread of `Setters` compares the name with the one it was given
(`SetOSDName`) and then copies the halves one after the other, with no lock against the
other setters or the readers; `begun` holds the writers between their halves, `crossed`
records that the last write overlapped another, `mixed` that a reader met a write
or what two crossed ones had left.
`DeviceManager` extends `RdkHost`: the callback's steps lie between `PowerEventTaken` and
`PowerEventDone`, `main` walks through `main()`, `reader` is what `DevMgrProcessor` has
decided to send and has not sent, `queued` the frames of `sendToAsync`. The reader
holds the bus mutex, so a synchronous send of the callback waits for it; an
asynchronous one does not.

**HostLoader.** A library is the generation it was loaded as, and so are the addresses
`dlsym` finds in it. Nothing in the file takes a lock, so the reads and writes of its
statics are steps of their own: `plugin = dlopen()` (`LoadOpens`) and `pluginGen++`
(`LoadCounts`), `dlclose()` (`UnloadCloses`) and `plugin = NULL` (`UnloadClears`), and of
a call the tests of `plugin`, of `*func`, and of `*currGen` against `pluginGen` (two reads, in
either order), the search, the store of what it found, the read of `pluginGen` and its store
in `*currGen`, the call through the pointer, and the return. Four places merge two accesses, and
the module says why no thread can tell: the first call of a function initialises its `currGen`
from `pluginGen` behind the compiler's guard for statics (`Enter`); `dlsym` reads `plugin` in the
step in which it searches (`Search`); what was stored is tested for NULL in the step that stores it
(`Place`); and `pluginGen++` is one step because one thread loads and unloads, `main()`
(`DeviceManager.cpp:240`, `:307`). `loader` is where that thread is. `gone` collects the
libraries that were searched, entered or returned to when they were not loaded; `raced` records that
a call overlapped an unloading, or a loading after the first.

## 4. Runs

| Run | Checks | States | Bounds |
|---|---|---|---|
| `EventQueue` | types and capacity, `FlagTracksEvents`, `NoLostWakeup`, `ImplementsFifo`, `TakenEventually` | 2 925 | 2 producers, 2 consumers, capacity 2, elements a, b, NULL |
| `Lib_recv` | `TypeOK`, `DeliveredInOrder`, `LifecycleAgrees`, `ImplementsLibrary` | 1.4 million | 1 application thread, 3 inits, 2 identifiers for each kind of thread, 2 received frames, queues of 2 and 1, failing open and close |
| `Lib_send` | `WrittenInOrder`, `SendKeepsBus` | 460 000 | 2 application threads, 3 inits, 2 asynchronous frames, 1 retry, failing `pthread_create` |
| `Lib_live` | `StopHangsOnlyByRace`, `AsyncLeavesQueue` | 71 000 | 1 application thread, 2 inits, 2 readers, 1 received and 1 asynchronous frame, failing `pthread_create`, in the constructor too |
| `Conn` | `TypeOK`, `CalledIsRegistered`, `DestroyedIsUnregistered`, `HeardByAll` | 1.5 million | 2 application threads and the reader, 2 connections (one with an address, one with UNREGISTERED), 2 listeners, 3 addresses, lists of 2, 1 change of source |
| `Codec` | `TypeOK`, `RoundTrip`, `OnlyLastShort`, `EscapesOnlyOnEmpty`, `PrintStaysInside` | 16 713 | every message with edge arguments, 3 addresses; foreign frames of every opcode and two unknown ones, 0 to 15 operand bytes of 5 values |
| `Daemon` | `TypeOK`, `OutcomeAgrees`, `InitiatorKept`, `DaemonFollowsLast`, `PublishedIsReady`, `ReceiveFaultsOnlyAtEdges`, `ListedWasAccepted` | 1.6 million | 2 clients, one calling and one receiving, 3 frames, 4 answers of the HAL, 3 of addLogicalAddress, 2 events under way |
| `Host` | `HostTypeOK`, `PowerAgrees`, `ViewAgrees`, `NameWhole` | 1.1 million | 1 device, 2 status events under way; 2 names, 2 threads that set the name, 2 power events under way; status and the rest move one at a time |
| `DevMgr` | `TypeOK`, `ClaimAgrees`, `PowerReportAgrees`, `DiesOnlyAtStart` | 23 160 | 2 power events, at most 3 events and queued claims together |
| `Loader` | `TypeOK`, `NoStaleCall`, `MarkedIsCurrent` | 1.3 million | 2 threads, 2 functions, one of them exported, 2 loads |
| `Lib_stop_hangs` | violates `StopCompletes` |  | 1 init, 1 frame |
| `Lib_flush_null` | violates `FlushTakesOnlyFrames` |  | 2 inits, no frame |

Why these bounds are enough. The queue's interesting cases are empty, one, full,
and two threads on each side racing for one element; a capacity of 2 tells "the
last element went" from "one element went". Two frames are what order and
duplication need. Two readers or writers alive at once need a start that overtakes
the thread of an earlier one; three inits allow a sentinel of the first session to
meet the third. One retry gives a send a state in which it waits between two
attempts. Bounds that are not in the code are constants: `MaxRx`, `MaxTx`,
`MaxRetry`, `MaxInit`; the queues' capacities `RCap` and `WCap` are 32 in the code
and small here so that full queues occur.

For connections, a list of two tells the element the loop stands on from one
before and one behind it, and allows a second registration of the same connection
or listener; the three addresses are the connection's, another device's and
broadcast. `MaxList` and `Moves` are the bounds that are not in the code.

For the codec there is no bound of depth: every message passes once, with the last
value of each table and the first beyond it, texts of the limit and one more, and
foreign frames of every length from none of the operands to more than any message has.

For the daemon, two clients are what "one client's close while the other calls" needs;
only one of them calls and only the other is delivered to (`Senders`, `Receivers`), since
calls of two clients meet only in the daemon's library, which serves one at a time.
`MaxEvents` bounds the events under way; two let an ENABLE and a DISABLE cross. The HAL's
answers are one of each class the code tells apart.

In the host library, the status of the devices has no variable in common with the power
state and the OSD name but `boot`, so the constraint `OneAtATime` lets one of the two rest
while the other goes through all it can do. For the status, one device shows all of a
table whose entries do not touch each other, and two events under way (`MaxTold`) an event
behind another, or one on each side of a copy of the table; a broadcast can fail at any
time. For the rest, two names, two halves and two threads that set the name are what two
overlapping writes need, and two power events show an event behind a late answer.

The loader has two threads that call, so that one can search and store while the other
tests or calls, a function the plugin has and one it lacks, and two loads, so that there
are pointers of an earlier library to be met.

Deadlock is checked for the event queue, the codec, the host library and the loader. It is
not for the library: when the bounds are used up every thread may rightly be waiting,
and `Bus::stop` can hang, as `Lib_stop_hangs` shows. Nor is it for connections, which stop
where a listener erased itself (`broken`), for the daemon, which may end with the
clients' handlers, and for the device manager, which may end.

**What the violations show.**

* `StopCompletes`: `Bus::stop` holds `rMutex` and waits for the reader, which has a frame
  in its hands and waits for `rMutex`. `StopHangsOnlyByRace` shows that for the reader
  this, a thread that first runs behind `stopStarted()`, and a `pthread_create` that
  failed in `Bus::Bus()` are the only causes; for the writer, the last two.
* `FlushTakesOnlyFrames`: a session can end with its sentinel still queued. Two such sessions
  give the flush a NULL to dereference.

**Exceptions the properties name.** Where the code does not keep a promise without
qualification, the property says under which condition it does, so that the list of
conditions is itself checked to be complete:

* `LifecycleAgrees`, `ImplementsLibrary`: a failed `HdmiCecClose` leaves `status` CLOSING for
  ever. `open()` returns without an error for every status but CLOSED, so the next
  `init()` succeeds and no frame is ever sent or received (`DriverImpl.cpp:106`, `:138`).
* `StopHangsOnlyByRace`, `DeliveredInOrder`: a thread that `start()` created and that has
  not run yet has a Stoppable that says STOPPED, so a `stop()` in that window returns at
  once with the thread still to come, and a second `start()` creates a second reader
  (`Bus.cpp:87`). Where `pthread_create` failed in the constructor (`Bus.cpp:73`, `:74`),
  the Stoppable says RUNNING without a thread: no `start()` makes one, and a `stop()`
  waits for ever. Where it failed in `Bus::start`, it says STOPPED, and the next `start()`
  makes one; until then nothing leaves the queue, which is what `AsyncLeavesQueue` asks a
  living writer for. An offer to a full queue returns normally and the element is gone
  (`EventQueue.hpp:171`, a TODO where the comment at `:162` promises an exception).
* `HeardByAll`: the filter keeps a copy of the constructor's address, so after `setSource` the
  connection sends from one address and listens to another (`Connection.hpp:84`). A
  listener that throws InvalidStateException ends the dispatch for those behind it.
* `RoundTrip`: the request for "system audio off" (F.F.F.F) is sent without operand and
  refused on arrival, since the operand is constructed before the test for it; a report of
  audio descriptors writes an undefined number of them, each with half of each byte
  (`Messages.hpp:521`, where a parameter hides the member); empty texts are refused and
  long ones cut; `UserControl...`, `GiveAudioStatus` and four of the ARC messages are
  encoded and never decoded.
* `PrintStaysInside`: a physical address cut to its first byte is printed beyond its end.
* `OutcomeAgrees`, `ListedWasAccepted`: the adapter turns every failure of a remote call into
  INVALID_STATE, which `addLogicalAddress` takes for success (`DriverImpl.cpp:316`);
  `getPhysicalAddress` returns nothing, so its failure is silent. Logical address 0, the
  TV's, is taken for no address. Listed addresses outlive a close.
* `PublishedIsReady`: a `_Send` that tested `m_connection` before `stop()` cleared it may use the
  deleted object.
* `DaemonFollowsLast`: there is no count of clients, so that one client's close disables the
  daemon for the others. What `init()` and `term()` throw inside it is caught by nobody and
  ends the daemon.
* `ReceiveFaultsOnlyAtEdges`: the handler is registered before its context is allocated, and the
  context is freed under a handler that runs.
* `PowerAgrees`, `PowerReportAgrees`: an answer that a power event overtook, or a failed call, which
  counts as standby, stays until the next event.
* `ViewAgrees`: a failed broadcast is not repeated; `CECHost_Init` and an unplugged display clear
  the table without an event; a device that disconnects loses its power state and name with
  an event that tells of the connection only (`RDK.cpp:291` to `:299`); and an answer of
  `_GetDevStatus` may be older or newer than the events that arrive before or after it.
* `NameWhole`: the OSD name has no mutex, so a reader beside a writer, or one that comes after
  two overlapping writers, gets the parts of two names.
* `ClaimAgrees`: a claim that could not be written is not repeated; an InActiveSource in the
  queue can be overtaken by the ActiveSource of a wake-up; the reader may answer a request
  on what it read before the box went to standby.
* `DiesOnlyAtStart`: a power event between `DeviceManager.cpp:251` and `:285` ends the process.
* `NoStaleCall`, `MarkedIsCurrent`: unloading while a call is under way; and a call while
  the plugin is loaded again, since between `Host.cpp:50` and `:56` `plugin` is the new
  library and `pluginGen` the number every old pointer is marked with. On the first
  loading there is no old pointer, and no harm.

**Fairness.** `EventQueue`'s `FairSpec` has consumers that keep polling (both run
in loops) and producers that leave a critical section they have entered; nobody is
obliged to offer. `LibCCEC`'s `FairSpec` is weak fairness for each thread's steps:
the threads are ordinary POSIX threads, and a thread that can go on is scheduled
sooner or later. Application calls, arriving frames and spurious wake-ups are
never obliged to happen. Nothing relies on a fair mutex. The other modules state
safety only.

**Refinements.** `EventQueue` implements `BoundedFifo` (checked and proved), and
`LibCCEC`, with all its threads, implements `CecLibrary` (checked in `Lib_recv` and
proved). The first lets `Bus` and `DriverImpl` use the abstract queue, the second lets
`CecDaemon` use the abstract library.

## 5. Proofs

Each theorem is `Spec => []P` (or `Spec => A` for an action property or a refinement), for
all values of the constants: any set of threads, clients, connections, devices or functions,
any capacity, any bound, any frame. Each rests on an inductive invariant, `IInv`,
which TLC finds to hold on the run of the module too, and on three lemmas: the initial states
satisfy it, every step keeps it, and it implies the property. What the invariants add to
the properties is the point of the proofs, and said here.

**EventQueueProofs**: `TypeOK`, `FlagTracksEvents`,
`NoLostWakeup` and `ImplementsFifo`, for any finite or infinite sets of
threads and elements and any positive capacity. `FlagTracksEvents` is not
inductive: the inductive invariant adds who holds the mutex at which `pc`
(`MutexInv`), what the flag is inside each critical section (`FlagInv`), and that
a sleeper implies an empty queue or an offer on its way to the broadcast
(`SleepInv`). The refinement maps `OfferPush` and `OfferFull` to `Offer`, `PollPop`
to `Take`, `PollDefault` to `TakeNothing`, and everything else to a stutter;
`PollDefault` needs the invariant, since the code also returns the default when
the flag is clear, which must imply that the queue is empty.

**LibCCECProofs**: `TypeOK`, `LifecycleAgrees`, `SendKeepsBus` and `ImplementsLibrary`, for any
threads, capacities and bounds, with all failures allowed. The inductive
invariant says which `pc` values hold which mutex (`LibHeld`, `ReadHeld`), that the driver
mutex is held in the middle of a close only (`Closing`), and what `started`, `status` and
`initialized` are at each point of `init` and `term` (`Phase`). `SendKeepsBus`
follows because whatever changes `started` or closes the driver holds `rMutex`,
and so does the send. `ImplementsLibrary` follows from the same invariant: each step of `init` and
`term` that changes the driver or `initialized` is the step of `CecLibrary` of that
name, and everything else is a stutter.

**LibOrderProofs**: `DeliveredInOrder` and `WrittenInOrder`. A frame passes through three
places: the queue, the hands of a thread, and the listeners or the HAL. The invariant,
`Ordered`, says of all three that what is further on came earlier, and that frames still to come are
greater than all of them. It holds as long as one thread of the kind is alive
(`OneAlive`): with two, a frame in the hands of the one is overtaken by one in the hands of
the other, which is why both properties exclude the overlapping starts that section 4 names.
Dropped frames, flushes and sentinels keep it.

**ConnectionProofs**: `TypeOK`, `CalledIsRegistered`, `DestroyedIsUnregistered`,
`HeardByAll`. `std::list::remove` moves every later element, so the lemmas first say what
`Without` leaves and where `Shifted` puts an iterator (`Leaves`): each element that stays
is found where the count of those kept before it says, and order is kept. The invariant
then ties the iterators to the lists: what the reader is inside is where the iterators
stand (`AtConnection`, `AtListener`); a close on the reader's thread is of another
connection unless the loop is broken (`ClosesOther`); what is registered is alive and not
closed (`Registered`); a filter knows the source unless it was moved (`FilterKnows`); and
whoever is due the frame and has not heard it is ahead of the iterators (`DueAhead`),
which is what makes `HeardByAll` inductive.

**CecDaemonProofs**: `TypeOK`, `PublishedIsReady`, `DaemonFollowsLast`,
`ReceiveFaultsOnlyAtEdges`, `OutcomeAgrees`, `InitiatorKept`, `ListedWasAccepted`. Three
parts of the state do not disturb each other and have invariants of their own. `Manager`:
how far `start()` or `stop()` has got says what the library and `m_connection` are
(`Phase`), and the last ENABLE or DISABLE under way, or with none the target of what the
daemon is doing, is what was asked last (`Settled`). `Opening`: the context is whole and
the handler registered exactly between the two calls, so that a handler that saw no edge
runs on an open client. `Answering`: nothing is told or sent before a call is answered,
and what is told agrees with the hardware's answer through `Transmit` on both sides.

**DeviceManagerProofs**: of `RdkHost`, `HostTypeOK`, `PowerAgrees`, `ViewAgrees` and
`NameWhole`; of `DeviceManager`, `TypeOK`, `ClaimAgrees`, `PowerReportAgrees` and
`DiesOnlyAtStart`. In the host library the power state follows because the *last* thing
under way, of the queued events, the one being handled and an answer nobody overtook, is
about the mode the box is in (`PowerFollows`). The status follows because, of every field
that is not `untold`, the last event under way tells the present value, or there is none
and the view has it (`Traced`, `StatusFollows`), and the same holds of an answer under way
and what it spoils; the lemmas are about what appending and taking an event do to that.
The name follows because a writer that nobody crossed finds its own first half there when
it writes the second (`NameFollows`). `UsesTheHost` (`Spec => HostSpec`) shows that the
device manager is one of the host library's users, so that these hold of it too. Its own
invariant says what exists at each line of `main()` (`Started`), what the callback and the
reader are in the middle of (`Telling`), and that the last claim on the wire and the
stored power state are about the present mode when nothing is under way (`Claimed`,
`Reported`).

**HostLoaderProofs**: `TypeOK`, `NoStaleCall`, `MarkedIsCurrent`. `NoStaleCall` allows a
call that overlaps an unloading or a loading after the first (`raced`). Without one, no
call is under way while `main()` is between the two steps of either (`Apart`), a function
marked with the present number has its pointer into the present library (`Pointers`), and
each thread's invariant says what it may rely on at its place (`Sound`): past the first
test there is a plugin, past the test of the generation or the search the pointer leads
into it. A generation read before the first loading was counted is the one value that may
be out of date, and does no harm since no pointer is older.

**CodecProofs**: `TypeOK`, `RoundTrip`, `OnlyLastShort`, `EscapesOnlyOnEmpty`,
`PrintStaysInside`, for any addresses, any arguments the constructors take and any foreign
frames, not only the lengths and bytes of the run. The invariant is small: the frame is
bytes (`WellFormed`), it is what the encoder makes of what was sent (`Carried`), and the
outcome is what the decoder makes of the frame (`Decoded`). The work is in the lemmas
about data. `LayoutShapes` and `LayoutUniform`: of every message all operands but the last
have one fixed width, so `Start` finds them. `OperandCut`: an operand is the bytes from
its start, as many as there are, and is refused exactly when there are none.
`NotRefusedAccepted`: hence, if the last one has a byte, the ones before it are whole.
`JoinedOperands` and `ReadBack`: operands of their full width, joined, are found again
where they are looked for. `ReadBuilt`: the accessors undo the constructors.
`CodesDiffer`: the opcode tells which message it was.

*Recursive data.* The library's induction theorems take an operator, which the provers
cannot instantiate. A set of natural numbers that is not empty has a least element, though
(`LeastNumber`, from the well-foundedness of `<`), and a claim about every index is proved
by taking the least index at which it fails. `CodecProofs` shows in this way that the
recursive function inside `FlattenSeq` exists (`JoinExists`), that its values are
sequences (`FlattenTyped`) and where each element lies in them (`JoinedPlaces`);
`ConnectionProofs` shows with it where an element of a shortened list comes from.

*Assumptions.* Those named in the modules, which TLC evaluates on every run: positive
capacities and numbers of retries, constants that are told apart (`ThreadAssumption`,
`DriverAssumption`, `BusAssumption`, `LibAssumption`, `CapAssumption`,
`ConnectionAssumption`, `NamesAssumption`, `MaxGenAssumption`, `FunctionsAssumption`);
frames of the daemon's clients are frames (`ClientAssumption`); the hardware answers with
codes of the HAL's interface (`HardwareAssumption`); and an application gives a message
what the constructors of its operands take (`CodecAssumption`: an address of hexadecimal
digits, a format of two and six bits). The proofs add no others.

*Only model-checked.* The three liveness properties, `TakenEventually`,
`StopHangsOnlyByRace` and `AsyncLeavesQueue`: fairness and ENABLED are out of the prover's
reach. The two violated properties are counterexamples, not theorems.

## 6. Not modelled

* Daemon: the hotplug handler, whose calls are commented out; the heartbeat; `term()`;
  `_IsAvailable`; `_Enable` as a remote call, which no client makes; a restart of the
  daemon's process. The restart of clients is the open and close of `IarmHal`.
* Driver: `writeAsync` and `removeLogicalAddress`, which nothing calls (the adapter's
  `HdmiCecTxAsync` is modelled as a step a client may take). The walk of the address list
  without its mutex is one step: what a torn list would do is undefined. The body
  of a HAL call is not ours: the model lets it fail or not, and lets a frame arrive
  at any moment.
* Device manager: the answers that are always the same, and the hotplug callback, which
  `main()` never installs; `isConnected` and the physical address keep what they were at
  the start, and the callback would mark a connected display as disconnected
  (`DeviceManager.cpp:325`; `CECHost_HDMI_CONNECTED` is 0).
* Host library: `_PowerPreChange` and `_SetDevMgrStatus`, which keep no state; the wrappers of
  the device settings; an index beyond the status table (`RDK.cpp:262`).
* A listener that calls `LibCCEC::term()`: it waits for its own thread, for the reason
  `Lib_stop_hangs` shows.
* Event queue: the timed `wait()` and `notify()`, which nothing calls, and destruction in use.
* Texts, logging, the build files, service units and the manual test programs have no
  behaviour that these properties could tell apart. `~Bus` and `~DriverImpl` run at process
  exit.
