# A verification development for kappaio-gateway

kappaio is the host side of a Zigbee gateway.  It drives a TI CC2530
coordinator over a serial line, keeps the table of joined devices and an
archive of it in a file, and serves requests from plugins, from a local UNIX
socket and from a remote server.  A second program, kappaio-watch, restarts it
when it stops counting.  This directory holds TLA+ models of its parts, the TLC
configurations that check them and TLAPS proofs about them.  Source paths below
are relative to the repository's `src/`.

## 1. Inventory

| Component | State it keeps | Operations | What is hard |
|---|---|---|---|
| Serial driver (`hal/source/mtintf.c`) | 512-byte ring, its length, two mutexes, the fd | `SerialRcv` (a real-time signal handler), `MessageAssembler` (a thread per signal), `SerialSend`, `resetInterface` | handler and assemblers share the ring; several assemblers at once; bytes lost on reset; overrun |
| MT dispatcher (`hal/source/mtproc.c`) | table of subsystem callbacks | `ProcessIncommingMessage`, `MT_ProcessIncoming`, `registerSubsystemCb` | out-of-band callback first, runs on any assembler |
| MT channel (`hal/source/mt_helper.cpp`) | per subsystem: semaphore, mutex, expected response, return buffer, two status pointers; the out-of-band semaphore | `mtSend`, `mtRecv`, `mtOOBSend`, `mtOOBRecv` | timeout against a late answer; status pointers into stacks of finished calls; a wait for the semaphore that a signal ends; lost kick |
| HAL (`hal/source/hal.cpp`, `mtsys.cpp`, `mtzdo.cpp`, `mtaf.cpp`) | coordinator state, ping bookkeeping | start-up, watchdog kick, state monitor, system ping | stale status; retries and back-off |
| APS data service (`aps/include/aps_data_service_impl.hpp`) | list of pending requests, its mutex, a SyncInfo per request | `request`, `indicate` | concurrent requests; removal of an entry while others hold iterators; callback against timeout |
| APS objects (`aps/include/aps_object_models_impl.hpp`, `aps/source/apsdb.cpp`) | devices, endpoints, clusters, peers | find-or-create, `removeAssoc`, `aps_newpeer_handle` | identifiers shared by two devices; references held over a removal |
| ZDO (`zdo/source/zdo.cpp`) | the device table through APS objects | announcements, leave, descriptor requests, recovery | announcement against leave against refresh; partial descriptors |
| Archive (`zdo/source/zdo_archive.cpp`) | one JSON file | save and remove, each read-modify-write | concurrent writers, also of one open file; crash in a write; the wipe at recovery |
| RW lock, helpers (`kapi/source/kutil.cpp`) | three semaphores, a reader count | shared and exclusive acquire and release | readers and writers |
| Bus (`kapi/source/kbus.cpp`) | JSON tree, sequence number, semaphore | add, commit, refresh | data added between refresh, write and reset; waits that a signal ends |
| Notification, connections (`kapi`) | map of handlers; sockets | register, trigger; open, wait | unsynchronised map |
| Local interface (`kintf/source/localintf.cpp`), REST (`aps/source/restful.cpp`) | a context per URI | one request at a time per socket | context shared by threads |
| Remote link (`kintf/source/remoteif.cpp`) | times of last request and response, broken-link flag | ping, sign-in, UDP server loop | timeouts and reconnection |
| Widgets (`kintf/include/widget_manager.hpp`) | array of registrations | add, delete, load | erase while iterating |
| Boot loader (`sbl/source/serial_bootload.cpp`) | image file, retry counters | check, handshake, write, read back, CRC | retries on stale replies |
| Process supervision (`kappaio.cpp`, `kappaio-watch`, init script) | pid file and lock, keep-alive file | start, stop, restart, count, watch | restart against a process that is still ending |
| Trace log, debug (`kdev`, `mtdebug`) | two objects on the bus | log a message | written to by every thread, from the first frame on |
| Conversions (`mtaf.cpp`, `aps_afmessage_impl`, `mtsys.cpp`, `mtutil.cpp`, `zdo.cpp`, `kutil`) | none | frames, answers, descriptors, hexadecimal text | one-byte lengths; layouts that overlap |
| JSON wrapper (`kapi/source/kjson.cpp`) | a tree of wrappers over jansson's values | index, assign, erase, read and write files | who owns a value; wrappers of elements that moved |

**Threads.** Every serial signal starts a `MessageAssembler` thread.  It runs
the MT dispatcher, the MT channel's receive side, the APS data service's
`indicate` and, for an announcement, the ZDO handler, which itself makes
blocking requests.  The watchdog and the state monitor are threads of their
own, as are the local socket server and the remote UDP server; plugins add
more.  There is no thread pool and no queue between them: they meet in the
structures of the table above.

**Signals and semaphores.** The handler of the serial line's signal is installed
with `SA_SIGINFO` only (`mtintf.c:69`): without `SA_RESTART`, an arriving frame may
end a `sem_wait()` that blocks.  `kNanosleep()` goes on after a signal, but none of
the program's `sem_wait()`s looks at its result: its caller goes on without the
semaphore, and posts it afterwards.  The models follow this where the semaphore
guards something a property is about (`Interrupted` in `MtChannel`,
`LogInterrupted` and `CommitInterrupted` in `Dispatch`, `KickInterrupted` in
`Supervision`); §5 lists the others.

**Interaction.** A ZDO request goes down through the data service, `mtaf`, the
MT channel (the coordinator's acknowledgement) and the serial driver; the
radio's answer comes up through the driver, the dispatcher and the data
service's `indicate` to the callback the request registered, which writes the
device table and the archive.

## 2. Plan

The order is by how much of the system rests on a part.

| | Module | Abstract specification | State |
|---|---|---|---|
| 1 | `DataService` | `PendingCalls` | modelled, checked, proved |
| 2 | `MtChannel` | `Exchange` | modelled, checked, proved |
| 3 | `KLock` | `RWLock` | modelled, checked, proved |
| 4 | `SerialRing` | none | modelled, checked, proved |
| 5 | `Flash` | none | modelled, checked, proved |
| 6 | `DeviceArchive` | none | modelled, checked, proved |
| 7 | `Supervision` | none: its properties are the promise | modelled, checked, proved |
| 8 | `Dispatch` | none | modelled, checked, proved |
| 9 | `Interfaces` | none | modelled, checked, proved |
| 10 | `Codec` and `Peers` (which extends it) | the bytes' meaning, as the properties state it | modelled, checked, proved |
| 11 | `Json` | none | modelled, checked, proved |

How they fit together: `SerialRing` hands frames on whole and once; `Dispatch`
takes them to their handlers; `MtChannel` is what a handler does with an answer
a call waits for, `DataService` what it does with a message from the radio;
`DeviceArchive` and `Peers` are the callbacks and handlers above them;
`Interfaces` is the other way in; `Codec` and `Json` are the representations the
others abstract from; `Supervision` is the life of the process all of them run
in.  Each module states in its header what it takes from its neighbours.

Every safety property that a run checks and that holds has a theorem.

## 3. Modules, runs and what they show

In every module the state variables keep the source's names where TLA+ allows
it, a thread's place is a `pc` variable, and an action is what happens between
two points at which another thread may intervene.  Variables commented "history"
are not in the code: they remember what a property needs.  The definitions
called "Mutant of X" are plausible mistakes in X; they are not part of `Next`.
`PROJECT.json` maps each definition to its lines, and says for each property
which mutant violates it.

### 3.1 DataService (`aps/include/aps_data_service_impl.hpp`)

`request()` blocks its caller for at most a second.  It links an entry in front
of the list `buffer__`, arms the entry's `SyncInfo`, sends, waits, and unlinks
the entry by swapping its content with the front's and popping the front.
`indicate()`, on an assembler thread, finds the first entry whose predicate
accepts a message and runs its callback with `buffer__Mutex` held.

| Model | Code |
|---|---|
| `buffer`, `content`, `handle` | the `forward_list`, what a node holds, `TxHandle::it_` |
| `sync`, `rdy`, `m` | the fields of `SyncInfo` |
| `Register`, `Arm`, `Send`, `WaitFor`, `Sleep`, `Timeout`, `Remove` | `request()` and `TxHandle` |
| `Indicate`, `Disarm`, `SetReady`, `Notify` | `indicate()` and `SyncInfo::disarm()` |
| `Crash` | one outcome of using a freed node |

When a request other than the newest is removed, the newest's entry moves to the
removed one's node and the front node is freed, while the newest caller's `it_`
still names it.  `overtaken` remembers this.  The model keeps going afterwards,
with every outcome of the use of freed memory: `TypeOK` and `CountExact` (proved)
and `EveryRequestReturns` (checked) hold even then, the rest is stated for
behaviours without it.
This is the most serious weakness of the component, and the model makes its
exact reach visible: one caller at a time, or removals in the reverse order of
registration, are safe.

* `ds`: three callers, two receivers, three calls; three nodes, so that the
  allocator hands freed ones out again; two sequence numbers, so that the 8-bit
  counter of `apsdb` wraps within a run and a response may be accepted by another
  call's entry.  Idle callers are alike, so the first of them makes the next
  request (`FirstIdleCalls`); a symmetry set would be unsound for liveness.
* Fairness: every thread that can run does, and the timed wait ends.  None for
  `Register` (nobody need make a request) nor for `Indicate` (the link owes no
  response).

### 3.2 MtChannel (`hal/source/mt_helper.cpp`)

`mtSend()` takes the subsystem's semaphore, stores pointers to its own frame in
the shared record, and starts a thread that sends and waits under a mutex.
`mtRecv()`, on an assembler, compares the response's command, asks by
`sem_trywait()` whether a call waits, and starts a thread that copies and
signals.

| Model | Code |
|---|---|
| `sem`, `mutex` | the subsystem's semaphore and mutex |
| `replyTo`, `request`, `expected`, `statusOf`, `sendThread`, `response`, `recvOf` | `returnBuffer`, `request`, `rspCmdId`, `sendStatus`, `sendThread`, `response`, `recvStatus` |
| `Acquire` or `Interrupted`, then `SetBuffer` ... `Release` | `mtSend()` |
| `Transmit` ... `Resume` | its send thread |
| `Lose`, `Match` ... `WriteStatus` | the line, `mtRecv()` and its receive thread |
| `Desert` | an `mtRecv()` whose `pthread_join()` waited for another's thread |
| `Crash` | one outcome of an access to a frame that is gone, or of joining a thread twice |

Two things take the channel out of the order it is made for, and the model
follows both with what they lead to.

* A response that arrives after its call's timeout may be taken for the next
  call's, if the commands are equal, or be copied to a frame that is gone.
  `late` remembers that a call returned before its response was handled.
* The signal of a frame ends a blocked `sem_wait()` (156) and a second call comes
  in beside the first (`Interrupted`, remembered in `barged`).  Both now share
  one record: each of the five assignments (158-163), the creation of the send
  thread, which takes the request that is there when it runs, and the
  `pthread_join()` of the handle that is there are steps of their own, so one
  call may send the other's command, join the other's thread, or return before
  its own thread has ended.  `crowd` are the calls that were inside with another.
  Each such call posts a semaphore it never took, so that for the rest of the
  process's life it is one higher: the next calls may be two at once without a
  signal, and the response of a call that is alone finds the semaphore free, is
  refused by `mtRecv()`, and the call times out.

What holds of this: `TypeOK`, `TurnsCounted` and `EveryCallReturns` in every case;
`FramesExact`, `ResultTrue`, `NoLostSignal` and the refinement of `Exchange` for every
call outside the crowd, before or after one, as long as nothing is late.
`TurnsCounted` is what the semaphore is worth: without interrupted waits it says
that calls take turns, and with them how many there may be at once.

* `mt`: three calls, so that the late response of one meets the turn of the
  next, twice over, or that two crowd and a third finds what they left; two
  commands, so that some match and some do not: the second call's is the others'
  or not.  Calls come in a fixed order (`CallsInTurn`): they are interchangeable.  A
  behaviour is followed into late responses or into a crowd of two, not into both
  (`CrowdOfTwo`), and of an `mtRecv()` that returned before its receive thread one
  case is (`FirstDeserts`): after each of these the properties about single calls
  promise nothing that another could break, and the theorems cover the rest.
* Fairness: as long as some thread can go on, and the timed wait is over some time,
  some thread does.  Every call takes finitely many steps, so no more is needed.
  None for `Match`, nor for `Interrupted`, since no signal need come: a call gets in
  by the semaphore.

A receive thread that passed `sem_trywait()` before the timeout and got the
mutex after it writes the status of a call that has returned, although the
comment at `mt_helper.cpp:60` says that separate statuses prevent a race: the
behaviours after it are the ones `late` marks.

### 3.3 KLock (`kapi/source/kutil.cpp`, `klock_c`)

A readers-writers lock from three semaphores and a count.  Each `sem_wait`,
`sem_trywait` and each passage under `shLock` is an action.  A thread releases
only what it holds, and a wait ends with the semaphore: what follows a wait that
a signal ended is left out, since the lock then promises nothing.

* `klock`: five threads, which is enough for two shared owners, one that asks with
  `shLockPriv` held, an exclusive owner and one more that waits; deadlock is
  checked.  `SharedGranted` is stated for behaviours in which exclusive owners stop
  coming: no caller of the exclusive side exists so far, and the code does not
  promise shared askers anything against a stream of them.  Fairness: threads run
  and owners release (`nodeSnapshot()` holds the lock for one loop).

### 3.4 SerialRing (`hal/source/mtintf.c`)

`SerialRcv()`, a signal handler, reads bytes into a 512-byte ring and starts a
`MessageAssembler()` thread, which takes frames out of it.  Several assemblers
and handlers exist at a time; a handler runs on the stack of the thread it
interrupts, which cannot go on until it ends.  The ring holds indices into the
stream of all bytes that will ever arrive, so that a property can say which
byte is where.

* `serial`: three frames of 6, 5 and 5 bytes with a byte of noise after the
  first, in bursts of 6 or 9, a ring of 8: it wraps in the middle of a frame,
  fills up exactly, and is overrun in some behaviours.  The bursts are not
  multiples of the frames, so frames arrive in pieces.  Two assemblers.
  Fairness: signals are delivered, threads run.

`Offset` is set to 0 once per assembler and not once per frame (`mtintf.c:135`):
after noise the second frame that the same assembler takes shortens the ring by
a byte, and the next bytes overwrite one that waits.  `slipped` marks these
behaviours.

`FramesOnce` is what the driver owes the dispatcher: what is taken out of a ring
with none of these marks is a frame of the coordinator, and none is taken twice.

`EveryFrameDelivered` names everything that can lose a frame: overrun, the old
`Offset`, `resetInterface()`, and a handler that waits for the mutex its own
thread holds (`SelfBlocked`).

### 3.5 Flash (`sbl/source/serial_bootload.cpp`, `handleWriteFlash()`)

Each chunk of the image is written, read back and compared, with three nested
retry counters.  The coordinator may not answer, refuse, or give the late
answer to an earlier command.

* `flash`: three chunks, the first two with the same content, any content in
  the flash and in the uninitialised `rdRsp` at the start.
  `AnsweredSpec` assumes that what is repeated without a limit (handshake,
  unanswered write, ping) is answered at last; `Ends` is false otherwise, by
  the code's own design.

Flashing talks through the MT channel, so `MtChannelProofs` extends both modules;
that is why no name of `Flash` is one of `MtChannel`'s (`FlashInit`, `fpc`, ...).

A failed read goes on to compare what an earlier read left (322-335), and a
chunk with the same content is passed unread: `unread` marks such chunks, and
`AcceptedGood` is about the others.

### 3.6 DeviceArchive (`zdo/source/zdo.cpp`, `zdo_archive.cpp`, `aps_object_models_impl.hpp`)

| Model | Code |
|---|---|
| `list`, `id`, `ieee`, `known` | `assocs_`, a device's two addresses, its endpoint |
| `file` | `zdo_archive.json`, or `Bad`: absent, empty or cut short |
| `Find`, `Name`, `Unanswered`, `Answered` | `device_annce_proc()` and its three requests |
| `Read`, `Truncate`, `Fill` | one read-modify-write of a callback; `json_dump_file()` opens, then writes |
| `mixed`, `Contents` | who has the file open together with another; what is in it after a write |
| `Leave`, `ReadErase`, `FillErase` | the handler of `Mgmt_Leave_req` and `removeDev()` |
| `Recover` (`Wipe` or `Rebuild`), `Fault`, `Restart` | `recoverEndpoint()`, the segmentation fault, the end and restart of the process |

Callbacks run one at a time, as `DataService` shows; the leave runs beside them
without a lock.  `stale` marks changes of the file that overlap, and `saved` and
`left` start afresh from such a change: the properties say what holds except
then, and except for an end of the process in the middle of a write.

When a leave and a callback have the file open at the same time, each writes from
its own offset 0: what the last one leaves is its own text, or that with the end
of the other's longer text behind it, which does not parse, or, in blocks, some
of both (`Contents`).  `ArchiveGood` says that this and an end of the process are
the only ways to a file that does not parse, and that only the very last write can
have left it so (`crossed`): the next one mends it.

A lookup
creates a device with the low 16 bits of the extended address as its short
address (the constructor's parameter is narrower): `Low`.

* `devices`: two devices, two short addresses, two objects, two announcements
  at a time, a leave, and three events (announcements, leaves, crashes) in any
  order: a device announced, archived, left and announced again; a crash at
  each step of each write; two devices with one short address.  Both low halves
  are 0, the value of an object that has no address yet, which is the collision
  that matters.  Symmetric in devices, addresses, objects and threads.

An entry that lacks a descriptor, left by a request that timed out or by a crash
between two saves, makes every start of the program fault, for ever: recovery
reads both strings without a test that they are there (`zdo.cpp:251`).  The
model's recovery faults there as the code's does (`Fault`), and `SavedKept` holds
through such starts.

### 3.7 Supervision (`kappaio.cpp`, `hal.cpp`, `mt_helper.cpp`, `kappaio_watch.cpp`)

| Model | Code |
|---|---|
| `dir`, `content`, `lock`, `fd` | the name of the pid file, the numbers in its inodes, `flock()`, the open descriptors |
| `Open` ... `EnterLoop`, `Beat` | `main()`: `write_pid()`, `klaIncr()`, the boot, the loop |
| `SystemPing`, `Monitor`, `WdtKick`, `KickInterrupted`, `MtOOBRecv` | `systemPing()`, `StateMonitor()`, the watchdog thread with `mtOOBSend()`, whose wait a signal may end, `mtOOBRecv()` |
| `Unlink`, `Exit` | the SIGTERM handler, `exit()` |
| `Look` (`NotRunning`, `Changed`, `Tolerated`, `Replaced`; `Silent`) | a round of the watcher's loop |
| `Stop`, `Start`, `CoordFault`, `Starve`, `LoseKick` | the init script, the coordinator and the line (external) |

Time is counted in looks of the watcher, ten seconds apart.  `BootLooks` = 1: a
boot that nothing obstructs takes less than two looks.  That is an assumption:
a boot of more than twenty seconds would be killed by the watcher each time,
since the count does not change while it lasts.

* `supervision`: two processes at a time, two faults.  The counts 0..2 wrap as
  the unsigned short does; pings back off for four looks, as the forty seconds
  do.  Behaviours are followed until two gateways serve at once (`NeverTwice`).
  `Recovers` needs the fairness that processes run, the watcher looks again and
  again, and the coordinator's watchdog resets it when it is not kicked.
  `SilenceBounded` says that a gateway the watcher has found before gets one
  look's grace and no more; `CountingSpared` that one which counted is not
  killed.  Both are about the count: with a second gateway at work on the same
  keep-alive file (`twice`) neither holds.
* `one_gateway` (finding): `write_pid()` opens the file, then locks it, and a
  process that ends unlinks the name.  A new instance that opens it just before
  locks an inode without a name: it serves without a pid file, and the next
  look of the watcher starts a second gateway beside it.

Left out: the reuse of process numbers, `fclose(NULL)` when the pid file
vanishes between two calls of the watcher, and the remains of an earlier,
longer count in a keep-alive file that is not truncated.

### 3.8 Dispatch (`mtproc.c` and its handlers, `kbus.cpp`, `kdev.cpp`, `hal_init()`)

Frames may arrive as soon as the serial interface is open, while the main
thread is still setting the pointers their handlers use.  `StartUp` is the order
of the main thread's steps; `MT_..CommandProcessing` are the handlers of the
table; `LogTest`, `LogTake`, `LogAdd` are the two loggers; `Refresh` ... `Sleep` the
commit thread, which writes the log to a file and empties it.

A frame's signal may end a wait for the file's semaphore (`LogInterrupted`,
`CommitInterrupted`), of a logger or of the commit thread; the semaphore then
counts one too many for good, and two may be at work from then on.  Two at once on
one object make its contents open, jansson's array being no structure for two
threads: `raced` are such objects until the commit thread resets them with nobody
beside it, `spoilt` the entries that were in one, which may be lost, written twice
or end the process (`Ruined`).  `EachOnce` says that without an interrupted wait
nothing is lost or written twice, and that afterwards the harm does not go beyond
those entries; `LogsWritten` that it does not last.

* `dispatch`: two frames of any kind at any time, one poll for the
  coordinator's state.  Two frames are enough for one that logs beside another
  or the main thread while the commit thread writes.  Fairness: the commit thread
  runs, and while the main thread or one of a frame can go on time and again, one
  of them does at last (`sem_wait()` of threads that each hold it for a moment); no
  signal need come.

A frame may meet a pointer that is not set (`fault = "null"`): an incoming message
before `aps::init()` has run, since the table has its entry for AF from the
start, although the comment at `mtproc.c:73` says it is filled later.

### 3.9 Interfaces (`restful.cpp`, `localintf.cpp`, `remoteif.cpp`, `connections.cpp`, `widget_manager.hpp`)

The local and the remote thread both call `handleRESTful()`.  `GetContext`,
`SetContext`, the handler, `Respond` are the steps between which the other thread
may touch the same Context (`put`, `ans`); `ReadRegistry` and `WriteRegistry` the
handler of the registry; `SignIn..` the one of the sign-in; `Connect` and `Retry`
`sslCliConn`'s attempts, each of which may lose a descriptor (`fds`).

* `interfaces`: three mixes of requests (`MCMixes`): two registrations and a
  DELETE of both; the sign-in, its removal and a status; requests that meet
  while the vector of Contexts grows.  A request may be made any number of
  times, by either interface.  `mixed`, `dangling` and `torn` mark what two
  requests at a time can do to each other, and an erasure that skips the entry
  after it.  Fairness: threads run; the server can be reached time and again.

`Erased` are the entries a DELETE erases: its loop steps past the one that takes
the place of an erased one, so of entries in a row that match it erases the
first, the third, and so on.  `Keep` (module `Lists`, shared with `Peers`) is the
list without them.

A silent client of the local socket blocks the local thread for ever: that
clients send what they announced is an assumption of `EveryoneAnswered`.

### 3.10 Codec and Peers (`mtaf.cpp`, `aps_afmessage_impl`, `mtsys.cpp`, `mtutil.cpp`, `zdo.cpp`, `kutil`; `apsdb`, `aps_object_models_impl.hpp`)

`Codec` holds pure operators on sequences of bytes: the layouts of the four
kinds of AF messages, the frames with their check, the answers to the commands
the host uses, the descriptors and their text in the archive.  `line` is one use
of them, from one end to the other.  `Peers` is what the objects become when these
arrive: applications ask for endpoints (`NewEndpoint`, `Describe`), devices are
recovered or announce themselves (`Recover`, `Announce`), list and describe their
endpoints (`ListEndpoints`, `SimpleDescRsp`) and leave; `told` remembers which
applications `NewJoin` was triggered for, `uri` the device pointer each URI handler
holds.

* `peers`: two devices that change address and descriptor, three applications
  that all ask for the first of two endpoints, a stray message for the second;
  one device in the archive.  Every conversion once, at lengths on both sides of
  every limit (`MCAsduLens`), beside the first state: they share nothing with the
  objects.  `HighFirst` is the order in which the compiler evaluates the two
  `*psrc++` of `hexStrToByteVec()`, which the language leaves open: `TRUE` is
  the one with which the program works at all.

The theorems about `Peers`, and `DescriptorCorrect`, therefore have `HighFirst` as
their hypothesis: read the other way round, the archived answer does not list the
endpoint it was saved for.

`CodecSpec` is the specification of the conversions alone, which the theorems are
about; every step of the run either is one of its steps or leaves `line` alone.
Four theorems state what the conversions do by themselves, whoever uses them:
`IntKept` (as many bytes as a number fits into give it back), `SplitKept` (fields
of any widths, joined, are taken apart at the same places), `SentKept` (a command
with at most 252 bytes of data is heard as it was meant: 252 is what the count of
the check, one byte that includes length, type and id, leaves) and `HexKept` (the
round trip through hexadecimal text, for any number of bytes).  The properties of
the run follow as `FrameKept`, `AnswerKept` and `DescriptorCorrect`.

### 3.11 Json (`kapi/source/kjson.cpp`)

`cell` is jansson's heap, `wrap` the wrappers.  `Open`, `Index`, `Assign..`, `Erase`,
`Close` are the operations of one document, down to `json_decref()` (external:
`Decref`).  `overwritten` marks the first use that the wrapper is not made for:
assigning a value of another type to an element that holds a counted one, or
erasing an element before others that have wrappers.

* `json`: four values, three wrappers, arrays and objects of two elements,
  every sequence of operations.

What is below a value, and under a wrapper, is the least set closed under
containment (`Closed`, `Under`), not a recursion: so it can be proved about.

Such uses exist: `widgetRegistry()`'s DELETE without parameters, and the second
match in `widgetLoad()`, overwrite an array or an object, whose reference
`reset()` (`kjson.cpp:365`) then gives up twice.

## 4. Proofs

Every theorem holds for all values of the constants that satisfy the named
assumptions of its component's module:

* `DataService`: `ConstAssumption`, a finite set of callers and a positive
  modulus.
* `MtChannel`: `NoneAssumption`, the unset pointer is no call, command or thread;
  `CallsAssumption`, finitely many calls.
* `KLock`: `ThreadsAssumption`, finitely many threads.
* `Flash`: `ImageAssumption`, at least one chunk.
* `Json`: `JsonAssumption`, the counted values, the two others and the unset
  pointer are distinct, and so are a key and an index; the root is a wrapper.
* `Interfaces`: `InterfacesAssumption`, there is a descriptor to lose, and the
  requests are for URIs that have a handler.
* `Peers`: `PeersAssumption`, the endpoints applications ask for, the fallback id
  and those of devices and stray messages are bytes, the fallback above the ids
  `newEndpoint()` tries; the archive's entries are of devices and descriptors there
  are; the unset value is none of these.  `HighFirst` is a hypothesis (§3.10).
* `Codec`: `CodecAssumption`, lengths of asdus and the 16-bit integers are below
  65536, an uninitialised byte is a byte, and a descriptor's fields fit the widths
  they have in the frame, its two lists of clusters the one byte each is counted
  in: no device can describe another.
* `Dispatch`: `DispatchAssumption`, the main thread is no frame and the number of
  polls is a number.
* `SerialRing`: `RingAssumption`, the ring has room, bursts and bytes are numbers,
  the stream is finite; `StreamAssumption`, every frame is whole, in one piece and
  as long as its length byte says, and noise between frames has no byte that
  starts one.
* `DeviceArchive`: `ConstAssumption`, the unset address is none a device has,
  each device has a low half, a file that does not parse is no file that does.
* `Supervision`: `SupervisionAssumption`, a count has more than two values;
  `InodesSuffice`, there are more inodes than processes that hold one open.

| Module | Inductive invariant | Why the strengthening is needed |
|---|---|---|
| `DataServiceProofs` | `BaseInv`: `TypeOK`, `CountExact`, `CallerInv`, `CallsDiffer`, `RcvrInv` | the list is as long as there are callers inside only if no call is made twice and a busy receiver holds `buffer__Mutex` |
| | `OrderInv`: `RegistryExact`, `CallbackInsideRequest`, and without overtaking `Onto`, `WaitInv`, `WakeupComing` | handles and linked nodes correspond one to one; no wake-up is lost for the caller that is still testing `rdy` either |
| `MtChannelProofs` | `BaseInv`: `TypeOK`, `TurnsCounted`, `CrowdInv`, `MutexInv`, `SentInv` | who is inside is counted, and of two who are inside each is in the crowd: so a call outside it is alone from `sem_wait()` to `sem_post()`, however high the semaphore |
| | `PromptInv`: without a late response `InTime`, `Pointers`, `Handling`, `FrameInv`, `Unheard` | for a call outside the crowd the shared pointers name it at every stage of its response |
| | of `Flash`, `FlashInv`: `FlashTypeOK`, `AcceptedGood`, `Budget` | the answered commands are determined by the retry counters |
| `KapiProofs` | of `KLock`, `IInv`: `TypeOK`, `GateInv`, `LockInv`, `TokenInv`, `CountExact` | a thread may carry `exLock` for the shared owners without being counted yet |
| | of `Json`, `JsonInv`: until `overwritten`, `Tree` (`HeapOK`, `KidsUsed`, `OnePlace`, `Rooted`) and `WrapsOK` (`RootOK`, `Leads`, `OneWrapper`, `UnderRoot`) | a value that is given up takes nothing along that others hold only if no value is in two places and each is below the root; and no wrapper is left leading into it only if the wrappers form a tree as the values do |
| `DispatchProofs` | `IInv`: `Types`, `InPlace`, `LogInv`, `SemInv`, `RaceInv`, `SpoiltInv`, `Numbered`, `OnceInv` | the order of the start-up decides what is in place when the commit thread walks; a thread numbers its entries downwards, so none is logged twice; until a wait is interrupted one at most is past the semaphore, and afterwards an object that the commit thread shares with another is raced |
| `SerialRingProofs` | `IInv`: `TypeOK` with `len <= Size` while nothing overran, `RingExact` | a read may wrap, so the positions it writes are shown to be none of those that wait |
| | `FramesInv`: `OrderInv`, `Edge`, `PacketInv`, `OneEach`, `DeliveredInv` | the ring holds a stretch of the stream in its order, and what is gone ends where a frame ends: so the byte an assembler takes for a start is one, and no later frame overlaps what is delivered |
| `SupervisionProofs` | `IInv`: `TypeOK`, `FileInv` (`LockInv`, `FdInv`, `HolderInv`, `NameInv`), `BeatInv` | a lock is held through a descriptor that is still open, from `flock()` on: hence no other process writes the number in between |
| | `WatchInv`: `NumberInv`, `FreshInv`, `OneInv` (`AloneInv`, `CountInv`, `LookInv`, `SeenInv`, `QuietInv`) | with one gateway at work, the count in the file is that of the process the watcher knows, so what it remembers, what it reads and how long it has tolerated determine each other |
| `DeviceArchiveProofs` | `IInv`: `TypeOK`, `ChangeInv` (`StaleInv`, `SoleInv`, `CopyInv`, `FieldInv`, `CutInv`, `MixedInv`) | a change that none overlaps is the only one in progress, and its copy has all that was saved; who shares an open file is stale, so what a mixed write leaves was never recorded as saved |
| | `TableInv`: `NamingInv`, `OneObjectEach` | between lookup and naming an object has no address yet: what it is about to get must be no other's |
| | `LeftInv`: `LeaverInv`, `NobodyInv`, `ErasedInv`, `UnlistedInv` | while the leave request still has to read the file, the entry is there and in other copies |
| `InterfacesProofs` | `IInv`: `TalkTypes`, `ListTypes`, `OwnInv`, `TwinInv`, `FileInv` | a Context that is not shared names its owner at every stage; every list under way is free of twins by itself, and is the file's as long as no other request overlapped |
| | of `Peers`, `PeerInv`: `PeerTypes`, `LocalsInv`, `DevicesInv`, `NewsInv` | an application told of an endpoint is one whose own endpoint still has its descriptor, which needs every given id to have an entry and each application, or one it shares its id with, to be in the list before the first device is known; and what is told of a device must hold in every object, listed or free, for a reused one to start with nothing told |

`Codec`'s properties are about one use of the line at a time and need no
strengthening; what they need is what the recursive functions and the folds of its
operators compute, for sequences of any length.  The library's induction takes the
induction hypothesis as an operator, so `AllNumbers` takes it as a set: a set of
numbers that has 0 and each successor has all, because a set without a least
element is empty (`MinIn`).  From it come the values of a recursive function on
`0 .. n` (`Recursion`), of the folds as a row of partial results (`Folded`,
`FoldedLeft`), and then, one after the other,

* what a number is made of: `HighPart`, `IntKept`;
* where a field stands in a sequence: `Has` and what is said of it (`HasFound`,
  `HasInside`, `HasMore`, `JoinParts`, `SplitKept`);
* a frame whose check is right: `CmdFCSCal()`'s sum of eight bits is a byte and the
  same on both sides (`CheckByte`, `SentKept`);
* a message object: each setter leaves the fields it does not set, whatever the
  order they are called in (`SetterKept`, `ObjectHas`), so what is built holds all
  of them at the layout's places, which do not overlap (`Apart`), and the frame
  carries them (`AfHeard`, `ExtHeard`).

Each proof has one lemma per group of actions, the temporal step last.
`DataServiceProofs`, `MtChannelProofs` and `KapiProofs` (of `KLock`) prove `Refinement`: the
abstract specification is implemented (without overtaking, without a late
response for the calls that have their turns to themselves, and always,
respectively).

Only model-checked: the liveness properties, which need fairness and ENABLED, and
the counterexample of `one_gateway`.  The `TypeOK` of the proved modules, and
`CountExact`, `Exclusion`, `CallbackInsideRequest` and `TriesBounded`, are proved and
no run lists them: TLC checks what implies most of them instead.

## 5. Not modelled, and why

* `mtSend()` with neither buffer nor callback (fire and forget) returns at once
  and shares nothing; a callback is never passed to it; unsolicited messages do
  not pass through the channel.
* `SerialSend()` and the terminal's settings: no state.  Two writes at once, after an
  interrupted wait for `serial_send_sem` (`mtintf.c:186`), are commands whose bytes
  may mix on the line: to the models they are commands the coordinator does not
  answer.
* Interrupted waits for `klock_c`'s semaphores (`kutil.cpp:273-333`): after one the
  lock excludes nobody for certain, and the one loop it guards, in
  `nodeSnapshot()`, has the race of the next item already.  `sb_callback()`'s
  semaphore (`serial_bootload.cpp:161`) guards a copy of the message that nobody
  reads.  `kbAddInt()` and `kbSetRefresher()` (`kbus.cpp:256`, 331) are called by nobody.
* Races within `forward_list` when two threads insert at once (`find_if`), and
  between `nodeSnapshot()`, which walks the devices under the shared lock, and
  the code that inserts and removes them without the exclusive one: the table
  is a set, and each operation on it one step.  The same holds for the map of
  notification handlers and the vector of Contexts' growth within one call.
* Plug-ins: they are not in the repository.  One that makes a request from its
  `NewJoin` handler runs inside a data-service callback and waits for the mutex
  its own thread holds (`apsdb.cpp:228`).
* The remote link's ping intervals, its broken-link flag and the replacement of
  its socket: they decide how often something is sent, not what becomes of it.
* The extended data service's requests are made by plug-ins only; the code is
  `DataService`'s.
* The node descriptor: its fields are never read, and its parsing has undefined
  behaviour (`pasdu += f(++pasdu)`).
* `krpc.cpp` is commented out; Base64, tar and the UNIX socket's helpers are pure
  input and output.

## 6. Observations made while modelling

What the models show, or what was met while writing them, that no run of its own
is about.

* A comment in `startZDO()` (`zdo.cpp:300`) speaks of one simultaneous ZDO
  request; what limited them is commented out, and nothing else does.
* A chunk of the image that reads back different is read again in the next
  rounds but never rewritten (`serial_bootload.cpp:280`).
* `kappaio.cpp:162` prints that the flashing was successful also after a failure
  at 158.
* Unanswered writes are not counted by the retry counter whose message (311)
  speaks of failed ones.
* An announcement served before the recovery replaces a file that does not
  parse, so that the recovery does not notice the loss; one that is being saved
  during the recovery can make it wipe the archive and the coordinator's
  network.
* `removeAssoc()` takes a short address and destroys every device that has it.
* No callback looks at the status in a descriptor response, nothing reads
  `active`, and nothing calls `refreshDevice()`.
* The message at `zdo.cpp:238`, "Bad/nonexistent archive file, now
  re-initialize...", covers a file that does not parse, not one whose entries are
  incomplete (§3.6).  A descriptor of length zero is saved as an uninitialised
  string (`zdo_archive.cpp:106`), whose size `apduLength << 1 + 1` is four times the
  length, not twice and one.
* AF messages of more than 242 bytes (231 for extended ones) get a frame with a
  wrong check: `CmdFCSCal()` counts in a byte.  An extended request is sent one byte
  too long, and the length of an incoming extended message overlaps its first
  byte; `AnswerTrue` leaves that length out.
* `hexStrToByteVec()` runs twice as long as the text and appends what lies behind
  it; its callers read only what the first half holds.
* `mtUtilGetAssocCount()` sends a second byte that nobody set.
* A snapshot's `outClusterCount` is the count of incoming clusters.
* A device is shown as paired as soon as an application has its profile, whether
  or not any application was told of it.
* A message for an endpoint nobody asked for creates it, so that the application
  which asks for it later gets another; applications beyond the capacity share
  id 241, whatever they describe.
* A URI handler keeps its `Device*` (`apsdb.cpp:205`) after the device has left.
* A DELETE of registrations skips the entry after each one it erases
  (`widget_manager.hpp:82`).
* A connection attempt that times out loses its descriptor and the address list
  (`connections.cpp:147`).
