# Verification of pipedal_p2pd and libcotask

TLA+ modules, TLC runs and TLAPS proofs about pipedal_p2pd, the daemon that
manages Wi-Fi P2P groups for PiPedal, and about libcotask, the coroutine library
it is written with. Paths below are relative to the repository's root, `src/`.

The first part of this file is the inventory of the system, the second the plan,
the rest describes what is there: modules, runs, proofs, assumptions and limits.

## 1. The system

### libcotask (`src/lib`)

| Part | State | Operations | Talks to |
|---|---|---|---|
| CoService (`cotask/CoService.h`) | `serviceState`, `hasTimeout`, `exceptionPtr`, `timeoutRequested`, the suspended handle; one static `serviceStateMutex` | `await_suspend`, `OnRequestTimeout`, `OnExecuted`, `OnResume`, `OnTimedOut`, `Resume`, `await_resume` | calls `Execute`/`CancelExecute` of its implementation; timers and handles go to the dispatcher |
| CoConditionVariable (`CoEvent.cpp`) | list of awaiters, `ready`, `deleted`, a mutex | `Wait`, `Notify`, `NotifyAll`, destructor, `Test`, `Execute` | a wait is a CoService |
| CoMutex, CoLockGuard | `locked`, a condition variable; the guard's `pMutex` | `CoLock`, `Unlock` | condition variable |
| CoBlockingQueue | item list, `closed`, two condition variables | `Push`, `Take`, `Close`, `IsEmpty`, `IsClosed`, destructor | condition variables |
| CoDispatcher (`CoTask.cpp`) | queue of handles, two timer queues, `messagePosted`, `quit`, running tasks | `Post`, `PostDelayed`, `PostDelayedFunction`, `CancelDelayedFunction`, `PumpMessages` (3), `MessageLoop`, `PostQuit`, `SleepUntil`, `StartThread` | one foreground thread; every other thread posts to it |
| CoTask (`cotask/CoTask.h`) | result, `precursor` | `co_await`, `GetResult` | resumed by the dispatcher or by the task it awaits |
| CoTaskSchedulerPool | handle queue, thread lists, `desiredSize`, `threadSize` | `Post`, `Resize`, `ScavengeDeadThreads`, `DestroyAllThreads` | runs coroutines on its threads |
| CoFile, AsyncIo | descriptor, `readReady`, `writeReady`, `closed`, `closing`, `pendingOperations`; the epoll thread and its table of events | reads, writes, `CoClose`, `WatchFile`, `UnwatchFile` | the epoll thread notifies the file's condition variables |
| CoExec | child's id, three files, readers | `CoExecAsync`, `Kill`, `CoWait`, `CoExecute` | CoFile |
| Fifo, Os, Log, exceptions, MessageAwaiter | ring buffer; none | | |

### pipedal_p2pd (`src/pipedal_p2pd`)

| Part | State | Operations | Talks to |
|---|---|---|---|
| WpaCtrl | sockets to wpa_supplicant | open, attach, request, receive | CoFile |
| WpaChannel | two sockets, event queue of 512, request mutex, `closed`, `disconnected`, `recvThreadCount` | `OpenChannel`, `CloseChannel`, `Request`, `ReadEventsProc` (pool), `ForegroundEventHandler` | CoBlockingQueue, CoMutex, WpaCtrl |
| WpaSupplicant | `open`, `wpaConfigChanged` | `Open` with retries, `Close`, `KeepAliveProc`, requests | WpaChannel |
| P2pSessionManager | groups, enrollment record, `connectedStations`, the event waited for | `OnEvent`, group start, `ScanProc`, `EndEnrollment`, `CloseGroup` | WpaSupplicant, P2pGroup, DnsMasqProcess |
| P2pGroup | its own channel, ping process | `OnEvent`, `PingProc`, `TerminateGroup` | session manager |
| DnsMasqProcess | `running`, readers' count | `Start`, `Stop` | CoExec |
| main, RestartCounter | signal flags, count in `/tmp` | session loop, restart | all |
| events, messages, configuration, command line, printing, DNS-SD records | parsing and formatting | | |

### What is hard in it

* One dispatcher runs foreground coroutines one at a time, but result callbacks,
  pool threads and the epoll thread come in between at any point; the code
  synchronises with a handful of short critical sections and leaves windows
  between them (the callbacks of `Notify`, the timer function between its queue
  and its execution, the notification that follows a `Push`).
* Every wait may end three ways (result, timeout, destruction), and the object
  that is waited for is in the frame of the coroutine that is resumed.
* The end of a task and `co_await` on it are several steps of two threads without a
  lock; a frame may be freed by whoever sees `done()`.
* The daemon pumps messages from inside coroutines, destructors and event handlers.
* The pool is resized, scavenged and destroyed by the foreground thread while its
  threads come and go on their own.
* Shutdown joins coroutines that may be the ones that shut down; opening and
  starting are retried after partial failures.

The list of what can go wrong, line by line, is `hazards` in PROJECT.json. The
properties that make each part correct:

* CoService: resumed once, nothing refers to it afterwards, the outcome is true,
  no wait is lost.
* CoConditionVariable: resumed once, no lost or spurious wakeup, no lost token; two
  threads do not wait for each other's mutex.
* CoMutex: mutual exclusion, FIFO, no stranded awaiter.
* CoBlockingQueue: a bounded FIFO; nobody waits for what is there; a call that
  fails moved nothing; closing lets everybody go.
* CoDispatcher: everything posted runs once, timers in order, cancelled means
  never run, the thread sleeps only if idle, quitting ends the loop.
* CoTask: every awaiting coroutine is continued, no frame is freed under a thread,
  every task ends. Pool: no handle waits while a thread sleeps, the number of threads
  becomes the desired one, nothing uses the pool once it is destroyed.
* CoFile: readiness is not lost, no call is made on a number that is another's, the
  kernel holds no pointer to an event that was freed, closing ends every operation.
* WpaChannel: an answer goes to whom it is for, an event through the queue once and in
  order, nothing is left of the channel when it is closed; opening and closing end,
  and the death of wpa_supplicant is noticed.
* Session: the end of the last group ends it, searching is off while a station is
  connected, it closes. Processes: `Stop` leaves none behind. Restarts: dhcpcd is not
  restarted without end.
* Conversions: what is written is what is read again, where the code promises it.

## 2. Plan

Done, in this order: `ServiceStates` and `CoService` (everything waits through
it), `CoConditionVariable`, `CoMutex` (with the abstract `FifoLock`),
`CoBlockingQueue` (with the abstract `ClosableFifo`), `CoDispatcher`,
`CoTaskSchedulerPool`, `CoTask`; then `AsyncIo` and `CoFile`; `WpaCtrl`,
`WpaChannel` and `WpaSupplicant`; `DnsMasqProcess`, `P2pSession` and `Daemon`; the
conversions, in a module for each. Proofs: `CoService`, `CoMutex` with its refinement,
`CoTaskSchedulerPool` and the restarts of dhcpcd; then `CoBlockingQueue` with its
refinement, the session, `CoFile` and `CoConditionVariable`; then `CoTask`,
`CoDispatcher` and the channel to wpa_supplicant. With these every safety property of
the runs of a concurrent component is proved.

Open:

1. Instances: a wpa_supplicant that is started again while a channel is open
   (`MaxServers = 2`, which takes five minutes; the proofs have any number of lives).
2. Proofs: the printer's lines, with the induction written out as in ListLemmas.

## 3. Modules

```
ServiceStates <- CoService              <- MCCoService, MutexAndService_proofs
              <- CoConditionVariable    <- MCCoConditionVariable, CoConditionVariable_proofs
FifoLock      <- CoMutex                <- MCCoMutex, MutexAndService_proofs
ClosableFifo  <- CoBlockingQueue        <- MCCoBlockingQueue, CoBlockingQueue_proofs
                 CoDispatcher           <- MCCoDispatcher, Scheduling_proofs
                 CoTaskSchedulerPool    <- MCCoTaskSchedulerPool, Scheduling_proofs
                 CoTask                 <- MCCoTask, Scheduling_proofs
AsyncIo       <- CoFile                 <- MCCoFile, CoFile_proofs
WpaCtrl       <- WpaChannel    <- WpaSupplicant <- MCWpaSupplicant, WpaSupplicant_proofs
DnsMasqProcess <- P2pSession   <- Daemon        <- MCDaemon, Daemon_proofs
ListLemmas    <- CoBlockingQueue_proofs, CoConditionVariable_proofs, Scheduling_proofs,
                 WpaSupplicant_proofs, Daemon_proofs
P2pUtil  <- WpaEvent, WpaResponses, Configuration, CommandLine, ServiceRecord
         <- Conversions <- MCConversions   (also over Fifo, LineReader)
Fifo     <- Scheduling_proofs
```

Variables and operators have the names of the code's members and functions. The
modules that a proof module extends together have a prefix where they would say the
same (`MutexSpec`, `ServiceSpec`, `PoolInv`, `poolFg`, `postedHandles` of CoTask,
`PostToPool` and `PooledHandles` for the pool's `Post()` and its handles).
`map` in PROJECT.json gives the lines of each definition. Operators marked "a
mutant" are wrong variants of the definition that follows them; no specification
uses them.

**ServiceStates** translates the four entry points of `CoServiceBase` into pure
functions from state (and the answers of the two cancel calls) to state.

**CoService** lets any number of services run that machine. One step is one
critical section of `serviceStateMutex`. `execPc` is the home thread inside
`await_suspend()`, `workPc` the implementation's work and callback, `timer` the
function in the dispatcher's queue; `fg` makes the foreground thread do one thing
at a time, which is what separates foreground services from those of the pool.
The implementation is the most general one that keeps the header's contract. The
window between posting the timer and setting `timeoutRequested` is a step.

**CoConditionVariable** replaces the contract by the real `Execute` and
`CancelExecute`. Its steps are what happens between two acquisitions of either
mutex; a mutex has an explicit holder only where a thread holds it while it
acquires the other. The condition is a number of tokens (the lock of a mutex, an
item of a queue) and a flag that makes the test throw, which covers every test
the repository uses. `use`, chosen initially, says which waits there are, which are on pool threads,
which have a timeout, which notifiers have a thread of their own, and whether the
waits have a test. Uses with timeouts and notifiers on threads of their own are the
daemon's: `CoSend` and `CoRecv` wait on the foreground thread (`WpaCtrl.cpp:321,329`), and
the epoll thread notifies them (`CoFile.cpp:59-72`). A `CancelExecute` that meets a notifier
which has taken the awaiter off its list believes it cancelled (`Cancelled`, `TooLate`).
`Destroy` assumes of its caller what the header asks.

**CoMutex**, **CoBlockingQueue** take an operation on a condition variable as one
step, as its mutex makes it, and keep the steps between operations: the time
between a test that succeeds for a client and the moment its coroutine runs
("granted"), and between the two halves of `Close()`. `RemoveAwaiter` removes the
first matching entry of a list, as the code's loop does. In the queue a client's
timeout may fire while it is suspended (`TimedClients`), and also after a test has
succeeded for it until the notifier, if that is on another thread (`Background`), has called
it back: those that may meet this are `unsettled`, those that did are `raced`.

**CoDispatcher** has the three queues, the two-step posting (change, then
`PumpMessageNotifyOne`), `PumpMessages()` with its fixed `now`, and three drivers,
one of which `program` chooses: `MessageLoop()`, one call of
`PumpMessages(timeout)`, one of `SleepUntil(time)`. Handlers may call every posting
operation. The choice among coroutine timers of equal time is free, as in a
`priority_queue`.

**CoTaskSchedulerPool** has the threads of the pool, each looking into the queue,
asleep, in a coroutine, or on its way out, and the foreground thread that resizes,
scavenges and destroys. A step is a critical section of `schedulerMutex`;
`ScavengeDeadThreads()`, which takes the other mutex, is two, and a `push_back()` in
between has three outcomes: the new entry is lost with the others (a thread object
that is never deleted), `resize(0)` is, so that threads that were deleted stay on the vector
(`undead`), or the vector moves under the loop. Where the foreground thread would delete a
thread again, or reads the old vector, it is "lost" and the model stops. `wait()` may return
spuriously. Thread objects and handles are used again after they are deleted or
taken.

**CoTask** has a stack of running coroutines for each thread, since a call runs the
new coroutine at once and `GetResult()` pumps on top of its caller. The end of a
task (done, precursor read, precursor resumed) and `co_await` (`await_ready()`,
`await_suspend()`) are steps of their own, on any two threads: as `ReadEventsProc()`
(`WpaChannel.cpp:242-304`), tasks end and are awaited on the pool. What comes into the
windows between these steps is taken, and remembered: `tooLate` are the coroutines that became
the precursor of a task that had looked for one, `tooSoon` the frames that were freed
before they were read. Whatever else suspends a coroutine (`CoForeground()`,
`CoBackground()`, a delay, a service) is a hop to one of the two queues.

**FifoLock**, **ClosableFifo** say what mutex and queue promise.

**AsyncIo** is the epoll thread with its table of events, and the kernel: descriptor
numbers, of which a new one is the lowest that is free; the interest list, where an
entry belongs to the open socket but is removed by its number; edges, reported once.
The event of a reported entry may have been freed, because callbacks are not made under
`epollMutex`. What that call does is undefined: `UseAfterFree` ends the process, and
`Callback` runs as if the event were there.

**CoFile** composes the files of a program with it: attaching, socket pairs for a child
process, reads and writes of the four kinds, `CoClose()` step by step, the destructor
(a `Close()`, then `DeleteBegins`). A pair for a child is made by a coroutine that detaches
its end before it closes it. `program` says which operations there are, which are
timed, what the peers do. A step is what happens between two acquisitions of a mutex
or two system calls; the callback of the epoll thread is two, for `readCv` and `writeCv`.
A timeout that meets the notification of its wait resumes the operation twice
(`ResumedTwice`): the process ends, or it is as if one of the two had not been. Closers are on
the thread of the timers, so that only the epoll thread can meet one.

**WpaCtrl** has the two datagram sockets and wpa_supplicant itself, which answers in its
own time, may die, and may be started. **WpaChannel** adds the request mutex, `Request()`
and `ListSta()` with their timeout, the reader of events with the bounded queue, the
event handler, opening and closing. **WpaSupplicant** adds the retries of `Open()`, the
keep-alive, and callers that make one request after another.

**DnsMasqProcess** is `sudo dnsmasq` (two processes, since signals go to the first one),
the two readers, `Start()` and `Stop()` on CoExec. A reader that ends by an exception
does not count itself out, and does not keep `Stop()` waiting either: it was given to
`StartThread()`, and the dispatcher that finds it ended, which pumps while `Stop()` waits, terminates
the process (`CoTask.cpp:617-621`; `ReaderThrows`). **P2pSession** is the session: `group`
is the coroutine of each group, `active` is `activeGroups`, on which a group stays
while `erase()` deletes it, unless it is the last, and while the list is emptied (`Dangling`,
`Emptied`; who changes the list or looks at the group meanwhile crashes), `find` the scanning and the
stations, `stack` who pumps messages on top of whom: a coroutine that waits by pumping
does not go on before those above it have returned. A group whose channel does not open, or
opens by half, is closed again (`undo`), which pumps. **Daemon** adds the end of
`CoMain()`, `RestartCounter` with its file, a crash of the session or before the restart is counted,
and the next life of the process.

**The conversions** are operators on sequences of characters. A word in which the code
never looks at single characters counts as one. `Conversions` runs them: a job has what
it is given and what has become of it, and a job on a structure (a record, a ring, a
reader of lines) is a sequence of calls.

## 4. Runs

Sizes are distinct states. No symmetry is used.

| Run | What it shows | Bounds | States |
|---|---|---|---|
| service | `ServiceSafe`: a service is resumed once, with a true outcome, nothing refers to it afterwards; `WaitEnds`; `AllServicesInv`, the proof's invariant | a foreground service, and a pool service that may ask for a negative timeout | 7666 |
| cv | `ResumedOnce`; `Wakeups`: none is lost or spurious, no token is lost; `WaitEnds` | 3 waits, 3 operations, all on the foreground thread, 2 waits timed and 1 negative, or on several threads without timeouts; 2 waits, 3 operations, timed waits on the foreground thread and on the pool, notifiers on threads of their own; with tokens or with `ready`; or a negative timeout on the pool | 242943 |
| mutex | `MutexSafe`: exclusion, no stranded awaiter; `ImplementsFifoLock`; `EveryWaitEnds` | 5 clients | 1056 |
| queue | `NoLostNotify`, `OwnershipIsClear`, `ImplementsFifo` (refinement of `ClosableFifo`), `QueueMoves` | 2 pushers, 3 takers, a closer, 2 slots; a pusher and a taker time out, the other pusher and the closer are on other threads | 237814 |
| queue_timeout | (violation) `CallerKeepsOwnership` | as queue; a pusher times out, a taker is on another thread | |
| dispatcher | `NothingIsMislaid`: nothing lost, true cancellation, sleep only when idle; `PumpsTruly`; `TimersInOrder`; `EverythingEnds` | each driver with three things to run, two delays, a poster and the handlers, clock to 3 | 284449 |
| pool | `PoolInv`: work and resizings are seen, a thread remains, nothing uses the dead; `HandlesRun`; `DestroyEnds` | 4 threads, 2 handles, sizes 1 to 3, 3 resizings | 152436 |
| task | `Safe`: nobody is left awaiting, no frame is freed in use, but in the two windows; `TasksEnd` | 3 tasks, 2 pool threads, 1 hop each besides those back to the foreground, 1 task that pumps | 80017 |
| file | `NoLostReadiness`, `NoForeignIo`, `NoUseAfterFree`, `CloseEnds` | 2 files on 2 numbers in 4 programs (a command socket with timeouts; two sockets; a socket and a child, reading or writing), 1 closer, 2 watches, 1 unit in each direction | 196601 |
| wpa | `AnswersMatch`, `EventPipeline`, `OpenAndCloseEnd`, `DeathIsNoticed` | keep-alive and a caller, 3 requests, 2 events, 1 server that may start late and die, a queue of 1, 2 tries to open | 189732 |
| daemon | `GroupsAreTracked`, `PassiveWhenConnected`, `NoOrphan`, `DhcpcdRestartsAreBounded`, `ShutdownEnds` | 2 groups, an event of any of 7 kinds and then one of 2 kinds (`wrong`, `removed`) over all lives of the process, restart limit 0 | 696857 |
| text | `EventSurvivesText`, `SettingsSurvive`, `ResponsesAreRead`, `StructuresAgree` | all inputs up to 2 to 9 characters over those that mean something, 3 entries, 5 pushes, 4 lines | 119346 |

Why these are enough: services share nothing but the foreground thread and the
mutex, and a service of one kind meets one of the other; three waits and three
operations let a list be shortened from its middle while a notification is under
way, and two of each are what a race of a timeout and a notification takes, of which a third
wait is no part; three takers and two slots are the least with which a newcomer overtakes a
waiter while another notification is due; with four threads and three sizes a
thread is on its way out while another is created and a third sleeps; three tasks
make a chain of two continuations, with hops between, and two pool threads let two tasks
end while the foreground thread pumps for a third. Two numbers and two files are
what it takes for a number to be used again while its first owner is still being
closed, and a unit in each direction makes a socket full and empty. With a queue of one,
the reader of events is suspended in `Push()` when the channel is closed; two callers
and a timeout let an answer come to the next request. Two groups and two events are enough for
a group that is removed while another one is being created or deleted, for an event that comes
while another one's handler pumps, and for a crash of which the second life of the process
learns; longer sequences of events, as of a station that comes and goes, are left to the proofs,
which have no bound. The clock ends at `MaxTime`: a timer due there is delivered, later ones are
excepted in `EverythingRuns` by name. `IdleSleep` stands for 1000 ms, `Delays` for the
delays used. The words of the conversions have `WordSize` 1000 instead of 2^32, and an
entry of a TXT record 8 characters instead of 256.

Deadlock is checked in service, cv, mutex, queue and dispatcher. The others stop in the
end: the pool is destroyed, tasks have all ended, files are deleted, the channel is
closed, the process is gone for good, a job is done.

### Disagreements found

The run queue_timeout ends in a violation, and `findings` in PROJECT.json quotes what
the header says. `CancelExecute` (`CoEvent.cpp:137`) looks at `this_`
without the mutex and believes a wait cancelled whose awaiter a notifier on another
thread has taken off the list. Where the timeout comes before `OnExecuted()`, what
the test took is lost: the item of a `Push()` that threw is in the queue. The daemon's
`CoSend` and `CoRecv` are waits of this kind.

These are stated as properties too, and TLC refutes each when the cfg of the run
names it as an invariant; the passing properties claim nothing of these cases.

| Formula, run | What the repository says | What happens |
|---|---|---|
| `NoInvalidState`, cv | tests and decisions are safe "against concurrent calls to Notify(), Wait(), or timeouts" (`CoEvent.h:113`) | the same race: timeout and notification both resume the wait, and the second finds a state it does not expect, or no awaiter |
| `NoLockCycle`, cv with `Uses <- MCCrossingUses` | the same; a passed timeout is "possible if executing in the thread pool" (`CoService.h:333`) | a negative timeout on a pool thread locks the variable's mutex and then `serviceStateMutex`, a cancellation the other way round |
| `PrecursorIsUsed`, task | the precursor "will be used to continue working from where we left off" (`CoTask.h:401`) | a task that ends on another thread between `await_ready()` and `await_suspend()` does not continue the coroutine that awaits it |
| `DoneIsDone`, task | a task that is `done()` "has no outstanding work" (`CoTask.h:331`) | a frame is freed between `done()` and the reading of the precursor in it, as `ScavengeTasks()` may do to `ReadEventsProc()` |
| `SizeIsReached`, pool | `SetThreadPoolSize(5)` makes the size 5 (`CoTaskTest.cpp:221`) | a pool that grows before the last reduction is over stays small |
| `ReclaimedOnce`, pool | messages are pumped "for the dead threads to be reclaimed" (`CoTaskTest.cpp:227`) | a `push_back()` that meets `resize(0)` puts threads that were deleted on the list again; the next `ScavengeDeadThreads()` deletes them again |
| `EscapesSurvive`, text | the escapes `\r \n \t \" \\` (`ConfigSerializer.h:48`) "are supported" (`main.cpp:125`) | `DecodeString()` writes an escaped character twice (`ConfigSerializer.cpp:163`), and `EncodeString()` does not escape the end of a line |
| `EndOfFileIsReported`, text | `CoReadLine()`: "@return false End of file" (`CoFile.h:160`) | it does not empty its buffer at the end of the file (`CoFile.cpp:470`), so that a last line without a newline is returned again and again |

Others have no run of their own. Those that a property of this project would state, and
that the passing runs keep clear of:

* `TypedCoServiceBase::SetResult` (`CoService.h:672`) assigns its parameter to itself, so
  that `ResultIsStored` does not hold. No typed service exists but the documentation's example.
* The guard of a mutex that was destroyed unlocks it (`CoEvent.h:347`): `NoAccessAfterClose`
  of CoMutex does not hold.
* `PumpMessages(timeout)` and `SleepUntil(time)` may sleep over a posted message,
  until their timeout or the next timer.
* Two nested `GetResult()` wait for each other when the outer one's task ends first
  and the inner one's task needs the coroutine below: `Pumpers` has one member.

Those that the models of this repository contain, and that their properties except by name:

* The races above: `raced` and `late` in CoConditionVariable and CoBlockingQueue, `tooLate`,
  `tooSoon` and `crashed` in CoTask, `undead` and "lost" in the pool. In CoFile a timeout that
  meets a notification is `ResumedTwice`, which ends the process.
* An event that was freed may be called back (`AsyncIoLinux.cpp:182`): `crashed` in AsyncIo.
* `CoClose()` closes the number before it unwatches it, and so may take another file off
  the interest list: `stolen` in AsyncIo; `NoLostReadiness` excepts such files.
* `CoWrite()` does not reset `writeReady` when the socket is full (`CoFile.cpp:359`), and
  spins instead of waiting: `CloseEnds` holds because a closed file ends the loop.
* The answer to a request that has timed out is taken for the next one's: `AnswersMatch`
  holds until then.
* An exception in `OnEvent()` leaks the event and ends the handler: `EventsAreKept` excepts it.
* `CoWait()` after SIGKILL, a reader of dnsmasq's output that spins on an unfinished last
  line, and a session that is closed from above the frame of the event handler can each
  hang the end of the session: `Hangs` in Daemon names the three. (A reader that ends by an
  exception is no fourth: it ends the process, `ReaderThrows`.)
* A setting that is empty text where a number is meant reads uninitialised memory
  (`ConfigSerializer.h:123`); the model takes any value (`Memory`).
* Events do not survive printing when they have options (printed without a space before
  them), a priority of ten or more (printed as one character), or a raw request
  (printed twice); settings do not when they have a "#" in them, or begin
  with "'" (or need an escape: see above). A station's name with "=" in it is lost. The TXT query
  of an instance with a "." in its name has one label more than the service. The `IsPrintable`,
  `IsKept` and other premises of the properties of Conversions say this exactly.

And those that were seen while reading, outside the models: `CoExecute()` waits on a local
variable that hides the member which its readers notify; `CoWait()` without a timeout
throws after 100 ms (`CoExec.cpp:107`); `bind()` is retried for ever, since `tries` is not
incremented (`WpaCtrl.cpp:210`); `os::msleep` sleeps microseconds (`OsLinux.cpp:186`);
`RequestOK()` throws `WpaIoException` where `WpaChannel.h:127` says
`WpaFailedException`; `SAVE_CONFIG` is never sent, because P2pSessionManager's
`wpaConfigChanged` hides the one that is set; the delay in `CloseGroup` is given as a point in
time; a TXT entry of 255 characters makes the walks that mask its length byte go on for
ever; `toUint64` does not notice an overflow.

### Fairness

* CoService, CoConditionVariable: weak fairness of the home thread, of callbacks
  under way, of the dispatcher's timers and posted handles: threads that run and a
  message loop that pumps. None for the work itself, nor for notifiers to call.
* CoMutex: clients resumed run on and leave their critical sections, which is the
  caller's part.
* CoBlockingQueue: resumed calls run to their notification, `Close()` to its end.
  None for the calls.
* CoDispatcher: the foreground thread runs unless asleep, a sleep ends at its end
  or when notified, a poster reaches its notification, time passes.
* CoTaskSchedulerPool: a thread that is not asleep runs (the coroutine it resumes
  comes back), and the foreground thread finishes the scavenging or destruction it
  began. None for posting, resizing or destroying.
* CoFile: operations and closers that have begun go on, and so does the epoll thread, with
  strong fairness, because both want mutexes that others take again and again. None for
  peers, nor for whoever opens, starts or closes.
* WpaSupplicant: coroutines go on, delays and timeouts end, an opening goes on or fails.
  wpa_supplicant need not do anything.
* Daemon: the process's own steps; requests to groups are answered or fail, as they time
  out; the readers of dnsmasq's output. Neither sudo and dnsmasq nor events need come.
* CoTask: threads run, the foreground thread pumps and scavenges, as `MessageLoop()`
  does. A task ends because its hops are bounded, except those that bring it back
  to the foreground. None for calling a task.

## 5. Proofs

Each theorem holds for every value of the constants that satisfies its module's named
assumption. Where a component's theorem has a hypothesis besides, it is named here.

**CoService** (in MutexAndService_proofs), for any set of services, any division between
foreground and pool, any set of negative timeouts (`ServicesAssumption`).
`ServiceTypeCorrect` is inductive by itself. The safety properties follow from `AllServicesInv`:
`Phase` says, for each value of `serviceState`, where the home thread, the work and
the timer are. Without it a step cannot know, for example, that in `Executed` a
timer that is not queued is in flight, so that a failed `CancelTimeout` may wait for
it. `Marks` ties `posted`, `hasTimeout`, `exceptionPtr` and `outcome` to the phases.
`ForegroundIsSerial` says that whatever runs on the foreground thread is `fg`;
from it follows that a foreground service is never timed out while in
`await_suspend`, which is the core of `ForegroundResultWins`. There is a lemma per
action, and a lemma for each of the calls that several actions share. The same
invariant is checked in run `service`; `ServiceSafety` states what the run calls
`ServiceSafe`.

**CoMutex** (in MutexAndService_proofs), for any set of clients. `MutexInv` adds to the checked invariants
that after destruction nobody is left waiting, granted or inside, and that only
then anyone is "closed". `Refinement` maps the owner followed by the awaiters to
the line of `FifoLock`: `CoLock` is `Request`, `Unlock` is `Release`, `Destroy` is
`Destroy`, the rest stutters. That the owner is unique, so that `CHOOSE` means it,
comes from `Exclusion`.

**CoConditionVariable_proofs**, for any waiters, notifiers and uses, with no hypothesis: waits
with timeouts and notifiers on other threads are among the uses. What cannot be proved of them
is excepted where it happens, not where it might: `IInv` holds until a wait is cancelled whose
awaiter a notifier will call back (`raced`), and a token is lost only by a wait that had timed out before
`OnExecuted()` (`late`). Both are steps of the model that the run cv has, and
`RacesNeedThreads` says what they take: timeouts, and a second thread; so that
uses without one of these are proved free of them. `IInv` is
inductive until then. `Phase` says for each state of a service where its home thread and its timer are,
and that whoever an operation finds on the list is suspended without a result; `Data` says
which results a state may have; `CallbacksAreTrue`, that a waiter taken off the list is in one
notifier's callbacks, once, with what became of its token. `Threads` ties the foreground
thread and the two locks to those who are where the code has them. The five notifying
operations are one for the proof: each takes the first
`k` awaiters, of which the first `p` have had a successful test (`Takes`), and `TakesKeeps`
says that this keeps `IInv` if the change of the tokens or the flag leaves no wakeup lost,
which each of the five then shows for its `k` and `p`. That the number of tokens is bounded by the notifiers that have begun
(`TokensAreCounted`) is what makes the type inductive. That two threads do not wait for each
other's mutex is not proved, since it is not so (`NoLockCycle`).

**CoBlockingQueue_proofs**, for any finite sets of clients and any length. `Inv` adds to the
checked invariants that the two lists are exactly those who wait, each once
(`AwaitersAreSuspended`), that a taker has an item exactly when it was granted one
(`HandsAreTrue`) and that a queue under `Close()` is closed. `OwnershipIsClear` is part of it:
who is refused or times out has moved nothing, unless a notifier's test had moved it and the
timer came before the callback (`raced`), which only those meet who have been let go and have not
run since (`UnsettledAreWoken`). `NoLostNotify` is a counting, until such a client, which
will notify nobody: takers
wait only if the items are no more than the pushers that have yet to notify. One
lemma per step says that the difference does not grow for takers (`TakersKept`) or shrink
for pushers (`PushersKept`), or that the step wakes somebody. `Refinement` maps the queue to
`ClosableFifo`: a push or take happens when the test succeeds, for the caller itself or for
the awaiter a notifier finds.

**ListLemmas** are what these proofs and the following ones need about lists, most of them
without repetition: what `RemoveFirst`, `SubSeq`, `Append`, `Front`, `InsertAt` do to their
elements, and that a set of naturals has a least element, which `Min` is. (An induction
is such a least counterexample, here as elsewhere.)

**CoTaskSchedulerPool** (in Scheduling_proofs), for any finite set of threads, any handles,
sizes and number of resizings (`PoolAssumption`). `PoolInv`, which run `pool` checks, is
inductive. `CountsAgree` makes `threadSize` the number of threads that have not decided
to go: without it a decrement could pass zero, and a thread that goes because there are
too many could be the last one. `SomeoneRemains` bounds that number from below by the
smallest size asked for, until the pool is destroyed; with it `NobodySleepsOnWork`
survives the departure of a thread that was notified, since a thread goes only when
nobody sleeps through the reduction (`NobodySleepsThroughResize`).
`NothingUsesTheDead` needs `TheDeadStayDead` and `ScavengesAlone`: a thread object is
deleted only by the one scavenging there is, and only after it has left the pool. The
threads that a `push_back()` brings back on the list are excepted by name (`undead`), and
`ScavengesTheDead` says that the foreground thread never deletes from such a list: the step that would
makes the pool "lost".
The theorems about work, resizings, the remaining thread and destruction follow from
`PoolInv`, and so does the type.

**Fifo** (in Scheduling_proofs): the pool's `handleQueue` is a sequence in the model of the
pool, and these theorems are why it may be. What a ring holds (`Contents`) is read from
its head round the storage; for elements of any set and any capacity but 0, `push()` appends
to that, `pop()` returns its head and leaves its tail, and `clear()` empties it, and each
leaves a well-formed ring (`Rings`: head and size in range, and the tail just behind the
last element). The slots differ as long as there are no more than the storage has
(`SlotsDiffer`), so that what is pushed overwrites nothing; and `reserve()`, which pops all
and pushes it into longer storage, keeps the contents (`RingGrows`). A ring of capacity 0
would stay one, as `reserve()` doubles; the pool's has 100.

**CoTask** (in Scheduling_proofs), for any coroutines, pool threads and hops, on any threads.
Between `await_ready()` and `await_suspend()`, and between `done()` and the
read of the precursor, nothing is written down anywhere that would keep another
thread out, and the theorem says exactly what comes of it: a coroutine that is not continued is one
that had made itself known to a task that was done (`tooLate`), and a frame in use that is freed is
one of a task at its final suspend point (`tooSoon`). To show that there is nothing else needs to
know who is on a stack, once, and in what state (`StacksAreDisjoint`, `OnStackRuns`), and that
what is posted is on none (`PostedOnce`). Then a precursor and the task it awaits point to each
other until the task is done (`AwaitedIsOwned`, `PrecursorAwaits`), and a frame that is freed is of a
task that is done (`DestroyedAreDone`), so that nobody else has it.

**CoDispatcher** (in Scheduling_proofs), for any number of things posted at any time by any
number of threads, by handlers, or not at all, each program and delay
(`DispatcherAssumption`). `Queues` is about what is posted: what is in a queue is there
once, and was posted (`ListsAreSets`, `OnlyPosted`), which makes what
`CancelDelayedFunction()` says the truth about one thing; and the list of functions is
sorted (`Sorted`), which `PostDelayedFunction()` keeps as its insertion is in front of the first
entry that is due later, and from which `TimersRunInOrder` follows, as the head of the list is
compared with the heap. `Driving` is about the foreground thread. `SleepsOnlyIfIdle`
survives a post because the poster is in `notifying` from then on; it is established because the
loop, from the end of its pumping to its sleep, has a message posted, a poster about to
notify, or nothing in the queue (`NotMissed`). `AnyIsTrue` says that `processedAny` is whether
anything has run, on which `PumpsOrThrows` rests.

**CoFile_proofs**, for any files, numbers, closers and programs, and for an epoll thread that
does what `AsyncIo` says. `IInv` is inductive, and needs most of its parts for each of the
three theorems. For `NoForeignIo`: a number is its file's until it is closed
(`OwnsUntilClosed`, `OwnsOne`), and `CoClose()` waits for the operations under way, for which
what `OpsLock` counts must be right (`OpsAreCounted`) and a file that is shut has none
(`IdleWhenShut`). For `NoUseAfterFree`: an entry of the interest list has its event, whose file
has the number (`InterestIsTrue`), which another file may take away but never give
(`HandlesAreNew`: a handle is used once, so that what the epoll thread has in hand is never
mistaken for a later one). For `NoLostReadiness`: a file with a number is watched
(`WatchedWhileOpen`), what waits or is about to will be told (`AllAreTold`), and who waits on a
closed file will be woken by its closer (`ToldOfClose`, `ClosersAreAlone`). The two halves of a
callback leave what is still to be reported in the report (`CallbackGoesOn`). After a crash, by an
event that was freed or a wait that was resumed twice, nothing is claimed; no step follows it.

**Daemon_proofs**, for any set of groups and any numbers of events and restarts. The first part is
`DhcpcdIsSpared`, that dhcpcd is restarted at most `MaxCount + 1` times, and once more for
each crash in between. It is no invariant by itself, since the count is in a file that
outlives the process: `FileCounts` bounds the restarts by the number in the file and the
crashes, except while a restart waits to be counted; `CountIsNext` is about that moment:
what `Increment()` will write is at most one more than the file says, and bounds the restarts.

The second part, `SessionInv`, is about the session, in each life of the process. For
`PassiveWhenConnected`: `SearchIsStopped` follows the requests to
wpa_supplicant from the one that starts a search to the one that stops it, and `HandlerAsks`
says that the event handler has one of its own under way at most. For `NoOrphan`:
`ReadersAreCounted`, that each reader counts itself out once, and only at the end of its
output. For
`GroupsAreTracked`: `HoldersAreTrue` and `HeldByOne` say who has a group in hand (main, the
handler, a posted function, or none), and that the list and the stack of those who pump have
nobody twice; `OneIsErased`, that one group at a time is deleted on the list, with
another behind it, so that `activeGroups[0]` is there; `CountedIsThere`, that a group on whose
channel the handler waits is. `LastGroupIsNoticed` is the theorem's core: a list that has
become empty has ended the session, or is looked at again by who is deleting the last group.

**WpaSupplicant_proofs**, for any callers, requests, events, lives of wpa_supplicant, tries
and retries, and any size of the queue. For `AnswersGoHome`: `Turns` says that
the request mutex is with the one caller that is in a request, the others in its line; `Answering`,
that while no request has timed out at most one is under way, unanswered or as the
one answer in the socket, and that its owner still waits for it. So the answer that a
caller receives is to its own request, although nothing in a message says so. For
`EventsArePassedOn`: `Attaching` says that the event socket holds the answer to ATTACH, then
the events from the next one to be read up to the last one sent; `InOrder`, that those
handled, in hand, in the queue and in the reader's hand are numbered without a gap; `Disposed`, that
all that were read are among these, but for one that met the queue closed, and that what
`OnEvent()` has returned from is deleted; `Threads`, that `recvThreadCount` counts the
coroutines that have not ended, so that `CloseChannel()`, which waits for zero, leaves none.
`Control` and `NotYet` say how far `Open()` and `Close()` are: until `OpenChannel()` has been
through, nobody has used the channel. `Invariance` needs of the constants only that they are
numbers, that there may be a server, and who the keep-alive is (`BoundsAssumption`,
`ChannelAssumption`).

Only model-checked: all liveness (`WaitEnds`, `EveryWaitEnds`, `QueueMoves`,
`EverythingEnds`, `HandlesRun`, `DestroyEnds`, `TasksEnd`, `CloseEnds`,
`OpenAndCloseEnd`, `DeathIsNoticed`, `ShutdownEnds`), which is out of the prover's reach;
and the four properties of the conversions, whose parsers are RECURSIVE operators, for which
the prover has no backend, and compare texts of any length, where the induction would be over
the whole parser. (The modules
with RECURSIVE operators are CommandLine, Configuration, P2pUtil,
ServiceRecord and WpaEvent; nothing that is proved about uses them.)

## 6. Not modelled, and abstracted

`components` in PROJECT.json says for every part what is left out. In general:

* Logging, exceptions' texts, hexadecimal dumps, random addresses, the wording of commands
  and comments: no property here is about them. The tests and test programs were read for
  how the code is meant to be used. `MessageAwaiter` is included nowhere;
  `RemoveExistingGroups()` and `AttachDnsMasq()` are called nowhere.
* `CoExecute()`, `PumpUntilIdle()` and the `Stop()` of the epoll thread: nothing that the
  models contain calls them.
* The dispatcher's reads of the timer queues in `GetNextTimer` and of `quit` are
  data races in the code; the models read them in one step.
* The dispatcher posts each thing once; a program that posts for ever can starve
  timers, since `PumpMessages()` keeps its `now`.
* The layers rely on what the one below promises: CoMutex and CoBlockingQueue on the
  single-step view of the condition variable, CoFile on its notifications,
  WpaChannel on the mutex and the queue, P2pSession on requests that are answered or
  fail. Where a promise does not hold (see the disagreements), theirs does not either.
* In P2pSession all coroutines are on the foreground thread, as in the daemon; its
  `ReadEventsProc()` is that of WpaChannel.
* The table of `WpaMessages.cpp` is a bijection of names and numbers; the model has the names
  that the parser treats specially and one that stands for the others.
* In CoTaskSchedulerPool, the threads that `resize(0)` drops when it races with a
  terminating thread (objects that are never deleted) are visible in the states
  and no property excludes them. What follows a thread that is deleted twice, or a vector
  that moves under its loop, is undefined: the model stops there.
* In CoFile, as in the daemon, the timers are on the foreground thread; what happens when two
  resumptions of one operation go on side by side is not followed up.
* In CoTask, results, exceptions and the destruction of a task that is not done.
* Memory allocation failure, and exceptions thrown by handlers, but for `OnEvent()`.
