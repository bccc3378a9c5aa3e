# Verification of QCatGrayCore

TLA+ models of QCatGrayCore, a library of small Qt components: an event dispatcher that runs
Qt's event loop on libuv, a TCP client on that loop, a hot-plug monitor for serial ports, a
serial port with a device monitor for Windows, an HTTP client, a worker thread, a thread
pool and a settings file. TLC checks the models on small instances; TLAPS proves the main
invariants for every instance. Paths below are relative to `src/src/`.

## The system

| part | state it keeps | operations | hard behaviour |
|---|---|---|---|
| libuv event dispatcher (`QCatGrayLibuv/QCatGrayLibuvEventDispatcher`) | `m_Interrupt`, `m_Awaken`, `m_Wakeups`, tables of timers and notifiers with one libuv handle each, list of queued events | `processEvents` (also from handlers), `wakeUp` and `interrupt` (any thread), register and unregister, libuv callbacks, destructor | coalesced wake-ups against the poll; a plain bool shared by threads; nested passes that stop and restart timers; handles freed later, in close callbacks |
| serial port monitor (`QCatGraySerial/QCatGrayMonitorSerial`) | singleton, its mutex, `m_bStart`, table of known ports | `Instance`, `Start`, `Delete`, the polling `run` | double-checked construction; a diff that is skipped by sizes; ports that change between polls |
| HTTP client (`QCatGrayNetWork/QCatGrayNetWorkHttp`) | `m_bStart`, `m_bWork`, `m_yState`, `m_pVar`, `m_pFile` | `DownLoad`, `HttpGet`, `HttpPost` (2), `ExitTask`, `run`, reply slots | a busy flag shared by callers and the thread; a signal emitted before `run` connects it; answers of an old request |
| worker thread (`QCatGrayUniversal/QCatGrayThread`) | `m_bStart`, `m_bWork`, `m_pFunction` | `Start`, `Stop`, `run` | a condition variable without a predicate |
| thread pool (`QCatGrayUniversal/QCatGrayThreadPool`) | `m_pThreadList`, its mutex, the flag of the helper thread | `AddTask`, `HandleNonWork`, destructor | test and start in two steps; a list changed while it is visited; threads taken off the list that still run |
| TCP client (`QCatGrayLibuv/QCatGrayLibuvTcp`) | `m_Start`, the handles, a static table of clients | `OpenSocket`, `SendData`, `CloseSocket`, libuv callbacks | a wait without a predicate; a handle closed twice; a write request reused |
| serial port (`QCatGraySerial/QCatGraySerialPort`) | `m_qPort`, `m_yReadData`, the delay thread and its `m_bWork` | `OpenSerial`, `Close`, `Clear`, slots of `readyRead`, `errorOccurred` and `DeleteSerial`, `WriteSerialPortSlot`, destructor | a buffer shared with the delay thread without a lock; slots that run inside a write that waits |
| Windows device monitor (`QCatGraySerial/QCatGrayWinMonitorSerial`) | singleton, its thread with a window, `m_pSerials` by product id | `Instance`, `ThrdFunc`, `UpdateDevice`, destructor | notifications that come twice, before the port has a name, for two devices of one product; a thread told to exit before it has a queue |
| settings (`QCatGrayUniversal/QCatGraySettingBase`) | the INI file | values, groups, arrays: write, read, remove | arrays that are shortened, overwritten in part or removed in part |
| files, fonts, HTTP parameters | none that matters | calls of Qt | none |

The parts do not call one another, with three exceptions: the pool owns worker
threads (`ThreadPool` is built on an instance of `GrayThread`); a serial port, in a
build for Windows 7 with MSVC, makes the device monitor and closes on its
`DeleteSerial` (`SerialSystem` composes the two); and the TCP client runs on the loop of
the dispatcher of its thread (`QCatGrayLibuvTcpClient.cpp:27`, `:69`), which its model
takes as a queue of slots and callbacks. The dispatcher is called by Qt: by
`QEventLoop::exec` in the thread of the loop, by `QCoreApplication::postEvent` and
`QEventLoop::exit` in any thread.

What makes each part correct:

- dispatcher: a posted event and an `exit()` are never slept over; every handle is
  in one table or on its way to be freed; no callback sees a destroyed receiver;
  exclusion stops timers and notifiers only for the pass that asked for it;
- monitor: one instance; the signals, put together, tell a listener the ports; the
  table becomes the ports that are plugged in; `Delete` ends the thread;
- HTTP client: each accepted request ends in one answer, the busy flag is cleared
  whenever nothing is under way, a file is closed when its download ends, `ExitTask` returns;
- worker and pool: an accepted task runs once; `Stop` returns; the pool is deleted
  after its last thread;
- TCP client: a socket is closed once and kept until libuv is done with it;
  `CloseSocket` returns;
- serial port: the bytes that arrive are reported, once, in order; the port is closed
  when its device is removed, which the Windows monitor's table must name;
- settings: an array is read as it was written.

## What is modelled

### EventDispatcher

One loop thread and a set `Threads` of others. `pc` follows the loop thread
through `processEvents`; `pass` holds the locals of the call in progress, `saved`
and `depth` those of the calls that handlers have suspended by a nested one. Each
other thread is somewhere in `interrupt` or `wakeUp` (`caller`).

| code | definition |
|---|---|
| `processEvents`, first lines to `sendPostedEvents` | `Enter`, with `Stopped` for `disableTimers(true)` and `disableSocketNotifiers(true)` |
| `sendPostedEvents` | `SendPosted`, one event at a time, those that were queued when it began, then `SendPostedReturns` |
| `can_wait`, the test of `m_Interrupt`, the mode | `Decide` |
| `uv_run` | `block` (it waits) and `ready` (it polls), `timer_callback`, `socket_notifier_callback`, `PollError`, `TakeAsync` then `wake_up_handler`, and `RunReturns`, which runs the close callbacks and swaps the event list |
| the loop over the list | `Deliver`, `Delivered` |
| the last lines | `Return`, with `Restarted` for the restart |
| `wakeUp`, `interrupt` | `wakeUp`, `asyncSend`, `interrupt`; from a handler `WakeUpHere`, `InterruptHere`, `PostHere` |
| `register...`, `unregister...` | the actions of those names; `DestroyObject` and `DisableNotifier` are Qt's calls of them |
| destructor | `Destroy`, with `killTimers` and `killSocketNotifiers` |

Handlers (`pc = "user"`) may do anything a handler can: register and unregister,
destroy objects, post, interrupt, run a nested pass with any flags.

Choices worth knowing:

- `m_Interrupt` is a plain `bool`. A read by the loop thread while another thread
  is between its store and the atomic operation of `wakeUp` returns either value
  (`InterruptReads`); the atomic operation and the loop's own reset order the rest.
  Lines 53 and 56 read it with no call in between and are one step.
- libuv is 1.45 or later: a `ONCE` or `NOWAIT` run polls, runs the close callbacks
  and then the timers. The async handle is taken once at most in a run. A run with
  a handle that waits for its close callback does not block.
- `QEventLoop::exec` calls with `WaitForMoreEvents` and no exclusion; a nested call
  has any flags.
- Timer ids are Qt's and unique; each notifier has a descriptor of its own.

Not modelled: zero timers (nothing calls `registerZeroTimer`, so `m_Zero_timers`
is always empty), notifiers of type `Exception` (`registerSocketNotifier` returns at
once), `registeredTimers` and `remainingTime` (they change nothing), time (a timer
is active, stopped or fired), handles that users open on `uvLoop()`.

### MonitorSerial

`plugged` is the hardware, `known` is `m_lSerialPortInfo`, a device being the
identity of a `QSerialPortInfo`. `run` is `RunBegins`, `Poll`, `UpdateSerial` (the
emission) and `Wakes`; `Instance`, `Start` and `Delete` are split at their locks,
tests and waits, so that threads race in them. `view` folds the signals the way a
listener would; `quiet` counts the polls since the last change of a port.

`Delete` destroys the mutex that the other calls lock; the model lets it begin only
when no call is in progress. An `Instance` after it dereferences null (`crashed`),
so `run` is entered once in a process and its static local is never stale.
`GetSerialPortInfo`, which copies the table without a lock, and the length of the
sleep are left out.

### HttpClient

The object lives in its own thread, and callers share its fields with that thread
without a lock. So the model executes one statement at a time: `todo[t]` holds the
statements that thread `t` (a caller, or `"http"`) has yet to execute, and a call, a
slot or an event begins by filling it.

| code | definition |
|---|---|
| constructor | `Init` |
| `DownLoad`, `HttpGet`, `HttpPost` (2) | `Request` (the test of the flags), then the statements busy, check, var, state, emit: `SetsFlag`, `Refuses` or `Proceeds`, `SetsVar`, `SetHttpState`, `UpdateHttpState` |
| `run` | `Connects`, `RunEnds`; between them the slot of `UpdateHttpState`: `InitHttpDownLoad`, `InitHttpGet`, `InitHttpPost`, `InitHttpMultiPartPost`, `UpdateWithoutState` |
| slots of the manager, `finished` and `sslErrors` | `ReplySlot`, `SslErrorsSlot` |
| `httpDownFinished`, `httpDownReadyRead`, `httpError` | the definitions of those names; `Switch` is the switch of `httpError` |
| `ExitTask`, destructor | `ExitTask` with `ExitStatements`, then `Quits` and `Waits` |
| the network | `RequestFinished`, `DownLoadFinished`, `DownLoadFailed`, `SslErrors` |

`replies` counts the replies in flight by what waits for them (a download's own
connections, or the manager's) and by the request whose parameters they were made of.
A file is a number: `m_pFile` is the one it points to, or 0, and `open` are the files that
are open. The model follows Qt 5: a download that fails emits `error()` and then `finished()`
with no event in between.

What the model shows of the code as it is, and the properties therefore except:

- `UpdateHttpState` emitted before `run` has connected it goes to nobody: the object
  stays busy and refuses every request (`lost` in `BusyHasCause`, `NoneForgotten`);
- for a failed download `httpError` clears `m_bWork` and `httpDownFinished` runs after
  it, on a request that a caller may have begun in between. So `AnswerCurrent` and
  `NoneForgotten` are about gets and posts;
- a file that cannot be opened and `sslErrors` end a request with no signal
  (`refused`), and the latter may end a download and leave its file open
  (`FileHasReader`);
- a download taken while another is on its way makes `m_pFile` point to its own file
  (`QCatGrayNetWorkHttp.cpp:193`): the file of the first stays open and nothing closes it.
  `FileHasReader` says of every file but that of `m_pFile` that it is closed unless some
  request was taken while another was on its way or being ended (`raced`);
- `ExitTask` in another thread closes the file while a slot may use it (`FileUsable`);
- two callers, or one whose download fails, assign `m_pVar`, a `QVariant`, together with
  the thread (`RaceOnVar`). `VarOwned` says that one caller of gets and posts does not.

Not modelled: the progress signal, the ownership of the multipart.

### GrayThread

`run` and the callers of `Start` and `Stop` share `m_bStart`, `m_bWork` and
`m_pFunction` without a lock, and `notify_one` is called without the mutex that `run`
holds. Each statement is a step: `call[c]` is the next one of caller `c`, `pc[w]` that of
worker `w`. `missed` holds the workers whose last notification came after the tests it
should have made them repeat: that is where the code sleeps over its work, and the
properties say that it does so in no other case. `RaceOnFunction` is the
`std::function` that is assigned while it is called. Not modelled: a function that calls
`Start` or `Stop` of its own thread.

### TcpClient and Connection

One client. Its thread is at rest or inside one slot or callback (`pc`); `handle` is what
each socket is for libuv, `m_Tcp` the one that the shared pointers hold, `table` the
client's keys in the static hash, `events` the invocations queued for the thread.

| code | definition |
|---|---|
| `OpenSocket` | `OpenSocket` (test and set of `m_Start`), then `RefusesIp` or `Opens` |
| `SendData`, `CloseSocket`, destructor | `SendData`, `CloseSocket`, `Destructor`: the test of `m_Start`; then `Invokes`, `Waits`, `Returns` |
| `CloseSocketed`, `SendDataPrivate`, `Connect_Cb`, `Read_Cb`, `Write_Cb` | the actions of those names |
| `Close_Cb` | `Close_Cb` (with `Clears`: other threads see `m_Start` false from here on), then `Closeed` (`WakesAll`, `Forgets`) |

`uv_close` of a socket that is closed, closing or null ends the program (libuv asserts
it, or the pointer is null), and so does a second `uv_write` of the one `uv_write_t`, or
it goes unnoticed. The code reaches each of these: the first after the peer has ended the
stream, because `Read_Cb` closes the socket while `m_Start` still says that
`CloseSocket` may. An `OpenSocket` that was queued when the destructor tested `m_Start` may
run until the destructor has ended (`late`), and then opens a socket that the destructor
frees: what libuv does with it next is a use of the deleted client (`Returns`).
`CloseSafe` says when the client is safe. Not modelled: the hash as
other clients' threads change it, the data (whose memory `SendDataPrivate` frees when it
returns, and whose read buffers `Read_Cb` does not free), slots connected directly to the
signals, `Stutdown_Cb`, which nothing uses.

`Connection` is what the client promises its user: it is started or not, each socket is
opened, closed and released once, one at a time, and the static table names the one that
is open. `OneConnection` is its specification under the mapping `started <- m_Start,
socket <- handle, entries <- table, gone <- destroyed /\ ~late`: the promise that a client
ends without a connection is for one under which no `OpenSocket` runs once its destructor
has begun. Every statement, slot and callback
of `TcpClient` is one of its steps or changes none of the four.

### ThreadPool

The threads are `Thread == INSTANCE GrayThread` on the pool's own variables: `AddTask`
calls `Thread!Start`, the destructor `Thread!Stop`, and their statements and those of each
`run` interleave with the pool's. A loop over the list is the threads it has yet to visit
(`rest`), so a loop without the mutex sees the list as it was when it began.

| code | definition |
|---|---|
| constructor | `Init` |
| `AddTask` | `AddTask`, `GetThreadCount` and `GetThreadWorkCount` (under the mutex), `Creates` and `Pushes` when every thread works, else `Chooses`; then the statements of `Thread!Start`, and `Returns` |
| the helper's loop | `HelperTests` |
| `HandleNonWork` | `HandleNonWork`: the visit of a thread, the count under the mutex (`"trim"`) and the removal without it (`"remove"`) are three steps; `AfterRemoval` is what the loop visits after a removal moved the list under it |
| destructor | `Destructor`, `Deletes`, `Deleted`: first the list, then the children of `~QObject` |
| the list changed while it is visited | `RaceOnList`: besides one before the other, the program may crash |

One caller, `Owner`, is the thread in which the pool lives and deletes the pool, when no
`AddTask` is in progress. Qt gives a new object no parent that lives in another thread than
the one that makes it. So a thread that another caller's `AddTask` creates
(`QCatGrayThreadPool.h:26`) is an orphan (`orphans`): the destructor stops it while it is on
the list, but `~QObject`, which stops what the helper has taken off the list, does not know
it (`Children`). `strays` are the orphans that the helper has taken off the list of a pool
in use; they may live on when the pool is gone, and `DestroyedAlone` excepts exactly them. A
task may be given to no thread (`dropped`) or be assigned over one that has not run
(`replaced`). `LossHasCause` says that this takes an overlap of `AddTask` with another
`AddTask` or with a pass of the helper, or a thread that looked again at a function it had
run and so turned busy between the count and the choice (`raced`). `Thread!Tasks` are
numbered by `AddTask`, so the run shows what becomes of each.

### SerialPort, WinMonitor and SerialSystem

`SerialPort` has two threads: the owner's, in which the slots run (`pc`, and `depth` for
the calls of `WriteSerialPortSlot` that wait inside one another), and the delay thread
(`delay`). Pieces of data are numbered as they arrive; `driver` is what `QSerialPort` has
not been asked for. The `readyRead` slot is `ReadyRead` (the test of `GetWork()`),
`Starts` and `Appends`; the lambda that the delay thread runs after its sleep is `Reports`
and `ClearsReported`. Where the code loses a piece the model says so: `late` holds what
was appended when the delay thread, met on its way out, was not to test the buffer again,
`dropped` what `Clear()` or the end of the session has dropped. `RaceOnBuffer` is the byte
array that both threads change at once, and the use of the destroyed buffer by a delay
thread that outlives it, both `crashed`.

`WinMonitor` models Windows as what the code relies on: one notification when a device is
plugged in and one when its driver has named the COM port, and as many when it is removed,
sent to a window that has been registered and handled in order (`notes`). `UpdateDevice` is
`Adds` or `Removes` on `m_pSerials`; `Delete`, `PostsExit`, `TakesExit` and `Deleted` are
the destructor and the thread. `heard` is which plugged devices the window was told of.
Exceptions that the model makes visible: product ids that two devices share (`twins`: the
first removal forgets both), a name that comes too late (the entry keeps the empty name
and `DeleteSerial` carries it), and the message lost by a thread that has no queue yet
(`exitLost`: the destructor then never returns).

`SerialSystem` joins them: `DeleteSerial`, emitted in the monitor's thread, is queued in
`deletions` for the slot of the port, and a device that is unplugged makes the port that is
open on it `stale`. The queued slot compares names only, so a port that was closed and
opened again on the same name before the slot ran is closed again; the model does so too,
and `ReadIsReported` excepts what is `dropped` with it.

### SettingBase

The file is a function from paths to values (`setting`); each static function of the class
opens it, reads or changes it and closes it, so a call is one step. `QSettings` is
external: groups and arrays are prefixes of paths (`Path`, `Element`), an empty name is
left out, `remove` takes a path with all under it (`Under`), `beginWriteArray` without a
size lets `endArray` write the highest index. `SetGroup`, `SetArray`, `SetValue`,
`RemoveNode` and `RemoveNodeValue` are the actions, `GetArrays` and `GetArray` (by keys)
operators. `array` remembers what `SetArray` wrote last, until a call writes or removes
the size or an element of the node by another way; `over` are the nodes where that array
was written over elements of an earlier one, which stay in the file when it was longer.
`GetArrays` stops at the size; `GetArray` reads them too, so `ElementsReadBack` promises
equality only for nodes that had none.

## Runs

| run | question | bounds |
|---|---|---|
| `dispatcher_wake` | can a wake-up be lost, with two threads and two nested passes? | 3 queued events: one handled, one sendable, one too late to be sent; 2 nested passes: an inner one, and one that is inner and outer |
| `dispatcher_handles` | do nested and excluding passes keep timers, notifiers, handles and owners straight? is the event list drained by the pass that filled it? | a timer and a notifier of one owner, 2 poll handles, so that one closes while another is opened, 1 nested pass, 1 other thread |
| `dispatcher_live` | is a posted event handled, does `exit` end `exec`? | 2 threads, 2 events, no nesting |
| `monitor` | is the table right after every sequence of changes, the monitor one, a lasting change reported while other ports keep changing? does `Delete` return? | 3 ports and 2 devices; 2 callers. The third poll of `ThreePollsExact` matters from 4 ports on, for which the theorem holds |
| `http` | is the object ever busy for nothing? when is a file left open, or used when closed? | 2 callers that race through the test of the flags, 2 requests, posts (which `httpError` tells from the others) and downloads |
| `http_requests` | is each answer for the current request, each accepted one answered once, `m_pVar` used by one thread; does `ExitTask` return? | 1 caller, 3 gets and posts: one answered, one whose reply finds the next one begun, one more |
| `thread` | when does the thread sleep over work, or `Stop` hang? how often can a function run? | 1 worker (they share nothing), 2 callers, 3 functions |
| `tcp` | does the client implement `Connection`? when is a socket closed twice, or the client used after its end? does `CloseSocket` return? | 2 callers, 3 sockets: one closing, the next opened, and one for a late invocation; 3 queued invocations |
| `pool` | when can a task be lost? is one that was given run? does the destructor return, and which threads does it leave? | 2 callers and 2 tasks: a thread chosen twice, one busy while the other is created; the pool grows from 1 thread to 3; the helper trims it at any time |
| `serial` | is data reported once and in order, and reported at all? is a port closed when its device goes? does the table settle, and the monitor's destructor return? | 2 devices of one product, the port of one; 2 pieces of data, so that one is appended while the other is reported; 1 write that waits; devices that are plugged in and pieces, 2 together |
| `settings` | is an array read back after any sequence of writes and removals? | 4 calls: a long array, a short one over it, something beside it, a removal; lists up to 2; values are symmetric |
| `monitor_doc` | does a poll report insertions and removals together, as the header says? It does not: with three ports, one removed and two inserted between two polls, the removal waits | 3 ports |

`NoLostWakeup` excepts two kinds of pass, both after a nested pass that a handler of
their `sendPostedEvents` ran and that took the wake-up; without either exception TLC
finds the loss:

- a pass that is itself inside another `sendPostedEvents`: an event posted while the
  nested pass runs is left in the queue, its wake-up gone. Qt calls `wakeUp` again for
  such events only at the end of the outermost `sendPostedEvents`
  (`SendPostedReturns`); Qt's own dispatchers also ask whether they may wait, and this
  one does not;
- any pass, for an `exit`: the nested pass clears `m_Interrupt`
  (`QCatGrayLibuvEventDispatcherPrivate.cpp:44`), and the outer one then waits although
  its `QEventLoop` has been told to exit.

Deadlock is checked in every run but five, in which the program may really stop. In
`thread` and `tcp` every caller may come to wait for a notification that it, or the
thread, has missed. In `pool` and `serial` nothing is left to do once the objects are
deleted, or the owner waits for a thread that missed its notification; in `settings` the
bound on the calls is reached.

### Fairness

`dispatcher_live` assumes that the loop thread is scheduled and that handlers
return, and that a thread inside `wakeUp` or `interrupt` finishes the call. Nothing
makes a timer come due, a descriptor ready, or a thread post. `monitor` assumes
that the thread is scheduled and sleeps for a finite time, and that
`QThread::wait` returns once `run` has; nothing makes a port change or a caller
call. `http_requests` assumes that the thread and the callers are scheduled, and that
the event loop looks again and again whether it was told to quit (strong fairness of
`RunEnds`: slots come between); no reply is owed. `thread` assumes scheduling and
functions that return. `tcp` assumes scheduling, a queue served in order and close
callbacks run in each iteration (strong fairness of the slots and of `Close_Cb`, between
which other slots run). `pool` assumes that the threads are scheduled, that functions
return and that a caller goes on with the call it has begun; nothing makes the helper, which
sleeps for ten minutes, begin a pass or end one, nor the owner delete the pool. The
assumption is one weak fairness for all of them, which is less than each thread's: in an instance with
finitely many calls each takes finitely many steps, so that it is enough that one goes on. `serial`
assumes that both threads are scheduled, that slots that are due run, that a write that
waits is answered or times out, and that the event queue of the port's thread is served
(strong fairness of `DeleteSerial`: other slots run between); no device, driver or user
owes anything. `monitor_doc` and `settings` need no fairness. Each is what the operating
system's scheduler gives a runnable thread.

## Proofs

`EventDispatcherProofs` proves, for any number of threads, objects, timers,
notifiers, handles, queued events and nested passes, from the five assumptions on
the constants (bounds are natural numbers; handles, receivers and `None` differ):

- `TypeCorrect`, `HandlesCorrect`, `OwnersCorrect`, from one inductive invariant,
  `TypeInv`. `HandlesTracked` alone is not inductive: a handle waiting for its close
  callback must not be held (`Held`), no two ids may hold one handle (`Unshared`),
  and after the destructor the tables must be empty (`Emptied`).
- `WakeupNeverLost` and `InterruptNotSleptThrough`, from `WakeInv`. Its core is
  `TokenInv`: when the counter is 1 somebody will still make the loop notice it --
  the handle is pending, a thread is about to send, or the loop is about to run
  `wake_up_handler`. `QueueInv` and `ExitInv` say the same of an event that the pass
  in progress will not send and of an exit it has not seen; `SendsInv`, that a pass
  with nested ones has sent events and so gets Qt's wake-up at its end, and
  `SuspendedInv` carry them through suspended passes.
- `NothingStrandedCorrect`, from `StrandedInv`, which says it of the pass in progress
  and of every suspended one; `DrainedCorrect`, whose invariant is inductive.

`MonitorSerialProofs` proves, for any set of devices and callers and any finite set
of ports, `OneInstance`, `ThreadIsOwned`, `ListenerCorrect`, `NamesConverge` and
`DevicesConverge`. The two convergence theorems rest on the count of names: two
finite sets, one included in the other and of the same size, are equal; `QuietInv`
says for 1, 2 and 3 quiet polls what is then known of the table.

`HttpClientProofs` proves, for any callers, kinds and number of requests, `TypeCorrect`,
with which thread may be at which statement (`TodoShape`), and `BusyCorrect`. Its
invariant, `BusyInv`, adds one conjunct to `BusyHasCause`: while a slot that has already
cleared `m_bWork` has yet to disconnect the manager, a set `m_bWork` comes from a request
whose event the thread has not taken. Without it the disconnection could take away the
reply that the flag waits for. What a sequence of statements contains (`Has`) is proved
for concatenation and tail, and cited from there.

Of the file it proves, for any callers and kinds, `FileReaderCorrect` and
`FileUseCorrect`, from `ReaderInv` and `UseInv`: the file of `m_pFile` has a download on its
way or a slot of the thread that will close it, and while `m_bStart` is set the thread alone
uses it, each use after a test in the same slot. `CallersExit` supplies that: as long as
`m_bStart` is set no caller is past the first statement of `ExitTask`.

The other half of `FileHasReader`, that no file but that of `m_pFile` is open unless
requests overlapped, is from `AloneInv`. Until two overlap, one request is in one phase at a
time, whatever the number of callers: it is asked for (`AskPhase`), on its way to the thread
(`UpdatePhase`), or out on the network (`WaitPhase`). So `InitHttpDownLoad` runs when no
download is in flight, no slot is about to close a file and no download has had SSL errors
(`Heard`); by `ReaderInv` the pointer it overwrites is then null, and `OneFile` stays.

`AnswerCorrect`, `NoneForgottenCorrect` and `VarCorrect` are for one caller that makes gets
and posts (`OneCaller`), as the run `http_requests` has it, and for any number of requests.
Both halves of that are needed: with two callers, or with downloads, TLC finds each of the
three violated, which is the race the flags leave open. The invariant, `PhaseInv`, says
that a request is in one phase at a time: the caller's (`RequestPhase`), the event on its
way (`EventPhase`), the reply on its way (`ReplyPhase`), or the slot that ends it
(`SlotPhase`). `AnswerInv` says that each accepted request has been answered once or failed
with SSL errors, but for the last one while it is in a phase (`Open`).

`TcpClientProofs` proves, for any callers, sockets and length of the queue, every
invariant that `tcp` checks, and the refinement:

- `SocketsKept` and `TableCorrect`, from `SocketInv`: no socket is live while
  `OpenSocket` or `Close_Cb` is under way, nor, unless one was opened under the destructor,
  when the destructor is about to return;
- `WaitCorrect`, from `WaitInv`, which says of a thread that has yet to wait what
  `WaitHasCause` says of one that waits;
- `CloseIsSafe`, from `SafeInv`. Unless excused (a stream was ended, calls overlapped, the
  address is none, a queued `OpenSocket` ran under the destructor) the client is
  `Orderly`: at most one thread is in a call, the queue is for the socket that is open or
  being opened, a `CloseSocketed` is the last of it, and its caller stays in `CloseSocket`
  until the callback, so that nothing else is queued;
- `ConnectionCorrect`: `TcpClient` implements `Connection`, each of its actions being a
  step or a stutter. `SocketInv` gives what the steps of `Connection` require: no socket
  is live and the table is empty when `OpenSocket` sets `m_Start`, and no socket is live
  when the destructor returns and none was opened under it.

`GrayThreadProofs` proves, for any workers, callers and tasks, `TypeCorrect` and
`SleepCorrect`. `SleepHasCause` is about a thread that sleeps; the invariant says it of one
that is on its way to sleep, past the test it would have to make again:
`FreshAnnounced`, `StopAnnounced` and `WorkAnnounced` name the caller whose notification is
still to come, and `EmptyStopping` that a worker without a function which says that it
works is being stopped.

`RunsCorrect` needs that the callers are finitely many. A bound on `runs` is not inductive
without a reason for each run: `RunsLeft` counts, for the function a worker has, the runs
so far, the passes of the loop that are under way (`Passes`) and the callers whose
notification is still to come (`Pending`), which together never exceed the bound. A
notification takes its caller out of `Pending` and adds a pass, so the sum stays.
`TasksOnce` says that a task belongs to one worker and comes from one call.

`ThreadPoolProofs` proves, for any callers, tasks and initial threads, `TypeCorrect` and
`DestroyedCorrect`. `StoppedWaitedFor` is its core: a thread whose `m_bStart` is clear has
finished, or is the one the owner is in `Stop()` for. So when no child has `m_bStart` set,
which is when `~QObject` has none left, all children have finished, those too that the
helper took off the list. Of the others `OrphansKept` says that one the helper has not taken
off is on the list, or about to be, and that the destructor visits it. `OwnerAlone` and
`CallsKnown` keep `AddTask` and the destructor apart.

`LossCorrect` is from `LossInv`: while nothing has overlapped and the pool is in use,
`BusyUntilRun` holds, that a thread whose function has yet to run says that it works or is
about to be made to. So the thread that `AddTask` finds idle has nothing left to run, it
stays idle until it is chosen (`Counted`: the threads counted so far all work, or one on
the list does not), and what is assigned replaces nothing. `TasksApart` and
`GivenToCreated` say whose function a task is. Where one of the overlaps has happened
nothing is said, as the property does not.

The pool uses its threads as `GrayThread` allows: `ThreadsUsed` shows every step of
`ThreadPool` to be, for the variables of the threads, a step of `GrayThread`, a stutter, or
a crash on the list that leaves them alone. `ThreadsSleep` and `ThreadsRun` are the
theorems of `GrayThreadProofs` carried over to the threads of the pool, by an instance of
that module and its lemmas.

`SerialSystemProofs` proves, for any devices, ports and bounds, `TypeCorrect`,
`OrderCorrect` and `TableCorrect`. The first of these follows the data from the driver
through the buffer to the reports (`OrderInv`): each of the three rises, and they are in
order, but between a report and its clearing, when buffer and reports overlap. The other
looks at the notifications in flight (`NotesInv`): for a product id the last of them, or the
table if there is none, tells whether a plugged device was heard of.

`SettingBaseProofs` proves, for any nodes, names, values, lists and number of calls,
`TypeCorrect`, `ArraysCorrect` and `ElementsCorrect`, from `Stored` (the array written last
is in the file) and `Alone` (a node that had no elements then has no other ones now), which
each write and removal either keeps or forgets the array of.

Some theorems are about formulas that no run checks any more, because the theorem says
more than the run did: the type invariants, `SocketsKept` and `TableCorrect` of
`TcpClientProofs`, `NamesConverge`. The modules keep these formulas beside the properties.

Model-checked only: the liveness properties (`PostedHandled`, `ExitHonoured`,
`InsertionReported`, `RemovalReported`, `ExitCompletes`, `StopEnds`, `CloseEnds`,
`TaskRuns`, `DestructorEnds`, `ReadIsReported`, `PortFollowsDevice`, `DeleteEnds`), which
with their fairness are out of the prover's reach. Every other property of the passing runs
is a theorem; its inductive invariant held on the constants of the component's run, too. No
induction over data is needed by what is proved.

## Not modelled

- `Serials`, `getPortName` and the searches in the registry and the device tree
  (`QCatGrayWinMonitorSerial.cpp`): they read Windows' tables and keep nothing; the model
  has their result, a port of a device with the product id, or none. Devices that are not
  USB, which `UpdateDevice` ignores, send no notification in the model.
- `ReadDataBufferWork` of the serial port, which nothing starts; the name taken from
  `m_qPortInfo`; `AddSerial`, to which nothing in the library is connected.
- `GetValue`, `GetKeys`, `ConfigExist` and `GetArray` without keys of the settings, which
  read; the conversion of values to text, which is that of `QVariant`.
- `QCatGrayFile`, `QCatGrayFont`, `QCatGrayHttpParam` and `QCatGrayHttpJsonParam`: calls
  of Qt without a protocol of their own. The examples and the build files.
- Time: how long a timer, a sleep or a wait lasts. What happens after a crash.
- Handles that users open on the dispatcher's `uvLoop()`, over which its destructor waits,
  and the hash of TCP clients as several clients change it.

Worth doing next: an abstract loop (post, wake, run) that `EventDispatcher` implements and
on which the queue of `TcpClient` rests.
