# later2 in TLA+

`later2` is an R package with a C++ core that runs R and C functions later: at
a given delay, on one of several event loops, either when the program calls
`run_now()` or when R sits idle at its prompt. This directory holds TLA+
modules that model it, TLC configurations that check them on small instances,
and TLAPS proofs for every size. `PROJECT.json` lists the components, the runs,
the correspondence of every definition to source lines, the hazards and the
theorems.

## 1. The system

| component | source | state | operations |
|---|---|---|---|
| loop table | `src/callback_registry_table.h`, `R/later2.R` | map id -> (registry, `r_ref_exists`), tree of registries, `.globals$next_id`, R handles and weak references | `create`, `remove`, `notifyRRefDeleted`, `pruneRegistries`, `getRegistry`, `exists` |
| event loops | `src/later2.cpp`, `src/callback_registry.{h,cpp}`, `R/later2.R` | ordered queue of each registry, `current_registry`, `exec_callbacks_reentrancy_count`, the C++/R stack | `later`, canceller, `run_now` (`wait`, `execCallbacksOne`, `pop`, child loops), `with_loop`, `execLaterNative2` |
| POSIX autorunner | `src/later_posix.cpp`, `src/timer_posix.cpp` | two pipes, flag `hot`, timer thread, `wakeAt`, R's input handlers | `ensureAutorunnerInitialized`, input handler, `Timer::set`, `bg_main`, fork handler |
| Windows autorunner | `src/later_win32.cpp` | message-only window, its timer and messages | `callbackWndProc`, `executeHandlers`, `setupTimer`, `doExecLater` |
| later_fd | `src/fd.cpp` | `ThreadArgs` shared by three parties, `fd_waits` | poll thread, callback, `fd_cancel` |
| locking | `src/threadutils.h`, `src/tinycthread.{h,c}` | one recursive mutex and condition variable for all registries; on Windows a counter and an event | `Guard`, `timedwait`, `signal` |
| promises | `R/promise.R` | state, handlers, flags `publicResolveRejectCalled` and `rejectionHandled` | `promise`, `resolve`, `reject`, `then`, `catch`, `finally` |
| C API | `inst/include/later2_api.h` | a `BackgroundTask` and its thread | `later::later`, `begin`, `execute`, `complete` |
| timestamps | `src/timestamp*`, `src/timeconv.h` | - | `addSeconds`, comparison, difference |
| debug, generated glue, weak references | `src/debug.*`, `src/cpp4r.cpp`, `src/wref.cpp` | - | - |

How they interact. Everything but scheduling from C happens on R's main thread.
`run_now()` blocks in `wait()` until something below the loop is due, then makes
one *pass*: it pops and runs the due callbacks of the loop, then of a copy of
its children, recursively, and prunes the table at the end. A callback is
arbitrary user code: it may call `run_now()` again, switch loops, create and
destroy loops, raise an error that somebody further out catches, and the
garbage collector may finalize loop handles meanwhile. Other threads insert
callbacks at any time under the shared lock; the lock's condition variable
wakes `wait()`. Outside `run_now()`, the autorunner's timer thread writes to a
pipe that R's prompt polls, and its handler calls `execCallbacks` on the global
loop; on Windows a timer of a hidden window does. `fork()` copies all of that but
the threads. Promises are R code on `later()`.

What is hard: re-entrancy (a pass inside a callback inside a pass), errors that
unwind any number of frames, destruction and collection of loops that a pass is
working on, a walk that removes entries while removal changes other entries,
waiting for a condition that another thread or another loop fulfils.

What makes it correct, per component:
- loop table: the loops are a forest ordered by ids; the global loop stays; work
  keeps a loop alive; one walk prunes everything that may go;
- event loops: no callback is lost or run twice, early, out of order or after a
  successful cancel; current loop and re-entrancy count match the stack; a pass
  ends; `run_now()` returns, and says TRUE only if something ran;
- autorunners: what is due at the prompt is eventually run; a wakeup is never lost; a
  forked child leaves its parent's pipe alone;
- later_fd: callback or cancel, exactly one; `fd_waits` balanced;
- locking: nobody waits forever for the lock, nobody sleeps through a signal;
- background tasks: one owner at a time, completed in the end;
- promises: settled once, each handler called once, no error unnoticed, also where an
  interrupt or a failing `later()` comes in between.

## 2. The modules

`CallbackRegistryTable` - the table, the tree and the handles. Parent, children,
queue and fd count are functions on all ids because a registry object outlives
its entry in the map; `registries` (id -> `r_ref_exists`) is the map. Actions:
`CreateLoop`, `DestroyLoop`, `CollectHandle` (the finalizer), `PruneRegistries`,
and the interface the loops use: `Add`, `Take`, `FdWaitsIncr/Decr`,
`SetCurrentRegistryId`. `pruneRegistries()` is one step: `Prunable` is the least
set closed under "may go once these have gone". `RemoveAll` is `remove()` for all
of a set. The `while` loop itself, one `remove()` after the other, is `PruneLoop`, and
`PruneIsTheLoop` says that the one step does the same, for both callers of
`pruneRegistries()`. A set of children stands for the vector: ids grow, children are
appended, so the vector is always in ascending order.

`CallbackLifecycle` - the promise of `later()` on its own: `Schedule`, `Cancel`,
`Start`, `Tick`, no loops, no stack.

`EventLoop` - extends the table with the main thread's stack. A frame is a
`run_now()` blocked in `wait()`, an `execCallbacksOne()` that is popping, running a
callback or running its children, or a `with_loop()`. User actions are enabled
whenever user code is on top (top level, callback, `with_loop`). Correspondence:

| code | action |
|---|---|
| `later()`, `execLater`, `add` | `Later` |
| `execLaterNative2`, `scheduleCallback` (any thread) | `ExecLaterNative` |
| canceller, `cancel` | `Cancel` (the TRUE case; FALSE changes nothing) |
| `create_loop`, `destroy_loop`, finalizer | `UserCreateLoop`, `UserDestroyLoop`, `GarbageCollect` |
| `with_loop` and its `on.exit` | `WithLoop`, `EndWithLoop` |
| `run_now`, `execCallbacks` up to `wait()` | `RunNow` |
| `wait()` returning FALSE / TRUE | `WaitTimesOut` / `WaitEnds` |
| `pop`, `invoke` begins / nothing due | `PopCallback` / `NothingToPop` |
| `invoke` returns | `CallbackReturns` |
| loop over the copied children, recursive call, its return | `RunChild`, `ChildReturns` |
| end of `execCallbacks`, with pruning | `ExecCallbacksReturns` |
| error or interrupt caught k frames up | `Throw(k)` |
| `later_fd()` begins / ends | `FdWaits` |

`with_temp_loop()` is `create_loop(NULL)`, `with_loop()` and `destroy_loop()` in
turn. The autorunner's call of `execCallbacks(0, TRUE, global)` is a `RunNow` at top
level.

Abstractions. A callback is its id; what it does is whatever user actions follow.
Creating, stamping and inserting a callback is one step: the stamp and the id are
taken outside the lock on the R path, but only the main thread takes callbacks
out, so nobody sees the difference. Locks and condition variable are left out
(operations on a queue are atomic because of them), as are RNG state and log
output. Garbage collection happens where R allocates: in user code, and in `PutRNGstate()`
at the end of each `execCallbacksOne()` (`AtPutRNGstate`), that is, between two loops of one
pass. Frames of R keep handles alive that they were called with (`Pinned`). `popped`, `seen`,
`collected` and `fate` are history variables: the callbacks a call has run, the loops its
pass has entered, whether a handle was collected between two loops of a pass since the
last pass began, and what became of a callback. `native` marks a C callback that lets an R error jump over the
C++ frames; `Natives = {FALSE}` is the discipline of C callbacks that never do.
`wait()`'s last look at the queue and the pass's timestamp are one instant: what
is due at the first is due at the second, because only the main thread pops.

`Autorunner` - the global loop at R's prompt on POSIX systems: the timer thread, the
pipe with its flag, the input handler and whatever R code runs in between. It stands
beside `EventLoop` rather than on it: of the tree of loops it keeps which loops a pass
over the global loop runs (`Driven`), of the queues only which callbacks wait and when.
The main thread is a stack again; empty means the prompt. Correspondence:

| code | action |
|---|---|
| `Timer::bg_main`: timed out or in the past / wait / woken | `BgElapses` / `BgWaits` / `BgSignalled` |
| `fd_on`, `set_fd(true)` in the timer's callback | `BgCallback` |
| `doExecLater` on the main thread: `add` and `nextTimestamp`, then `timer.set` | `Later`, then `SetTimer` |
| `scheduleCallback` on any other thread | `ScheduleCallback` |
| canceller | `Cancel` |
| a command or callback begins / ends / raises an error caught k frames up | `Command`, `PassPops` / `CodeEnds` / `CodeThrows(k)` |
| `run_now()` and its end | `RunNow`, `RunNowEnds` |
| `ProtectCallbacks` and its destructor | `EnterPass`, `LeavePasses` |
| `async_input_handler` up to `at_top_level()` | `HandlerCalled(nframe)` |
| not at top level: `timer.set` one millisecond ahead | `HandlerReturnsEarly` |
| a pending interrupt leaves `sys_nframe()` | `HandlerInterrupted(k)` |
| `execCallbacksForTopLevel` | `HandlerRuns`, `PassBegins`, `PassEnds`, `ExecEnds` |
| `~ResetTimerOnExit` | `ResetReads`, then `ResetSets` |

Atomicity: the timer thread holds the timer's mutex except while it waits, so
`timer.set` cannot happen while it is in its callback. `scheduleCallback` holds the
lock of the registries over `add` and `timer.set`; the main thread lets go of it in
between, which is why those are two actions. `set_fd` has a mutex of its own. The
condition variable may report a timeout after a new time was set; `BgElapses` allows
that. R polls the pipe at the prompt, and wherever R code lets R process events
(`HandlerCalled` on top of "code"). `at_top_level()` is what the code has: no pass is
counted, and `sys.nframe()` is 0. R code that processes events may have any number of
R frames, none for a builtin or a `.Call` typed at the prompt and for a C callback, so
`nframe` is a choice there, and the handler may run callbacks in the middle of such a
command. `interrupted` is a history variable: an interrupt has
cut off the input handler (`HandlerInterrupted`), and nothing has set the timer since.
Fork and the making of the pipes are in a module of their own:

`AutorunnerSetup` - processes, pipes and input handlers. `ready` is `ensureInitialized()`
of `later2.cpp`, `initialized` the flag of `later_posix.cpp`; they differ in a child, and
after a set-up that fails half-way. The timer and the handler of `Autorunner` are one step
each here (`TimerElapses`, `FdOn`, `AsyncInputHandler`).

| code | action |
|---|---|
| `ensureAutorunnerInitialized` / its second `pipe()` fails | `EnsureInitialized` / `DummyPipeFails` |
| `later()`: `add`, then `Timer::set` | `Later`, then `TimerSet` |
| timer thread | `TimerElapses`, `FdOn` |
| `async_input_handler`, `run_now()` | `AsyncInputHandler`, `RunNow` |
| `fork()` and `child_proc_after_fork` in the child | `Fork` with `ChildProcAfterFork` |

A child has its parent's `bgthread` value and no thread ("orphan"), and the timer's mutex
as it was at the fork, possibly held for ever ("locked"). Pipes are numbered as they are
created and never reused; a write to a closed pipe fails without effect. `Timer::set()`
ignores the result of `tct_thrd_create()` (`timer_posix.cpp:73`). If it fails, `bgthread` has a
value and there is no thread, as in an "orphan", and the autorunner of that process is dead
for good; the modules take the creation of the timer thread to succeed.

`WinAutorunner` - the same job on Windows: a periodic timer of a hidden window, and
messages in which other threads ask for it. No clock: `Elapse` makes a callback due.

| code | action |
|---|---|
| `doExecLater` on the main thread / on another thread | `Later` / `ScheduleCallback` |
| `WM_SETUPTIMER` / `WM_TIMER` is dispatched | `DispatchSetupTimer` / `DispatchTimer` |
| `executeHandlers`: not at top level / interrupted in `sys_nframe` / goes on | `HandlerWaits` / `HandlerInterrupted` / `HandlerRuns` |
| `execCallbacksForTopLevel` | `PassBegins`, `PassPops`, `PassEnds`, `ExecEnds` |
| `idle(GLOBAL_LOOP)`, `KillTimer` | `Idle`, `KillTimer` |
| `run_now()` and its end | `RunNow`, `RunNowEnds` |
| R code and events (environment) | `Command`, `CodeEnds`, `CodeThrows`, `TimerElapses` |

`at_top_level()` is as in `Autorunner`, `DispatchTimer(nframe)` choosing what `sys.nframe()`
returns. `failed` remembers that Windows has refused a timer or a message. `idle()` takes the lock
under which other threads add and post, so between it and `KillTimer` is the only gap.

`Timestamp` - `addSeconds()`, the comparisons and the difference of `timespec`s, exactly as
they carry, borrow and truncate; `NSec` nanoseconds make a second. A number of seconds is
a whole number of nanoseconds.

`ThreadUtils` - `Mutex`, `Guard` and `ConditionVariable` over tinycthread, for both
platforms: pthreads by their contract, Windows by what `tinycthread.c` builds from a
counter and an auto-reset event.

`BackgroundTask` - extends it with the worker threads of the C API and the main thread in
`CallbackRegistry::wait()`, one lock operation at a time.

| code | action |
|---|---|
| `begin()`, `execute()` | `Begin`, `Execute` |
| `later()`, `scheduleCallback`: lock, `add` with `signal`, unlock | `ScheduleLocks`, `ScheduleAdds`, `ScheduleUnlocks` |
| `wait()`: lock, look, sleep, wake, lock again | `RunNow`, `WaitLocks`, `WaitBlocks`, `WaitUnblocks`, `WaitRelocks` |
| `R_CheckUserInterrupt()` | `CheckUserInterrupt(interrupted)` |
| `wait()` returns | `WaitReturns` |
| `pop()`, end of the pass | `PopCallback`, `PassEnds` |
| `result_callback`: `complete()` returns or throws, `delete` | `Complete` / `CompleteThrows`, `Delete` |
| spurious wakeups, clock (environment) | `SpuriousWakeup`, `Tick` |

`Promise` - `R/promise.R`. A job is what `later()` was given: draining the handlers of a
settled promise, calling one handler attached afterwards, or reporting an unhandled error.
A frame of the stack is a job, or a call of `resolve()` or `reject()`, whose flag is set
before its argument is evaluated. Handlers and arguments are user code, may call anything
here again, and may run the event loop.

| code | action |
|---|---|
| `promise()` | `NewPromise` |
| `resolve` and `reject` are called, and set the flag | `Resolve(p, what, l)` |
| `then`, `catch`, `finally` | `Then(p, kind, l)` |
| a job begins / ends | `RunJob(l)` / `JobEnds` |
| a handler begins | `HandlerStarts` |
| a handler or an argument comes to a value, an error or a promise, and `doResolve` or `doReject` gets it | `HandlerEnds(r)` with `DoResolve`, `DoReject` |
| the same, and `later()` raises an error, after the state was set | `LaterFails(r)` |
| `error = function(err) private$doReject(err)`, where it raises it again | `ErrorCaught` |
| an interrupt, anywhere in a job or call | `Interrupted(k)` |
| the handle of a loop is collected / the loop is destroyed | `Lose(l)` / `Lose(l)`, `Discard(l)` |

`later()` fails once the handle of the current loop is gone (`current_loop()`, `R/later2.R:132`);
`lost` holds the loops of which that is so. `resolve()` and `reject()` catch the error and try
`doReject()`, where `later()` fails again; then it leaves the frame (`Escape`), as it does at once
in the handlers of a chain, which no `tryCatch()` surrounds. An interrupt may come before the
argument is evaluated, after the state was set and before `later()`, between marking an
error as handled and calling the handler, and between any two steps of a job. A promise
*rejected* with itself waits for ever: only `doResolve()` looks for cycles.

A chain (a promise resolved or rejected with a promise) is one more handler; the second
promise that `then()` makes for it is seen by nobody and left out. `starts`, `dropped`, `cut`
and `reported` are history variables; `given` holds the promises whose `resolve` and `reject`
user code was handed, which those of `then()` are not. Left out: an interrupt between the
two appends of `then()` (`promise.R:182`), which leaves a handler for one outcome only.

`LaterFd` - `later_fd()` from the call to the last reference. A call makes a
`ThreadArgs`; `owner` says who holds the only pointer to it, which travels from the
caller to the poll thread, as the argument of a C callback into a queue, and to the
main thread. The flag `active` is shared with the canceller, both change it by one
`compare_exchange`. The module has its own small table of loops (which are in it, which
have a handle), without the tree. Correspondence:

| code | action |
|---|---|
| `execLater_fd`, `execLaterFdNative`, constructor of `ThreadArgs` | `ExecLaterFd` |
| `tct_thrd_create` fails after the pointer was released | `ThreadCreationFails` |
| `wait_thread`: flag found FALSE after `poll()`, destructor runs here | `PollCancelled` |
| `poll()` timed out for good, or something is ready or broken / `poll()` failed | `PollEnds` / `PollFails` |
| `scheduleCallback` with the released pointer, which it may not find a loop for | `ThreadSchedules` |
| `later_callback` begins, or finds the wait cancelled | `LaterCallback` |
| the callback returns or throws, destructor runs here | `CallbackEnds` |
| `fd_cancel` returning TRUE | `FdCancel` |
| `destroy_loop`, finalizer, pruning at the end of `run_now()` | `DestroyLoop`, `CollectHandle`, `ExecCallbacksEnds` |
| descriptors, clock (environment) | `FdChanges`, `Tick` |

Abstractions: the descriptors of a call are one that is idle, ready or broken; one
round of the thread's loop that finds nothing is no step; other callbacks than those of
`later_fd()` are left out (they only keep loops alive longer). Callbacks nest, so that a
loop destroyed by a callback may still be run by the pass below it (`Runs`).

## 3. The runs

| run | module, cfg | result |
|---|---|---|
| guards | `MCEventLoop`, `MCGuards.cfg` | types, `GuardsMatchStack`, `ForestOK`, `PassDescends`, `OncePerPass`, `TrueMeansRanUnlessCollected`, `PruneSettles`, `PruneIsTheLoop` hold |
| lifecycle | same, `MCLifecycle.cfg` | `NothingLost`, `LifecycleSpec`, `WorkIsKept`, and under fairness `ControlReturns`, hold |
| autorunner | `Autorunner`, `MCAutorunner.cfg` | types (one byte in the pipe), `NotReentered`, `NoLostWakeup`, and under fairness `WaitingCallbacksRunUnlessInterrupted`, hold |
| timer_loops | same, `MCTimerLoops.cfg` | `TimerInTime` violated with a second loop |
| interrupt | same, `MCInterrupt.cfg` | `WaitingCallbacksRun` violated with interrupts |
| fork | `AutorunnerSetup`, `MCAutorunnerSetup.cfg` | types, `PipeIsPrivate`, `ChildNeedsRunNow`, and under fairness `ParentRuns`, hold |
| win_autorunner | `WinAutorunner`, `MCWinAutorunner.cfg` | types, `NoLostWakeup`, `NotReentered`, and under fairness `WaitingCallbacksRun`, hold |
| later_fd | `MCLaterFd`, `MCLaterFd.cfg` | `FdWaitsCount`, `OutcomeIsFinal`, `WaitKeepsLoop`, and under fairness `ThreadsEnd`, hold |
| fd_release | same, `MCFdRelease.cfg` | `RFunctionsStayOnMain` violated |
| background_task | `BackgroundTask`, `MCBackgroundTask.cfg` | types, `OneOwner`, `ArithmeticExact`, `NoMissedWakeup`, and under fairness `SchedulingEnds` and `TasksComplete`, hold without interrupts |
| lock_leak | same, `MCLockLeak.cfg` | `SchedulingEnds` violated with interrupts |
| promise | `Promise`, `MCPromise.cfg` | types, `CalledOnce`, `SettlesOnceUnlessLaterFails`, and under fairness `HandlersRun`, `ResolvedSettles`, `RejectionsSurface`, hold |

Bounds. `MaxLoop` bounds ids: with 2 there is a global loop, a child and a
grandchild or sibling, or a private loop with a child, a chain in which removing one
node orphans the next (`TablePruneSettles` covers every size). `MaxCallback` 2: two callbacks make
order, "one of them throws" and cancelling one from the other matter. `MaxDepth` bounds only the frames user code adds by itself; passes push
theirs freely: 2 gives `run_now()` in a callback or in `with_loop()`, 4 gives a
pass inside a pass inside `with_loop()`. `MaxTime` 0 is used where the clock does
not matter, 1 or 2 where callbacks must become due during a wait. `Timeouts` holds
0 and a negative one (wait forever), which becomes a time beyond `MaxTime`.
`MaxFdWaits` 1: a loop kept alive by a wait alone. No symmetry is used: ids are
compared.

For the autorunners: three loops, of which the global one and a child are driven and
one is private; `Passes` 2 stands for the 20 of `execCallbacksForTopLevel` (one pass
after which work is left, and the last one); the retry after one millisecond is less
than a tick, so it is "now"; `MaxCommands` bounds the commands typed: one is enough to
leave callbacks behind that schedule more, and a second one finds what an interrupt has
left behind; `MaxDepth` 4 gives the handler inside a callback inside `run_now()` inside a
command. On Windows three callbacks: one in a pass, one that waits, one that another
thread schedules meanwhile.

For fork: three processes, so that a child forks as well, and siblings share a pipe; four
pipes, of which a failed set-up takes one and a complete one two, so that a process and its
child both complete theirs; two callbacks, of which
one may be scheduled while the other is waiting.

For `later_fd()`: two waits, of which one is from R and has a canceller; two loops, one
without parent; timeouts of one second (the default) and never. Two waits make a count
that is off by one visible on a loop that another wait holds, let one callback run inside
the other, and one thread schedule while another is cancelled. Waits do not interact
otherwise, and `LaterFd_proofs` covers any number of them.

For background tasks: two, so that one adds while the other is waited for, completed or
throws; `NSec` 2 with `MaxTime` 6 gives three full seconds, each with a carry; a timeout of 5
is more than the two seconds after which `wait()` looks again, and no whole number of
seconds. `MaxDepth` 1 bounds how often an interrupted `wait()` may leave a level of the lock
behind before `run_now()` is called again.

For promises: three, so that one waits for another that waits for a third, or a settled
promise has a handler with a promise of its own; `MaxDepth` 2 gives a job inside a handler's
`run_now()`, with a `resolve()` inside that; `catch()` and `finally()`, which between them call a
function for either outcome, recover from an error and pass either outcome on; one loop,
which may lose its handle. With a second loop that keeps its handle and with `then()` as well
the safety properties hold, too (2,083,976 states, and for any loops by the proofs).

In all of these a program may stop calling anything, so deadlock is not checked.

`EventLoop` deadlocks nowhere: at top level loops can be run or callbacks
can go on, so its runs check deadlock as well. An idle prompt with nothing scheduled is
where the autorunner may rest, so its runs do not.

Fairness (`FairSpec`): weak fairness of `MainStep`, the steps the main thread takes
without user code, because the thread keeps executing while it is in C++ code; and
of `Tick`, because time passes (`wait()` sleeps at most two seconds at a time and
then looks again, so a missed signal only delays it). Nothing is assumed of user
code: a callback may run forever. `ControlReturns` therefore speaks of getting back
to user code. `Autorunner` has weak fairness of the main thread's own steps, of the timer
thread, of time, and of R calling the handler at the prompt when the pipe is readable,
which is what R's event loop does. Again nothing is assumed of user code;
its liveness properties have as premise that the prompt is reached again and again, and
`WaitingCallbacksRunUnlessInterrupted` also that the timer is set again after an interrupt.
`LaterFd` has weak fairness of each poll thread (it is the system's to schedule, and
`poll()` returns after at most 1.024 seconds) and of time. Nothing is assumed of the main
thread, of the descriptors, or of `poll()` failing.

`WinAutorunner`: weak fairness of the window procedure, of the timer and of posted
messages at the prompt. `WM_TIMER` has the lowest priority, and a user may interrupt any
one of them, but neither goes on for ever: strong fairness of its dispatch at the prompt
and of `HandlerRuns`. `AutorunnerSetup`: weak fairness of the threads, strong fairness of R
polling its input handlers (a `fork()` or `later()` in between does not starve it).
`BackgroundTask`: weak fairness of threads and time; `run_now()` is called again and again, by
the program or the autorunner; who waits for a mutex gets it if it is released again and
again (strong fairness), which is what the systems' mutexes give in practice. `execute()`
and `complete()` return. `Promise`: handlers return, and each loop is run again and again
outside of handlers (strong fairness, because other jobs come in between). Nothing is assumed
of interrupts and of loops that go; what they cut off is excepted by `dropped` and `cut`.

### Findings

1. There is one timer, and `doExecLater()` sets it to the next timestamp of whatever loop
   it was called for, although its comment speaks of the global loop only. `later()` on a
   private or child loop replaces an earlier wakeup of the global loop, whose callback
   then runs late (`timer_loops`).
2. A pending interrupt jumps out of `sys_nframe()` after the handler has emptied the pipe
   and before anything sets the timer. Callbacks that are due stay in the queue until
   something else is scheduled (`interrupt`).
3. `fd_cancel()` only clears the flag. The poll thread that finds it cleared destroys the
   `ThreadArgs`, and so releases the R function in it from a thread that is not R's
   (`fd.cpp:109`), while `callback_registry.cpp:90` says that R functions should only be
   accessed from the main thread. A wait cancelled after its thread has scheduled the
   callback is freed by the main thread, as it should be (`fd_release`).
4. `wait()` asks R for interrupts with its `Guard` alive (`callback_registry.cpp:228`). An
   interrupt leaves by `longjmp`, the lock stays with the main thread, and `later()` on
   another thread, "Safe to call from any thread", never returns (`lock_leak`). The main
   thread itself goes on, the mutex being recursive.

More things the models show, without a run of their own:

- a handle collected while its loop is current (the parent runs it): the finalizer raises
  an error before the reference is dropped, and is not run again, so that the empty loop
  stays in the table (`later2.cpp:150`);
- a C callback that lets an R error through leaves `current_registry` and
  `exec_callbacks_reentrancy_count` as they were in the middle of the pass
  (`Natives = {TRUE, FALSE}`); `at_top_level()` is then false for good and the autorunner
  never runs again;
- `TimerInTime` holds with the global loop alone and no other threads (`MCTimerLoops.cfg`
  with `Loops = {0}`);
- `run_now(all = FALSE)` runs every due callback of the child loops, because
  `execCallbacksOne()` hands `runAll = true` to them (`later2.cpp:208`); the
  documentation (`R/later2.R:425`) says at most one operation. TLC finds `AtMostOne` violated
  with `MaxLoop = 1`, `MaxCallback = 2`, `MaxTime = 0` and `MaxDepth = 1`;
- `run_now()` may return TRUE with nothing run, against `R/later2.R:430` ("whether any callbacks
  were actually run"). With loops 0 -> {1, 2}, 2 -> 3 -> 4, a callback due in 4 and nobody
  holding 3, a collection in `PutRNGstate()` after loop 1 prunes the empty loop 3, and the pass
  does not get to 4. TLC finds `TrueMeansRan` violated with `MaxLoop = 4`, `MaxCallback = 1`,
  `MaxTime = 0` and `MaxDepth = 1`; `TrueMeansRanUnlessCollected` says that nothing else does it;
- a `ThreadArgs` whose loop was destroyed meanwhile, or for which no thread could be made,
  is never freed (`owner` "leaked" and "failed");
- another thread that schedules between the main thread's `nextTimestamp()` and
  `timer.set()` gets its earlier wakeup overwritten, so its callback is late
  (the same with `Threads = TRUE`);
- a callback of loop A that calls `with_loop(B, destroy_loop(A))` destroys the loop whose
  pass is running; the pass goes on with A's remaining callbacks, whose cancellers already
  return FALSE, as if they had run (`R/later2.R:228`). TLC finds `FalseMeansOver` violated with
  `MaxLoop = 1`, `MaxCallback = 2`, `MaxTime = 0` and `MaxDepth = 2`;
- a child loop lives on after its handle is collected, while it has callbacks; in those
  callbacks `current_loop()` raises an error, so `later()` without `loop =` fails. If that
  `later()` is the one in `doResolveFinalValue()`, the promise has been marked fulfilled and
  the error then rejects it (`promise.R:62`, `113`), and its handlers are never called. TLC finds
  `SettlesOnce` violated with one promise and one loop; `SettlesOnceUnlessLaterFails` says what
  is left of it: nobody has seen the first outcome;
- on Windows `idle()` looks at the global queue only: the timer is killed although a child
  loop has callbacks that are not due yet, and these wait for the next `later()`; and an
  error of `setupTimer()` in a C callback's `later()` jumps over the `Guard` of
  `scheduleCallback()`;
- a `fork()` while the timer thread holds the timer's mutex leaves the child with a mutex
  that nobody unlocks: its first `later()` does not return. A child that ends normally runs
  `~Timer`, which joins a thread it does not have (`timer_posix.cpp:63`);
- `timedwait()` reads the wall clock (`threadutils.h:119`), everything else the monotonic
  one: a wall clock set back lengthens one wait;
- two promises resolved with each other stay pending, only a promise resolved with itself
  is found out, and one rejected with itself is not; an interrupt drops the remaining
  handlers of its job and the report of the error, and between the flag of `resolve()` and the
  evaluation of its argument it leaves the promise pending for ever; a handler attached between the draining and the report does not
  keep the error from being reported; jobs of different loops have no order.

## 4. The proofs

All for arbitrary `MaxLoop`, `MaxCallback`, `MaxTime`, `MaxDepth`, `Delays` and
`Timeouts`, from the named assumptions `TableAssumption` and `EventLoopAssumption`
(the bounds are naturals, delays and timeouts integers), and with `Natives` free but for
`LoopGuards`. The other modules have named assumptions of the same kind.

`CallbackRegistryTable_proofs`. `TableInv` = types, `ForestOK`, `RefsOK` is
inductive as a whole (`TableInvariant`): that a child has a larger id than its
parent needs that children lists hold only ids already given out, and that the
global loop stays needs its handle. `RefsOK` (`TableRefs`) and the types of `LaterFd` are proved
only, no run repeats them. `RemoveAllKeepsForest` says that removing any set
of registries leaves a forest. `TablePruneSettles` rests on `PruneOnce`: what could
go after the walk, added to what went, is still within the least closed set; it holds for
both callers, `PruneRegistries` and the finalizer.
`TableWorkIsKept` rests on `PrunedIsLoose`: whatever is pruned is empty or has lost
its parent by then - otherwise the set without it would be a smaller closed set.
`TablePruneIsTheLoop`: after the ids below n have been visited, exactly the members of the
least closed set below n have been removed (`PruneNext`). Its step needs that parents are
older than their children, so that whatever orphans a loop has gone before the walk gets
there: with ids in another order one walk would not be enough. The induction over the
iterations of a recursive function is a look at the first one that goes wrong (`LeastNat`,
from the well-foundedness of the naturals), because the provers cannot instantiate the
library's induction rules.

`EventLoop_proofs`. First, each step of the event loops is a step of the table
(`StepOnTable`), so `TableInv` carries over, and with the types (frames stay frames)
gives `LoopTypeOK`; what is proved of the table's steps holds of the event loops by the
lemma `LoopsImplementTable`. Then `LoopInv` adds that no pass has a
timestamp ahead of the clock (`PassTimesOK`: without it a callback could start
early), that callbacks not yet created have no fate, and `NothingLost` (without it a
queue's first callback need not be in one queue only, and the order within "its"
loop would mean nothing). From `LoopInv`, `LifecycleStep` shows that every step maps to
a step of `CallbackLifecycle` or to none: `LoopNothingLost`, `LoopsKeepPromise`.

Three more invariants are about the stack. `NestingOK` (`LoopNesting`): a call blocked in
`wait()` is innermost; a recursive `execCallbacksOne()` is right above the call that runs its
children, with the same timestamp and on a younger loop. It gives `LoopPassDescends`, and the
others rest on it. `GuardsInv`: the `old` of every frame is the loop the frame below made
current, so unwinding any number of frames restores the right one (`LoopGuards`). This theorem
alone has a hypothesis on `Natives`, that it is within {FALSE}: with C callbacks that let an R
error through it is false (section 3). `PassesPop` for `LoopTrueMeansRan`: the calls of one
pass, from `run_now()` up to the first frame of user code, have popped something between
them, or else no user code has run in this pass and something that was due when it started
is still ahead of one of its frames, or a handle was collected between two loops of a pass
(`collected`, which every pass clears when it starts: a pass inside another has user code
between, so the outer one has popped something by then). What `wait()` saw below a loop was found by a recursion over
the tree (`Subtree`, `Due`); `SubtreeMembers` and `SubtreeOfChild` turn it into what a pass walks, and
`DueKept` says that it stays due as long as no user code runs.

`Autorunner_proofs`, for any loops, delays, passes and depth, from `AutorunnerAssumption`.
`AutorunnerInv` = types, `PipeOK` (the byte in the pipe is what `hot` says; without it
`pipe` could grow), and of the stack: only R code and passes have frames on top of them, no
handler runs callbacks above a pass (`NotReentered`), and `exec_callbacks_reentrancy_count` is
the number of passes on the stack (`Counted`), also after an error has unwound any number of
them; without the exact count `at_top_level()` could miss one. It is preserved by every step
(`AutorunnerInvariant`), which gives `AutorunnerTypeOK` and `AutorunnerNotReentered`: the count
alone keeps callbacks from running inside callbacks, whatever `sys.nframe()` returns.
`AutorunnerNoLostWakeup` needs no assumption about interrupts:
one of the handler excuses a missing wakeup until the timer is next set (finding 2), and
nothing else does. Its one delicate step is an error: `ThrownStack` shows that what it
unwinds holds no input handler, because only passes of a handler lie below R code and its `try` block
stops the error there.

`LaterFd_proofs`, for any finite number of waits, any loops and timeouts, from
`LaterFdAssumption`. `LaterFdInv` = types, `FdWaitsCount`, `FlagOK` (the flag is TRUE just
as long as nothing is promised; without it the canceller could succeed after the callback
started), `QueueOK` and `StackOK` (a `ThreadArgs` that is queued or runs is in one place
only, and a running one has the outcome "ran"; without them one destructor could run
twice). `CountGrows`, `CountShrinks` and `CountStays` do the counting with finite
cardinalities. The invariant gives `LaterFdTypeOK` and `LaterFdCount`;
`LaterFdOutcome` follows from `FlagOK`, and `LaterFdKeepsLoop` from the count: a wait makes it
positive, so `MayGo` leaves the loop alone.

`BackgroundTask_proofs`, for any number of tasks, any timeouts, either platform, with and
without interrupts, from `TimestampAssumption`, `ThreadUtilsAssumption` and
`BackgroundTaskAssumption`. `BackgroundTaskInv` = types, `LockOK` (the mutex is free exactly
when nobody has locked it, and held wherever the code relies on it: without it two threads
could be in the queue at a time), `WaitOK` (only the main thread waits; on Windows it is
counted while it does, and if the event is not set it found the queue empty: without the
count a signal could be skipped) and `OneOwner`. An interrupt leaves a level of the lock
behind and breaks none of it: what it breaks is liveness (finding 4).
`BackgroundTaskArithmetic` needs no induction: `AddSecondsAdds` and `OrderOfTimespecs` prove
`addSeconds()`, the comparisons and the difference exact for a second of any length.

`WinAutorunner_proofs`, for any callbacks, passes and depth, from `WinAutorunnerAssumption`.
`WinAutorunnerInv` = types, `StackOK` (only R code and passes have frames on top of them,
no window procedure runs callbacks above a pass, the re-entrancy count is the number of
passes) and
`WakeupOK`, which is `NoLostWakeup` made inductive: a timer that `idle()` has already
decided to kill does not count, so a callback that arrives between `idle()` and `KillTimer()`
must have its message, and nobody dispatches that in between.

`AutorunnerSetup_proofs`, for any processes and any number of pipes, from `SetupAssumption`.
`SetupInv` = types, `ProcsOK` (a process without an autorunner that could set a timer has no
pipe of its own: the child closed its copy), `OneOwner` (the pipe of a process with an
autorunner is nobody else's, and no other process has a handler on it), `BytesOwned` (bytes
are only in such pipes) and `HotTells`. `PipeIsPrivate` is `HotTells` for the living;
`ChildNeedsRunNow` follows from the middle two: a handler left in a child is on a pipe that
nobody writes.

`Promise_proofs`, for any number of promises, loops and nested jobs, from
`PromiseAssumption`. `PromiseInv` follows the handlers that have still to settle their
promise. `Unique`: such a handler is in one place, the list of a promise, a job that waits or
a job that runs; the list counts until the job that drains it begins (`Live`). `TokensOK`: the promise it is to
settle is pending, unless `later()` has just failed in this very handler; it has been "called"
only if the handler belongs to a chain or a call, or has begun; and no chain of that promise
has called back before. `JobsOK`, `ListsOK` and `StackOK` say that a promise is drained at most
once, after it is settled, and that no list or job holds two handlers for one promise;
`StartsOK` that a handler that was started leaves its mark on its promise, so it cannot be
waiting again. `CaughtOK` is about the time between the failure of `later()` and the handler
that catches its error: the frame is innermost, its loop has no handle, and no job of the promise
waits or runs; without it the second outcome could reach somebody who knows the first.
`PromiseCalledOnce` reads off `StartsOK` and `StackOK`. `PromiseSettlesOnce` looks at the ways to
settle a promise: user code is stopped by `called`, a chain and a handler by `TokensOK`, and
`ErrorCaught` is the only step that changes a settled promise, where `CaughtOK` says the rest
(`SettleStep`).

Only model-checked: the liveness properties `ControlReturns`, `WaitingCallbacksRun`,
`WaitingCallbacksRunUnlessInterrupted`, `ThreadsEnd`, `SchedulingEnds`, `TasksComplete`,
`ParentRuns`, `HandlersRun`, `ResolvedSettles` and `RejectionsSurface`; fairness and ENABLED
are out of the prover's reach. Of the safety properties `OncePerPass` is only model-checked,
so far; every other invariant and action property of a passing run is the statement of a
theorem.

## 5. Not modelled

The rounding of times kept as doubles, and the Windows clock, a plain counter;
`list_queue()`, printing and logging; the thread-id assertions of `debug.h`; of
tinycthread, which is vendored, everything the package does not use (thread-specific
storage, `call_once()`, timed locks, `trylock`, broadcast); generated wrappers; allocation
of weak references; `deInitialize()` and `remove_dummy_handler()`, which nothing calls, and
`~Timer`, which runs when the library is unloaded. `as_function()` is a pure conversion of
formulas. The values of promises, their visibility and the number of arguments of a
handler are data that no property tells apart.

## 6. Plan

The table and the event loops came first, because everything else rests on them, then the
POSIX autorunner, which is how most programs meet `later2`, `later_fd()` with its threads,
and the lock with the C API, fork, Windows and promises. Every component with state of its
own now has a module, and every safety property of a passing run but `OncePerPass` a theorem.
Left: `OncePerPass`, which needs that the loops a pass has entered are never adopted again;
and `LaterFd` shown to implement the table of loops, its registries, handles and `fd_waits` mapped to
those of `CallbackRegistryTable`.
