--------------------------- MODULE BackgroundTask ---------------------------
(***************************************************************************)
(* BackgroundTask of the C API (inst/include/later2_api.h): a task is      *)
(* executed on a thread of its own, which then hands it to the main thread *)
(* with later(); there it is completed and deleted.  The two meet at the   *)
(* lock and the condition variable of ThreadUtils: later() holds the lock  *)
(* while it adds the callback, CallbackRegistry::wait() holds it while it  *)
(* looks at the queue and when it asks R for interrupts.                   *)
(*                                                                         *)
(* The queue is that of the global loop, in the order of scheduling; the   *)
(* loop of wait() and of a pass are kept, all other loops left out.        *)
(***************************************************************************)
EXTENDS ThreadUtils, Sequences

CONSTANTS
    Tasks,       \* the tasks, each with a thread of the same name
    Main,        \* the main thread
    NoTask,      \* no task
    MaxDepth,    \* bound on the levels of the lock that R code holds
    Timeouts,    \* the timeouts run_now() is called with
    Interrupts   \* the answers of R_CheckUserInterrupt(): is there an interrupt?

ASSUME BackgroundTaskAssumption ==
    /\ Threads = Tasks \cup {Main}
    /\ Main \notin Tasks
    /\ NoTask \notin Tasks
    /\ MaxDepth \in Nat
    /\ Timeouts \subseteq Nat
    /\ Interrupts \subseteq BOOLEAN

VARIABLES
    object,   \* the C++ object of a task
    thread,   \* what the thread of a task does
    queue,    \* the tasks whose result_callback is in the queue
    pc,       \* what the main thread does
    running,  \* the task whose result_callback it runs
    expire,   \* expireTime of wait()
    due       \* how many of the queued callbacks the pass must still run

taskVars == <<object, thread>>
mainVars == <<pc, running, expire, due>>
vars == <<threadVars, taskVars, queue, mainVars>>

TypeOK ==
    /\ ThreadTypeOK
    /\ object \in [Tasks -> {"none", "alive", "leaked", "deleted"}]
    /\ thread \in [Tasks -> {"none", "execute", "later", "locked", "added", "ended"}]
    /\ queue \in Seq(Tasks)
    /\ pc \in {"code", "guard", "check", "blocked", "relock", "interrupt", "pop",
               "complete", "delete"}
    /\ running \in Tasks \cup {NoTask}
    /\ expire \in Timespec
    /\ due \in Nat

\* The library is loaded: LaterInitializer has found execLaterNative2.
Init ==
    /\ ThreadInit
    /\ object = [t \in Tasks |-> "none"]
    /\ thread = [t \in Tasks |-> "none"]
    /\ queue = <<>>
    /\ pc = "code"
    /\ running = NoTask
    /\ expire = TimespecAt(0)
    /\ due = 0

-----------------------------------------------------------------------------
\* begin(), called by C code on the main thread; nobody looks at the result of
\* pthread_create(), so the task is just forgotten if there is no thread.
Begin(t) ==
    /\ pc \in {"code", "complete"}
    /\ object[t] = "none"
    /\ \/ /\ object' = [object EXCEPT ![t] = "alive"]
          /\ thread' = [thread EXCEPT ![t] = "execute"]
       \/ /\ object' = [object EXCEPT ![t] = "leaked"]
          /\ UNCHANGED thread
    /\ UNCHANGED <<threadVars, queue, mainVars>>

\* task_main(): execute() returns and later() is called.
Execute(t) ==
    /\ thread[t] = "execute"
    /\ thread' = [thread EXCEPT ![t] = "later"]
    /\ UNCHANGED <<threadVars, object, queue, mainVars>>

\* scheduleCallback(): the lock, which may have to be waited for, ...
ScheduleLocks(t) ==
    /\ thread[t] = "later"
    /\ EnterGuard(t)
    /\ thread' = [thread EXCEPT ![t] = "locked"]
    /\ UNCHANGED <<object, queue, mainVars>>

\* ... CallbackRegistry::add() ...
ScheduleAdds(t) ==
    /\ thread[t] = "locked"
    /\ queue' = Append(queue, t)
    /\ CndSignal
    /\ thread' = [thread EXCEPT ![t] = "added"]
    /\ UNCHANGED <<platform, now, mtxVars, object, mainVars>>

\* Mutant of ScheduleUnlocks: the task is handed over first and executed then.
ScheduleUnlocksFirst(t) ==
    /\ thread[t] = "added"
    /\ LeaveGuard(t)
    /\ thread' = [thread EXCEPT ![t] = "execute"]
    /\ UNCHANGED <<object, queue, mainVars>>

\* ... and the end of the guard, the last thing of task_main().
ScheduleUnlocks(t) ==
    /\ thread[t] = "added"
    /\ LeaveGuard(t)
    /\ thread' = [thread EXCEPT ![t] = "ended"]
    /\ UNCHANGED <<object, queue, mainVars>>

-----------------------------------------------------------------------------
\* run_now(timeout) in R code, or the autorunner with timeout 0.
RunNow(timeout) ==
    /\ pc = "code"
    /\ depth <= MaxDepth
    /\ pc' = "guard"
    /\ expire' = AddSeconds(TimespecAt(now), timeout)
    /\ UNCHANGED <<threadVars, taskVars, queue, running, due>>

WaitLocks ==
    /\ pc = "guard"
    /\ EnterGuard(Main)
    /\ pc' = "check"
    /\ UNCHANGED <<taskVars, queue, running, expire, due>>

\* How long wait() has to wait if nothing is queued.
WaitFor == DiffSecs(expire, TimespecAt(now))

\* "Don't wait for more than 2 seconds at a time".
WaitBlocks ==
    /\ pc = "check"
    /\ queue = <<>>
    /\ WaitFor > 0
    /\ TimedWait(Main, IF WaitFor > 2 * NSec THEN 2 * NSec ELSE WaitFor)
    /\ pc' = "blocked"
    /\ UNCHANGED <<taskVars, queue, running, expire, due>>

\* Mutant of WaitReturns: it returns without leaving the guard.
WaitReturnsLocked ==
    /\ pc = "check"
    /\ queue # <<>> \/ WaitFor <= 0
    /\ pc' = IF queue = <<>> THEN "code" ELSE "pop"
    /\ due' = Len(queue)
    /\ UNCHANGED <<threadVars, taskVars, queue, running, expire>>

\* Mutant of WaitReturns: once the time is over it does not look any more.
WaitReturnsExpired ==
    /\ pc = "check"
    /\ queue # <<>> \/ WaitFor <= 0
    /\ LeaveGuard(Main)
    /\ pc' = IF WaitFor <= 0 THEN "code" ELSE "pop"
    /\ due' = Len(queue)
    /\ UNCHANGED <<taskVars, queue, running, expire>>

\* return due(): the pass that follows runs at least what is queued now.
WaitReturns ==
    /\ pc = "check"
    /\ queue # <<>> \/ WaitFor <= 0
    /\ LeaveGuard(Main)
    /\ pc' = IF queue = <<>> THEN "code" ELSE "pop"
    /\ due' = Len(queue)
    /\ UNCHANGED <<taskVars, queue, running, expire>>

WaitUnblocks ==
    /\ pc = "blocked"
    /\ CndWoken(Main) \/ CndTimedOut(Main)
    /\ pc' = "relock"
    /\ UNCHANGED <<taskVars, queue, running, expire, due>>

SpuriousWakeup ==
    /\ pc = "blocked"
    /\ CndSpurious(Main)
    /\ pc' = "relock"
    /\ UNCHANGED <<taskVars, queue, running, expire, due>>

WaitRelocks ==
    /\ pc = "relock"
    /\ CndRelock(Main)
    /\ pc' = "interrupt"
    /\ UNCHANGED <<taskVars, queue, running, expire, due>>

\* R_CheckUserInterrupt() returns, or jumps to R code with the lock held.
CheckUserInterrupt(interrupted) ==
    /\ pc = "interrupt"
    /\ pc' = IF interrupted THEN "code" ELSE "check"
    /\ UNCHANGED <<threadVars, taskVars, queue, running, expire, due>>

\* CallbackRegistry::pop(), its guard included.
PopCallback ==
    /\ pc = "pop"
    /\ owner \in {NoThread, Main}
    /\ queue # <<>>
    /\ running' = Head(queue)
    /\ queue' = Tail(queue)
    /\ due' = IF due = 0 THEN 0 ELSE due - 1
    /\ pc' = "complete"
    /\ UNCHANGED <<threadVars, taskVars, expire>>

\* What was scheduled after the pass began may be too late for it.
PassEnds ==
    /\ pc = "pop"
    /\ owner \in {NoThread, Main}
    /\ due = 0
    /\ pc' = "code"
    /\ UNCHANGED <<threadVars, taskVars, queue, running, expire, due>>

\* result_callback(): complete() returns ...
Complete ==
    /\ pc = "complete"
    /\ pc' = "delete"
    /\ UNCHANGED <<threadVars, taskVars, queue, running, expire, due>>

\* ... or throws, which ends the pass: "TODO: Error handling" ...
CompleteThrows ==
    /\ pc = "complete"
    /\ pc' = "code"
    /\ object' = [object EXCEPT ![running] = "leaked"]
    /\ running' = NoTask
    /\ UNCHANGED <<threadVars, thread, queue, expire, due>>

\* ... and the task is deleted.
Delete ==
    /\ pc = "delete"
    /\ object' = [object EXCEPT ![running] = "deleted"]
    /\ running' = NoTask
    /\ pc' = "pop"
    /\ UNCHANGED <<threadVars, thread, queue, expire, due>>

Tick ==
    /\ now < MaxTime
    /\ now' = now + 1
    /\ UNCHANGED <<platform, mtxVars, cndVars, taskVars, queue, mainVars>>

-----------------------------------------------------------------------------
MainStep ==
    \/ WaitLocks
    \/ WaitBlocks
    \/ WaitReturns
    \/ WaitUnblocks
    \/ WaitRelocks
    \/ \E i \in Interrupts : CheckUserInterrupt(i)
    \/ PopCallback
    \/ PassEnds
    \/ Complete
    \/ Delete

ThreadStep(t) == Execute(t) \/ ScheduleAdds(t) \/ ScheduleUnlocks(t)

Next ==
    \/ MainStep
    \/ SpuriousWakeup
    \/ CompleteThrows
    \/ \E timeout \in Timeouts : RunNow(timeout)
    \/ \E t \in Tasks : Begin(t) \/ ThreadStep(t) \/ ScheduleLocks(t)
    \/ Tick

Spec == Init /\ [][Next]_vars

(***************************************************************************)
(* Fairness.  Threads keep going, time passes, and R runs its loop again   *)
(* and again.  A thread that waits for a mutex gets it if the mutex is     *)
(* released again and again (SF); its execute() returns.                   *)
(***************************************************************************)
FairSpec ==
    /\ Spec
    /\ SF_vars(MainStep)
    /\ WF_vars(\E timeout \in Timeouts : RunNow(timeout))
    /\ \A t \in Tasks : WF_vars(ThreadStep(t)) /\ SF_vars(ScheduleLocks(t))
    /\ WF_vars(Tick)

-----------------------------------------------------------------------------
Queued(t) == \E i \in DOMAIN queue : queue[i] = t

(***************************************************************************)
(* A task has one owner at a time: its thread until the callback is in the *)
(* queue, then the queue, then the main thread.  It is not completed       *)
(* before execute() has returned, nor twice, and no one who still uses it  *)
(* can find it deleted.                                                    *)
(***************************************************************************)
OneOwner ==
    \A t \in Tasks :
       /\ thread[t] \in {"execute", "later", "locked"} =>
             object[t] = "alive" /\ ~Queued(t) /\ running # t
       /\ Queued(t) => object[t] = "alive" /\ running # t
       /\ running = t => object[t] = "alive"
       /\ \A i, j \in DOMAIN queue : queue[i] = t /\ queue[j] = t => i = j

(***************************************************************************)
(* No missed wakeup: the main thread does not sleep on in wait() when a    *)
(* callback has been added, although on Windows it has left the mutex      *)
(* before it waits for the event, and counts waiters that are gone.        *)
(***************************************************************************)
NoMissedWakeup == AsleepFor(Main) => queue = <<>>

(***************************************************************************)
(* The arithmetic that carries over between seconds and nanoseconds is     *)
(* exact, for negative intervals too: at every time of the clock,          *)
(* addSeconds() yields a normalized timespec, and <, > and diff_secs() of  *)
(* timespecs agree with the number of nanoseconds between them.            *)
(***************************************************************************)
ArithmeticExact ==
    \A s \in -MaxTime .. MaxTime :
       LET ts == AddSeconds(TimespecAt(now), s)
       IN  /\ ts = TimespecAt(now + s)
           /\ DiffSecs(ts, TimespecAt(now)) = s
           /\ Greater(ts, TimespecAt(now)) <=> s > 0
           /\ Less(ts, TimespecAt(now)) <=> s < 0

(***************************************************************************)
(* later() is "Safe to call from any thread": a thread that calls it       *)
(* sooner or later returns.                                                *)
(***************************************************************************)
SchedulingEnds == \A t \in Tasks : thread[t] = "later" ~> thread[t] = "ended"

(***************************************************************************)
(* Every task that was executed is completed on the main thread and        *)
(* deleted, or lost when its complete() throws.                            *)
(***************************************************************************)
TasksComplete ==
    \A t \in Tasks : thread[t] = "later" ~> object[t] \in {"deleted", "leaked"}
=============================================================================
