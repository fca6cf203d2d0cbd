--------------------------- MODULE AutorunnerSetup ---------------------------
(***************************************************************************)
(* The set-up of the POSIX autorunner (src/later_posix.cpp) and what fork()*)
(* does to it.  A child gets a copy of all variables, shares the pipes and *)
(* has only the thread that forked: no timer thread.                       *)
(*                                                                         *)
(* Autorunner has the details of timer and input handler in one process;   *)
(* here a timer is set, goes off and writes the byte, and the input        *)
(* handler reads it and runs what is queued.                               *)
(***************************************************************************)
EXTENDS Integers, Sequences

CONSTANTS
    Procs,      \* the processes
    Root,       \* the one that is started first
    MaxPipes,   \* bound on the pipes that are created
    MaxQueue    \* bound on the callbacks that wait in a process

ASSUME SetupAssumption ==
    /\ Root \in Procs
    /\ MaxPipes \in Nat
    /\ MaxQueue \in Nat

NoPipe == -1
Pipes == 1..MaxPipes

VARIABLES
    alive,        \* the processes there are
    ready,        \* later2.cpp: ensureInitialized() has come to its end
    initialized,  \* later_posix.cpp: "Whether we have initialized the input handler"
    pipe,         \* pipe_in and pipe_out
    dummy,        \* dummy_pipe_in and dummy_pipe_out
    handlers,     \* the pipes on which R has an input handler of the package
    hot,          \* is a byte in the pipe, as far as the process knows?
    timer,        \* the timer and its thread
    queue,        \* how many callbacks wait
    calls,        \* is the main thread about to call Timer::set()?
    bytes         \* the bytes in each pipe, in the order in which they were created

setupVars == <<ready, initialized, pipe, dummy, handlers>>
vars == <<alive, setupVars, hot, timer, queue, calls, bytes>>

\* The timer: no thread yet, not set, set, going off (its thread has the mutex);
\* and in a child that has no such thread, with the mutex free or held for ever.
Timers == {"none", "unset", "set", "callback", "orphan", "locked"}

TypeOK ==
    /\ alive \subseteq Procs
    /\ ready \in [Procs -> BOOLEAN]
    /\ initialized \in [Procs -> BOOLEAN]
    /\ pipe \in [Procs -> Pipes \cup {NoPipe}]
    /\ dummy \in [Procs -> Pipes \cup {NoPipe}]
    /\ handlers \in [Procs -> SUBSET Pipes]
    /\ hot \in [Procs -> BOOLEAN]
    /\ timer \in [Procs -> Timers]
    /\ queue \in [Procs -> 0..MaxQueue]
    /\ calls \in [Procs -> BOOLEAN]
    /\ bytes \in Seq({0, 1})  \* "in theory it only ever holds zero or one byte"
    /\ Len(bytes) <= MaxPipes

Init ==
    /\ alive = {Root}
    /\ ready = [p \in Procs |-> FALSE]
    /\ initialized = [p \in Procs |-> FALSE]
    /\ pipe = [p \in Procs |-> NoPipe]
    /\ dummy = [p \in Procs |-> NoPipe]
    /\ handlers = [p \in Procs |-> {}]
    /\ hot = [p \in Procs |-> FALSE]
    /\ timer = [p \in Procs |-> "none"]
    /\ queue = [p \in Procs |-> 0]
    /\ calls = [p \in Procs |-> FALSE]
    /\ bytes = <<>>

-----------------------------------------------------------------------------
\* ensureAutorunnerInitialized(), when the second pipe() fails: the first pipe
\* and its handler stay.
DummyPipeFails(p) ==
    /\ ~ready[p]
    /\ \E k \in Pipes :
         /\ k = Len(bytes) + 1
         /\ bytes' = Append(bytes, 0)
         /\ pipe' = [pipe EXCEPT ![p] = k]
         /\ handlers' = [handlers EXCEPT ![p] = @ \cup {k}]
    /\ UNCHANGED <<alive, ready, initialized, dummy, hot, timer, queue, calls>>

\* ensureInitialized(), from .onLoad or the first later().
EnsureInitialized(p) ==
    /\ ~ready[p]
    /\ \E k, d \in Pipes :
         /\ k = Len(bytes) + 1 /\ d = k + 1
         /\ bytes' = bytes \o <<0, 0>>
         /\ pipe' = [pipe EXCEPT ![p] = k]
         /\ dummy' = [dummy EXCEPT ![p] = d]
         /\ handlers' = [handlers EXCEPT ![p] = @ \cup {k, d}]
    /\ initialized' = [initialized EXCEPT ![p] = TRUE]
    /\ ready' = [ready EXCEPT ![p] = TRUE]
    /\ UNCHANGED <<alive, hot, timer, queue, calls>>

-----------------------------------------------------------------------------
\* later(): the callback is queued ...
Later(p) ==
    /\ ready[p]
    /\ ~calls[p]
    /\ queue[p] < MaxQueue
    /\ queue' = [queue EXCEPT ![p] = @ + 1]
    /\ calls' = [calls EXCEPT ![p] = TRUE]
    /\ UNCHANGED <<alive, setupVars, hot, timer, bytes>>

\* Mutant of TimerSet: only the call that starts the thread sets the time.
TimerSetOnce(p) ==
    /\ calls[p]
    /\ timer[p] \notin {"callback", "locked"}
    /\ timer' = [timer EXCEPT ![p] = IF @ = "none" THEN "set" ELSE @]
    /\ calls' = [calls EXCEPT ![p] = FALSE]
    /\ UNCHANGED <<alive, setupVars, hot, queue, bytes>>

\* ... and Timer::set() called, which starts the thread unless `bgthread` has a
\* value; the child's copy may have one although there is no thread.
TimerSet(p) ==
    /\ calls[p]
    /\ timer[p] \notin {"callback", "locked"}
    /\ timer' = [timer EXCEPT ![p] = IF @ = "orphan" THEN @ ELSE "set"]
    /\ calls' = [calls EXCEPT ![p] = FALSE]
    /\ UNCHANGED <<alive, setupVars, hot, queue, bytes>>

TimerElapses(p) ==
    /\ timer[p] = "set"
    /\ timer' = [timer EXCEPT ![p] = "callback"]
    /\ UNCHANGED <<alive, setupVars, hot, queue, calls, bytes>>

\* Mutant of FdOn: a byte is written whether or not there is one already.
FdOnAlways(p) ==
    /\ timer[p] = "callback"
    /\ timer' = [timer EXCEPT ![p] = "unset"]
    /\ hot' = [hot EXCEPT ![p] = TRUE]
    /\ bytes' = [k \in DOMAIN bytes |-> IF k = pipe[p] THEN bytes[k] + 1 ELSE bytes[k]]
    /\ UNCHANGED <<alive, setupVars, queue, calls>>

\* fd_on() on the timer thread; the write fails if the pipe has been closed.
FdOn(p) ==
    /\ timer[p] = "callback"
    /\ timer' = [timer EXCEPT ![p] = "unset"]
    /\ hot' = [hot EXCEPT ![p] = TRUE]
    /\ bytes' = [k \in DOMAIN bytes |-> IF ~hot[p] /\ k = pipe[p] THEN bytes[k] + 1 ELSE bytes[k]]
    /\ UNCHANGED <<alive, setupVars, queue, calls>>

\* async_input_handler(): R finds one of the handlers' pipes readable.
AsyncInputHandler(p) ==
    /\ ~calls[p]
    /\ \E k \in handlers[p] : bytes[k] > 0
    /\ bytes' = [k \in DOMAIN bytes |-> IF hot[p] /\ k = pipe[p] THEN 0 ELSE bytes[k]]
    /\ hot' = [hot EXCEPT ![p] = FALSE]
    /\ queue' = [queue EXCEPT ![p] = 0]
    /\ UNCHANGED <<alive, setupVars, timer, calls>>

RunNow(p) ==
    /\ ~calls[p]
    /\ queue[p] > 0
    /\ queue' = [queue EXCEPT ![p] = 0]
    /\ UNCHANGED <<alive, setupVars, hot, timer, calls, bytes>>

-----------------------------------------------------------------------------
\* Mutant of ChildProcAfterFork: the handlers are removed, the pipes stay open.
ChildKeepsPipes(p, q) ==
    /\ initialized' = [initialized EXCEPT ![q] = FALSE]
    /\ handlers' = [handlers EXCEPT ![q] = handlers[p] \ {pipe[p], dummy[p]}]
    /\ pipe' = [pipe EXCEPT ![q] = pipe[p]]
    /\ dummy' = [dummy EXCEPT ![q] = dummy[p]]

\* Mutant of ChildProcAfterFork: the pipes are closed, the handlers stay.
ChildClosesPipes(p, q) ==
    /\ initialized' = [initialized EXCEPT ![q] = FALSE]
    /\ handlers' = [handlers EXCEPT ![q] = handlers[p]]
    /\ pipe' = [pipe EXCEPT ![q] = NoPipe]
    /\ dummy' = [dummy EXCEPT ![q] = NoPipe]

\* child_proc_after_fork(), in the child q of p before fork() returns.
ChildProcAfterFork(p, q) ==
    IF initialized[p]
    THEN /\ initialized' = [initialized EXCEPT ![q] = FALSE]
         /\ handlers' = [handlers EXCEPT ![q] = handlers[p] \ {pipe[p], dummy[p]}]
         /\ pipe' = [pipe EXCEPT ![q] = NoPipe]
         /\ dummy' = [dummy EXCEPT ![q] = NoPipe]
    ELSE /\ initialized' = [initialized EXCEPT ![q] = FALSE]
         /\ handlers' = [handlers EXCEPT ![q] = handlers[p]]
         /\ pipe' = [pipe EXCEPT ![q] = pipe[p]]
         /\ dummy' = [dummy EXCEPT ![q] = dummy[p]]

\* R code of p forks, whatever the other threads of p are doing.
Fork(p, q) ==
    /\ ~calls[p]
    /\ q \notin alive
    /\ alive' = alive \cup {q}
    /\ ChildProcAfterFork(p, q)
    /\ ready' = [ready EXCEPT ![q] = ready[p]]
    /\ hot' = [hot EXCEPT ![q] = hot[p]]
    /\ timer' = [timer EXCEPT ![q] = CASE timer[p] = "none" -> "none"
                                       [] timer[p] \in {"callback", "locked"} -> "locked"
                                       [] OTHER -> "orphan"]
    /\ queue' = [queue EXCEPT ![q] = queue[p]]
    /\ UNCHANGED <<calls, bytes>>

-----------------------------------------------------------------------------
Next ==
    \E p \in alive :
       \/ EnsureInitialized(p)
       \/ DummyPipeFails(p)
       \/ Later(p)
       \/ TimerSet(p)
       \/ TimerElapses(p)
       \/ FdOn(p)
       \/ AsyncInputHandler(p)
       \/ RunNow(p)
       \/ \E q \in Procs : Fork(p, q)

Spec == Init /\ [][Next]_vars

\* Threads keep going, and R polls its input handlers; run_now() is not needed.
FairSpec ==
    /\ Spec
    /\ \A p \in Procs : /\ WF_vars(TimerSet(p))
                        /\ WF_vars(TimerElapses(p))
                        /\ WF_vars(FdOn(p))
                        /\ SF_vars(AsyncInputHandler(p))

-----------------------------------------------------------------------------
(***************************************************************************)
(* "make sure that the child process doesn't mess with the pipes": a       *)
(* process that has its autorunner set up has a byte in its pipe exactly   *)
(* when `hot` says so, whoever has been forked and whatever they do.       *)
(***************************************************************************)
PipeIsPrivate ==
    \A p \in alive : initialized[p] => bytes[pipe[p]] = IF hot[p] THEN 1 ELSE 0

(***************************************************************************)
(* In a forked child "functions scheduled ... with `later()` will only     *)
(* work if `run_now()` is called": no input handler of it ever fires, also *)
(* if its parent's set-up had failed half-way before, or if it starts a    *)
(* timer thread of its own.                                                *)
(***************************************************************************)
ChildNeedsRunNow ==
    \A p \in alive : ready[p] /\ ~initialized[p] => \A k \in handlers[p] : bytes[k] = 0

(***************************************************************************)
(* The callbacks of a process with an autorunner are run without           *)
(* run_now(), however many children are forked meanwhile.                  *)
(***************************************************************************)
ParentRuns == \A p \in Procs : initialized[p] /\ queue[p] > 0 ~> queue[p] = 0
=============================================================================
