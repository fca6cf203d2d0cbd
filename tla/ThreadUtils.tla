----------------------------- MODULE ThreadUtils -----------------------------
(***************************************************************************)
(* The recursive mutex and the condition variable that all registries      *)
(* share: the classes of src/threadutils.h over src/tinycthread.c, which   *)
(* uses pthreads on POSIX systems and builds the condition variable from a *)
(* counter and an auto-reset event on Windows.  Failing system calls,      *)
(* which the classes turn into exceptions, are left out; cnd_broadcast()   *)
(* and trylock() are not used by the package.                              *)
(***************************************************************************)
EXTENDS Timestamp

CONSTANTS
    Threads,    \* the threads of the process
    NoThread,   \* the owner of a free mutex
    Platforms,  \* the platforms to consider
    MaxTime     \* bound on the clock

ASSUME ThreadUtilsAssumption ==
    /\ NoThread \notin Threads
    /\ Platforms \subseteq {"posix", "win32"}
    /\ MaxTime \in Nat

VARIABLES
    platform,       \* where the package is installed
    now,            \* the clock, in nanoseconds
    owner,          \* the thread that holds the mutex
    depth,          \* how often it has locked it
    waiters,        \* the threads blocked on the condition variable
    woken,          \* POSIX: the threads a signal has unblocked
    event,          \* Windows: mEvents[_CONDITION_EVENT_ONE] is signalled
    mWaitersCount,  \* Windows: the counter of the condition variable
    until           \* the time at which a thread's timedwait() ends

mtxVars == <<owner, depth>>
cndVars == <<waiters, woken, event, mWaitersCount, until>>
threadVars == <<platform, now, mtxVars, cndVars>>

ThreadTypeOK ==
    /\ platform \in Platforms
    /\ now \in 0..MaxTime
    /\ owner \in Threads \cup {NoThread}
    /\ depth \in Nat
    /\ waiters \subseteq Threads
    /\ woken \subseteq Threads
    /\ event \in BOOLEAN
    /\ mWaitersCount \in Nat
    /\ until \in [Threads -> Timespec]

MtxInit == owner = NoThread /\ depth = 0

CndInit ==
    /\ waiters = {}
    /\ woken = {}
    /\ event = FALSE
    /\ mWaitersCount = 0
    /\ until = [t \in Threads |-> TimespecAt(0)]

ThreadInit == platform \in Platforms /\ now = 0 /\ MtxInit /\ CndInit

\* A thread that holds the mutex may lock it again.
MtxLock(t) ==
    /\ owner \in {NoThread, t}
    /\ owner' = t
    /\ depth' = depth + 1

MtxUnlock(t) ==
    /\ owner = t
    /\ depth' = depth - 1
    /\ owner' = IF depth = 1 THEN NoThread ELSE t

\* Guard: its constructor and its destructor.
EnterGuard(t) == MtxLock(t) /\ UNCHANGED <<platform, now, cndVars>>
LeaveGuard(t) == MtxUnlock(t) /\ UNCHANGED <<platform, now, cndVars>>

\* "Unblocks one thread (if any are waiting)".
PthreadSignal ==
    /\ platform = "posix"
    /\ IF waiters = {} THEN UNCHANGED <<waiters, woken>>
       ELSE \E w \in waiters : waiters' = waiters \ {w} /\ woken' = woken \cup {w}
    /\ UNCHANGED <<event, mWaitersCount, until>>

\* Mutant of CndSignal: off by one in the test for waiters.
CndSignalSecond ==
    \/ PthreadSignal
    \/ /\ platform = "win32"
       /\ event' = (event \/ mWaitersCount > 1)
       /\ UNCHANGED <<waiters, woken, mWaitersCount, until>>

\* Mutant of CndSignal: the signalling thread counts the waiter out as well.
CndSignalCounts ==
    \/ PthreadSignal
    \/ /\ platform = "win32"
       /\ event' = (event \/ mWaitersCount > 0)
       /\ mWaitersCount' = IF mWaitersCount > 0 THEN mWaitersCount - 1 ELSE 0
       /\ UNCHANGED <<waiters, woken, until>>

CndSignal ==
    \/ PthreadSignal
    \/ /\ platform = "win32"
       /\ event' = (event \/ mWaitersCount > 0)
       /\ UNCHANGED <<waiters, woken, mWaitersCount, until>>

\* Blocking: one level of the mutex is given up.
CndWait(t) ==
    /\ MtxUnlock(t)
    /\ waiters' = waiters \cup {t}
    /\ mWaitersCount' = IF platform = "win32" THEN mWaitersCount + 1 ELSE mWaitersCount
    /\ UNCHANGED <<woken, event>>

\* ConditionVariable::timedwait(secs), up to where it blocks.
TimedWait(t, secs) ==
    /\ CndWait(t)
    /\ until' = [until EXCEPT ![t] = AddSeconds(TimespecAt(now), secs)]
    /\ UNCHANGED <<platform, now>>

\* The wait is over because of a signal ...
CndWoken(t) ==
    /\ \/ /\ platform = "win32" /\ t \in waiters /\ event
          /\ event' = FALSE
          /\ mWaitersCount' = mWaitersCount - 1
          /\ UNCHANGED woken
       \/ /\ platform = "posix" /\ t \in woken
          /\ woken' = woken \ {t}
          /\ UNCHANGED <<event, mWaitersCount>>
    /\ waiters' = waiters \ {t}
    /\ UNCHANGED <<platform, now, mtxVars, until>>

\* ... or of the time; on Windows the counter is not decremented then, so that
\* later signals set the event although nobody waits ...
CndTimedOut(t) ==
    /\ t \in waiters
    /\ ~Greater(until[t], TimespecAt(now))
    /\ waiters' = waiters \ {t}
    /\ UNCHANGED <<platform, now, mtxVars, woken, event, mWaitersCount, until>>

\* ... or without a reason, as pthreads permit.
CndSpurious(t) ==
    /\ platform = "posix"
    /\ t \in waiters
    /\ waiters' = waiters \ {t}
    /\ UNCHANGED <<platform, now, mtxVars, woken, event, mWaitersCount, until>>

\* The mutex is locked again before timedwait() returns.
CndRelock(t) == MtxLock(t) /\ UNCHANGED <<platform, now, cndVars>>

\* The thread t is blocked and nothing but its timeout will wake it.
AsleepFor(t) ==
    /\ t \in waiters
    /\ Greater(until[t], TimespecAt(now))
    /\ ~(platform = "win32" /\ event)
=============================================================================
