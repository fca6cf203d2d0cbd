------------------------ MODULE BackgroundTask_proofs ------------------------
(***************************************************************************)
(* Proofs about background tasks and the lock and the condition variable   *)
(* under them, for any number of tasks, any timeouts, both platforms, with *)
(* and without interrupts.                                                 *)
(***************************************************************************)
EXTENDS BackgroundTask, SequenceTheorems, TLAPS

-----------------------------------------------------------------------------
(***************************************************************************)
(* The arithmetic of time, for a second of any number of nanoseconds.      *)
(***************************************************************************)
LEMMA DivMod ==
    ASSUME NEW t \in Int
    PROVE  /\ t \div NSec \in Int
           /\ t % NSec \in 0 .. NSec - 1
           /\ t = NSec * (t \div NSec) + (t % NSec)
BY TimestampAssumption

LEMMA MultipleIsLarger ==
    ASSUME NEW n \in Nat \ {0}, NEW d \in Int, d >= 1
    PROVE  n * d >= n
OBVIOUS

\* There is one normalized timespec for a number of nanoseconds.
LEMMA DivModUnique ==
    ASSUME NEW n \in Nat \ {0}, NEW a \in Int, NEW b \in Int,
           NEW q \in 0 .. n - 1, NEW r \in 0 .. n - 1,
           n * a + q = n * b + r
    PROVE  a = b /\ q = r
<1>1. ASSUME a - b >= 1
      PROVE  FALSE
  <2>1. n * (a - b) >= n
    BY <1>1, MultipleIsLarger
  <2> QED
    BY <2>1
<1>2. ASSUME b - a >= 1
      PROVE  FALSE
  <2>1. n * (b - a) >= n
    BY <1>2, MultipleIsLarger
  <2> QED
    BY <2>1
<1> QED
  BY <1>1, <1>2

\* The nanoseconds that a timespec stands for.
Nanoseconds(ts) == NSec * ts.tv_sec + ts.tv_nsec

LEMMA TimespecAtIsTimespec ==
    ASSUME NEW t \in Int
    PROVE  /\ TimespecAt(t) \in Timespec
           /\ Nanoseconds(TimespecAt(t)) = t
BY DivMod DEF TimespecAt, Timespec, Nanoseconds

LEMMA SameNanoseconds ==
    ASSUME NEW a \in Timespec, NEW b \in Timespec, Nanoseconds(a) = Nanoseconds(b)
    PROVE  a = b
<1>1. /\ a.tv_sec \in Int /\ b.tv_sec \in Int
      /\ a.tv_nsec \in 0 .. NSec - 1 /\ b.tv_nsec \in 0 .. NSec - 1
      /\ a = [tv_sec |-> a.tv_sec, tv_nsec |-> a.tv_nsec]
      /\ b = [tv_sec |-> b.tv_sec, tv_nsec |-> b.tv_nsec]
  BY DEF Timespec
<1>2. a.tv_sec = b.tv_sec /\ a.tv_nsec = b.tv_nsec
  BY <1>1, DivModUnique, TimestampAssumption DEF Nanoseconds
<1> QED
  BY <1>1, <1>2

\* The cast to time_t leaves less than a second, of the sign of secs.
LEMMA TimeTTruncates ==
    ASSUME NEW secs \in Int
    PROVE  /\ TimeT(secs) \in Int
           /\ secs - NSec * TimeT(secs) \in -(NSec - 1) .. NSec - 1
<1>1. CASE secs >= 0
  BY <1>1, DivMod, TimestampAssumption DEF TimeT
<1>2. CASE secs < 0
  <2>1. /\ (-secs) \div NSec \in Int
        /\ (-secs) % NSec \in 0 .. NSec - 1
        /\ -secs = NSec * ((-secs) \div NSec) + ((-secs) % NSec)
    BY DivMod
  <2>2. TimeT(secs) = -((-secs) \div NSec)
    BY <1>2 DEF TimeT
  <2>3. NSec * TimeT(secs) = -(NSec * ((-secs) \div NSec))
    BY <2>1, <2>2, TimestampAssumption
  <2> QED
    BY <2>1, <2>2, <2>3, TimestampAssumption
<1> QED
  BY <1>1, <1>2

\* addSeconds() yields a normalized timespec, secs nanoseconds later.
LEMMA AddSecondsAdds ==
    ASSUME NEW time \in Timespec, NEW secs \in Int
    PROVE  /\ AddSeconds(time, secs) \in Timespec
           /\ Nanoseconds(AddSeconds(time, secs)) = Nanoseconds(time) + secs
<1> DEFINE n == time.tv_nsec + secs - NSec * TimeT(secs)
           s == time.tv_sec + TimeT(secs)
<1>1. /\ time.tv_sec \in Int
      /\ time.tv_nsec \in 0 .. NSec - 1
      /\ NSec \in Nat \ {0}
  BY TimestampAssumption DEF Timespec
<1>2. /\ TimeT(secs) \in Int
      /\ secs - NSec * TimeT(secs) \in -(NSec - 1) .. NSec - 1
  BY TimeTTruncates
<1>3. /\ s \in Int
      /\ n \in -(NSec - 1) .. 2 * NSec - 2
      /\ NSec * s + n = NSec * time.tv_sec + time.tv_nsec + secs
  BY <1>1, <1>2
<1> HIDE DEF n, s
<1>4. CASE n < 0
  <2>1. AddSeconds(time, secs) = [tv_sec |-> s - 1, tv_nsec |-> n + NSec]
    BY <1>1, <1>3, <1>4 DEF AddSeconds, n, s
  <2> QED
    BY <1>1, <1>3, <1>4, <2>1 DEF Timespec, Nanoseconds
<1>5. CASE n >= NSec
  <2>1. AddSeconds(time, secs) = [tv_sec |-> s + 1, tv_nsec |-> n - NSec]
    BY <1>1, <1>3, <1>5 DEF AddSeconds, n, s
  <2> QED
    BY <1>1, <1>3, <1>5, <2>1 DEF Timespec, Nanoseconds
<1>6. CASE n >= 0 /\ n < NSec
  <2>1. AddSeconds(time, secs) = [tv_sec |-> s, tv_nsec |-> n]
    BY <1>1, <1>3, <1>6 DEF AddSeconds, n, s
  <2> QED
    BY <1>1, <1>3, <1>6, <2>1 DEF Timespec, Nanoseconds
<1> QED
  BY <1>1, <1>3, <1>4, <1>5, <1>6

\* The order of timespecs is that of the nanoseconds.
LEMMA OrderOfTimespecs ==
    ASSUME NEW a \in Timespec, NEW b \in Timespec
    PROVE  /\ Greater(a, b) <=> Nanoseconds(a) > Nanoseconds(b)
           /\ Less(a, b) <=> Nanoseconds(a) < Nanoseconds(b)
           /\ DiffSecs(a, b) = Nanoseconds(a) - Nanoseconds(b)
<1>1. /\ a.tv_sec \in Int /\ b.tv_sec \in Int
      /\ a.tv_nsec \in 0 .. NSec - 1 /\ b.tv_nsec \in 0 .. NSec - 1
      /\ NSec \in Nat \ {0}
  BY TimestampAssumption DEF Timespec
<1>2. ASSUME a.tv_sec > b.tv_sec
      PROVE  Nanoseconds(a) > Nanoseconds(b)
  <2>1. NSec * (a.tv_sec - b.tv_sec) >= NSec
    BY <1>1, <1>2, MultipleIsLarger
  <2> QED
    BY <1>1, <2>1 DEF Nanoseconds
<1>3. ASSUME a.tv_sec < b.tv_sec
      PROVE  Nanoseconds(a) < Nanoseconds(b)
  <2>1. NSec * (b.tv_sec - a.tv_sec) >= NSec
    BY <1>1, <1>3, MultipleIsLarger
  <2> QED
    BY <1>1, <2>1 DEF Nanoseconds
<1>4. ASSUME a.tv_sec = b.tv_sec
      PROVE  Nanoseconds(a) - Nanoseconds(b) = a.tv_nsec - b.tv_nsec
  BY <1>1, <1>4 DEF Nanoseconds
<1>5. Nanoseconds(a) \in Int /\ Nanoseconds(b) \in Int
  BY <1>1 DEF Nanoseconds
<1>6. DiffSecs(a, b) = Nanoseconds(a) - Nanoseconds(b)
  BY <1>1 DEF DiffSecs, Nanoseconds
<1>7. CASE a.tv_sec = b.tv_sec
  BY <1>1, <1>4, <1>5, <1>6, <1>7 DEF Greater, Less
<1>8. CASE a.tv_sec # b.tv_sec
  BY <1>1, <1>2, <1>3, <1>5, <1>6, <1>8 DEF Greater, Less
<1> QED
  BY <1>7, <1>8

-----------------------------------------------------------------------------
(***************************************************************************)
(* The inductive invariant.  The mutex is free exactly when nobody has     *)
(* locked it, and held wherever the code relies on it; only the main       *)
(* thread waits, is counted on Windows while it does, and sleeps on only   *)
(* if nothing is queued.                                                   *)
(***************************************************************************)
LockOK ==
    /\ owner = NoThread <=> depth = 0
    /\ \A t \in Tasks : thread[t] \in {"locked", "added"} => owner = t
    /\ pc \in {"check", "interrupt"} => owner = Main

WaitOK ==
    /\ waiters \subseteq {Main} /\ woken \subseteq {Main} /\ waiters \cap woken = {}
    /\ pc # "blocked" => waiters = {} /\ woken = {}
    /\ waiters # {} /\ platform = "win32" => mWaitersCount > 0
    /\ waiters # {} /\ ~(platform = "win32" /\ event) => queue = <<>>

BackgroundTaskInv == TypeOK /\ LockOK /\ WaitOK /\ OneOwner

-----------------------------------------------------------------------------
(***************************************************************************)
(* What the operations on the mutex and on the condition variable keep.    *)
(***************************************************************************)
MutexOK == /\ owner \in Threads \cup {NoThread}
           /\ depth \in Nat
           /\ owner = NoThread <=> depth = 0

LEMMA MtxLockKeeps ==
    ASSUME MutexOK, NEW t \in Threads, MtxLock(t)
    PROVE  MutexOK' /\ owner' = t /\ owner \in {NoThread, t}
BY ThreadUtilsAssumption DEF MutexOK, MtxLock

LEMMA MtxUnlockKeeps ==
    ASSUME MutexOK, NEW t \in Threads, MtxUnlock(t)
    PROVE  MutexOK' /\ owner = t /\ owner' \in {NoThread, t}
BY ThreadUtilsAssumption DEF MutexOK, MtxUnlock

LEMMA InvHasMutexOK == ASSUME BackgroundTaskInv PROVE MutexOK
BY DEF BackgroundTaskInv, TypeOK, ThreadTypeOK, LockOK, MutexOK

\* Signalling with something in the queue: nobody sleeps on.
LEMMA CndSignalKeeps ==
    ASSUME TypeOK, WaitOK, CndSignal, UNCHANGED <<platform, pc>>
    PROVE  /\ waiters' \subseteq Threads /\ woken' \subseteq Threads
           /\ event' \in BOOLEAN /\ mWaitersCount' \in Nat /\ until' = until
           /\ WaitOK'
<1>1. CASE PthreadSignal
  <2>1. CASE waiters = {}
    BY <1>1, <2>1 DEF PthreadSignal, TypeOK, ThreadTypeOK, WaitOK
  <2>2. CASE waiters # {}
    <3>1. waiters = {Main} /\ woken = {}
      BY <2>2 DEF WaitOK
    <3>2. waiters' = {} /\ woken' = {Main}
      BY <1>1, <3>1 DEF PthreadSignal
    <3> QED
      BY <1>1, <3>1, <3>2 DEF PthreadSignal, TypeOK, ThreadTypeOK, WaitOK
  <2> QED
    BY <2>1, <2>2
<1>2. CASE platform = "win32" /\ event' = (event \/ mWaitersCount > 0)
           /\ UNCHANGED <<waiters, woken, mWaitersCount, until>>
  BY <1>2 DEF TypeOK, ThreadTypeOK, WaitOK
<1> QED
  BY <1>1, <1>2 DEF CndSignal

-----------------------------------------------------------------------------
(***************************************************************************)
(* Every action keeps the invariant: first those of the tasks.             *)
(***************************************************************************)
LEMMA BeginKeeps ==
    ASSUME BackgroundTaskInv, NEW t \in Tasks, Begin(t)
    PROVE  BackgroundTaskInv'
<1>1. TypeOK'
  BY DEF BackgroundTaskInv, Begin, TypeOK, ThreadTypeOK, threadVars, mtxVars, cndVars, mainVars
<1>2. LockOK' /\ WaitOK'
  BY DEF BackgroundTaskInv, Begin, TypeOK, LockOK, WaitOK, threadVars, mtxVars, cndVars, mainVars
<1>3. OneOwner'
  BY DEF BackgroundTaskInv, Begin, TypeOK, OneOwner, Queued, threadVars, mainVars
<1> QED
  BY <1>1, <1>2, <1>3 DEF BackgroundTaskInv

LEMMA ExecuteKeeps ==
    ASSUME BackgroundTaskInv, NEW t \in Tasks, Execute(t)
    PROVE  BackgroundTaskInv'
<1>1. TypeOK'
  BY DEF BackgroundTaskInv, Execute, TypeOK, ThreadTypeOK, threadVars, mtxVars, cndVars, mainVars
<1>2. LockOK' /\ WaitOK'
  BY DEF BackgroundTaskInv, Execute, TypeOK, LockOK, WaitOK, threadVars, mtxVars, cndVars, mainVars
<1>3. OneOwner'
  BY DEF BackgroundTaskInv, Execute, TypeOK, OneOwner, Queued, mainVars
<1> QED
  BY <1>1, <1>2, <1>3 DEF BackgroundTaskInv

LEMMA ScheduleLocksKeeps ==
    ASSUME BackgroundTaskInv, NEW t \in Tasks, ScheduleLocks(t)
    PROVE  BackgroundTaskInv'
<1>1. /\ t \in Threads
      /\ MutexOK' /\ owner' = t /\ owner \in {NoThread, t}
  BY BackgroundTaskAssumption, InvHasMutexOK, MtxLockKeeps DEF ScheduleLocks, EnterGuard
<1>2. TypeOK'
  BY <1>1 DEF BackgroundTaskInv, ScheduleLocks, EnterGuard, TypeOK, ThreadTypeOK, MutexOK,
              cndVars, mainVars
<1>3. LockOK'
  BY <1>1, BackgroundTaskAssumption, ThreadUtilsAssumption
     DEF BackgroundTaskInv, ScheduleLocks, EnterGuard, TypeOK, LockOK, MutexOK, mainVars
<1>4. WaitOK'
  BY DEF BackgroundTaskInv, ScheduleLocks, EnterGuard, WaitOK, cndVars, mainVars
<1>5. OneOwner'
  BY DEF BackgroundTaskInv, ScheduleLocks, TypeOK, OneOwner, Queued, mainVars
<1> QED
  BY <1>2, <1>3, <1>4, <1>5 DEF BackgroundTaskInv

\* One more task in the queue.
LEMMA QueuedAfterAppend ==
    ASSUME queue \in Seq(Tasks), NEW t \in Tasks, queue' = Append(queue, t)
    PROVE  /\ queue' \in Seq(Tasks)
           /\ \A u \in Tasks : Queued(u)' <=> Queued(u) \/ u = t
           /\ ~Queued(t) =>
                 \A i, j \in DOMAIN queue' : queue'[i] = queue'[j] =>
                    i = j \/ (i \in DOMAIN queue /\ j \in DOMAIN queue /\ queue[i] = queue[j]
                             /\ queue'[i] = queue[i])
<1>1. /\ queue' \in Seq(Tasks)
      /\ Len(queue) \in Nat
      /\ DOMAIN queue = 1 .. Len(queue)
      /\ DOMAIN queue' = 1 .. Len(queue) + 1
      /\ \A i \in 1 .. Len(queue) : queue'[i] = queue[i]
      /\ queue'[Len(queue) + 1] = t
  BY AppendProperties, LenProperties
<1> QED
  BY <1>1 DEF Queued

LEMMA ScheduleAddsKeeps ==
    ASSUME BackgroundTaskInv, NEW t \in Tasks, ScheduleAdds(t)
    PROVE  BackgroundTaskInv'
<1>1. /\ waiters' \subseteq Threads /\ woken' \subseteq Threads
      /\ event' \in BOOLEAN /\ mWaitersCount' \in Nat /\ until' = until
      /\ WaitOK'
  BY CndSignalKeeps DEF BackgroundTaskInv, ScheduleAdds, mainVars
<1>2. /\ queue \in Seq(Tasks)
      /\ queue' = Append(queue, t)
      /\ ~Queued(t)
      /\ object[t] = "alive"
      /\ running # t
  BY DEF BackgroundTaskInv, TypeOK, OneOwner, ScheduleAdds
<1>3. /\ queue' \in Seq(Tasks)
      /\ \A u \in Tasks : Queued(u)' <=> Queued(u) \/ u = t
      /\ \A i, j \in DOMAIN queue' : queue'[i] = queue'[j] =>
            i = j \/ (i \in DOMAIN queue /\ j \in DOMAIN queue /\ queue[i] = queue[j]
                     /\ queue'[i] = queue[i])
  BY <1>2, QueuedAfterAppend
<1>4. TypeOK'
  BY <1>1, <1>3 DEF BackgroundTaskInv, ScheduleAdds, TypeOK, ThreadTypeOK, mtxVars, mainVars
<1>5. LockOK'
  BY DEF BackgroundTaskInv, ScheduleAdds, TypeOK, LockOK, mtxVars, mainVars
<1>6. OneOwner'
  <2>1. /\ object' = object /\ running' = running
        /\ thread' = [thread EXCEPT ![t] = "added"]
    BY DEF ScheduleAdds, mainVars
  <2>2. ASSUME NEW u \in Tasks, NEW i \in DOMAIN queue', NEW j \in DOMAIN queue',
               queue'[i] = u, queue'[j] = u
        PROVE  i = j
    BY <1>3, <2>2 DEF BackgroundTaskInv, OneOwner
  <2>3. ASSUME NEW u \in Tasks
        PROVE  /\ thread'[u] \in {"execute", "later", "locked"} =>
                     object'[u] = "alive" /\ ~Queued(u)' /\ running' # u
               /\ Queued(u)' => object'[u] = "alive" /\ running' # u
               /\ running' = u => object'[u] = "alive"
    BY <1>2, <1>3, <2>1, <2>3 DEF BackgroundTaskInv, TypeOK, OneOwner
  <2> QED
    BY <2>2, <2>3 DEF OneOwner
<1> QED
  BY <1>1, <1>4, <1>5, <1>6 DEF BackgroundTaskInv

LEMMA ScheduleUnlocksKeeps ==
    ASSUME BackgroundTaskInv, NEW t \in Tasks, ScheduleUnlocks(t)
    PROVE  BackgroundTaskInv'
<1>1. /\ t \in Threads
      /\ MutexOK' /\ owner = t /\ owner' \in {NoThread, t}
  BY BackgroundTaskAssumption, InvHasMutexOK, MtxUnlockKeeps DEF ScheduleUnlocks, LeaveGuard
<1>2. TypeOK'
  BY <1>1 DEF BackgroundTaskInv, ScheduleUnlocks, LeaveGuard, TypeOK, ThreadTypeOK, MutexOK,
              cndVars, mainVars
<1>3. LockOK'
  BY <1>1, BackgroundTaskAssumption
     DEF BackgroundTaskInv, ScheduleUnlocks, LeaveGuard, TypeOK, LockOK, MutexOK, mainVars
<1>4. WaitOK'
  BY DEF BackgroundTaskInv, ScheduleUnlocks, LeaveGuard, WaitOK, cndVars, mainVars
<1>5. OneOwner'
  BY DEF BackgroundTaskInv, ScheduleUnlocks, TypeOK, OneOwner, Queued, mainVars
<1> QED
  BY <1>2, <1>3, <1>4, <1>5 DEF BackgroundTaskInv

-----------------------------------------------------------------------------
(***************************************************************************)
(* The main thread in run_now().                                           *)
(***************************************************************************)
\* What tasks and queue are about stays as it is.
LEMMA OneOwnerStays ==
    ASSUME OneOwner, UNCHANGED <<taskVars, queue, running>>
    PROVE  OneOwner'
BY DEF OneOwner, Queued, taskVars

LEMMA ClockIsInt ==
    ASSUME BackgroundTaskInv
    PROVE  /\ now \in Int
           /\ TimespecAt(now) \in Timespec
           /\ Nanoseconds(TimespecAt(now)) = now
           /\ expire \in Timespec
           /\ WaitFor \in Int
<1>1. now \in Int /\ expire \in Timespec
  BY ThreadUtilsAssumption DEF BackgroundTaskInv, TypeOK, ThreadTypeOK
<1>2. TimespecAt(now) \in Timespec /\ Nanoseconds(TimespecAt(now)) = now
  BY <1>1, TimespecAtIsTimespec
<1>3. WaitFor \in Int
  BY <1>1, <1>2, TimestampAssumption DEF WaitFor, DiffSecs, Timespec
<1> QED
  BY <1>1, <1>2, <1>3

LEMMA RunNowKeeps ==
    ASSUME BackgroundTaskInv, NEW timeout \in Timeouts, RunNow(timeout)
    PROVE  BackgroundTaskInv'
<1>1. expire' \in Timespec
  BY ClockIsInt, AddSecondsAdds, BackgroundTaskAssumption DEF RunNow
<1>2. TypeOK'
  BY <1>1 DEF BackgroundTaskInv, RunNow, TypeOK, ThreadTypeOK, threadVars, mtxVars, cndVars, taskVars
<1>3. LockOK' /\ WaitOK'
  BY DEF BackgroundTaskInv, RunNow, LockOK, WaitOK, threadVars, mtxVars, cndVars, taskVars
<1>4. OneOwner'
  BY OneOwnerStays DEF BackgroundTaskInv, RunNow
<1> QED
  BY <1>2, <1>3, <1>4 DEF BackgroundTaskInv

LEMMA MainIsThread == Main \in Threads
BY BackgroundTaskAssumption

LEMMA WaitLocksKeeps ==
    ASSUME BackgroundTaskInv, WaitLocks
    PROVE  BackgroundTaskInv'
<1>1. MutexOK' /\ owner' = Main /\ owner \in {NoThread, Main}
  BY MainIsThread, InvHasMutexOK, MtxLockKeeps DEF WaitLocks, EnterGuard
<1>2. TypeOK'
  BY <1>1 DEF BackgroundTaskInv, WaitLocks, EnterGuard, TypeOK, ThreadTypeOK, MutexOK,
              cndVars, taskVars
<1>3. LockOK'
  BY <1>1, BackgroundTaskAssumption, ThreadUtilsAssumption
     DEF BackgroundTaskInv, WaitLocks, EnterGuard, TypeOK, LockOK, MutexOK, taskVars
<1>4. WaitOK'
  BY DEF BackgroundTaskInv, WaitLocks, EnterGuard, WaitOK, cndVars
<1>5. OneOwner'
  BY OneOwnerStays DEF BackgroundTaskInv, WaitLocks
<1> QED
  BY <1>2, <1>3, <1>4, <1>5 DEF BackgroundTaskInv

LEMMA WaitBlocksKeeps ==
    ASSUME BackgroundTaskInv, WaitBlocks
    PROVE  BackgroundTaskInv'
<1> DEFINE secs == IF WaitFor > 2 * NSec THEN 2 * NSec ELSE WaitFor
<1>1. MutexOK' /\ owner = Main /\ owner' \in {NoThread, Main}
  BY MainIsThread, InvHasMutexOK, MtxUnlockKeeps DEF WaitBlocks, TimedWait, CndWait
<1>2. AddSeconds(TimespecAt(now), secs) \in Timespec
  <2>1. secs \in Int
    BY ClockIsInt, TimestampAssumption
  <2> QED
    BY <2>1, ClockIsInt, AddSecondsAdds
<1>3. until' \in [Threads -> Timespec]
  BY <1>2 DEF BackgroundTaskInv, TypeOK, ThreadTypeOK, WaitBlocks, TimedWait
<1>4. /\ waiters = {} /\ woken = {}
      /\ waiters' = {Main} /\ woken' = {} /\ event' = event
      /\ mWaitersCount' = IF platform = "win32" THEN mWaitersCount + 1 ELSE mWaitersCount
      /\ platform' = platform /\ now' = now
  BY DEF BackgroundTaskInv, WaitOK, WaitBlocks, TimedWait, CndWait
<1>5. TypeOK'
  BY <1>1, <1>3, <1>4, MainIsThread
     DEF BackgroundTaskInv, WaitBlocks, TypeOK, ThreadTypeOK, MutexOK, taskVars
<1>6. LockOK'
  BY <1>1, BackgroundTaskAssumption
     DEF BackgroundTaskInv, WaitBlocks, TypeOK, LockOK, MutexOK, taskVars
<1>7. WaitOK'
  BY <1>4 DEF BackgroundTaskInv, WaitBlocks, TypeOK, ThreadTypeOK, WaitOK
<1>8. OneOwner'
  BY OneOwnerStays DEF BackgroundTaskInv, WaitBlocks
<1> QED
  BY <1>5, <1>6, <1>7, <1>8 DEF BackgroundTaskInv

LEMMA WaitReturnsKeeps ==
    ASSUME BackgroundTaskInv, WaitReturns
    PROVE  BackgroundTaskInv'
<1>1. MutexOK' /\ owner = Main /\ owner' \in {NoThread, Main}
  BY MainIsThread, InvHasMutexOK, MtxUnlockKeeps DEF WaitReturns, LeaveGuard
<1>2. due' \in Nat
  BY LenProperties DEF BackgroundTaskInv, TypeOK, WaitReturns
<1>3. TypeOK'
  BY <1>1, <1>2 DEF BackgroundTaskInv, WaitReturns, LeaveGuard, TypeOK, ThreadTypeOK, MutexOK,
                    cndVars, taskVars
<1>4. LockOK'
  BY <1>1, BackgroundTaskAssumption
     DEF BackgroundTaskInv, WaitReturns, LeaveGuard, TypeOK, LockOK, MutexOK, taskVars
<1>5. WaitOK'
  BY DEF BackgroundTaskInv, WaitReturns, LeaveGuard, WaitOK, cndVars
<1>6. OneOwner'
  BY OneOwnerStays DEF BackgroundTaskInv, WaitReturns
<1> QED
  BY <1>3, <1>4, <1>5, <1>6 DEF BackgroundTaskInv

\* The main thread wakes up, for whatever reason.
LEMMA WakesUpKeeps ==
    ASSUME BackgroundTaskInv, WaitUnblocks \/ SpuriousWakeup
    PROVE  BackgroundTaskInv'
<1>1. /\ pc' = "relock"
      /\ UNCHANGED <<taskVars, queue, running, expire, due, platform, now, mtxVars, until>>
  BY DEF WaitUnblocks, SpuriousWakeup, CndWoken, CndTimedOut, CndSpurious
<1>2. /\ waiters' = {} /\ woken' = {}
      /\ event' \in BOOLEAN /\ mWaitersCount' \in Nat
  <2>1. CASE CndWoken(Main)
    <3>1. CASE platform = "win32"
      <4>1. waiters = {Main} /\ woken = {} /\ mWaitersCount > 0
        BY <2>1, <3>1 DEF BackgroundTaskInv, WaitOK, CndWoken
      <4>2. event' = FALSE
        BY <2>1, <3>1 DEF CndWoken
      <4>3. event' \in BOOLEAN
        BY <4>2, Zenon
      <4> QED
        BY <2>1, <3>1, <4>1, <4>3 DEF BackgroundTaskInv, TypeOK, ThreadTypeOK, CndWoken
    <3>2. CASE platform # "win32"
      BY <2>1, <3>2 DEF BackgroundTaskInv, TypeOK, ThreadTypeOK, WaitOK, CndWoken
    <3> QED
      BY <3>1, <3>2
  <2>2. CASE CndTimedOut(Main) \/ CndSpurious(Main)
    BY <2>2 DEF BackgroundTaskInv, TypeOK, ThreadTypeOK, WaitOK, CndTimedOut, CndSpurious
  <2> QED
    BY <2>1, <2>2 DEF WaitUnblocks, SpuriousWakeup
<1>3. TypeOK'
  BY <1>1, <1>2 DEF BackgroundTaskInv, TypeOK, ThreadTypeOK, mtxVars, taskVars
<1>4. LockOK' /\ WaitOK'
  BY <1>1, <1>2 DEF BackgroundTaskInv, LockOK, WaitOK, mtxVars, taskVars
<1>5. OneOwner'
  BY <1>1, OneOwnerStays DEF BackgroundTaskInv
<1> QED
  BY <1>3, <1>4, <1>5 DEF BackgroundTaskInv

LEMMA WaitRelocksKeeps ==
    ASSUME BackgroundTaskInv, WaitRelocks
    PROVE  BackgroundTaskInv'
<1>1. MutexOK' /\ owner' = Main /\ owner \in {NoThread, Main}
  BY MainIsThread, InvHasMutexOK, MtxLockKeeps DEF WaitRelocks, CndRelock
<1>2. TypeOK'
  BY <1>1 DEF BackgroundTaskInv, WaitRelocks, CndRelock, TypeOK, ThreadTypeOK, MutexOK,
              cndVars, taskVars
<1>3. LockOK'
  BY <1>1, BackgroundTaskAssumption, ThreadUtilsAssumption
     DEF BackgroundTaskInv, WaitRelocks, CndRelock, TypeOK, LockOK, MutexOK, taskVars
<1>4. WaitOK'
  BY DEF BackgroundTaskInv, WaitRelocks, CndRelock, WaitOK, cndVars
<1>5. OneOwner'
  BY OneOwnerStays DEF BackgroundTaskInv, WaitRelocks
<1> QED
  BY <1>2, <1>3, <1>4, <1>5 DEF BackgroundTaskInv

LEMMA CheckUserInterruptKeeps ==
    ASSUME BackgroundTaskInv, NEW i \in Interrupts, CheckUserInterrupt(i)
    PROVE  BackgroundTaskInv'
<1>1. TypeOK'
  BY DEF BackgroundTaskInv, CheckUserInterrupt, TypeOK, ThreadTypeOK, threadVars, mtxVars,
         cndVars, taskVars
<1>2. LockOK' /\ WaitOK'
  BY DEF BackgroundTaskInv, CheckUserInterrupt, LockOK, WaitOK, threadVars, mtxVars, cndVars,
         taskVars
<1>3. OneOwner'
  BY OneOwnerStays DEF BackgroundTaskInv, CheckUserInterrupt
<1> QED
  BY <1>1, <1>2, <1>3 DEF BackgroundTaskInv

-----------------------------------------------------------------------------
(***************************************************************************)
(* The pass and result_callback().                                         *)
(***************************************************************************)
LEMMA PopCallbackKeeps ==
    ASSUME BackgroundTaskInv, PopCallback
    PROVE  BackgroundTaskInv'
<1>1. queue \in Seq(Tasks) /\ queue # <<>>
  BY DEF BackgroundTaskInv, TypeOK, PopCallback
<1>2. /\ Head(queue) \in Tasks
      /\ Tail(queue) \in Seq(Tasks)
      /\ Len(queue) \in Nat \ {0}
      /\ DOMAIN queue = 1 .. Len(queue)
      /\ DOMAIN Tail(queue) = 1 .. Len(queue) - 1
      /\ Head(queue) = queue[1]
      /\ \A i \in 1 .. Len(queue) - 1 : Tail(queue)[i] = queue[i + 1]
  BY <1>1, HeadTailProperties, LenProperties
<1>3. TypeOK'
  BY <1>2 DEF BackgroundTaskInv, PopCallback, TypeOK, ThreadTypeOK, threadVars, mtxVars,
              cndVars, taskVars
<1>4. LockOK' /\ WaitOK'
  BY DEF BackgroundTaskInv, PopCallback, LockOK, WaitOK, threadVars, mtxVars, cndVars, taskVars
<1>5. OneOwner'
  <2>1. /\ object' = object /\ thread' = thread
        /\ queue' = Tail(queue) /\ running' = Head(queue)
    BY DEF PopCallback, taskVars
  <2>2. \A i \in DOMAIN queue' : i + 1 \in DOMAIN queue /\ queue'[i] = queue[i + 1] /\ i + 1 # 1
    BY <1>2, <2>1
  <2>3. ASSUME NEW t \in Tasks, t = Head(queue)
        PROVE  Queued(t) /\ ~Queued(t)'
    <3>1. 1 \in DOMAIN queue /\ queue[1] = t
      BY <1>2, <2>3
    <3>2. \A i \in DOMAIN queue' : queue'[i] # t
      BY <2>2, <3>1 DEF BackgroundTaskInv, OneOwner
    <3> QED
      BY <3>1, <3>2 DEF Queued
  <2>4. \A t \in Tasks : Queued(t)' => Queued(t)
    BY <2>2 DEF Queued
  <2>5. ASSUME NEW t \in Tasks, NEW i \in DOMAIN queue', NEW j \in DOMAIN queue',
               queue'[i] = t, queue'[j] = t
        PROVE  i = j
    <3>1. i + 1 = j + 1
      BY <2>2, <2>5 DEF BackgroundTaskInv, OneOwner
    <3>2. i \in Int /\ j \in Int
      BY <1>2, <2>1
    <3> QED
      BY <3>1, <3>2
  <2> QED
    BY <1>2, <2>1, <2>3, <2>4, <2>5 DEF BackgroundTaskInv, OneOwner
<1> QED
  BY <1>3, <1>4, <1>5 DEF BackgroundTaskInv

LEMMA PassKeeps ==
    ASSUME BackgroundTaskInv, PassEnds \/ Complete
    PROVE  BackgroundTaskInv'
<1>1. /\ pc # "blocked" /\ pc' \in {"code", "delete"}
      /\ UNCHANGED <<threadVars, taskVars, queue, running, expire, due>>
  BY DEF PassEnds, Complete
<1>2. TypeOK'
  BY <1>1 DEF BackgroundTaskInv, TypeOK, ThreadTypeOK, threadVars, mtxVars, cndVars, taskVars
<1>3. LockOK' /\ WaitOK'
  BY <1>1 DEF BackgroundTaskInv, LockOK, WaitOK, threadVars, mtxVars, cndVars, taskVars
<1>4. OneOwner'
  BY <1>1, OneOwnerStays DEF BackgroundTaskInv
<1> QED
  BY <1>2, <1>3, <1>4 DEF BackgroundTaskInv

\* The end of a task.
LEMMA TaskEndsKeeps ==
    ASSUME BackgroundTaskInv, CompleteThrows \/ Delete
    PROVE  BackgroundTaskInv'
<1>1. /\ pc # "blocked" /\ pc' \in {"code", "pop"}
      /\ \E o \in {"leaked", "deleted"} : object' = [object EXCEPT ![running] = o]
      /\ running' = NoTask
      /\ UNCHANGED <<threadVars, thread, queue, expire, due>>
  BY DEF CompleteThrows, Delete
<1>2. TypeOK'
  BY <1>1 DEF BackgroundTaskInv, TypeOK, ThreadTypeOK, threadVars, mtxVars, cndVars
<1>3. LockOK' /\ WaitOK'
  BY <1>1 DEF BackgroundTaskInv, LockOK, WaitOK, threadVars, mtxVars, cndVars
<1>4. OneOwner'
  BY <1>1, BackgroundTaskAssumption DEF BackgroundTaskInv, TypeOK, OneOwner, Queued
<1> QED
  BY <1>2, <1>3, <1>4 DEF BackgroundTaskInv

LEMMA TickKeeps ==
    ASSUME BackgroundTaskInv, Tick
    PROVE  BackgroundTaskInv'
<1>1. TypeOK'
  BY ThreadUtilsAssumption
     DEF BackgroundTaskInv, Tick, TypeOK, ThreadTypeOK, mtxVars, cndVars, taskVars, mainVars
<1>2. LockOK' /\ WaitOK'
  BY DEF BackgroundTaskInv, Tick, LockOK, WaitOK, mtxVars, cndVars, taskVars, mainVars
<1>3. OneOwner'
  BY OneOwnerStays DEF BackgroundTaskInv, Tick, mainVars
<1> QED
  BY <1>1, <1>2, <1>3 DEF BackgroundTaskInv

-----------------------------------------------------------------------------
LEMMA BackgroundTaskInit == Init => BackgroundTaskInv
<1> SUFFICES ASSUME Init PROVE BackgroundTaskInv
  OBVIOUS
<1>1. TimespecAt(0) \in Timespec
  BY TimespecAtIsTimespec
<1>2. TypeOK
  <2>1. event \in BOOLEAN
    BY Zenon DEF Init, ThreadInit, CndInit
  <2>2. ThreadTypeOK
    BY <1>1, <2>1, ThreadUtilsAssumption
       DEF Init, ThreadInit, MtxInit, CndInit, ThreadTypeOK
  <2> QED
    BY <1>1, <2>2 DEF Init, TypeOK
<1>3. LockOK /\ WaitOK
  BY DEF Init, ThreadInit, MtxInit, CndInit, LockOK, WaitOK
<1>4. OneOwner
  BY BackgroundTaskAssumption DEF Init, OneOwner, Queued
<1> QED
  BY <1>2, <1>3, <1>4 DEF BackgroundTaskInv

LEMMA BackgroundTaskStep == BackgroundTaskInv /\ [Next]_vars => BackgroundTaskInv'
<1> SUFFICES ASSUME BackgroundTaskInv, [Next]_vars PROVE BackgroundTaskInv'
  OBVIOUS
<1>1. CASE MainStep
  BY <1>1, WaitLocksKeeps, WaitBlocksKeeps, WaitReturnsKeeps, WakesUpKeeps, WaitRelocksKeeps,
     CheckUserInterruptKeeps, PopCallbackKeeps, PassKeeps, TaskEndsKeeps DEF MainStep
<1>2. CASE \E t \in Tasks : Begin(t) \/ ThreadStep(t) \/ ScheduleLocks(t)
  BY <1>2, BeginKeeps, ExecuteKeeps, ScheduleLocksKeeps, ScheduleAddsKeeps,
     ScheduleUnlocksKeeps DEF ThreadStep
<1>3. CASE SpuriousWakeup \/ CompleteThrows \/ Tick
  BY <1>3, WakesUpKeeps, TaskEndsKeeps, TickKeeps
<1>4. CASE \E timeout \in Timeouts : RunNow(timeout)
  BY <1>4, RunNowKeeps
<1>5. CASE UNCHANGED vars
  <2>1. TypeOK' /\ LockOK' /\ WaitOK'
    BY <1>5 DEF BackgroundTaskInv, vars, TypeOK, ThreadTypeOK, LockOK, WaitOK, threadVars,
                mtxVars, cndVars, taskVars, mainVars
  <2>2. OneOwner'
    BY <1>5, OneOwnerStays DEF BackgroundTaskInv, vars, mainVars
  <2> QED
    BY <2>1, <2>2 DEF BackgroundTaskInv
<1> QED
  BY <1>1, <1>2, <1>3, <1>4, <1>5 DEF Next

\* The invariant holds, whatever is interrupted and throws.
THEOREM BackgroundTaskInvariant == Spec => []BackgroundTaskInv
BY BackgroundTaskInit, BackgroundTaskStep, PTL DEF Spec

\* Types: the mutex is not unlocked too often, and the counter of the Windows
\* condition variable does not get below 0.
THEOREM BackgroundTaskTypeOK == Spec => []TypeOK
<1>1. BackgroundTaskInv => TypeOK
  BY DEF BackgroundTaskInv
<1> QED
  BY <1>1, BackgroundTaskInvariant, PTL

\* A background task has one owner at a time, and nobody uses it once deleted.
THEOREM BackgroundTaskOneOwner == Spec => []OneOwner
<1>1. BackgroundTaskInv => OneOwner
  BY DEF BackgroundTaskInv
<1> QED
  BY <1>1, BackgroundTaskInvariant, PTL

\* Code that relies on the shared lock holds it, also after an interrupt in wait().
THEOREM BackgroundTaskLock == Spec => []LockOK
<1>1. BackgroundTaskInv => LockOK
  BY DEF BackgroundTaskInv
<1> QED
  BY <1>1, BackgroundTaskInvariant, PTL

\* wait() does not sleep on when a callback has been added, on either platform.
THEOREM BackgroundTaskNoMissedWakeup == Spec => []NoMissedWakeup
<1>1. BackgroundTaskInv => NoMissedWakeup
  BY DEF BackgroundTaskInv, WaitOK, NoMissedWakeup, AsleepFor
<1> QED
  BY <1>1, BackgroundTaskInvariant, PTL

\* addSeconds(), <, > and diff_secs() are exact, for any length of a second.
THEOREM BackgroundTaskArithmetic == Spec => []ArithmeticExact
<1>1. BackgroundTaskInv => ArithmeticExact
  <2> SUFFICES ASSUME BackgroundTaskInv, NEW s \in -MaxTime .. MaxTime
               PROVE  LET ts == AddSeconds(TimespecAt(now), s)
                      IN  /\ ts = TimespecAt(now + s)
                          /\ DiffSecs(ts, TimespecAt(now)) = s
                          /\ Greater(ts, TimespecAt(now)) <=> s > 0
                          /\ Less(ts, TimespecAt(now)) <=> s < 0
    BY DEF ArithmeticExact
  <2> DEFINE ts == AddSeconds(TimespecAt(now), s)
  <2>1. s \in Int
    BY ThreadUtilsAssumption
  <2>2. now \in Int /\ TimespecAt(now) \in Timespec /\ Nanoseconds(TimespecAt(now)) = now
    BY ClockIsInt
  <2>3. ts \in Timespec /\ Nanoseconds(ts) = now + s
    BY <2>1, <2>2, AddSecondsAdds
  <2>4. now + s \in Int
    BY <2>1, <2>2
  <2>5. TimespecAt(now + s) \in Timespec /\ Nanoseconds(TimespecAt(now + s)) = now + s
    BY <2>4, TimespecAtIsTimespec
  <2> HIDE DEF ts
  <2>6. ts = TimespecAt(now + s)
    BY <2>3, <2>5, SameNanoseconds
  <2>7. /\ DiffSecs(ts, TimespecAt(now)) = s
        /\ Greater(ts, TimespecAt(now)) <=> s > 0
        /\ Less(ts, TimespecAt(now)) <=> s < 0
    BY <2>1, <2>2, <2>3, OrderOfTimespecs
  <2> QED
    BY <2>6, <2>7 DEF ts
<1> QED
  BY <1>1, BackgroundTaskInvariant, PTL
=============================================================================
