----------------------------- MODULE EventLoop -----------------------------
(***************************************************************************)
(* The event loops of later2 at work: scheduling and cancelling callbacks, *)
(* run_now() and what it does on the main thread's stack                   *)
(* (src/later2.cpp, src/callback_registry.cpp, R/later2.R).                *)
(*                                                                         *)
(* Everything but scheduling from C happens on R's main thread, whose C++  *)
(* and R frames are the variable `stack`.  A callback may do anything the  *)
(* program at top level may do, so user actions are enabled whenever user  *)
(* code is on top of the stack.  A callback is its id; what Callback       *)
(* stores is in `callback`.                                                *)
(***************************************************************************)
EXTENDS CallbackRegistryTable, Sequences

CONSTANTS
    MaxTime,   \* bound on the clock
    MaxDepth,  \* bound on the frames under which user code calls run_now()
    Delays,    \* the delays later() is called with
    Timeouts,  \* the timeouts run_now() is called with; negative: wait forever
    Natives    \* may a callback let an R error jump over its C++ frames?

ASSUME EventLoopAssumption ==
    /\ MaxTime \in Nat
    /\ MaxDepth \in Nat
    /\ Delays \subseteq Int
    /\ Timeouts \subseteq Int
    /\ Natives \subseteq BOOLEAN

VARIABLES
    callback,        \* the fields of every callback object
    nextCallbackId,  \* the id of the next callback
    fate,            \* history: what became of a callback
    now,             \* the monotonic clock
    collected,       \* history: has a handle been collected between the loops of a pass?
    exec_callbacks_reentrancy_count,
    stack            \* the frames of the main thread, innermost last

execVars == <<callback, nextCallbackId, fate, now, collected,
              exec_callbacks_reentrancy_count, stack>>
vars == <<tableVars, execVars>>

(***************************************************************************)
(* A frame is a call of execCallbacks() blocked in wait() ("wait"), a call *)
(* of execCallbacksOne() about to pop a callback ("pop"), running one      *)
(* ("invoke") or running the child loops ("children"), or an R call of     *)
(* with_loop().  `outer` marks the execCallbacksOne() that execCallbacks() *)
(* itself calls.                                                           *)
(***************************************************************************)
Pcs == {"wait", "pop", "invoke", "children", "with_loop"}
ExecPcs == {"pop", "invoke", "children"}

Frame == [pc    : Pcs,
          loop  : Loops,         \* the loop it runs or makes current
          all   : BOOLEAN,       \* runAll
          outer : BOOLEAN,
          at    : Int,           \* the Timestamp `now` of the pass, or expireTime
          old   : Loops,         \* the current loop to restore
          cb    : Callbacks \cup {0},  \* the callback it runs
          rest  : SUBSET Loops,  \* the copied children it has yet to run
          seen  : SUBSET Loops,  \* history: the loops its pass has entered
          popped : Nat]          \* history: callbacks this frame and its children popped

ExecTypeOK ==
    /\ callback \in [Callbacks -> [when : Int, native : BOOLEAN]]
    /\ nextCallbackId \in 1..MaxCallback + 1
    /\ fate \in [Callbacks -> {"none", "ran", "cancelled"}]
    /\ now \in 0..MaxTime
    /\ collected \in BOOLEAN
    /\ exec_callbacks_reentrancy_count \in Int
    /\ stack \in Seq(Frame)

EventLoopTypeOK == TypeOK /\ ExecTypeOK

Init ==
    /\ TableInit
    /\ callback = [i \in Callbacks |-> [when |-> 0, native |-> FALSE]]
    /\ nextCallbackId = 1
    /\ fate = [i \in Callbacks |-> "none"]
    /\ now = 0
    /\ collected = FALSE
    /\ exec_callbacks_reentrancy_count = 0
    /\ stack = <<>>

Top == stack[Len(stack)]
IsUserFrame(f) == f.pc \in {"invoke", "with_loop"}

\* R code of the program runs: at top level, in a callback or in with_loop().
UserCode == stack # <<>> => IsUserFrame(Top)

Push(f) == stack' = Append(stack, f)
ReplaceTop(f) == stack' = [stack EXCEPT ![Len(stack)] = f]
Pop == stack' = SubSeq(stack, 1, Len(stack) - 1)

-----------------------------------------------------------------------------
(***************************************************************************)
(* The ordered set of a registry.                                          *)
(***************************************************************************)
\* Mutant of Before: the tie-breaker decides alone.
BeforeById(i, j) == i < j

\* Callback::operator<
Before(i, j) ==
    \/ callback[i].when < callback[j].when
    \/ /\ ~(callback[i].when > callback[j].when)
       /\ i < j

\* queue.begin()
IsFirst(l, i) == i \in queue[l] /\ \A j \in queue[l] \ {i} : Before(i, j)

\* due(time, recursive = false)
DueHere(l, t) == \E i \in queue[l] : IsFirst(l, i) /\ ~(callback[i].when > t)

\* The registries nextTimestamp() and due() visit below and including l.
Subtree(l) ==
    LET under[x \in Loops] == x = l \/ \E p \in 0..x - 1 : x \in children[p] /\ under[p]
    IN  {x \in Loops : under[x]}

\* due(time, recursive = true)
Due(l, t) == \E x \in Subtree(l) : DueHere(x, t)

\* Mutant of Timestamps: nextTimestamp(recursive = false).
TimestampsOfOne(l) == {callback[i].when : i \in queue[l]}

\* The timestamps among which nextTimestamp(recursive = true) takes the least.
Timestamps(l) == {callback[i].when : i \in UNION {queue[x] : x \in Subtree(l)}}

\* "1000 years ought to be enough for anybody": later than any time reached.
ExpireTime(timeout) == now + (IF timeout < 0 THEN MaxTime + 1 ELSE timeout)

\* The condition on which wait() leaves its loop.
WaitOver(l, expire) == \E t \in Timestamps(l) \cup {expire} : t <= now

-----------------------------------------------------------------------------
(***************************************************************************)
(* Scheduling and cancelling.                                              *)
(***************************************************************************)
\* Mutant of Schedule: the queue is given the id after the counter moved.
ScheduleNextId(l, d, native) ==
    /\ nextCallbackId \in Callbacks
    /\ callback' = [callback EXCEPT ![nextCallbackId] =
                      [when |-> now + d, native |-> native]]
    /\ nextCallbackId' = nextCallbackId + 1
    /\ Add(l, nextCallbackId')
    /\ UNCHANGED <<fate, now, collected, exec_callbacks_reentrancy_count, stack>>

\* A callback object is created, stamped and inserted.
Schedule(l, d, native) ==
    /\ nextCallbackId \in Callbacks
    /\ callback' = [callback EXCEPT ![nextCallbackId] =
                      [when |-> now + d, native |-> native]]
    /\ nextCallbackId' = nextCallbackId + 1
    /\ Add(l, nextCallbackId)
    /\ UNCHANGED <<fate, now, collected, exec_callbacks_reentrancy_count, stack>>

\* later(): execLater() with an R function, on a loop the caller has at hand.
Later(l, d) == UserCode /\ handle[l] = "live" /\ Schedule(l, d, FALSE)

(***************************************************************************)
(* execLaterNative2() -> scheduleCallback(): any thread, any time, any id. *)
(* The shared lock is held from the lookup to the insertion.               *)
(***************************************************************************)
ExecLaterNative(l, d, native) == native \in Natives /\ Schedule(l, d, native)

\* The canceller of a callback that is still queued in an existing loop.  In
\* every other case cancel() returns FALSE and changes nothing.
Cancel(i) ==
    /\ UserCode
    /\ \E l \in DOMAIN registries : Take(l, i)
    /\ fate' = [fate EXCEPT ![i] = "cancelled"]
    /\ UNCHANGED <<callback, nextCallbackId, now, collected,
                   exec_callbacks_reentrancy_count, stack>>

-----------------------------------------------------------------------------
(***************************************************************************)
(* Loops and their handles, as user code and R's garbage collector see     *)
(* them.  R frames keep the handles they were called with alive.           *)
(***************************************************************************)
Pinned(l) ==
    \E i \in DOMAIN stack :
       \/ stack[i].pc = "with_loop" /\ l \in {stack[i].loop, stack[i].old}
       \/ stack[i].outer /\ l = stack[i].loop

UserCreateLoop(p) == UserCode /\ CreateLoop(p) /\ UNCHANGED execVars

UserDestroyLoop(l) == UserCode /\ DestroyLoop(l) /\ UNCHANGED execVars

\* A call of execCallbacksOne() is at its end.
AtPutRNGstate == stack # <<>> /\ Top.pc = "children" /\ Top.rest = {}

\* R collects garbage where it allocates: in user code, and in PutRNGstate(),
\* before the guards of execCallbacksOne() are destroyed.
GarbageCollect(l) ==
    /\ UserCode \/ AtPutRNGstate
    /\ ~Pinned(l)
    /\ CollectHandle(l)
    /\ collected' = (collected \/ ~UserCode)
    /\ UNCHANGED <<callback, nextCallbackId, fate, now,
                   exec_callbacks_reentrancy_count, stack>>

\* current_loop() finds the handle of the current loop in .loops.
CurrentLoopKnown ==
    Exists(current_registry) /\ handle[current_registry] = "live"

\* with_loop(): makes l current, until the expression ends.
WithLoop(l) ==
    /\ UserCode
    /\ Len(stack) < MaxDepth
    /\ Exists(l)
    /\ handle[l] = "live"
    /\ CurrentLoopKnown
    /\ l # current_registry
    /\ SetCurrentRegistryId(l)
    /\ Push([pc |-> "with_loop", loop |-> l, all |-> TRUE, outer |-> FALSE,
             at |-> now, old |-> current_registry, cb |-> 0, rest |-> {},
             seen |-> {}, popped |-> 0])
    /\ UNCHANGED <<callback, nextCallbackId, fate, now, collected,
                   exec_callbacks_reentrancy_count>>

EndWithLoop ==
    /\ stack # <<>>
    /\ Top.pc = "with_loop"
    /\ SetCurrentRegistryId(Top.old)
    /\ Pop
    /\ UNCHANGED <<callback, nextCallbackId, fate, now, collected,
                   exec_callbacks_reentrancy_count>>

\* A later_fd() wait starts in user code; its end is up to another thread.
FdWaits(l) ==
    /\ (UserCode /\ FdWaitsIncr(l)) \/ FdWaitsDecr(l)
    /\ UNCHANGED execVars

-----------------------------------------------------------------------------
(***************************************************************************)
(* run_now(): execCallbacks().                                             *)
(***************************************************************************)
RunNow(l, timeout, all) ==
    /\ UserCode
    /\ Len(stack) < MaxDepth
    /\ handle[l] = "live"
    /\ Exists(l)
    /\ Push([pc |-> "wait", loop |-> l, all |-> all, outer |-> TRUE,
             at |-> ExpireTime(timeout), old |-> current_registry, cb |-> 0,
             rest |-> {}, seen |-> {}, popped |-> 0])
    /\ UNCHANGED <<tableVars, callback, nextCallbackId, fate, now, collected,
                   exec_callbacks_reentrancy_count>>

\* wait() leaves its loop with nothing due: run_now() returns FALSE.
WaitTimesOut ==
    /\ stack # <<>>
    /\ Top.pc = "wait"
    /\ WaitOver(Top.loop, Top.at)
    /\ ~Due(Top.loop, now)
    /\ Pop
    /\ UNCHANGED <<tableVars, callback, nextCallbackId, fate, now, collected,
                   exec_callbacks_reentrancy_count>>

\* Entry of execCallbacksOne(): the guards count the call and set the loop.
Enter(l) ==
    /\ SetCurrentRegistryId(l)
    /\ exec_callbacks_reentrancy_count' = exec_callbacks_reentrancy_count + 1
    /\ UNCHANGED <<callback, nextCallbackId, fate, now>>

\* Mutant of WaitEnds: execCallbacks() does not ask whether anything is due.
WaitEndsAnyway ==
    /\ stack # <<>>
    /\ Top.pc = "wait"
    /\ WaitOver(Top.loop, Top.at)
    /\ Enter(Top.loop)
    /\ collected' = FALSE
    /\ ReplaceTop([Top EXCEPT !.pc = "pop", !.at = now, !.seen = {Top.loop}])

WaitEnds ==
    /\ stack # <<>>
    /\ Top.pc = "wait"
    /\ WaitOver(Top.loop, Top.at)
    /\ Due(Top.loop, now)
    /\ Enter(Top.loop)
    /\ collected' = FALSE
    /\ ReplaceTop([Top EXCEPT !.pc = "pop", !.at = now, !.seen = {Top.loop}])

\* Mutant of PopCallback: all due callbacks leave the queue at once.
PopAllCallbacks ==
    /\ stack # <<>>
    /\ Top.pc = "pop"
    /\ \E i \in queue[Top.loop] :
         /\ IsFirst(Top.loop, i)
         /\ ~(callback[i].when > Top.at)
         /\ queue' = [queue EXCEPT ![Top.loop] =
                        {j \in @ : callback[j].when > Top.at}]
         /\ fate' = [fate EXCEPT ![i] = "ran"]
         /\ ReplaceTop([Top EXCEPT !.pc = "invoke", !.cb = i,
                                   !.popped = @ + 1])
    /\ UNCHANGED <<registries, parent, children, fd_waits, next_id, handle,
                   current_registry, callback, nextCallbackId, now, collected,
                   exec_callbacks_reentrancy_count>>

\* pop(now): the first callback, if it is due.
PopCallback ==
    /\ stack # <<>>
    /\ Top.pc = "pop"
    /\ \E i \in queue[Top.loop] :
         /\ IsFirst(Top.loop, i)
         /\ ~(callback[i].when > Top.at)
         /\ Take(Top.loop, i)
         /\ fate' = [fate EXCEPT ![i] = "ran"]
         /\ ReplaceTop([Top EXCEPT !.pc = "invoke", !.cb = i,
                                   !.popped = @ + 1])
    /\ UNCHANGED <<callback, nextCallbackId, now, collected,
                   exec_callbacks_reentrancy_count>>

\* Mutant of ToChildren: the loops of the whole subtree are run as children.
ToSubtree(f) == [f EXCEPT !.pc = "children", !.cb = 0,
                          !.rest = Subtree(f.loop)]

\* Mutant of ToChildren: the loops further below are run as children, too.
ToAllBelow(f) == [f EXCEPT !.pc = "children", !.cb = 0,
                           !.rest = Subtree(f.loop) \ {f.loop}]

\* The frame turns to a copy of the children it has at this moment.
ToChildren(f) == [f EXCEPT !.pc = "children", !.cb = 0,
                           !.rest = children[f.loop]]

NothingToPop ==
    /\ stack # <<>>
    /\ Top.pc = "pop"
    /\ ~DueHere(Top.loop, Top.at)
    /\ ReplaceTop(ToChildren(Top))
    /\ UNCHANGED <<tableVars, callback, nextCallbackId, fate, now, collected,
                   exec_callbacks_reentrancy_count>>

CallbackReturns ==
    /\ stack # <<>>
    /\ Top.pc = "invoke"
    /\ ReplaceTop(IF Top.all THEN [Top EXCEPT !.pc = "pop", !.cb = 0]
                             ELSE ToChildren(Top))
    /\ UNCHANGED <<tableVars, callback, nextCallbackId, fate, now, collected,
                   exec_callbacks_reentrancy_count>>

\* The recursive call of execCallbacksOne(true, child, now).
RunChild ==
    /\ stack # <<>>
    /\ Top.pc = "children"
    /\ \E c \in Top.rest :
         /\ \A d \in Top.rest : c <= d
         /\ Enter(c)
         /\ stack' = Append([stack EXCEPT ![Len(stack)].rest = @ \ {c}],
                            [pc |-> "pop", loop |-> c, all |-> TRUE,
                             outer |-> FALSE, at |-> Top.at,
                             old |-> current_registry, cb |-> 0, rest |-> {},
                             seen |-> Top.seen \cup {c}, popped |-> 0])
    /\ UNCHANGED collected

\* The guards of a returning execCallbacksOne() undo what Enter did.
Leave ==
    /\ exec_callbacks_reentrancy_count' = exec_callbacks_reentrancy_count - 1
    /\ current_registry' = Top.old
    /\ UNCHANGED <<callback, nextCallbackId, fate, now, collected>>

ChildReturns ==
    /\ stack # <<>>
    /\ Top.pc = "children" /\ Top.rest = {} /\ ~Top.outer
    /\ Leave
    /\ stack' = [SubSeq(stack, 1, Len(stack) - 1) EXCEPT
                   ![Len(stack) - 1].popped = @ + Top.popped,
                   ![Len(stack) - 1].seen = Top.seen]
    /\ UNCHANGED <<registries, parent, children, queue, fd_waits, next_id,
                   handle>>

\* run_now() returns TRUE, after a walk over the table.
ExecCallbacksReturns ==
    /\ stack # <<>>
    /\ Top.pc = "children" /\ Top.rest = {} /\ Top.outer
    /\ Leave
    /\ PruneRegistries
    /\ Pop

\* Mutant of Unwound: no destructor and no on.exit handler runs.
UnwoundNever(k) == {}

(***************************************************************************)
(* An R error or interrupt in user code, or an interrupt in wait(), that   *)
(* user code k frames above top level (0: top level itself) catches.       *)
(* with_loop()'s on.exit always runs.  The destructors of a call of        *)
(* execCallbacksOne() run when the error passes as a C++ exception, that   *)
(* is when the callback through which it leaves that call converts it: R   *)
(* functions are called through cpp4r::function, which does; a C function  *)
(* that lets R's longjmp through does not.                                 *)
(***************************************************************************)
Unwound(k) ==
    {i \in k + 1 .. Len(stack) :
       \/ stack[i].pc = "with_loop"
       \/ \A g \in i .. Len(stack) :
            stack[g].pc = "invoke" /\ (\A h \in i .. g - 1 : stack[h].pc # "invoke")
              => ~callback[stack[g].cb].native}

Throw(k) ==
    /\ stack # <<>>
    /\ Top.pc \in {"invoke", "with_loop", "wait"}
    /\ k \in 0 .. Len(stack) - 1
    /\ k > 0 => IsUserFrame(stack[k])
    /\ \/ Unwound(k) = {} /\ UNCHANGED tableVars
       \/ \E i \in Unwound(k) :  \* the last guard to restore
             (\A j \in Unwound(k) : i <= j) /\ SetCurrentRegistryId(stack[i].old)
    /\ exec_callbacks_reentrancy_count' = exec_callbacks_reentrancy_count -
         Cardinality({i \in Unwound(k) : stack[i].pc \in ExecPcs})
    /\ stack' = SubSeq(stack, 1, k)
    /\ UNCHANGED <<callback, nextCallbackId, fate, now, collected>>

Tick ==
    /\ now < MaxTime
    /\ now' = now + 1
    /\ UNCHANGED <<tableVars, callback, nextCallbackId, fate, collected,
                   exec_callbacks_reentrancy_count, stack>>

-----------------------------------------------------------------------------
\* What the main thread does by itself.
MainStep ==
    \/ WaitTimesOut
    \/ WaitEnds
    \/ PopCallback
    \/ NothingToPop
    \/ RunChild
    \/ ChildReturns
    \/ ExecCallbacksReturns

\* What user code does.
UserStep ==
    \/ \E l \in Loops, d \in Delays : Later(l, d)
    \/ \E i \in Callbacks : Cancel(i)
    \/ \E p \in Loops \cup {NoLoop} : UserCreateLoop(p)
    \/ \E l \in Loops : UserDestroyLoop(l)
    \/ \E l \in Loops : WithLoop(l)
    \/ EndWithLoop
    \/ \E l \in Loops, t \in Timeouts, all \in BOOLEAN : RunNow(l, t, all)
    \/ CallbackReturns
    \/ \E k \in 0 .. Len(stack) : Throw(k)

Next ==
    \/ MainStep
    \/ UserStep
    \/ \E l \in Loops : GarbageCollect(l)
    \/ \E l \in Loops, d \in Delays, n \in BOOLEAN : ExecLaterNative(l, d, n)
    \/ \E l \in Loops : FdWaits(l)
    \/ Tick

Spec == Init /\ [][Next]_vars

-----------------------------------------------------------------------------
(***************************************************************************)
(* Safety.                                                                 *)
(***************************************************************************)
\* The loop that the frames of the stack make current.
ActiveLoop ==
    IF stack = <<>> THEN GLOBAL_LOOP
    ELSE IF Top.pc = "wait" THEN Top.old ELSE Top.loop

ExecFrames == {i \in DOMAIN stack : stack[i].pc \in ExecPcs}

(***************************************************************************)
(* The RAII guards: whatever callbacks nest, return or throw, the current  *)
(* loop is the one of the innermost frame (and the global loop again at    *)
(* top level), and exec_callbacks_reentrancy_count counts the running      *)
(* calls of execCallbacksOne(), so that at_top_level() is right.           *)
(***************************************************************************)
GuardsMatchStack ==
    /\ current_registry = ActiveLoop
    /\ exec_callbacks_reentrancy_count = Cardinality(ExecFrames)

(***************************************************************************)
(* "We only take one at a time, because we don't want to lose callbacks if *)
(* one of the callbacks throws an error": a callback that has been         *)
(* scheduled and neither ran nor was cancelled is in the queue of exactly  *)
(* one registry, and no other callback is in any queue.                    *)
(***************************************************************************)
Homes(i) == {l \in Loops : i \in queue[l]}

NothingLost ==
    \A i \in Callbacks :
       IF i < nextCallbackId /\ fate[i] = "none"
         THEN \E l \in Loops : Homes(i) = {l}
         ELSE Homes(i) = {}

(***************************************************************************)
(* The loops keep the promise of module CallbackLifecycle.                 *)
(***************************************************************************)
Status(i) == IF i >= nextCallbackId THEN "new"
             ELSE IF fate[i] = "none" THEN "queued" ELSE fate[i]

Lifecycle == INSTANCE CallbackLifecycle WITH
    time <- now,
    status <- [i \in Callbacks |-> Status(i)],
    due <- [i \in Callbacks |-> callback[i].when],
    homes <- [i \in Callbacks |-> Homes(i)]

\* Every step of the event loops is a step of the promise or none: a callback
\* starts at most once, not early, not after cancel() returned TRUE, and in the
\* order of operator< of Callback among those waiting in its loop.
LifecycleSpec == Lifecycle!Spec

(***************************************************************************)
(* run_now() returns "whether any callbacks were actually run": when the   *)
(* outermost execCallbacksOne() is about to return TRUE, at least one      *)
(* callback has been popped, although wait() saw only that one was due and *)
(* callbacks may have destroyed loops since.  The garbage collector breaks *)
(* this.                                                                   *)
(***************************************************************************)
TrueMeansRan == AtPutRNGstate /\ Top.outer => Top.popped > 0

(***************************************************************************)
(* The same, but for the garbage collector: only a handle collected by     *)
(* PutRNGstate() between two loops of this very pass may cut off the loop  *)
(* with the callback that wait() saw.  What callbacks do, and what is      *)
(* collected while they run or in other passes, does not.                  *)
(***************************************************************************)
TrueMeansRanUnlessCollected == TrueMeansRan \/ collected

(***************************************************************************)
(* "If FALSE, run_now() will execute at most one scheduled operation."     *)
(* The code does not keep this: the child loops are run with runAll = true.*)
(***************************************************************************)
AtMostOne ==
    \A i \in DOMAIN stack : stack[i].outer /\ ~stack[i].all => stack[i].popped <= 1

(***************************************************************************)
(* The canceller returns FALSE "if the callback has executed or has been   *)
(* cancelled already": the callback that a pass is about to run can still  *)
(* be cancelled, that is, found through the table.  The code does not keep *)
(* this, if a callback destroys the loop that runs it.                     *)
(***************************************************************************)
FalseMeansOver ==
    stack # <<>> /\ Top.pc = "pop" /\ DueHere(Top.loop, Top.at) => Exists(Top.loop)

(***************************************************************************)
(* A pass enters no loop twice: it works on copies of lists of children    *)
(* that callbacks, the garbage collector and the passes inside callbacks   *)
(* change meanwhile, and no copy has a loop that the pass has been through.*)
(***************************************************************************)
OncePerPass ==
    stack # <<>> /\ Top.pc = "children" => Top.rest \cap Top.seen = {}

(***************************************************************************)
(* Within one pass execCallbacksOne() only descends, to loops younger than *)
(* the one it runs, so that the recursion ends, whatever loops are created *)
(* and destroyed meanwhile.                                                *)
(***************************************************************************)
PassDescends ==
    \A i \in DOMAIN stack :
       /\ \A c \in stack[i].rest : stack[i].loop < c
       /\ i > 1 /\ stack[i].pc \in ExecPcs /\ ~stack[i].outer
            => /\ stack[i - 1].pc = "children"
               /\ stack[i - 1].loop < stack[i].loop
               /\ stack[i - 1].at = stack[i].at

-----------------------------------------------------------------------------
(***************************************************************************)
(* Liveness.  The main thread keeps going and time passes; nothing is      *)
(* assumed of user code.                                                   *)
(***************************************************************************)
FairSpec == Spec /\ WF_vars(MainStep) /\ WF_vars(Tick)

\* A wait that has something to wait for within the clock's bound.
WaitHasAnEnd == Top.at <= MaxTime \/ Due(Top.loop, MaxTime)

(***************************************************************************)
(* run_now() gives control back: a wait ends once its timeout expires or a *)
(* callback of the loop or of a loop below it becomes due, even one that   *)
(* another thread schedules meanwhile, and a pass always reaches the next  *)
(* callback or its end.                                                    *)
(***************************************************************************)
ControlReturns ==
    (~UserCode /\ (Top.pc = "wait" => WaitHasAnEnd)) ~> UserCode
=============================================================================
