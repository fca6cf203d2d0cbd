----------------------------- MODULE Autorunner -----------------------------
(***************************************************************************)
(* How later2 runs the global loop while R is idle at its prompt, on POSIX *)
(* systems (src/later_posix.cpp, src/timer_posix.cpp): a background thread *)
(* sleeps until `wakeAt` and then writes a byte to a pipe; R polls the     *)
(* pipe and calls async_input_handler(), which runs the callbacks that are *)
(* due and sets the timer for the next one.                                *)
(*                                                                         *)
(* The tree of loops is reduced to what the autorunner sees of it: `Driven`*)
(* are the global loop and the loops below it, which a pass over the       *)
(* global loop runs; every other loop stands alone.  The order of the      *)
(* callbacks of a pass is EventLoop's business and left open here.         *)
(***************************************************************************)
EXTENDS Integers, Sequences, FiniteSets

CONSTANTS
    Loops,        \* the ids of the loops
    Driven,       \* those that a pass over the global loop runs
    MaxCallback,  \* bound on callback ids
    MaxTime,      \* bound on the clock
    MaxCommands,  \* bound on the commands typed at the prompt
    MaxDepth,     \* bound on the frames under which R code polls or runs loops
    Delays,       \* the delays later() is called with
    Passes,       \* the passes of execCallbacksForTopLevel(), 20 in the code
    Threads,      \* do other threads schedule callbacks?
    Interrupts    \* does the user interrupt R?

GLOBAL_LOOP == 0

ASSUME AutorunnerAssumption ==
    /\ Driven \subseteq Loops
    /\ GLOBAL_LOOP \in Driven
    /\ MaxCallback \in Nat
    /\ MaxTime \in Nat
    /\ MaxCommands \in Nat
    /\ MaxDepth \in Nat
    /\ Delays \subseteq Nat
    /\ Passes \in Nat \ {0}
    /\ Threads \in BOOLEAN
    /\ Interrupts \in BOOLEAN

VARIABLES
    queue,           \* the callbacks that wait in a loop
    when,            \* the time of a callback
    nextCallbackId,  \* the id of the next callback
    now,             \* the monotonic clock
    commands,        \* the commands typed so far
    interrupted,     \* history: since the timer was last set, an interrupt cut
                     \* the input handler off
    hot,             \* "whether the file descriptor is ready for reading"
    pipe,            \* the bytes in the pipe
    wakeAt,          \* Timer::wakeAt
    bgthread,        \* what the timer's thread does
    until,           \* the time for which its timedwait() was called
    exec_callbacks_reentrancy_count,
    stack            \* the frames of the main thread; none: R is at the prompt

timerVars == <<wakeAt, bgthread, until>>
queueVars == <<queue, when, nextCallbackId>>
vars == <<queueVars, now, commands, interrupted, hot, pipe, timerVars,
          exec_callbacks_reentrancy_count, stack>>

Callbacks == 1..MaxCallback
NoTime == -1
Times == 0..MaxTime

(***************************************************************************)
(* Frames: R code of the program ("code"), doExecLater() about to set the  *)
(* timer ("settimer"), a run_now() pass ("run_now"), and the input handler *)
(* that has emptied the pipe ("asked"), is between two passes ("exec"), in *)
(* a pass ("pass"), at its end ("reset") or about to set the timer         *)
(* ("resetting").                                                          *)
(***************************************************************************)
Pcs == {"code", "settimer", "run_now", "asked", "exec", "pass", "reset",
        "resetting"}
PassPcs == {"run_now", "pass"}
Frame == [pc     : Pcs,
          loop   : Loops,
          at     : Times,
          n      : 0..Passes,  \* the passes left
          nframe : {0, 1}]     \* what sys.nframe() returns; 1: anything but 0

TypeOK ==
    /\ queue \in [Loops -> SUBSET Callbacks]
    /\ when \in [Callbacks -> Times]
    /\ nextCallbackId \in 1..MaxCallback + 1
    /\ now \in Times
    /\ commands \in 0..MaxCommands
    /\ interrupted \in BOOLEAN
    /\ hot \in BOOLEAN
    /\ pipe \in {0, 1}  \* "in theory it only ever holds zero or one byte"
    /\ wakeAt \in Times \cup {NoTime}
    /\ bgthread \in {"none", "wait", "timedwait", "callback"}
    /\ until \in Times
    /\ exec_callbacks_reentrancy_count \in Int
    /\ stack \in Seq(Frame)

Init ==
    /\ queue = [l \in Loops |-> {}]
    /\ when = [i \in Callbacks |-> 0]
    /\ nextCallbackId = 1
    /\ now = 0
    /\ commands = 0
    /\ interrupted = FALSE
    /\ hot = FALSE
    /\ pipe = 0
    /\ wakeAt = NoTime
    /\ bgthread = "none"
    /\ until = 0
    /\ exec_callbacks_reentrancy_count = 0
    /\ stack = <<>>

Top == stack[Len(stack)]
OnTop(pc) == stack # <<>> /\ Top.pc = pc
Push(f) == stack' = Append(stack, f)
ReplaceTop(f) == stack' = [stack EXCEPT ![Len(stack)] = f]
Pop == stack' = SubSeq(stack, 1, Len(stack) - 1)

\* The loops a pass over l runs, nextTimestamp() and due() visit.
Below(l) == IF l = GLOBAL_LOOP THEN Driven ELSE {l}
Waiting(l) == UNION {queue[x] : x \in Below(l)}
Due(l, t) == \E i \in Waiting(l) : when[i] <= t

\* t is the value of nextTimestamp() of loop l.
IsNext(l, t) == (\E i \in Waiting(l) : when[i] = t) /\ (\A i \in Waiting(l) : t <= when[i])

-----------------------------------------------------------------------------
(***************************************************************************)
(* The timer thread.  It holds the timer's mutex all the time, except      *)
(* while it waits.                                                         *)
(***************************************************************************)
\* Timer::set(), which starts the thread when it is first called.
TimerSet(t) ==
    /\ bgthread # "callback"
    /\ wakeAt' = t
    /\ bgthread' = IF bgthread = "none" THEN "wait" ELSE bgthread
    /\ interrupted' = FALSE
    /\ UNCHANGED until

\* The wake time is in the past, or timedwait() times out: the callback is next.
\* A timeout counts even if wakeAt has been set anew before the thread got the
\* mutex back.
BgElapses ==
    /\ \/ bgthread = "wait" /\ wakeAt # NoTime /\ wakeAt <= now
       \/ bgthread = "timedwait" /\ until <= now
    /\ wakeAt' = NoTime
    /\ bgthread' = "callback"
    /\ UNCHANGED <<queueVars, now, commands, interrupted, hot, pipe, until,
                   exec_callbacks_reentrancy_count, stack>>

BgWaits ==
    /\ bgthread = "wait"
    /\ wakeAt > now
    /\ bgthread' = "timedwait"
    /\ until' = wakeAt
    /\ UNCHANGED <<queueVars, now, commands, interrupted, hot, pipe, wakeAt,
                   exec_callbacks_reentrancy_count, stack>>

\* "Time didn't elapse, we were woken up (probably). Start over."
BgSignalled ==
    /\ bgthread = "timedwait"
    /\ wakeAt # until
    /\ bgthread' = "wait"
    /\ UNCHANGED <<queueVars, now, commands, interrupted, hot, pipe, wakeAt,
                   until, exec_callbacks_reentrancy_count, stack>>

\* Mutant of SetFd: a byte is written whether or not there is one already.
SetFdAlways(ready) ==
    /\ hot' = ready
    /\ pipe' = IF ready THEN pipe + 1 ELSE 0

\* Mutant of SetFd: the flag is not reset when the pipe is read.
SetFdStaysHot(ready) ==
    /\ hot' = (hot \/ ready)
    /\ pipe' = IF ready = hot THEN pipe ELSE IF ready THEN pipe + 1 ELSE 0

\* set_fd(ready), under its own mutex.
SetFd(ready) ==
    /\ hot' = ready
    /\ pipe' = IF ready = hot THEN pipe ELSE IF ready THEN pipe + 1 ELSE 0

\* callback(), that is fd_on().
BgCallback ==
    /\ bgthread = "callback"
    /\ SetFd(TRUE)
    /\ bgthread' = "wait"
    /\ UNCHANGED <<queueVars, now, commands, interrupted, wakeAt, until,
                   exec_callbacks_reentrancy_count, stack>>

BgStep == BgElapses \/ BgWaits \/ BgSignalled \/ BgCallback

-----------------------------------------------------------------------------
(***************************************************************************)
(* Scheduling: doExecLater() adds the callback and then sets the timer to  *)
(* the next timestamp of the loop it was added to.  On the main thread     *)
(* another thread may come between the two; other threads hold the shared  *)
(* lock over both.                                                         *)
(***************************************************************************)
AddCallback(l, d) ==
    /\ nextCallbackId \in Callbacks
    /\ now + d \in Times
    /\ queue' = [queue EXCEPT ![l] = @ \cup {nextCallbackId}]
    /\ when' = [when EXCEPT ![nextCallbackId] = now + d]
    /\ nextCallbackId' = nextCallbackId + 1

Later(l, d) ==
    /\ OnTop("code")
    /\ AddCallback(l, d)
    /\ \E t \in Times :
         /\ IsNext(l, t)'
         /\ Push([pc |-> "settimer", loop |-> l, at |-> t, n |-> 0, nframe |-> 0])
    /\ UNCHANGED <<now, commands, interrupted, hot, pipe, timerVars,
                   exec_callbacks_reentrancy_count>>

SetTimer ==
    /\ OnTop("settimer")
    /\ TimerSet(Top.at)
    /\ Pop
    /\ UNCHANGED <<queueVars, now, commands, hot, pipe,
                   exec_callbacks_reentrancy_count>>

ScheduleCallback(l, d) ==
    /\ Threads
    /\ AddCallback(l, d)
    /\ \E t \in Times : IsNext(l, t)' /\ TimerSet(t)
    /\ UNCHANGED <<now, commands, hot, pipe, exec_callbacks_reentrancy_count,
                   stack>>

Cancel(l, i) ==
    /\ OnTop("code")
    /\ i \in queue[l]
    /\ queue' = [queue EXCEPT ![l] = @ \ {i}]
    /\ UNCHANGED <<when, nextCallbackId, now, commands, interrupted, hot, pipe,
                   timerVars, exec_callbacks_reentrancy_count, stack>>

-----------------------------------------------------------------------------
(***************************************************************************)
(* The program: commands typed at the prompt and callbacks are R code.     *)
(***************************************************************************)
CodeFrame == [pc |-> "code", loop |-> GLOBAL_LOOP, at |-> 0, n |-> 0, nframe |-> 0]

Command ==
    /\ stack = <<>>
    /\ commands < MaxCommands
    /\ commands' = commands + 1
    /\ Push(CodeFrame)
    /\ UNCHANGED <<queueVars, now, interrupted, hot, pipe, timerVars,
                   exec_callbacks_reentrancy_count>>

CodeEnds ==
    /\ OnTop("code")
    /\ Pop
    /\ UNCHANGED <<queueVars, now, commands, interrupted, hot, pipe, timerVars,
                   exec_callbacks_reentrancy_count>>

\* execCallbacksOne() counts itself, in its ProtectCallbacks.
EnterPass == exec_callbacks_reentrancy_count' = exec_callbacks_reentrancy_count + 1

\* The passes from frame k upwards end.
LeavePasses(k) ==
    exec_callbacks_reentrancy_count' = exec_callbacks_reentrancy_count -
      Cardinality({i \in k .. Len(stack) : stack[i].pc \in PassPcs})

\* An error in R code that R code k frames above the prompt catches (0: nobody
\* but R itself).  It does not get past the try block of the input handler.
CodeThrows(k) ==
    /\ OnTop("code")
    /\ k \in 0 .. Len(stack) - 1
    /\ \A i \in k + 1 .. Len(stack) : stack[i].pc # "pass"
    /\ \/ /\ k > 0 => stack[k].pc = "code"
          /\ stack' = SubSeq(stack, 1, k)
          /\ LeavePasses(k + 1)
       \/ /\ k > 0 /\ stack[k].pc = "pass"
          /\ stack' = [SubSeq(stack, 1, k) EXCEPT ![k].pc = "reset"]
          /\ LeavePasses(k)
    /\ UNCHANGED <<queueVars, now, commands, interrupted, hot, pipe, timerVars>>

\* run_now() in R code, when something is due; otherwise it returns at once.
RunNow(l) ==
    /\ OnTop("code")
    /\ Len(stack) < MaxDepth
    /\ Due(l, now)
    /\ EnterPass
    /\ Push([pc |-> "run_now", loop |-> l, at |-> now, n |-> 0, nframe |-> 0])
    /\ UNCHANGED <<queueVars, now, commands, interrupted, hot, pipe, timerVars>>

\* A pass runs a callback that was due when it began.
PassPops ==
    /\ OnTop("pass") \/ OnTop("run_now")
    /\ \E l \in Below(Top.loop) : \E i \in queue[l] :
         /\ when[i] <= Top.at
         /\ queue' = [queue EXCEPT ![l] = @ \ {i}]
    /\ Push(CodeFrame)
    /\ UNCHANGED <<when, nextCallbackId, now, commands, interrupted, hot, pipe,
                   timerVars, exec_callbacks_reentrancy_count>>

RunNowEnds ==
    /\ OnTop("run_now")
    /\ ~Due(Top.loop, Top.at)
    /\ LeavePasses(Len(stack))
    /\ Pop
    /\ UNCHANGED <<queueVars, now, commands, interrupted, hot, pipe, timerVars>>

-----------------------------------------------------------------------------
(***************************************************************************)
(* async_input_handler().  R calls it when the pipe is readable: at the    *)
(* prompt, and from code that lets R process events.  That code is inside  *)
(* an R function, or it is not: a builtin at the prompt, or a callback in  *)
(* C.                                                                      *)
(***************************************************************************)
HandlerCalled(nframe) ==
    /\ pipe > 0
    /\ IF stack = <<>> THEN nframe = 0 ELSE Top.pc = "code" /\ Len(stack) < MaxDepth
    /\ SetFd(FALSE)
    /\ Push([pc |-> "asked", loop |-> GLOBAL_LOOP, at |-> 0, n |-> 0,
             nframe |-> nframe])
    /\ UNCHANGED <<queueVars, now, commands, interrupted, timerVars,
                   exec_callbacks_reentrancy_count>>

\* at_top_level().  sys_nframe() is only called when no callback is running.
AtTopLevel == exec_callbacks_reentrancy_count = 0 /\ Top.nframe = 0

\* Mutant of HandlerReturnsEarly: the handler just leaves.
HandlerGivesUp ==
    /\ OnTop("asked")
    /\ ~AtTopLevel
    /\ Pop
    /\ UNCHANGED <<queueVars, now, commands, interrupted, hot, pipe, timerVars,
                   exec_callbacks_reentrancy_count>>

\* "tell the timer to fire again in a few milliseconds", less than a tick here.
HandlerReturnsEarly ==
    /\ OnTop("asked")
    /\ ~AtTopLevel
    /\ TimerSet(now)
    /\ Pop
    /\ UNCHANGED <<queueVars, now, commands, hot, pipe,
                   exec_callbacks_reentrancy_count>>

\* An interrupt that is pending when sys_nframe() ends its suspension jumps to
\* the prompt or to R code k frames above it that catches it.  While callbacks
\* run, sys_nframe() is not called.
HandlerInterrupted(k) ==
    /\ Interrupts
    /\ OnTop("asked")
    /\ exec_callbacks_reentrancy_count = 0
    /\ k \in 0 .. Len(stack) - 1
    /\ stack' = SubSeq(stack, 1, k)
    /\ interrupted' = TRUE
    /\ UNCHANGED <<queueVars, now, commands, hot, pipe, timerVars,
                   exec_callbacks_reentrancy_count>>

HandlerRuns ==
    /\ OnTop("asked")
    /\ AtTopLevel
    /\ ReplaceTop([Top EXCEPT !.pc = "exec", !.n = Passes])
    /\ UNCHANGED <<queueVars, now, commands, interrupted, hot, pipe, timerVars,
                   exec_callbacks_reentrancy_count>>

\* Mutant of PassBegins: execCallbacksOne() does not count itself.
PassBeginsUncounted ==
    /\ OnTop("exec")
    /\ Top.n > 0
    /\ Due(GLOBAL_LOOP, now)
    /\ ReplaceTop([Top EXCEPT !.pc = "pass", !.at = now])
    /\ UNCHANGED <<queueVars, now, commands, interrupted, hot, pipe, timerVars,
                   exec_callbacks_reentrancy_count>>

\* execCallbacksForTopLevel(): the next execCallbacks(0, true, GLOBAL_LOOP).
PassBegins ==
    /\ OnTop("exec")
    /\ Top.n > 0
    /\ Due(GLOBAL_LOOP, now)
    /\ EnterPass
    /\ ReplaceTop([Top EXCEPT !.pc = "pass", !.at = now])
    /\ UNCHANGED <<queueVars, now, commands, interrupted, hot, pipe, timerVars>>

PassEnds ==
    /\ OnTop("pass")
    /\ ~Due(GLOBAL_LOOP, Top.at)
    /\ LeavePasses(Len(stack))
    /\ ReplaceTop([Top EXCEPT !.pc = "exec", !.n = @ - 1])
    /\ UNCHANGED <<queueVars, now, commands, interrupted, hot, pipe, timerVars>>

ExecEnds ==
    /\ OnTop("exec")
    /\ Top.n = 0 \/ ~Due(GLOBAL_LOOP, now)
    /\ ReplaceTop([Top EXCEPT !.pc = "reset"])
    /\ UNCHANGED <<queueVars, now, commands, interrupted, hot, pipe, timerVars,
                   exec_callbacks_reentrancy_count>>

\* ~ResetTimerOnExit(): "Find the next event in the registry ...
ResetReads ==
    /\ OnTop("reset")
    /\ \/ Waiting(GLOBAL_LOOP) = {} /\ Pop
       \/ \E t \in Times : /\ IsNext(GLOBAL_LOOP, t)
                           /\ ReplaceTop([Top EXCEPT !.pc = "resetting", !.at = t])
    /\ UNCHANGED <<queueVars, now, commands, interrupted, hot, pipe, timerVars,
                   exec_callbacks_reentrancy_count>>

\* ... and, if there is one, set the timer."
ResetSets ==
    /\ OnTop("resetting")
    /\ TimerSet(Top.at)
    /\ Pop
    /\ UNCHANGED <<queueVars, now, commands, hot, pipe,
                   exec_callbacks_reentrancy_count>>

Tick ==
    /\ now < MaxTime
    /\ now' = now + 1
    /\ UNCHANGED <<queueVars, commands, interrupted, hot, pipe, timerVars,
                   exec_callbacks_reentrancy_count, stack>>

-----------------------------------------------------------------------------
\* What the main thread does by itself.
MainStep ==
    \/ SetTimer
    \/ PassPops
    \/ RunNowEnds
    \/ HandlerReturnsEarly
    \/ HandlerRuns
    \/ PassBegins
    \/ PassEnds
    \/ ExecEnds
    \/ ResetReads
    \/ ResetSets

CodeStep ==
    \/ Command
    \/ CodeEnds
    \/ \E k \in 0 .. Len(stack) : CodeThrows(k)
    \/ \E l \in Loops, d \in Delays : Later(l, d)
    \/ \E l \in Loops, i \in Callbacks : Cancel(l, i)
    \/ \E l \in Loops : RunNow(l)

Next ==
    \/ MainStep
    \/ CodeStep
    \/ \E nframe \in {0, 1} : HandlerCalled(nframe)
    \/ \E k \in 0 .. Len(stack) : HandlerInterrupted(k)
    \/ BgStep
    \/ \E l \in Loops, d \in Delays : ScheduleCallback(l, d)
    \/ Tick

Spec == Init /\ [][Next]_vars

-----------------------------------------------------------------------------
\* The input handler has not yet set the timer again.
Handling == \E k \in DOMAIN stack :
               stack[k].pc \in {"settimer", "asked", "exec", "pass", "reset",
                                "resetting"}

(***************************************************************************)
(* No wakeup is lost: as long as a callback of the global loop or of a     *)
(* loop below it waits, the timer is set, or its thread is about to make   *)
(* the pipe readable, or the pipe is, or the main thread is on its way to  *)
(* set the timer; whatever throws, cancels, nests or schedules meanwhile.  *)
(* Only an interrupt of the input handler breaks it, and only until the    *)
(* timer is next set, on whichever loop's behalf.                          *)
(***************************************************************************)
NoLostWakeup ==
    Waiting(GLOBAL_LOOP) # {} =>
       \/ wakeAt # NoTime
       \/ bgthread = "callback"
       \/ hot
       \/ Handling
       \/ interrupted

(***************************************************************************)
(* "It's not safe to run arbitrary callbacks when other R code is already  *)
(* running": the autorunner starts nothing on top of a running callback,   *)
(* whoever runs it, in whatever language it is written, however often it   *)
(* lets R process events, and whatever errors left earlier callbacks.      *)
(***************************************************************************)
NotReentered ==
    \A i, k \in DOMAIN stack :
       i < k /\ stack[i].pc \in PassPcs
         => stack[k].pc \notin {"exec", "pass", "reset", "resetting"}

(***************************************************************************)
(* A callback is "run as soon as control returns to the top-level": at an  *)
(* idle prompt the timer goes off no later than the next callback of the   *)
(* loops that the autorunner runs, or at once.                             *)
(***************************************************************************)
TimerInTime ==
    stack = <<>> /\ ~hot /\ bgthread # "callback" =>
       \A i \in Waiting(GLOBAL_LOOP) :
          wakeAt # NoTime /\ (wakeAt <= when[i] \/ wakeAt <= now)

-----------------------------------------------------------------------------
(***************************************************************************)
(* Liveness.  Threads keep going, time passes and R polls the pipe at the  *)
(* prompt.                                                                 *)
(***************************************************************************)
FairSpec ==
    /\ Spec
    /\ WF_vars(MainStep)
    /\ WF_vars(BgStep)
    /\ WF_vars(stack = <<>> /\ HandlerCalled(0))
    /\ WF_vars(Tick)

(***************************************************************************)
(* If R code always ends sooner or later, each callback of a driven loop   *)
(* leaves its queue: it is run once control is back at the top level.      *)
(***************************************************************************)
WaitingCallbacksRun ==
    []<>(stack = <<>>) =>
       \A i \in Callbacks : i \in Waiting(GLOBAL_LOOP) ~> i \notin Waiting(GLOBAL_LOOP)

(***************************************************************************)
(* The same, but for the user interrupting the input handler: even then    *)
(* the callback leaves its queue if the timer is ever set again, which the *)
(* next later() does.                                                      *)
(***************************************************************************)
WaitingCallbacksRunUnlessInterrupted ==
    []<>(stack = <<>>) /\ []<>(~interrupted) =>
       \A i \in Callbacks : i \in Waiting(GLOBAL_LOOP) ~> i \notin Waiting(GLOBAL_LOOP)
=============================================================================
