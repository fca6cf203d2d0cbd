---------------------------- MODULE WinAutorunner ----------------------------
(***************************************************************************)
(* How later2 runs the global loop while R is idle at its prompt, on       *)
(* Windows (src/later_win32.cpp): a message-only window with a periodic    *)
(* timer.  Each WM_TIMER runs what is due; the timer is killed when the    *)
(* global loop has nothing left.  Other threads post WM_SETUPTIMER, since  *)
(* only the thread of the window may set its timer.                        *)
(*                                                                         *)
(* There is no clock: a callback becomes due at some time (Elapse).  A     *)
(* thread that schedules holds the shared lock while it adds the callback  *)
(* and posts the message, and idle() takes that lock.                      *)
(***************************************************************************)
EXTENDS Integers, Sequences, FiniteSets

CONSTANTS
    Callbacks,    \* the callbacks
    Loops,        \* the loops
    GLOBAL_LOOP,  \* the global loop
    Driven,       \* the loops that a pass over the global loop runs
    Passes,       \* the passes of execCallbacksForTopLevel(), 20 in the code
    MaxCommands,  \* bound on the commands typed at the prompt
    MaxDepth      \* bound on the frames under which R code processes events or
                  \* runs loops

ASSUME WinAutorunnerAssumption ==
    /\ Driven \subseteq Loops
    /\ GLOBAL_LOOP \in Driven
    /\ Passes \in Nat \ {0}
    /\ MaxCommands \in Nat
    /\ MaxDepth \in Nat

VARIABLES
    queue,     \* the callbacks that wait in a loop
    known,     \* the callbacks that have been scheduled
    due,       \* those whose time has come
    timer,     \* is the timer of the window set?
    elapsed,   \* is there a WM_TIMER to be dispatched?
    posted,    \* how many WM_SETUPTIMER are in the message queue
    failed,    \* has Windows ever refused a timer or a message?
    commands,  \* the commands typed so far
    exec_callbacks_reentrancy_count,
    stack      \* the frames of the main thread; none: R is at the prompt

queueVars == <<queue, known, due>>
timerVars == <<timer, elapsed, posted, failed>>
vars == <<queueVars, timerVars, commands, exec_callbacks_reentrancy_count, stack>>

\* Frames: R code, a run_now() pass, and callbackWndProc() in executeHandlers()
\* before ("timer") and after at_top_level() ("exec"), in a pass, at idle() and
\* at KillTimer().
Pcs == {"code", "run_now", "timer", "exec", "pass", "idle", "kill"}
PassPcs == {"run_now", "pass"}
Frame == [pc     : Pcs,
          n      : 0..Passes,          \* the passes left
          todo   : SUBSET Callbacks,   \* what was due when the pass began
          nframe : {0, 1}]             \* what sys.nframe() returns; 1: not 0

TypeOK ==
    /\ queue \in [Loops -> SUBSET Callbacks]
    /\ known \subseteq Callbacks
    /\ due \subseteq known
    /\ timer \in BOOLEAN
    /\ elapsed \in BOOLEAN
    /\ posted \in Nat
    /\ failed \in BOOLEAN
    /\ commands \in 0..MaxCommands
    /\ exec_callbacks_reentrancy_count \in Int
    /\ stack \in Seq(Frame)

Init ==
    /\ queue = [l \in Loops |-> {}]
    /\ known = {}
    /\ due = {}
    /\ timer = FALSE
    /\ elapsed = FALSE
    /\ posted = 0
    /\ failed = FALSE
    /\ commands = 0
    /\ exec_callbacks_reentrancy_count = 0
    /\ stack = <<>>

Top == stack[Len(stack)]
OnTop(pc) == stack # <<>> /\ Top.pc = pc
Enter(pc) == [pc |-> pc, n |-> 0, todo |-> {}, nframe |-> 0]
Push(f) == stack' = Append(stack, f)
ReplaceTop(f) == stack' = [stack EXCEPT ![Len(stack)] = f]
Pop == stack' = SubSeq(stack, 1, Len(stack) - 1)

\* execCallbacksOne() counts itself, in its ProtectCallbacks.
EnterPass == exec_callbacks_reentrancy_count' = exec_callbacks_reentrancy_count + 1

\* The passes from frame k upwards end.
LeavePasses(k) ==
    exec_callbacks_reentrancy_count' = exec_callbacks_reentrancy_count -
      Cardinality({j \in k .. Len(stack) : stack[j].pc \in PassPcs})

\* An error in R code ends in R code that catches it, in the try block of
\* executeHandlers() if there is one, or at the prompt.
Unwind ==
    \E k \in 0 .. Len(stack) - 1 :
       /\ \A j \in k + 1 .. Len(stack) : stack[j].pc # "pass"
       /\ \/ /\ k > 0 => stack[k].pc = "code"
             /\ stack' = SubSeq(stack, 1, k)
             /\ LeavePasses(k + 1)
          \/ /\ k > 0 /\ stack[k].pc = "pass"
             /\ stack' = [SubSeq(stack, 1, k) EXCEPT ![k] = Enter("idle")]
             /\ LeavePasses(k)

-----------------------------------------------------------------------------
\* SetTimer(), which may replace the timer that is set already, or fail.
SetupTimer ==
    /\ timer' = TRUE
    /\ UNCHANGED <<elapsed, posted, failed>>

SetupTimerFails ==
    /\ failed' = TRUE
    /\ UNCHANGED <<timer, elapsed, posted>>

Add(l, i) ==
    /\ i \notin known
    /\ queue' = [queue EXCEPT ![l] = @ \cup {i}]
    /\ known' = known \cup {i}
    /\ UNCHANGED due

\* doExecLater() on the main thread; if setupTimer() raises an error, the
\* callback is in the queue all the same.
Later(l, i) ==
    /\ OnTop("code")
    /\ Add(l, i)
    /\ \/ SetupTimer /\ UNCHANGED <<exec_callbacks_reentrancy_count, stack>>
       \/ SetupTimerFails /\ Unwind
    /\ UNCHANGED commands

\* Mutant of ScheduleCallback: the message is posted only if no timer is set.
ScheduleCallbackLazily(l, i) ==
    /\ Add(l, i)
    /\ posted' = IF timer THEN posted ELSE posted + 1
    /\ UNCHANGED <<timer, elapsed, failed, commands, exec_callbacks_reentrancy_count,
                   stack>>

\* doExecLater() on another thread; the result of PostMessage() is ignored.
ScheduleCallback(l, i) ==
    /\ Add(l, i)
    /\ \/ posted' = posted + 1 /\ UNCHANGED failed
       \/ failed' = TRUE /\ UNCHANGED posted
    /\ UNCHANGED <<timer, elapsed, commands, exec_callbacks_reentrancy_count, stack>>

\* The time of a callback has come.
Elapse(i) ==
    /\ i \in known \ due
    /\ due' = due \cup {i}
    /\ UNCHANGED <<queue, known, timerVars, commands, exec_callbacks_reentrancy_count,
                   stack>>

-----------------------------------------------------------------------------
\* R code: commands typed at the prompt and callbacks.
Command ==
    /\ stack = <<>>
    /\ commands < MaxCommands
    /\ commands' = commands + 1
    /\ Push(Enter("code"))
    /\ UNCHANGED <<queueVars, timerVars, exec_callbacks_reentrancy_count>>

CodeEnds ==
    /\ OnTop("code")
    /\ Pop
    /\ UNCHANGED <<queueVars, timerVars, commands, exec_callbacks_reentrancy_count>>

CodeThrows ==
    /\ OnTop("code")
    /\ Unwind
    /\ UNCHANGED <<queueVars, timerVars, commands>>

\* Mutant of DueNow: the loop itself is not visited.
DueBelow(l) ==
    due \cap UNION {queue[x] : x \in IF l = GLOBAL_LOOP THEN Driven \ {l} ELSE {}}

\* due(): in the loop and, of the global one, in the loops below it.
DueNow(l) == due \cap UNION {queue[x] : x \in IF l = GLOBAL_LOOP THEN Driven ELSE {l}}

\* run_now() in R code, when something is due; otherwise it returns at once.
RunNow(l) ==
    /\ OnTop("code")
    /\ Len(stack) < MaxDepth
    /\ DueNow(l) # {}
    /\ EnterPass
    /\ Push([Enter("run_now") EXCEPT !.todo = DueNow(l)])
    /\ UNCHANGED <<queueVars, timerVars, commands>>

\* The callbacks of a pass that still wait.
Left == {i \in Top.todo : \E l \in Loops : i \in queue[l]}

PassPops ==
    /\ OnTop("pass") \/ OnTop("run_now")
    /\ \E i \in Left : queue' = [l \in Loops |-> queue[l] \ {i}]
    /\ Push(Enter("code"))
    /\ UNCHANGED <<known, due, timerVars, commands, exec_callbacks_reentrancy_count>>

RunNowEnds ==
    /\ OnTop("run_now")
    /\ Left = {}
    /\ LeavePasses(Len(stack))
    /\ Pop
    /\ UNCHANGED <<queueVars, timerVars, commands>>

-----------------------------------------------------------------------------
\* The message loop: at the prompt, and when R code processes events.
Pumps == stack = <<>> \/ (OnTop("code") /\ Len(stack) < MaxDepth)

TimerElapses ==
    /\ timer
    /\ elapsed' = TRUE
    /\ UNCHANGED <<queueVars, timer, posted, failed, commands,
                   exec_callbacks_reentrancy_count, stack>>

DispatchSetupTimer ==
    /\ Pumps
    /\ posted > 0
    /\ posted' = posted - 1
    /\ UNCHANGED elapsed
    /\ \/ /\ timer' = TRUE
          /\ UNCHANGED <<failed, exec_callbacks_reentrancy_count, stack>>
       \/ /\ failed' = TRUE
          /\ UNCHANGED timer
          /\ IF stack = <<>> THEN UNCHANGED <<exec_callbacks_reentrancy_count, stack>>
             ELSE Unwind
    /\ UNCHANGED <<queueVars, commands>>

\* WM_TIMER comes after the messages that were posted.  The code that processes
\* events is inside an R function, or it is not: a builtin at the prompt, or a
\* callback in C.
DispatchTimer(nframe) ==
    /\ Pumps
    /\ stack = <<>> => nframe = 0
    /\ posted = 0
    /\ elapsed
    /\ elapsed' = FALSE
    /\ Push([Enter("timer") EXCEPT !.nframe = nframe])
    /\ UNCHANGED <<queueVars, timer, posted, failed, commands,
                   exec_callbacks_reentrancy_count>>

-----------------------------------------------------------------------------
\* at_top_level().  sys_nframe() is only called when no callback is running.
AtTopLevel == exec_callbacks_reentrancy_count = 0 /\ Top.nframe = 0

\* "Wait until we're back at the top level": the timer ticks on.
HandlerWaits ==
    /\ OnTop("timer")
    /\ ~AtTopLevel
    /\ Pop
    /\ UNCHANGED <<queueVars, timerVars, commands, exec_callbacks_reentrancy_count>>

\* An interrupt that is pending at the end of sys_nframe() jumps out; while
\* callbacks run, sys_nframe() is not called.
HandlerInterrupted ==
    /\ OnTop("timer")
    /\ exec_callbacks_reentrancy_count = 0
    /\ Unwind
    /\ UNCHANGED <<queueVars, timerVars, commands>>

HandlerRuns ==
    /\ OnTop("timer")
    /\ AtTopLevel
    /\ ReplaceTop([Enter("exec") EXCEPT !.n = Passes])
    /\ UNCHANGED <<queueVars, timerVars, commands, exec_callbacks_reentrancy_count>>

\* Mutant of PassBegins: one pass too many.
PassBeginsOnceMore ==
    /\ OnTop("exec")
    /\ Top.n >= 0
    /\ DueNow(GLOBAL_LOOP) # {}
    /\ EnterPass
    /\ ReplaceTop([Top EXCEPT !.pc = "pass", !.todo = DueNow(GLOBAL_LOOP)])
    /\ UNCHANGED <<queueVars, timerVars, commands>>

\* Mutant of PassBegins: execCallbacksOne() does not count itself.
PassBeginsUncounted ==
    /\ OnTop("exec")
    /\ Top.n > 0
    /\ DueNow(GLOBAL_LOOP) # {}
    /\ ReplaceTop([Top EXCEPT !.pc = "pass", !.todo = DueNow(GLOBAL_LOOP)])
    /\ UNCHANGED <<queueVars, timerVars, commands, exec_callbacks_reentrancy_count>>

\* A pass runs what is due when it begins.
PassBegins ==
    /\ OnTop("exec")
    /\ Top.n > 0
    /\ DueNow(GLOBAL_LOOP) # {}
    /\ EnterPass
    /\ ReplaceTop([Top EXCEPT !.pc = "pass", !.todo = DueNow(GLOBAL_LOOP)])
    /\ UNCHANGED <<queueVars, timerVars, commands>>

PassEnds ==
    /\ OnTop("pass")
    /\ Left = {}
    /\ LeavePasses(Len(stack))
    /\ ReplaceTop([Top EXCEPT !.pc = "exec", !.n = @ - 1, !.todo = {}])
    /\ UNCHANGED <<queueVars, timerVars, commands>>

ExecEnds ==
    /\ OnTop("exec")
    /\ Top.n = 0 \/ DueNow(GLOBAL_LOOP) = {}
    /\ ReplaceTop(Enter("idle"))
    /\ UNCHANGED <<queueVars, timerVars, commands, exec_callbacks_reentrancy_count>>

\* idle(GLOBAL_LOOP): its own queue, without the loops below it; a loop on which
\* a later_fd() wait is pending is not idle either.
Idle ==
    /\ OnTop("idle")
    /\ \/ queue[GLOBAL_LOOP] = {} /\ ReplaceTop(Enter("kill"))
       \/ Pop
    /\ UNCHANGED <<queueVars, timerVars, commands, exec_callbacks_reentrancy_count>>

KillTimer ==
    /\ OnTop("kill")
    /\ timer' = FALSE
    /\ Pop
    /\ UNCHANGED <<queueVars, elapsed, posted, failed, commands,
                   exec_callbacks_reentrancy_count>>

-----------------------------------------------------------------------------
HandlerStep ==
    \/ HandlerWaits
    \/ HandlerRuns
    \/ PassBegins
    \/ PassPops
    \/ RunNowEnds
    \/ PassEnds
    \/ ExecEnds
    \/ Idle
    \/ KillTimer

Next ==
    \/ HandlerStep
    \/ HandlerInterrupted
    \/ DispatchSetupTimer
    \/ \E nframe \in {0, 1} : DispatchTimer(nframe)
    \/ TimerElapses
    \/ Command
    \/ CodeEnds
    \/ CodeThrows
    \/ \E l \in Loops : RunNow(l)
    \/ \E l \in Loops, i \in Callbacks : Later(l, i) \/ ScheduleCallback(l, i)
    \/ \E i \in Callbacks : Elapse(i)

Spec == Init /\ [][Next]_vars

(***************************************************************************)
(* Fairness.  The window procedure keeps going, time passes, the timer     *)
(* ticks, and R dispatches messages at the prompt.  A user who interrupts  *)
(* every single WM_TIMER is not assumed away, but does not do so for ever: *)
(* the step from "timer" on is taken in the end (SF).                      *)
(***************************************************************************)
FairSpec ==
    /\ Spec
    /\ WF_vars(HandlerStep)
    /\ SF_vars(HandlerRuns)
    /\ WF_vars(stack = <<>> /\ DispatchSetupTimer)
    /\ SF_vars(stack = <<>> /\ DispatchTimer(0))
    /\ WF_vars(TimerElapses)
    /\ \A i \in Callbacks : WF_vars(Elapse(i))

-----------------------------------------------------------------------------
(***************************************************************************)
(* No wakeup is lost: while a callback of the global loop waits, the timer *)
(* ticks or a message to set it is on its way, whenever other threads      *)
(* schedule between the look at the queue in idle() and KillTimer(), and   *)
(* whatever throws, interrupts or processes events; unless Windows refuses *)
(* the timer or the message.                                               *)
(***************************************************************************)
NoLostWakeup == queue[GLOBAL_LOOP] # {} => timer \/ posted > 0 \/ failed

(***************************************************************************)
(* "It's not safe to run arbitrary callbacks when other R code is already  *)
(* running": a WM_TIMER starts nothing on top of a running callback,       *)
(* whoever runs it, in whatever language it is written, however often it   *)
(* processes events, and whatever errors left earlier callbacks.           *)
(***************************************************************************)
NotReentered ==
    \A i, k \in DOMAIN stack :
       i < k /\ stack[i].pc \in PassPcs
         => stack[k].pc \notin {"exec", "pass", "idle", "kill"}

(***************************************************************************)
(* If R code always ends sooner or later, each callback of the global loop *)
(* leaves its queue, unless Windows refuses a timer.                       *)
(***************************************************************************)
WaitingCallbacksRun ==
    []<>(stack = <<>>) =>
       \A i \in Callbacks : i \in queue[GLOBAL_LOOP] ~> i \notin queue[GLOBAL_LOOP] \/ failed
=============================================================================
