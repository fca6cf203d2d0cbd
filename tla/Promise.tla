------------------------------- MODULE Promise -------------------------------
(***************************************************************************)
(* The promises of R/promise.R on top of later(): handlers that run from   *)
(* the event loop, promises resolved with promises, and the report of      *)
(* errors that nobody handles.                                             *)
(*                                                                         *)
(* later() puts a job at the end of the current loop; a job is taken from  *)
(* its front.  later() raises an error once the handle of the current loop *)
(* is gone.  Values are left out: what matters of one is whether it is a   *)
(* plain value, an error or a promise.                                     *)
(***************************************************************************)
EXTENDS Integers, Sequences

CONSTANTS
    MaxPromise,   \* bound on the promises
    Loops,        \* the event loops that promises are used on
    GLOBAL_LOOP,  \* the loop whose handle the package keeps
    Functions,    \* the functions that then() is called with
    MaxDepth,     \* bound on nested jobs, when R code calls run_now()
    Interrupts    \* does the user interrupt R?

Kinds == {"onFulfilled", "onRejected", "finally"}

ASSUME PromiseAssumption ==
    /\ MaxPromise \in Nat
    /\ Functions \subseteq Kinds
    /\ MaxDepth \in Nat \ {0}
    /\ Interrupts \in BOOLEAN

Promises == 1..MaxPromise

VARIABLES
    count,     \* how many promises there are
    given,     \* those of promise(), whose resolve() and reject() the user has
    state,     \* private$state
    called,    \* private$publicResolveRejectCalled
    handlers,  \* private$onFulfilled and private$onRejected
    handled,   \* private$rejectionHandled
    jobs,      \* the callbacks waiting in a loop
    lost,      \* the loops whose handle was collected, or that were destroyed
    stack,     \* the jobs and calls that run, the innermost last
    starts,    \* how often a handler was started
    dropped,   \* the handlers that an interrupt, an error of later() or the
               \* end of a loop has cut off
    cut,       \* the promises whose drain or report was cut off likewise
    reported   \* the promises reported as "Unhandled promise error"

promiseVars == <<count, given, called, handled>>
ghostVars == <<dropped, cut>>
vars == <<promiseVars, state, handlers, jobs, lost, stack, starts, ghostVars, reported>>

(***************************************************************************)
(* A call of then() leaves a pair of handlers, for fulfilment and for      *)
(* rejection: `to` is its promise2 and `kind` says which functions it was  *)
(* given.  The handlers by which doResolve() or doReject() of the promise  *)
(* `to` waits for another one are its "value" or its "reason"; nobody sees *)
(* the promise2 of that call, and it is left out.  A then() with both      *)
(* functions, or with none, does as "onFulfilled" or "onRejected" for each *)
(* of the two outcomes.  A call of resolve() or reject() by the user has a *)
(* frame of its own, the only "handler" of which settles the promise       *)
(* "self".                                                                 *)
(*                                                                         *)
(* A frame is about to start its next handler, or the handler runs, or the *)
(* tryCatch() of resolve() or reject() has caught the error of later().    *)
(***************************************************************************)
Chains == {"value", "reason"}
Handler == [to : Promises, kind : Kinds \cup Chains \cup {"self"}]
Calls == {"resolve", "reject"}
Job == [what : {"drain", "call", "report"} \cup Calls, of : Promises, todo : Seq(Handler)]
Frame == [job : Job, loop : Loops, pc : {"next", "busy", "caught"}]

TypeOK ==
    /\ count \in 0..MaxPromise
    /\ given \subseteq 1..count
    /\ state \in [Promises -> {"pending", "fulfilled", "rejected"}]
    /\ called \in [Promises -> BOOLEAN]
    /\ handlers \in [Promises -> Seq(Handler)]
    /\ handled \in [Promises -> BOOLEAN]
    /\ jobs \in [Loops -> Seq(Job)]
    /\ lost \subseteq Loops \ {GLOBAL_LOOP}
    /\ stack \in Seq(Frame)
    /\ starts \in [Handler -> Nat]
    /\ dropped \subseteq Handler
    /\ cut \subseteq Promises
    /\ reported \subseteq Promises

Init ==
    /\ count = 0
    /\ given = {}
    /\ state = [p \in Promises |-> "pending"]
    /\ called = [p \in Promises |-> FALSE]
    /\ handlers = [p \in Promises |-> <<>>]
    /\ handled = [p \in Promises |-> FALSE]
    /\ jobs = [l \in Loops |-> <<>>]
    /\ lost = {}
    /\ stack = <<>>
    /\ starts = [h \in Handler |-> 0]
    /\ dropped = {}
    /\ cut = {}
    /\ reported = {}

Known == 1..count
Settled(p) == state[p] # "pending"
Members(s) == {s[n] : n \in DOMAIN s}

\* The promises whose drain or report is among the jobs.
Followed(js) == {p \in Promises : \E j \in js : j.of = p /\ j.what \in {"drain", "report"}}

Top == stack[Len(stack)]
Push(job, l, pc) == stack' = Append(stack, [job |-> job, loop |-> l, pc |-> pc])
Pop == stack' = SubSeq(stack, 1, Len(stack) - 1)
OnTop(pc) == stack # <<>> /\ Top.pc = pc

\* The next handler of the frame on top of the stack, and the promise it is of.
Of == Top.job.of
NextHandler == Head(Top.job.todo)

\* Is it a function of the user that runs, or the argument of resolve() or
\* reject()?
CallsUser ==
    \/ NextHandler.kind \in {"finally", "self"}
    \/ NextHandler.kind = "onFulfilled" /\ state[Of] = "fulfilled"
    \/ NextHandler.kind = "onRejected" /\ state[Of] = "rejected"

\* R code of the user runs: at the prompt, or under a job or a call.
UserCode == stack = <<>> \/ (OnTop("busy") /\ CallsUser)

-----------------------------------------------------------------------------
\* later(), on loop l, whose handle there is.
Schedule(l, what, p, todo) ==
    /\ l \notin lost
    /\ jobs' = [jobs EXCEPT ![l] = Append(@, [what |-> what, of |-> p, todo |-> todo])]

\* Mutant of Attach: the handlers of a settled promise join the list as well.
AttachAlways(p, h, l) ==
    /\ handlers' = [handlers EXCEPT ![p] = Append(@, h)]
    /\ UNCHANGED jobs

\* Mutant of Attach: and are scheduled, although the list is still to be drained.
AttachBoth(p, h, l) ==
    /\ handlers' = [handlers EXCEPT ![p] = Append(@, h)]
    /\ IF Settled(p) THEN Schedule(l, "call", p, <<h>>) ELSE UNCHANGED jobs

\* self$then(), the handlers of which are kept or scheduled.
Attach(p, h, l) ==
    IF Settled(p)
    THEN Schedule(l, "call", p, <<h>>) /\ UNCHANGED handlers
    ELSE handlers' = [handlers EXCEPT ![p] = Append(@, h)] /\ UNCHANGED jobs

SetState(p, s) == state' = [state EXCEPT ![p] = s]

\* doResolveFinalValue() and doRejectFinalReason().
Settle(p, s, l) ==
    /\ SetState(p, s)
    /\ Schedule(l, "drain", p, <<>>)
    /\ UNCHANGED handlers

\* What a promise is resolved with, or the code of a handler comes to: a plain
\* value, an error or a promise.
Value == -1
Error == -2
Results == {Value, Error} \cup Known

\* Mutant of DoResolve: a promise may wait for itself.
DoResolveAnything(p, r, l) ==
    \/ r = Value /\ Settle(p, "fulfilled", l)
    \/ r = Error /\ Settle(p, "rejected", l)
    \/ r \in Known /\ Attach(r, [to |-> p, kind |-> "value"], l) /\ UNCHANGED state

\* doResolve(), with doReject() for the error that evaluating its argument may
\* raise, and for itself: "Chaining cycle detected for promise".
DoResolve(p, r, l) ==
    \/ r = Value /\ Settle(p, "fulfilled", l)
    \/ r \in {Error, p} /\ Settle(p, "rejected", l)
    \/ r \in Known \ {p} /\ Attach(r, [to |-> p, kind |-> "value"], l) /\ UNCHANGED state

\* doReject(), which does not look for cycles; any reason but a promise is an error.
DoReject(p, r, l) ==
    \/ r = Error /\ Settle(p, "rejected", l)
    \/ r \in Known /\ Attach(r, [to |-> p, kind |-> "reason"], l) /\ UNCHANGED state

-----------------------------------------------------------------------------
(***************************************************************************)
(* What the user's code does.                                              *)
(***************************************************************************)
NewPromise ==
    /\ UserCode
    /\ count < MaxPromise
    /\ count' = count + 1
    /\ given' = given \cup {count'}
    /\ UNCHANGED <<state, called, handlers, handled, jobs, lost, stack, starts, ghostVars,
                   reported>>

\* Mutant of Then: off by one, the handlers settle a promise that does not exist.
ThenTooLate(p, kind, l) ==
    /\ UserCode
    /\ count < MaxPromise
    /\ count' = count + 1
    /\ Attach(p, [to |-> count' + 1, kind |-> kind], l)
    /\ UNCHANGED <<given, state, called, handled, lost, stack, starts, ghostVars, reported>>

\* then(), catch() and finally(); promise2 is the next promise.  If later()
\* fails, so does the call, and nothing has changed.
Then(p, kind, l) ==
    /\ UserCode
    /\ count < MaxPromise
    /\ count' = count + 1
    /\ Attach(p, [to |-> count + 1, kind |-> kind], l)
    /\ UNCHANGED <<given, state, called, handled, lost, stack, starts, ghostVars, reported>>

\* Mutant of Resolve: the flag is not looked at.
ResolveAgain(p, what, l) ==
    /\ UserCode
    /\ Len(stack) <= MaxDepth
    /\ called' = [called EXCEPT ![p] = TRUE]
    /\ Push([what |-> what, of |-> p, todo |-> <<[to |-> p, kind |-> "self"]>>], l, "busy")
    /\ UNCHANGED <<count, given, handled, state, handlers, jobs, lost, starts, ghostVars,
                   reported>>

\* self$resolve() and self$reject(), which "Only allow this to be called once";
\* the flag is set before the argument is evaluated.  An error in the action of
\* promise() comes to the same.
Resolve(p, what, l) ==
    /\ UserCode
    /\ Len(stack) <= MaxDepth
    /\ ~called[p]
    /\ called' = [called EXCEPT ![p] = TRUE]
    /\ Push([what |-> what, of |-> p, todo |-> <<[to |-> p, kind |-> "self"]>>], l, "busy")
    /\ UNCHANGED <<count, given, handled, state, handlers, jobs, lost, starts, ghostVars,
                   reported>>

\* The event loop runs a job: at the prompt, or because R code calls run_now().
\* The handlers of a drain are those that are in the list when it begins.
RunJob(l) ==
    LET j == Head(jobs[l])
    IN  /\ UserCode
        /\ Len(stack) < MaxDepth
        /\ jobs[l] # <<>>
        /\ jobs' = [jobs EXCEPT ![l] = Tail(@)]
        /\ Push(IF j.what = "drain" THEN [j EXCEPT !.todo = handlers[j.of]] ELSE j, l, "next")
        /\ UNCHANGED <<promiseVars, state, handlers, lost, starts, ghostVars, reported>>

\* The handle of a loop is collected, or the loop destroyed.
Lose(l) ==
    /\ l # GLOBAL_LOOP
    /\ lost' = lost \cup {l}
    /\ UNCHANGED <<promiseVars, state, handlers, jobs, stack, starts, ghostVars, reported>>

\* With a loop that was destroyed goes what waits in it.
Discard(l) ==
    /\ l \in lost
    /\ jobs' = [jobs EXCEPT ![l] = <<>>]
    /\ dropped' = dropped \cup UNION {Members(j.todo) \cup Members(handlers[j.of]) :
                                         j \in Members(jobs[l])}
    /\ cut' = cut \cup Followed(Members(jobs[l]))
    /\ UNCHANGED <<promiseVars, state, handlers, lost, stack, starts, reported>>

-----------------------------------------------------------------------------
(***************************************************************************)
(* A job runs its handlers.                                                *)
(***************************************************************************)
SeesRejection == [handled EXCEPT ![Of] = @ \/ state[Of] = "rejected"]

\* resolve(onFulfilled(...)) or resolve(onRejected(...)): the flag of promise2 is
\* set before the argument is evaluated.  Without a function for this outcome,
\* or for a promise that waits, the outcome is passed on.
HandlerStarts ==
    /\ OnTop("next")
    /\ Top.job.todo # <<>>
    /\ starts' = [starts EXCEPT ![NextHandler] = @ + 1]
    /\ handled' = SeesRejection
    /\ called' = [called EXCEPT ![NextHandler.to] = TRUE]
    /\ stack' = [stack EXCEPT ![Len(stack)].pc = "busy"]
    /\ UNCHANGED <<count, given, state, handlers, jobs, lost, ghostVars, reported>>

\* The function, or the evaluation of the argument, comes to r.  After finally()
\* the promise2 gets the outcome of the promise, or the error.
Returns(r) ==
    /\ OnTop("busy")
    /\ Top.job.what = "reject" => r # Value
    /\ ~CallsUser => r = IF state[Of] = "fulfilled" THEN Value ELSE Error
    /\ NextHandler.kind = "finally" => r = Error \/ (r = Value /\ state[Of] = "fulfilled")

HandlerEnds(r) ==
    /\ Returns(r)
    /\ IF Top.job.what = "reject" THEN DoReject(NextHandler.to, r, Top.loop)
                                  ELSE DoResolve(NextHandler.to, r, Top.loop)
    /\ stack' = [stack EXCEPT ![Len(stack)].job.todo = Tail(@), ![Len(stack)].pc = "next"]
    /\ UNCHANGED <<promiseVars, lost, starts, ghostVars, reported>>

\* An error leaves the frame on top of the stack, after the promise of its
\* handler was settled and nothing scheduled to drain it.
Escape ==
    /\ Pop
    /\ dropped' = dropped \cup Members(Top.job.todo) \cup Members(handlers[NextHandler.to])
    /\ cut' = cut \cup {NextHandler.to} \cup Followed({Top.job})

\* later() fails, after the state was set, or in then() of a settled promise.
\* resolve() and reject() catch that; a chain does not.
LaterFails(r) ==
    /\ Returns(r)
    /\ Top.loop \in lost
    /\ \/ r = Value /\ SetState(NextHandler.to, "fulfilled")
       \/ r = Error /\ SetState(NextHandler.to, "rejected")
       \/ /\ r = NextHandler.to /\ Top.job.what # "reject"
          /\ SetState(NextHandler.to, "rejected")
       \/ r \in Known /\ Settled(r) /\ UNCHANGED state
    /\ IF NextHandler.kind \in Chains
       THEN Escape
       ELSE stack' = [stack EXCEPT ![Len(stack)].pc = "caught"] /\ UNCHANGED ghostVars
    /\ UNCHANGED <<promiseVars, handlers, jobs, lost, starts, reported>>

\* "error = function(err) private$doReject(err)", where later() fails again.
ErrorCaught ==
    /\ OnTop("caught")
    /\ SetState(NextHandler.to, "rejected")
    /\ Escape
    /\ UNCHANGED <<promiseVars, handlers, jobs, lost, starts, reported>>

\* The user interrupts a job or a call, wherever it is; with it end those below
\* it up to a handler that catches the interrupt.  A promise may have been
\* settled and its drain not scheduled, or an error marked as handled and its
\* handler not called.
Interrupted(k) ==
    LET To == IF OnTop("busy") \/ OnTop("caught") THEN {NextHandler.to} ELSE {}
        Gone == {stack[i].job : i \in k + 1 .. Len(stack)}
    IN  /\ Interrupts
        /\ k \in 0 .. Len(stack) - 1
        /\ stack' = SubSeq(stack, 1, k)
        /\ \/ UNCHANGED <<state, handled>>
           \/ \E r \in {Value, Error} :
                 /\ Returns(r)
                 /\ SetState(NextHandler.to, IF r = Value THEN "fulfilled" ELSE "rejected")
                 /\ UNCHANGED handled
           \/ /\ OnTop("next") /\ Top.job.todo # <<>>
              /\ handled' = SeesRejection
              /\ UNCHANGED state
        /\ dropped' = dropped \cup UNION ({Members(j.todo) : j \in Gone}
                                             \cup {Members(handlers[p]) : p \in To})
        /\ cut' = cut \cup Followed(Gone) \cup To
        /\ UNCHANGED <<count, given, called, handlers, jobs, lost, starts, reported>>

\* Mutant of JobEnds: only an error that some handler has seen is followed up.
JobEndsHandled ==
    /\ OnTop("next")
    /\ Top.job.todo = <<>>
    /\ \/ /\ Top.job.what = "drain"
          /\ handlers' = [handlers EXCEPT ![Of] = <<>>]
          /\ IF handled[Of] THEN Schedule(Top.loop, "report", Of, <<>>) ELSE UNCHANGED jobs
          /\ UNCHANGED <<cut, reported>>
       \/ /\ Top.job.what = "report"
          /\ reported' = IF handled[Of] THEN reported ELSE reported \cup {Of}
          /\ UNCHANGED <<handlers, jobs, cut>>
       \/ /\ Top.job.what \notin {"drain", "report"}
          /\ UNCHANGED <<handlers, jobs, cut, reported>>
    /\ Pop
    /\ UNCHANGED <<promiseVars, state, lost, starts, dropped>>

\* The end of a drain, which has the error looked at once more, of that look,
\* "if (!private$rejectionHandled)", or of any other frame.
JobEnds ==
    /\ OnTop("next")
    /\ Top.job.todo = <<>>
    /\ \/ /\ Top.job.what = "drain"
          /\ handlers' = [handlers EXCEPT ![Of] = <<>>]
          /\ \/ /\ state[Of] = "rejected"
                /\ Schedule(Top.loop, "report", Of, <<>>)
                /\ UNCHANGED cut
             \/ /\ state[Of] = "rejected" /\ Top.loop \in lost
                /\ cut' = cut \cup {Of}
                /\ UNCHANGED jobs
             \/ /\ state[Of] = "fulfilled"
                /\ UNCHANGED <<jobs, cut>>
          /\ UNCHANGED reported
       \/ /\ Top.job.what = "report"
          /\ reported' = IF handled[Of] THEN reported ELSE reported \cup {Of}
          /\ UNCHANGED <<handlers, jobs, cut>>
       \/ /\ Top.job.what \notin {"drain", "report"}
          /\ UNCHANGED <<handlers, jobs, cut, reported>>
    /\ Pop
    /\ UNCHANGED <<promiseVars, state, lost, starts, dropped>>

-----------------------------------------------------------------------------
\* What a job or a call does by itself, and when the user's code comes back.
JobStep == HandlerStarts \/ ErrorCaught \/ JobEnds
HandlerReturns == \E r \in Results : HandlerEnds(r) \/ LaterFails(r)

Next ==
    \/ JobStep
    \/ HandlerReturns
    \/ NewPromise
    \/ \E k \in 0 .. Len(stack) : Interrupted(k)
    \/ \E l \in Loops : RunJob(l) \/ Lose(l) \/ Discard(l)
    \/ \E p \in given, what \in Calls, l \in Loops : Resolve(p, what, l)
    \/ \E p \in Known, kind \in Functions, l \in Loops : Then(p, kind, l)

Spec == Init /\ [][Next]_vars

\* Handlers end, and every loop is run again and again, at the prompt or by
\* run_now() there.
FairSpec ==
    /\ Spec
    /\ WF_vars(JobStep)
    /\ WF_vars(HandlerReturns)
    /\ \A l \in Loops : SF_vars(stack = <<>> /\ RunJob(l))

-----------------------------------------------------------------------------
(***************************************************************************)
(* "Only allow this to be called once, then no-op": a promise settles      *)
(* once, fulfilled or rejected, and stays as it is, whatever is called on  *)
(* it, and also if the promises it waits for, its handlers and the user's  *)
(* code all try to settle it.  later() breaks this: the state is set       *)
(* before it is called, and if it fails, the error is taken for the reason *)
(* of a rejection.                                                         *)
(***************************************************************************)
SettlesOnce == [][\A p \in Promises : Settled(p) => state'[p] = state[p]]_vars

\* No job of the promise waits or runs: nobody has got to know its outcome.
Unseen(p) ==
    /\ \A l \in Loops : \A i \in DOMAIN jobs[l] : jobs[l][i].of # p
    /\ \A i \in DOMAIN stack : stack[i].job.what \in Calls \/ stack[i].job.of # p

(***************************************************************************)
(* What holds even then: the state of a settled promise changes only from  *)
(* fulfilled to rejected, only on a loop whose handle is gone, and only    *)
(* before any job that would call a handler with the old outcome exists.   *)
(***************************************************************************)
SettlesOnceUnlessLaterFails ==
    [][\A p \in Promises :
          Settled(p) =>
             \/ state'[p] = state[p]
             \/ /\ state[p] = "fulfilled" /\ state'[p] = "rejected"
                /\ Top.loop \in lost
                /\ Unseen(p)]_vars

(***************************************************************************)
(* No handler is called twice, nor before its promise is settled, whether  *)
(* it was attached before, while or after the others ran, and also if      *)
(* handlers run the event loop themselves.                                 *)
(***************************************************************************)
CalledOnce ==
    /\ \A h \in Handler : starts[h] <= 1
    /\ \A i \in DOMAIN stack : stack[i].job.what \notin Calls => Settled(stack[i].job.of)

\* The handler h waits for nothing but the event loop.
Awaits(h) ==
    \/ \E p \in Known : Settled(p) /\ h \in Members(handlers[p])
    \/ \E l \in Loops : \E j \in Members(jobs[l]) : h \in Members(j.todo)

(***************************************************************************)
(* Every handler of a settled promise is called, unless an interrupt, an   *)
(* error of later() or the end of its loop cuts off the job it belongs to. *)
(***************************************************************************)
HandlersRun ==
    \A p \in Promises, kinds \in {Kinds, Chains} :
       LET By(h) == h.to = p /\ h.kind \in kinds
       IN  (\E h \in Handler : By(h) /\ Awaits(h))
              ~> (\E h \in Handler : By(h) /\ (starts[h] = 1 \/ h \in dropped))

(***************************************************************************)
(* In the end a promise that was resolved or rejected is settled, unless   *)
(* it waits for another one that is pending, or what was to settle it was  *)
(* cut off: to be resolved with itself is detected as a cycle, only to be  *)
(* rejected with itself is not.                                            *)
(***************************************************************************)
Waits(p) ==
    \E q \in Known : \E h \in Members(handlers[q]) :
       /\ ~Settled(q)
       /\ h.to = p
       /\ h.kind = "reason" \/ (h.kind = "value" /\ q # p)

ResolvedSettles ==
    <>[](\A p \in Promises :
            called[p] => Settled(p) \/ Waits(p) \/ \E h \in dropped : h.to = p)

(***************************************************************************)
(* No error vanishes: in the end a promise that is rejected is reported,   *)
(* or a handler has got to see the error (and passes it on to its own      *)
(* promise if it has no function for it), unless an interrupt, an error of *)
(* later() or the end of its loop cut off its drain or the report.         *)
(***************************************************************************)
RejectionsSurface ==
    <>[](\A p \in Promises :
            state[p] = "rejected" => handled[p] \/ p \in reported \/ p \in cut)
=============================================================================
