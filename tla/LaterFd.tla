------------------------------ MODULE LaterFd ------------------------------
(***************************************************************************)
(* later_fd() (src/fd.cpp): run a callback when file descriptors are       *)
(* ready.  Each call makes a ThreadArgs and a thread that polls.  The      *)
(* ThreadArgs passes from the main thread to the poll thread, from there   *)
(* as the argument of a C callback into the queue of a loop, and back to   *)
(* the main thread; it is shared with nobody but for the flag `active`,    *)
(* which the canceller holds as well.  While it lives it counts in         *)
(* fd_waits of its registry, which keeps the loop from being pruned.       *)
(*                                                                         *)
(* The descriptors of a wait are taken as one.  The loops are those that a *)
(* program makes; `Orphans` are those without a parent, the others are     *)
(* children of the global loop.                                            *)
(***************************************************************************)
EXTENDS Integers, Sequences, FiniteSets

CONSTANTS
    Waits,     \* the calls of later_fd()
    RWaits,    \* those from R; the others are from C and have no canceller
    Loops,     \* the loops
    Orphans,   \* those without a parent
    Timeouts,  \* the timeouts of the calls
    Infinity,  \* a time that never comes
    MaxTime    \* bound on the clock

ASSUME LaterFdAssumption ==
    /\ IsFiniteSet(Waits)
    /\ RWaits \subseteq Waits
    /\ Loops # {}
    /\ Orphans \subseteq Loops
    /\ Timeouts \subseteq Int
    /\ MaxTime \in Nat
    /\ Infinity \in Nat /\ Infinity > MaxTime

VARIABLES
    registries,  \* the loops in the table
    handle,      \* the loops with an R reference
    queue,       \* the waits whose callback is queued in a loop
    fd_waits,    \* CallbackRegistry::fd_waits
    owner,       \* who holds the ThreadArgs of a wait
    loop,        \* ThreadArgs::loop
    timeout,     \* ThreadArgs::timeout
    active,      \* the flag *ThreadArgs::active
    results,     \* ThreadArgs::results
    fds,         \* the state of the file descriptors, which nobody here controls
    outcome,     \* what was promised of a wait: its callback started, or a
                 \* canceller returned TRUE
    stack,       \* the callbacks that run, one inside the other
    now          \* the clock

tableVars == <<registries, handle>>
argsVars == <<loop, timeout>>
vars == <<tableVars, queue, fd_waits, owner, argsVars, active, results, fds,
          outcome, stack, now>>

(***************************************************************************)
(* The owner of a ThreadArgs is nobody yet ("none"), the poll thread       *)
(* before ("poll") or after ("done") its loop, a queue, the callback on    *)
(* the main thread, or nobody any more: it was freed by the main thread or *)
(* by the poll thread, or the only pointer to it was dropped, in           *)
(* scheduleCallback() ("leaked") or when no thread could be made           *)
(* ("failed").                                                             *)
(***************************************************************************)
Pending == {"poll", "done", "queue", "callback"}
Living == Pending \cup {"leaked", "failed"}
Owners == Living \cup {"none", "main freed", "thread freed"}

TypeOK ==
    /\ registries \subseteq Loops
    /\ handle \subseteq Loops
    /\ queue \in [Loops -> SUBSET Waits]
    /\ fd_waits \in [Loops -> 0 .. Cardinality(Waits)]
    /\ owner \in [Waits -> Owners]
    /\ loop \in [Waits -> Loops]
    /\ timeout \in [Waits -> Int]
    /\ active \in [Waits -> BOOLEAN]
    /\ results \in [Waits -> {"FALSE", "TRUE", "NA"}]
    /\ fds \in [Waits -> {"idle", "ready", "broken"}]
    /\ outcome \in [Waits -> {"none", "ran", "cancelled"}]
    /\ stack \in Seq(Waits)
    /\ now \in 0 .. MaxTime

Init ==
    /\ registries = Loops
    /\ handle = Loops
    /\ queue = [l \in Loops |-> {}]
    /\ fd_waits = [l \in Loops |-> 0]
    /\ owner = [w \in Waits |-> "none"]
    /\ loop = [w \in Waits |-> CHOOSE l \in Loops : TRUE]  \* read only once it is set
    /\ timeout = [w \in Waits |-> 0]
    /\ active = [w \in Waits |-> TRUE]
    /\ results = [w \in Waits |-> "FALSE"]
    /\ fds = [w \in Waits |-> "idle"]
    /\ outcome = [w \in Waits |-> "none"]
    /\ stack = <<>>
    /\ now = 0

-----------------------------------------------------------------------------
\* createTimestamp(): "-1 to denote a default we set at 1s".
Deadline(t) == IF t > MaxTime THEN Infinity
               ELSE IF t < 0 THEN now + 1
               ELSE now + t

\* The constructor of ThreadArgs, which fails if the loop is not in the table.
NewThreadArgs(w, l, t) ==
    /\ owner[w] = "none"
    /\ l \in registries
    /\ loop' = [loop EXCEPT ![w] = l]
    /\ timeout' = [timeout EXCEPT ![w] = Deadline(t)]
    /\ fd_waits' = [fd_waits EXCEPT ![l] = @ + 1]
    /\ UNCHANGED <<tableVars, queue, active, results, fds, outcome, stack, now>>

\* execLater_fd_impl() and execLater_fd_native(): the thread owns the args.
ExecLaterFd(w, l, t) ==
    /\ NewThreadArgs(w, l, t)
    /\ owner' = [owner EXCEPT ![w] = "poll"]

\* "Thread creation failed": the pointer was released before.
ThreadCreationFails(w, l, t) ==
    /\ NewThreadArgs(w, l, t)
    /\ owner' = [owner EXCEPT ![w] = "failed"]

\* Mutant of Destroy: the count is taken back by the main thread only.
DestroyOnMain(w, by) ==
    /\ owner' = [owner EXCEPT ![w] = by]
    /\ fd_waits' = [fd_waits EXCEPT ![loop[w]] = IF by = "main freed" THEN @ - 1 ELSE @]

\* ~ThreadArgs(), when its unique_ptr goes.
Destroy(w, by) ==
    /\ owner' = [owner EXCEPT ![w] = by]
    /\ fd_waits' = [fd_waits EXCEPT ![loop[w]] = @ - 1]

-----------------------------------------------------------------------------
(***************************************************************************)
(* wait_thread().  poll() returns at the latest after about a second, and  *)
(* then the flag is looked at.  A descriptor that is broken makes poll()   *)
(* return like one that is ready; poll() itself may fail at any time.      *)
(***************************************************************************)
\* Mutant of PollCancelled: the flag is looked at when the timeout is over.
PollCancelledLate(w) ==
    /\ owner[w] = "poll"
    /\ ~active[w]
    /\ timeout[w] <= now
    /\ Destroy(w, "thread freed")
    /\ UNCHANGED <<tableVars, queue, argsVars, active, results, fds, outcome, stack, now>>

PollCancelled(w) ==
    /\ owner[w] = "poll"
    /\ ~active[w]
    /\ Destroy(w, "thread freed")
    /\ UNCHANGED <<tableVars, queue, argsVars, active, results, fds, outcome, stack, now>>

PollOver(w, r) ==
    /\ owner[w] = "poll"
    /\ active[w]
    /\ results' = [results EXCEPT ![w] = r]
    /\ owner' = [owner EXCEPT ![w] = "done"]
    /\ UNCHANGED <<tableVars, queue, fd_waits, argsVars, active, fds, outcome, stack, now>>

\* poll() returned 0, maybe just before a descriptor became ready, or more.
PollEnds(w, r) ==
    /\ \/ timeout[w] <= now /\ r = "FALSE"
       \/ fds[w] = "ready" /\ r = "TRUE"
       \/ fds[w] = "broken" /\ r = "NA"
    /\ PollOver(w, r)

PollFails(w) == PollOver(w, "NA")

\* scheduleCallback() with the released pointer: it returns 0, and the pointer
\* is lost, if the loop is no longer in the table.
ThreadSchedules(w) ==
    /\ owner[w] = "done"
    /\ IF loop[w] \in registries
         THEN /\ queue' = [queue EXCEPT ![loop[w]] = @ \cup {w}]
              /\ owner' = [owner EXCEPT ![w] = "queue"]
         ELSE /\ owner' = [owner EXCEPT ![w] = "leaked"]
              /\ UNCHANGED queue
    /\ UNCHANGED <<tableVars, fd_waits, argsVars, active, results, fds, outcome, stack, now>>

ThreadStep(w) ==
    \/ PollCancelled(w)
    \/ \E r \in {"FALSE", "TRUE", "NA"} : PollEnds(w, r)
    \/ ThreadSchedules(w)

-----------------------------------------------------------------------------
(***************************************************************************)
(* The main thread.  A pass runs a loop that is in the table, or one that  *)
(* left it during the pass.                                                *)
(***************************************************************************)
Runs(l) == l \in registries \/ \E k \in DOMAIN stack : loop[stack[k]] = l

\* Mutant of LaterCallback: the flag is not looked at.
LaterCallbackAnyway(w) ==
    /\ Runs(loop[w])
    /\ w \in queue[loop[w]]
    /\ queue' = [queue EXCEPT ![loop[w]] = @ \ {w}]
    /\ owner' = [owner EXCEPT ![w] = "callback"]
    /\ active' = [active EXCEPT ![w] = FALSE]
    /\ outcome' = [outcome EXCEPT ![w] = "ran"]
    /\ stack' = Append(stack, w)
    /\ UNCHANGED <<tableVars, fd_waits, argsVars, results, fds, now>>

\* later_callback(), popped from its queue: the callback starts, or the wait was
\* cancelled and the args go.
LaterCallback(w) ==
    /\ Runs(loop[w])
    /\ w \in queue[loop[w]]
    /\ queue' = [queue EXCEPT ![loop[w]] = @ \ {w}]
    /\ IF active[w]
         THEN /\ owner' = [owner EXCEPT ![w] = "callback"]
              /\ active' = [active EXCEPT ![w] = FALSE]
              /\ outcome' = [outcome EXCEPT ![w] = "ran"]
              /\ stack' = Append(stack, w)
              /\ UNCHANGED fd_waits
         ELSE /\ Destroy(w, "main freed")
              /\ UNCHANGED <<active, outcome, stack>>
    /\ UNCHANGED <<tableVars, argsVars, results, fds, now>>

\* The callback returns or throws.
CallbackEnds ==
    /\ stack # <<>>
    /\ Destroy(stack[Len(stack)], "main freed")
    /\ stack' = SubSeq(stack, 1, Len(stack) - 1)
    /\ UNCHANGED <<tableVars, queue, argsVars, active, results, fds, outcome, now>>

\* fd_cancel(), when it returns TRUE; otherwise it changes nothing.
FdCancel(w) ==
    /\ w \in RWaits
    /\ owner[w] \notin {"none", "failed"}
    /\ active[w]
    /\ active' = [active EXCEPT ![w] = FALSE]
    /\ outcome' = [outcome EXCEPT ![w] = "cancelled"]
    /\ UNCHANGED <<tableVars, queue, fd_waits, owner, argsVars, results, fds, stack, now>>

\* destroy_loop(), on a loop that is not, or is not any more, the current one.
DestroyLoop(l) ==
    /\ l \in registries \cap handle
    /\ registries' = registries \ {l}
    /\ UNCHANGED <<handle, queue, fd_waits, owner, argsVars, active, results, fds,
                   outcome, stack, now>>

\* Mutant of MayGo: an empty queue is enough.
MayGoNoFdWaits(h, l) == l \notin h /\ (queue[l] = {} \/ l \in Orphans)

\* What pruneRegistries() removes if h are the loops with a reference.
MayGo(h, l) == l \notin h /\ ((queue[l] = {} /\ fd_waits[l] = 0) \/ l \in Orphans)

\* notifyRRefDeleted(), for a loop that is not the current one.
CollectHandle(l) ==
    /\ l \in handle
    /\ stack # <<>> => loop[stack[Len(stack)]] # l
    /\ handle' = handle \ {l}
    /\ registries' = IF l \in registries THEN {x \in registries : ~MayGo(handle', x)}
                                         ELSE registries
    /\ UNCHANGED <<queue, fd_waits, owner, argsVars, active, results, fds, outcome,
                   stack, now>>

\* The end of a run_now() that had something to run, here or in another loop.
ExecCallbacksEnds ==
    /\ registries' = {x \in registries : ~MayGo(handle, x)}
    /\ UNCHANGED <<handle, queue, fd_waits, owner, argsVars, active, results, fds,
                   outcome, stack, now>>

-----------------------------------------------------------------------------
\* The world outside.
FdChanges(w, s) ==
    /\ fds[w] = "idle"
    /\ s \in {"ready", "broken"}
    /\ fds' = [fds EXCEPT ![w] = s]
    /\ UNCHANGED <<tableVars, queue, fd_waits, owner, argsVars, active, results,
                   outcome, stack, now>>

Tick ==
    /\ now < MaxTime
    /\ now' = now + 1
    /\ UNCHANGED <<tableVars, queue, fd_waits, owner, argsVars, active, results, fds,
                   outcome, stack>>

Next ==
    \/ \E w \in Waits : \/ ThreadStep(w)
                        \/ PollFails(w)
                        \/ LaterCallback(w)
                        \/ FdCancel(w)
                        \/ \E s \in {"ready", "broken"} : FdChanges(w, s)
                        \/ \E l \in Loops, t \in Timeouts :
                              ExecLaterFd(w, l, t) \/ ThreadCreationFails(w, l, t)
    \/ \E l \in Loops : DestroyLoop(l) \/ CollectHandle(l)
    \/ CallbackEnds
    \/ ExecCallbacksEnds
    \/ Tick

Spec == Init /\ [][Next]_vars

-----------------------------------------------------------------------------
(***************************************************************************)
(* fd_waits counts the ThreadArgs that have not been destroyed, whichever  *)
(* of the threads destroys them and whatever becomes of the loop; in       *)
(* particular it never gets below 0.                                       *)
(***************************************************************************)
FdWaitsCount ==
    \A l \in Loops :
       fd_waits[l] = Cardinality({w \in Waits : loop[w] = l /\ owner[w] \in Living})

(***************************************************************************)
(* "if args->active is true, it is changed to false (so future requests to *)
(* fd_cancel return false)": the callback starts at most once, not after   *)
(* the canceller returned TRUE, and the canceller returns TRUE neither     *)
(* twice nor after the callback started.                                   *)
(***************************************************************************)
OutcomeIsFinal ==
    [][\A w \in Waits :
         /\ outcome[w] # "none" => outcome'[w] = outcome[w]
         /\ owner'[w] = "callback" => outcome'[w] = "ran"]_vars

(***************************************************************************)
(* A loop does not go away under a wait of later_fd(): unless the program  *)
(* destroys it, or nothing can run it, the thread still finds it when it   *)
(* schedules the callback.                                                 *)
(***************************************************************************)
WaitKeepsLoop ==
    [][\A w \in Waits :
         owner[w] \in Pending /\ loop[w] \in registries \ registries'
           => DestroyLoop(loop[w]) \/ loop[w] \in Orphans]_vars

(***************************************************************************)
(* "R functions should only be accessed from the main thread": the R       *)
(* function that a ThreadArgs holds is released by the main thread.        *)
(***************************************************************************)
RFunctionsStayOnMain == \A w \in RWaits : owner[w] # "thread freed"

-----------------------------------------------------------------------------
(***************************************************************************)
(* Liveness: threads keep going and time passes.  That poll() fails is not *)
(* relied on.                                                              *)
(***************************************************************************)
FairSpec == Spec /\ WF_vars(Tick) /\ \A w \in Waits : WF_vars(ThreadStep(w))

(***************************************************************************)
(* "Never wait for longer than ~1 second so we can check for               *)
(* cancellation": the thread of a wait comes to its end once the timeout   *)
(* is over or the wait was cancelled, even if its descriptors never become *)
(* ready.                                                                  *)
(***************************************************************************)
ThreadsEnd ==
    \A w \in Waits :
       owner[w] = "poll" /\ (timeout[w] <= MaxTime \/ ~active[w])
         ~> owner[w] \notin {"poll", "done"}
=============================================================================
