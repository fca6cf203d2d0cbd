-------------------------- MODULE CallbackLifecycle --------------------------
(***************************************************************************)
(* What later() promises of a callback, whatever loops, nesting, errors    *)
(* and threads are behind it: it belongs to one loop from the moment it is *)
(* scheduled; it starts at most once, never before its time, never after a *)
(* successful cancel, and never before an earlier callback of its loop     *)
(* (at equal times: one scheduled before it) that is still waiting.        *)
(***************************************************************************)
EXTENDS Integers

CONSTANTS Callbacks, Loops

VARIABLES
    time,
    status,  \* "new", "queued", "ran" or "cancelled"
    due,     \* the time from which a callback may start
    homes    \* the loops whose queue holds it: one while it is queued

vars == <<time, status, due, homes>>

Init ==
    /\ time = 0
    /\ status = [i \in Callbacks |-> "new"]
    /\ due = [i \in Callbacks |-> 0]
    /\ homes = [i \in Callbacks |-> {}]

Schedule(i, l) ==
    /\ status[i] = "new"
    /\ \A j \in Callbacks : j < i => status[j] # "new"
    /\ status' = [status EXCEPT ![i] = "queued"]
    /\ homes' = [homes EXCEPT ![i] = {l}]
    /\ due' = [due EXCEPT ![i] = due'[i]]  \* any time, for i alone
    /\ UNCHANGED time

Finish(i, s) ==
    /\ status[i] = "queued"
    /\ status' = [status EXCEPT ![i] = s]
    /\ homes' = [homes EXCEPT ![i] = {}]
    /\ UNCHANGED <<time, due>>

Cancel(i) == Finish(i, "cancelled")

Precedes(i, j) == due[i] < due[j] \/ (due[i] = due[j] /\ i < j)

Start(i) ==
    /\ due[i] <= time
    /\ \A j \in Callbacks \ {i} :
         status[j] = "queued" /\ homes[j] = homes[i] => Precedes(i, j)
    /\ Finish(i, "ran")

Tick == time' = time + 1 /\ UNCHANGED <<status, due, homes>>

Next ==
    \/ \E i \in Callbacks, l \in Loops : Schedule(i, l)
    \/ \E i \in Callbacks : Cancel(i) \/ Start(i)
    \/ Tick

Spec == Init /\ [][Next]_vars
=============================================================================
