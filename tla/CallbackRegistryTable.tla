------------------------ MODULE CallbackRegistryTable ------------------------
(***************************************************************************)
(* The event loops ("registries") of later2: the C++ table that maps loop  *)
(* ids to registries (src/callback_registry_table.h), the tree that the    *)
(* registries form, and the R handles that keep them alive (R/later2.R).   *)
(*                                                                         *)
(* A registry object outlives its entry in the table as long as somebody   *)
(* holds a shared_ptr to it (a running execCallbacksOne does).  So parent, *)
(* children, queue and fd_waits are functions on every loop id, and only   *)
(* `registries` says which ids the table still knows.                      *)
(*                                                                         *)
(* The table's own module lets callbacks come and go and lets the current  *)
(* loop change freely; module EventLoop says when they really do, and      *)
(* implements the specification given here.                                *)
(***************************************************************************)
EXTENDS Integers, FiniteSets

CONSTANTS
    MaxLoop,      \* bound on loop ids: .globals$next_id never exceeds MaxLoop + 1
    MaxCallback,  \* bound on callback ids
    MaxFdWaits    \* bound on the concurrent later_fd() waits of one loop

ASSUME TableAssumption ==
    /\ MaxLoop \in Nat
    /\ MaxCallback \in Nat
    /\ MaxFdWaits \in Nat

VARIABLES
    registries,       \* the std::map: id -> r_ref_exists, for the ids it holds
    parent,           \* CallbackRegistry::parent of every registry object
    children,         \* CallbackRegistry::children of every registry object
    queue,            \* CallbackRegistry::queue, as a set of callback ids
    fd_waits,         \* CallbackRegistry::fd_waits
    next_id,          \* .globals$next_id
    handle,           \* the R handle of a loop: "none", "live" or "gone" (GC'd)
    current_registry  \* the id of the currently active loop

tableVars == <<registries, parent, children, queue, fd_waits, next_id, handle,
               current_registry>>

GLOBAL_LOOP == 0
NoLoop == -1
Loops == 0..MaxLoop
Callbacks == 1..MaxCallback

Exists(l) == l \in DOMAIN registries

\* CallbackRegistry::empty(): later_fd() waits count as work.
Empty(l) == fd_waits[l] = 0 /\ queue[l] = {}

TypeOK ==
    /\ DOMAIN registries \subseteq Loops
    /\ registries \in [DOMAIN registries -> BOOLEAN]
    /\ parent \in [Loops -> Loops \cup {NoLoop}]
    /\ children \in [Loops -> SUBSET Loops]
    /\ queue \in [Loops -> SUBSET Callbacks]
    /\ fd_waits \in [Loops -> 0..MaxFdWaits]
    /\ next_id \in 0..MaxLoop + 1
    /\ handle \in [Loops -> {"none", "live", "gone"}]
    /\ current_registry \in Loops

(***************************************************************************)
(* .onLoad: the global loop exists, and a package variable holds its handle.*)
(***************************************************************************)
TableInit ==
    /\ registries = [l \in {GLOBAL_LOOP} |-> TRUE]
    /\ parent = [l \in Loops |-> NoLoop]
    /\ children = [l \in Loops |-> {}]
    /\ queue = [l \in Loops |-> {}]
    /\ fd_waits = [l \in Loops |-> 0]
    /\ next_id = 1
    /\ handle = [l \in Loops |-> IF l = GLOBAL_LOOP THEN "live" ELSE "none"]
    /\ current_registry = GLOBAL_LOOP

-----------------------------------------------------------------------------
(***************************************************************************)
(* create_loop(parent).  R takes the id first, so an error below (the      *)
(* parent has been destroyed) leaves a hole in the numbering.  Children    *)
(* are pushed in the order of their ids, so a set, walked in ascending     *)
(* order, stands for the vector.                                           *)
(***************************************************************************)
NewRegistry(l, p) ==
    /\ registries' = [x \in DOMAIN registries \cup {l} |->
                        IF x = l THEN TRUE ELSE registries[x]]
    /\ parent' = [parent EXCEPT ![l] = p]
    /\ children' = [x \in Loops |->
                      IF x = p THEN children[x] \cup {l} ELSE children[x]]
    /\ handle' = [handle EXCEPT ![l] = "live"]

CreateLoop(p) ==
    /\ next_id \in Loops
    /\ p \in {NoLoop} \cup {l \in Loops : handle[l] = "live"}
    /\ next_id' = next_id + 1
    /\ IF p \in {NoLoop} \cup DOMAIN registries
         THEN NewRegistry(next_id, p)
         ELSE UNCHANGED <<registries, parent, children, handle>>
    /\ UNCHANGED <<queue, fd_waits, current_registry>>

\* Mutant of RemoveAll: the removed registry stays among its parent's children.
RemoveAllStillListed(regs, D) ==
    /\ registries' = [l \in DOMAIN regs \ D |-> regs[l]]
    /\ parent' = [l \in Loops |-> IF \E p \in D : l \in children[p]
                                    THEN NoLoop ELSE parent[l]]
    /\ UNCHANGED children

\* Mutant of RemoveAll: a registry removed after its parent still leaves it.
RemoveAllForgets(regs, D) ==
    /\ registries' = [l \in DOMAIN regs \ D |-> regs[l]]
    /\ parent' = [l \in Loops |-> IF \E p \in D : l \in children[p]
                                    THEN NoLoop ELSE parent[l]]
    /\ children' = [p \in Loops |-> children[p] \ D]

(***************************************************************************)
(* CallbackRegistryTable::remove() for every registry of D, parents first, *)
(* from a map that holds regs.  A removed registry leaves its parent's     *)
(* children, unless that parent was removed before it: then its parent     *)
(* pointer is already reset.  It keeps its own list of children.           *)
(***************************************************************************)
RemoveAll(regs, D) ==
    /\ registries' = [l \in DOMAIN regs \ D |-> regs[l]]
    /\ parent' = [l \in Loops |-> IF \E p \in D : l \in children[p]
                                    THEN NoLoop ELSE parent[l]]
    /\ children' = [p \in Loops |->
                      IF p \in D THEN children[p]
                      ELSE {c \in children[p] : ~(c \in D /\ parent[c] = p)}]

(***************************************************************************)
(* destroy_loop(): deleteCallbackRegistry() raises an error for the global *)
(* and for the current loop, and returns FALSE for a loop already removed. *)
(***************************************************************************)
DestroyLoop(l) ==
    /\ handle[l] = "live"
    /\ l # GLOBAL_LOOP
    /\ l # current_registry
    /\ Exists(l)
    /\ RemoveAll(registries, {l})
    /\ UNCHANGED <<queue, fd_waits, next_id, handle, current_registry>>

(***************************************************************************)
(* pruneRegistries() walks the map in ascending order of ids and removes   *)
(* a registry without R reference when it is empty or has no parent, which *)
(* it also lacks when its parent was removed earlier in the same walk: the *)
(* least set that contains every registry that may go once the registries  *)
(* of the set itself have gone.  PruneIsTheLoop states that this is what   *)
(* the loop of the source removes.                                         *)
(***************************************************************************)
\* Mutant of MayGo: emptiness without the later_fd() waits.
MayGoNoFdWaits(regs, gone, l) ==
    ~regs[l] /\ (queue[l] = {} \/ parent[l] = NoLoop \/ parent[l] \in gone)

\* Mutant of MayGo: children are visited before their parents.
MayGoChildrenFirst(regs, gone, l) ==
    ~regs[l] /\ (Empty(l) \/ parent[l] = NoLoop)

MayGo(regs, gone, l) ==
    ~regs[l] /\ (Empty(l) \/ parent[l] = NoLoop \/ parent[l] \in gone)

Prunable(regs) ==
    {l \in DOMAIN regs :
       \A S \in SUBSET DOMAIN regs :
          (\A x \in DOMAIN regs : MayGo(regs, S, x) => x \in S) => l \in S}

PruneRegistries ==
    /\ RemoveAll(registries, Prunable(registries))
    /\ UNCHANGED <<queue, fd_waits, next_id, handle>>

(***************************************************************************)
(* The finalizer notify_r_ref_deleted() of a collected handle.  For the    *)
(* current loop notifyRRefDeleted() raises an error before it touches the  *)
(* table, and R does not run a finalizer twice.  It returns FALSE for a    *)
(* loop that is no longer in the table.                                    *)
(***************************************************************************)
CollectHandle(l) ==
    /\ handle[l] = "live"
    /\ l # GLOBAL_LOOP
    /\ handle' = [handle EXCEPT ![l] = "gone"]
    /\ IF l # current_registry /\ Exists(l) /\ registries[l]
         THEN LET regs == [registries EXCEPT ![l] = FALSE]
              IN  RemoveAll(regs, Prunable(regs))
         ELSE UNCHANGED <<registries, parent, children>>
    /\ UNCHANGED <<queue, fd_waits, next_id, current_registry>>

-----------------------------------------------------------------------------
(***************************************************************************)
(* pruneRegistries() iteration by iteration, on the map and the registry   *)
(* objects as one value, to compare the one-step form with.                *)
(***************************************************************************)
\* remove(id): leave the parent's children, orphan the own ones, leave the map.
RemoveOne(t, l) ==
    [regs |-> [x \in DOMAIN t.regs \ {l} |-> t.regs[x]],
     par  |-> [x \in Loops |-> IF x \in t.kids[l] THEN NoLoop ELSE t.par[x]],
     kids |-> [x \in Loops |-> IF x = t.par[l] THEN t.kids[x] \ {l}
                                               ELSE t.kids[x]]]

\* One iteration of the while loop.
PruneStep(t, l) ==
    IF ~t.regs[l] /\ (Empty(l) \/ t.par[l] = NoLoop) THEN RemoveOne(t, l) ELSE t

\* The walk over the std::map, whose iterators go in ascending order of keys:
\* the table once the ids below n have been visited.
PruneLoop(regs) ==
    LET walk[n \in 0..MaxLoop + 1] ==
          IF n = 0 THEN [regs |-> regs, par |-> parent, kids |-> children]
          ELSE IF n - 1 \in DOMAIN regs THEN PruneStep(walk[n - 1], n - 1)
          ELSE walk[n - 1]
    IN  walk[MaxLoop + 1]

-----------------------------------------------------------------------------
(***************************************************************************)
(* What the rest of the program does to a registry object.                 *)
(***************************************************************************)
\* CallbackRegistry::add(), reached through the table by id.
Add(l, i) ==
    /\ Exists(l)
    /\ queue' = [queue EXCEPT ![l] = @ \cup {i}]
    /\ UNCHANGED <<registries, parent, children, fd_waits, next_id, handle,
                   current_registry>>

\* CallbackRegistry::pop() and cancel() erase one callback of the queue.
Take(l, i) ==
    /\ i \in queue[l]
    /\ queue' = [queue EXCEPT ![l] = @ \ {i}]
    /\ UNCHANGED <<registries, parent, children, fd_waits, next_id, handle,
                   current_registry>>

\* A later_fd() wait begins: the registry is looked up in the table.
FdWaitsIncr(l) ==
    /\ Exists(l)
    /\ fd_waits[l] < MaxFdWaits
    /\ fd_waits' = [fd_waits EXCEPT ![l] = @ + 1]
    /\ UNCHANGED <<registries, parent, children, queue, next_id, handle,
                   current_registry>>

\* ~ThreadArgs(): the wait is over, on whatever thread and at whatever time.
FdWaitsDecr(l) ==
    /\ fd_waits[l] > 0
    /\ fd_waits' = [fd_waits EXCEPT ![l] = @ - 1]
    /\ UNCHANGED <<registries, parent, children, queue, next_id, handle,
                   current_registry>>

SetCurrentRegistryId(l) ==
    /\ current_registry' = l
    /\ UNCHANGED <<registries, parent, children, queue, fd_waits, next_id,
                   handle>>

TableNext ==
    \/ \E p \in Loops \cup {NoLoop} : CreateLoop(p)
    \/ \E l \in Loops : DestroyLoop(l)
    \/ \E l \in Loops : CollectHandle(l)
    \/ \E l \in Loops : PruneRegistries /\ current_registry' = l
    \/ \E l \in Loops, i \in Callbacks : Add(l, i) \/ Take(l, i)
    \/ \E l \in Loops : FdWaitsIncr(l) \/ FdWaitsDecr(l)
    \/ \E l \in Loops : SetCurrentRegistryId(l)

TableSpec == TableInit /\ [][TableNext]_tableVars

-----------------------------------------------------------------------------
(***************************************************************************)
(* The loops of the table form a forest in which a child's id is larger    *)
(* than its parent's, and the parent pointers agree with the lists of      *)
(* children.  The walk of pruneRegistries() relies on it ("children always *)
(* have a larger ID than their parents"), the recursion of nextTimestamp() *)
(* and due() over the children terminates because of it, and               *)
(* execCallbacksOne() runs a loop once per pass because of it.             *)
(***************************************************************************)
ForestOK ==
    /\ \A l \in Loops : parent[l] < l
    /\ \A p \in Loops : \A c \in children[p] : p < c /\ c < next_id
    /\ \A l \in DOMAIN registries :
         parent[l] # NoLoop => Exists(parent[l]) /\ l \in children[parent[l]]
    /\ \A p \in DOMAIN registries :
         \A c \in children[p] : Exists(c) /\ parent[c] = p

(***************************************************************************)
(* The global loop is never removed, so getGlobalRegistry() never raises   *)
(* "Global registry does not exist.", whatever loops are destroyed,        *)
(* collected and pruned.  A loop whose handle is reachable from R keeps    *)
(* its reference: only the finalizer drops it.                             *)
(***************************************************************************)
RefsOK ==
    /\ Exists(GLOBAL_LOOP) /\ handle[GLOBAL_LOOP] = "live"
    /\ \A l \in DOMAIN registries :
         /\ l < next_id
         /\ handle[l] # "none"
         /\ handle[l] = "live" => registries[l]

(***************************************************************************)
(* pruneRegistries() in a single walk removes everything that may go: a    *)
(* second walk would find nothing (the comment on the ascending ids),      *)
(* whether run_now() or the finalizer of a handle has called it.           *)
(***************************************************************************)
PruneSettles ==
    [][PruneRegistries \/ (\E l \in Loops : CollectHandle(l) /\ registries' # registries)
         => Prunable(registries)' = {}]_tableVars

(***************************************************************************)
(* "CallbackRegistry exists until its callbacks are run": unless somebody  *)
(* destroys it, a loop leaves the table only when its handle is gone and   *)
(* either it has no work (queued callbacks or later_fd waits) or no loop   *)
(* of the table is its parent any more.                                    *)
(***************************************************************************)
WorkIsKept ==
    [][\A l \in DOMAIN registries :
         \/ l \in DOMAIN registries'
         \/ DestroyLoop(l)
         \/ /\ handle'[l] = "gone"
            /\ Empty(l) \/ parent'[l] = NoLoop]_tableVars

(***************************************************************************)
(* The one-step form of pruneRegistries() does what its loop does: in      *)
(* every reachable state, whether run_now() or the finalizer of a handle   *)
(* calls it, the map and the parent and children fields of all registries, *)
(* also of those it removes, end up as after the iterations of the source. *)
(***************************************************************************)
LoopLeaves(t) == registries' = t.regs /\ parent' = t.par /\ children' = t.kids

PruneIsTheLoop ==
    [][/\ PruneRegistries => LoopLeaves(PruneLoop(registries))
       /\ \A l \in Loops :
            CollectHandle(l) /\ registries' # registries
              => LoopLeaves(PruneLoop([registries EXCEPT ![l] = FALSE]))]_tableVars
=============================================================================
