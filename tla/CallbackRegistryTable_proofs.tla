--------------------- MODULE CallbackRegistryTable_proofs ---------------------
(***************************************************************************)
(* Proofs about the table of event loops, for any number of loops,         *)
(* callbacks and later_fd() waits.                                         *)
(***************************************************************************)
EXTENDS CallbackRegistryTable, WellFoundedInduction, TLAPS

\* The inductive invariant: the types, the forest and the references.
TableInv == TypeOK /\ ForestOK /\ RefsOK

(***************************************************************************)
(* remove(): taking any set of registries but the global one out of the    *)
(* map leaves a forest, whose ids, queues and handles are untouched.       *)
(***************************************************************************)
LEMMA RemoveAllKeepsForest ==
    ASSUME TypeOK, ForestOK,
           NEW regs \in [DOMAIN registries -> BOOLEAN],
           NEW D, D \subseteq DOMAIN registries,
           RemoveAll(regs, D),
           UNCHANGED next_id
    PROVE  /\ ForestOK'
           /\ DOMAIN registries' = DOMAIN registries \ D
           /\ \A l \in DOMAIN registries' : registries'[l] = regs[l]
           /\ registries' \in [DOMAIN registries' -> BOOLEAN]
           /\ parent' \in [Loops -> Loops \cup {NoLoop}]
           /\ children' \in [Loops -> SUBSET Loops]
<1>1. /\ DOMAIN registries' = DOMAIN registries \ D
      /\ \A l \in DOMAIN registries' : registries'[l] = regs[l]
      /\ registries' \in [DOMAIN registries' -> BOOLEAN]
      /\ DOMAIN registries \subseteq Loops
  BY DEF RemoveAll, TypeOK
<1>2. /\ parent' \in [Loops -> Loops \cup {NoLoop}]
      /\ \A l \in Loops : parent'[l] = IF \E p \in D : l \in children[p]
                                         THEN NoLoop ELSE parent[l]
  BY DEF RemoveAll, TypeOK
<1>3. /\ children' \in [Loops -> SUBSET Loops]
      /\ \A p \in Loops : children'[p] \subseteq children[p]
      /\ \A p \in Loops \ D : \A c \in children[p] :
            c \in children'[p] <=> ~(c \in D /\ parent[c] = p)
  BY DEF RemoveAll, TypeOK
<1>4. \A l \in Loops : parent'[l] < l
  BY <1>2 DEF ForestOK, Loops, NoLoop
<1>5. \A p \in Loops : \A c \in children'[p] : p < c /\ c < next_id'
  BY <1>3 DEF ForestOK
<1>6. \A l \in DOMAIN registries' :
        parent'[l] # NoLoop => Exists(parent[l])' /\ l \in children'[parent'[l]]
  <2> SUFFICES ASSUME NEW l \in DOMAIN registries', parent'[l] # NoLoop
               PROVE  parent'[l] \in DOMAIN registries'
                      /\ l \in children'[parent'[l]]
    BY DEF Exists
  <2>1. parent'[l] = parent[l] /\ ~ \E p \in D : l \in children[p]
    BY <1>1, <1>2
  <2>2. parent[l] \in DOMAIN registries /\ l \in children[parent[l]]
    BY <1>1, <2>1 DEF ForestOK, Exists
  <2>3. parent[l] \notin D
    BY <2>1, <2>2
  <2> QED
    BY <1>1, <1>3, <2>1, <2>2, <2>3
<1>7. \A p \in DOMAIN registries' :
        \A c \in children'[p] : Exists(c)' /\ parent'[c] = p
  <2> SUFFICES ASSUME NEW p \in DOMAIN registries', NEW c \in children'[p]
               PROVE  c \in DOMAIN registries' /\ parent'[c] = p
    BY DEF Exists
  <2>1. c \in children[p] /\ c \in DOMAIN registries /\ parent[c] = p
    BY <1>1, <1>3 DEF ForestOK, Exists
  <2>2. c \notin D
    BY <1>1, <1>3, <2>1
  <2>3. ~ \E q \in D : c \in children[q]
    BY <1>1, <2>1 DEF ForestOK, Exists
  <2> QED
    BY <1>1, <1>2, <2>1, <2>2, <2>3
<1> QED
  BY <1>1, <1>2, <1>3, <1>4, <1>5, <1>6, <1>7 DEF ForestOK

\* pruneRegistries() removes only registries of the map without R reference.
LEMMA PrunableWithoutRef ==
    ASSUME NEW regs
    PROVE  /\ Prunable(regs) \subseteq DOMAIN regs
           /\ \A l \in Prunable(regs) :
                MayGo(regs, Prunable(regs), l)
<1> DEFINE D == Prunable(regs)
           E == {l \in D : MayGo(regs, D, l)}
<1>1. D \subseteq DOMAIN regs
  BY DEF Prunable
<1>2. ASSUME NEW x \in DOMAIN regs, MayGo(regs, E, x)
      PROVE  x \in E
  <2>1. MayGo(regs, D, x)
    BY <1>2 DEF MayGo
  <2>2. ASSUME NEW S \in SUBSET DOMAIN regs,
               \A y \in DOMAIN regs : MayGo(regs, S, y) => y \in S
        PROVE  x \in S
    <3>1. D \subseteq S
      BY <2>2 DEF Prunable
    <3>2. MayGo(regs, S, x)
      BY <2>1, <3>1 DEF MayGo
    <3> QED
      BY <2>2, <3>2
  <2>3. x \in D
    BY <2>2 DEF Prunable
  <2> QED
    BY <2>1, <2>3
<1>3. D \subseteq E
  <2>1. E \in SUBSET DOMAIN regs
    BY <1>1
  <2> QED
    BY <1>2, <2>1 DEF Prunable
<1> QED
  BY <1>1, <1>3

-----------------------------------------------------------------------------
(***************************************************************************)
(* The inductive invariant holds initially and every step preserves it.    *)
(***************************************************************************)
LEMMA TableInitInv == TableInit => TableInv
<1> SUFFICES ASSUME TableInit PROVE TableInv
  OBVIOUS
<1> USE TableAssumption DEF TableInit, Loops, GLOBAL_LOOP, NoLoop
<1>1. TypeOK
  BY DEF TypeOK
<1>2. ForestOK
  BY DEF ForestOK
<1>3. RefsOK
  BY DEF RefsOK, Exists
<1> QED
  BY <1>1, <1>2, <1>3 DEF TableInv

LEMMA CreateLoopInv ==
    ASSUME TableInv, NEW p \in Loops \cup {NoLoop}, CreateLoop(p)
    PROVE  TableInv'
<1> USE TableAssumption DEF Loops, NoLoop, GLOBAL_LOOP
<1>1. CASE p \in {NoLoop} \cup DOMAIN registries
  <2> DEFINE n == next_id
  <2>1. /\ n \in Loops /\ next_id' = n + 1
        /\ NewRegistry(n, p)
        /\ UNCHANGED <<queue, fd_waits, current_registry>>
    BY <1>1 DEF CreateLoop
  <2>2. /\ DOMAIN registries' = DOMAIN registries \cup {n}
        /\ registries'[n] = TRUE
        /\ \A l \in DOMAIN registries : l # n /\ registries'[l] = registries[l]
        /\ registries' \in [DOMAIN registries' -> BOOLEAN]
    <3>1. registries' = [x \in DOMAIN registries \cup {n} |->
                          IF x = n THEN TRUE ELSE registries[x]]
      BY <2>1 DEF NewRegistry
    <3>2. \A l \in DOMAIN registries : l # n
      BY DEF TableInv, RefsOK, TypeOK
    <3>3. \A l \in DOMAIN registries : registries[l] \in BOOLEAN
      BY DEF TableInv, TypeOK
    <3> QED
      BY <3>1, <3>2, <3>3, Zenon
  <2>3. p < n /\ p # n
    BY <1>1, <2>1 DEF TableInv, RefsOK, TypeOK
  <2>4. children[n] = {}
    BY <2>1 DEF TableInv, ForestOK, TypeOK
  <2>5. /\ parent'[n] = p
        /\ \A l \in Loops : l # n => parent'[l] = parent[l]
        /\ \A l \in Loops : l # p => children'[l] = children[l]
        /\ p # NoLoop => children'[p] = children[p] \cup {n}
    BY <2>1 DEF NewRegistry, TableInv, TypeOK
  <2>6. TypeOK'
    <3>1. DOMAIN registries' \subseteq Loops
      BY <2>1, <2>2 DEF TableInv, TypeOK
    <3>2. /\ parent' \in [Loops -> Loops \cup {NoLoop}]
          /\ children' \in [Loops -> SUBSET Loops]
          /\ handle' \in [Loops -> {"none", "live", "gone"}]
      BY <2>1 DEF NewRegistry, TableInv, TypeOK
    <3>3. next_id' \in 0..MaxLoop + 1
      BY <2>1
    <3> QED
      BY <2>1, <2>2, <3>1, <3>2, <3>3 DEF TableInv, TypeOK
  <2>7. ForestOK'
    <3>1. \A l \in Loops : parent'[l] < l
      BY <2>3, <2>5 DEF TableInv, ForestOK
    <3>2. \A q \in Loops : \A c \in children'[q] : q < c /\ c < next_id'
      BY <2>1, <2>3, <2>5 DEF TableInv, ForestOK, TypeOK
    <3>3. ASSUME NEW l \in DOMAIN registries', parent'[l] # NoLoop
          PROVE  parent'[l] \in DOMAIN registries' /\ l \in children'[parent'[l]]
      <4>1. CASE l = n
        BY <1>1, <2>2, <2>5, <3>3, <4>1
      <4>2. CASE l # n
        <5>1. l \in DOMAIN registries /\ l \in Loops /\ parent'[l] = parent[l]
          BY <2>2, <2>5, <4>2 DEF TableInv, TypeOK
        <5>2. parent[l] \in DOMAIN registries /\ l \in children[parent[l]]
          BY <3>3, <5>1 DEF TableInv, ForestOK, Exists
        <5>3. parent[l] \in Loops
          BY <5>2 DEF TableInv, TypeOK
        <5>4. children[parent[l]] \subseteq children'[parent[l]]
          BY <2>5, <5>3
        <5> QED
          BY <2>2, <5>1, <5>2, <5>4
      <4> QED
        BY <4>1, <4>2
    <3>4. ASSUME NEW q \in DOMAIN registries', NEW c \in children'[q]
          PROVE  c \in DOMAIN registries' /\ parent'[c] = q
      <4>1. q \in Loops
        BY <2>6 DEF TypeOK
      <4>2. CASE c = n /\ q = p
        BY <2>2, <2>5, <4>2
      <4>3. CASE c \in children[q]
        <5>1. q # n
          BY <2>4, <4>3
        <5>2. q \in DOMAIN registries
          BY <2>2, <5>1
        <5>3. c \in DOMAIN registries /\ parent[c] = q
          BY <4>3, <5>2 DEF TableInv, ForestOK, Exists
        <5>4. c \in Loops /\ c # n
          BY <2>2, <5>3 DEF TableInv, TypeOK
        <5> QED
          BY <2>2, <2>5, <5>3, <5>4
      <4>4. (c = n /\ q = p) \/ c \in children[q]
        BY <2>5, <4>1
      <4> QED
        BY <4>2, <4>3, <4>4
    <3> QED
      BY <3>1, <3>2, <3>3, <3>4 DEF ForestOK, Exists
  <2>8. RefsOK'
    <3>1. handle'[n] = "live" /\ \A l \in Loops : l # n => handle'[l] = handle[l]
      BY <2>1 DEF NewRegistry, TableInv, TypeOK
    <3>2. DOMAIN registries \subseteq Loops /\ GLOBAL_LOOP \in DOMAIN registries
      BY DEF TableInv, TypeOK, RefsOK, Exists
    <3>3. handle'[GLOBAL_LOOP] = "live"
      BY <2>2, <3>1, <3>2 DEF TableInv, RefsOK
    <3>4. ASSUME NEW l \in DOMAIN registries'
          PROVE  /\ l < next_id'
                 /\ handle'[l] # "none"
                 /\ handle'[l] = "live" => registries'[l]
      <4>1. CASE l = n
        BY <2>1, <2>2, <3>1, <4>1
      <4>2. CASE l # n
        <5>1. l \in DOMAIN registries /\ l \in Loops
          BY <2>2, <3>2, <4>2
        <5>2. registries'[l] = registries[l] /\ handle'[l] = handle[l]
          BY <2>2, <3>1, <4>2, <5>1
        <5>3. l < next_id /\ next_id \in Int
          BY <5>1 DEF TableInv, RefsOK, TypeOK
        <5>4. l < next_id'
          BY <2>1, <5>1, <5>3
        <5> QED
          BY <5>1, <5>2, <5>4 DEF TableInv, RefsOK
      <4> QED
        BY <4>1, <4>2
    <3> QED
      BY <2>2, <3>2, <3>3, <3>4 DEF RefsOK, Exists
  <2> QED
    BY <2>6, <2>7, <2>8 DEF TableInv
<1>2. CASE p \notin {NoLoop} \cup DOMAIN registries
  <2>1. /\ next_id \in Loops /\ next_id' = next_id + 1
        /\ UNCHANGED <<registries, parent, children, handle, queue, fd_waits,
                       current_registry>>
    BY <1>2 DEF CreateLoop
  <2>2. TypeOK'
    BY <2>1 DEF TableInv, TypeOK
  <2>3. ForestOK'
    BY <2>1 DEF TableInv, TypeOK, ForestOK, Exists
  <2>4. RefsOK'
    BY <2>1 DEF TableInv, TypeOK, RefsOK, Exists
  <2> QED
    BY <2>2, <2>3, <2>4 DEF TableInv
<1> QED
  BY <1>1, <1>2

LEMMA DestroyLoopInv ==
    ASSUME TableInv, NEW l \in Loops, DestroyLoop(l)
    PROVE  TableInv'
<1>1. /\ l \in DOMAIN registries /\ l # GLOBAL_LOOP
      /\ RemoveAll(registries, {l})
      /\ UNCHANGED <<queue, fd_waits, next_id, handle, current_registry>>
  BY DEF DestroyLoop, Exists
<1>2. registries \in [DOMAIN registries -> BOOLEAN]
  BY DEF TableInv, TypeOK
<1>3. /\ ForestOK'
      /\ DOMAIN registries' = DOMAIN registries \ {l}
      /\ \A x \in DOMAIN registries' : registries'[x] = registries[x]
      /\ registries' \in [DOMAIN registries' -> BOOLEAN]
      /\ parent' \in [Loops -> Loops \cup {NoLoop}]
      /\ children' \in [Loops -> SUBSET Loops]
  BY <1>1, <1>2, RemoveAllKeepsForest DEF TableInv
<1>4. TypeOK'
  BY <1>1, <1>3 DEF TableInv, TypeOK
<1>5. RefsOK'
  BY <1>1, <1>3 DEF TableInv, RefsOK, Exists
<1> QED
  BY <1>3, <1>4, <1>5 DEF TableInv

LEMMA PruneRegistriesInv ==
    ASSUME TableInv, NEW l \in Loops, PruneRegistries, current_registry' = l
    PROVE  TableInv'
<1> DEFINE D == Prunable(registries)
<1>1. /\ RemoveAll(registries, D)
      /\ UNCHANGED <<queue, fd_waits, next_id, handle>>
  BY DEF PruneRegistries
<1>2. registries \in [DOMAIN registries -> BOOLEAN]
  BY DEF TableInv, TypeOK
<1>3. D \subseteq DOMAIN registries /\ \A x \in D : ~registries[x]
  BY PrunableWithoutRef DEF MayGo
<1> HIDE DEF D
<1>4. /\ ForestOK'
      /\ DOMAIN registries' = DOMAIN registries \ D
      /\ \A x \in DOMAIN registries' : registries'[x] = registries[x]
      /\ registries' \in [DOMAIN registries' -> BOOLEAN]
      /\ parent' \in [Loops -> Loops \cup {NoLoop}]
      /\ children' \in [Loops -> SUBSET Loops]
  BY <1>1, <1>2, <1>3, RemoveAllKeepsForest DEF TableInv
<1>5. TypeOK'
  BY <1>1, <1>4 DEF TableInv, TypeOK
<1>6. RefsOK'
  BY <1>1, <1>3, <1>4 DEF TableInv, RefsOK, Exists
<1> QED
  BY <1>4, <1>5, <1>6 DEF TableInv

LEMMA CollectHandleInv ==
    ASSUME TableInv, NEW l \in Loops, CollectHandle(l)
    PROVE  TableInv'
<1>1. /\ l # GLOBAL_LOOP
      /\ handle' = [handle EXCEPT ![l] = "gone"]
      /\ UNCHANGED <<queue, fd_waits, next_id, current_registry>>
  BY DEF CollectHandle
<1>2. handle' \in [Loops -> {"none", "live", "gone"}]
  BY <1>1 DEF TableInv, TypeOK
<1>3. CASE l # current_registry /\ Exists(l) /\ registries[l]
  <2> DEFINE regs == [registries EXCEPT ![l] = FALSE]
             D == Prunable(regs)
  <2>1. RemoveAll(regs, D)
    BY <1>3 DEF CollectHandle
  <2>2. /\ regs \in [DOMAIN registries -> BOOLEAN]
        /\ DOMAIN regs = DOMAIN registries
        /\ \A x \in DOMAIN registries : x # l => regs[x] = registries[x]
    BY DEF TableInv, TypeOK
  <2>3. D \subseteq DOMAIN registries /\ \A x \in D : ~regs[x]
    BY <2>2, PrunableWithoutRef DEF MayGo
  <2> HIDE DEF D, regs
  <2>4. /\ ForestOK'
        /\ DOMAIN registries' = DOMAIN registries \ D
        /\ \A x \in DOMAIN registries' : registries'[x] = regs[x]
        /\ registries' \in [DOMAIN registries' -> BOOLEAN]
        /\ parent' \in [Loops -> Loops \cup {NoLoop}]
        /\ children' \in [Loops -> SUBSET Loops]
    BY <1>1, <2>1, <2>2, <2>3, RemoveAllKeepsForest DEF TableInv
  <2>5. TypeOK'
    BY <1>1, <1>2, <2>4 DEF TableInv, TypeOK
  <2>6. RefsOK'
    <3>1. GLOBAL_LOOP \in DOMAIN registries /\ registries[GLOBAL_LOOP]
      BY DEF TableInv, RefsOK, Exists
    <3>2. GLOBAL_LOOP \notin D
      BY <1>1, <2>2, <2>3, <3>1
    <3>3. handle'[l] = "gone" /\ \A x \in Loops : x # l => handle'[x] = handle[x]
      BY <1>1 DEF TableInv, TypeOK
    <3>4. DOMAIN registries \subseteq Loops
      BY DEF TableInv, TypeOK
    <3> QED
      BY <1>1, <2>2, <2>4, <3>1, <3>2, <3>3, <3>4 DEF TableInv, RefsOK, Exists
  <2> QED
    BY <2>4, <2>5, <2>6 DEF TableInv
<1>4. CASE ~(l # current_registry /\ Exists(l) /\ registries[l])
  <2>1. UNCHANGED <<registries, parent, children>>
    BY <1>4 DEF CollectHandle
  <2>2. TypeOK'
    BY <1>1, <1>2, <2>1 DEF TableInv, TypeOK
  <2>3. ForestOK'
    BY <1>1, <2>1 DEF TableInv, ForestOK, Exists
  <2>4. RefsOK'
    BY <1>1, <2>1 DEF TableInv, RefsOK, Exists, TypeOK
  <2> QED
    BY <2>2, <2>3, <2>4 DEF TableInv
<1> QED
  BY <1>3, <1>4

\* Adding and taking callbacks, counting waits and changing the current loop
\* touch neither the forest nor the references.
LEMMA RegistryStepInv ==
    ASSUME TableInv, NEW l \in Loops,
           \/ \E i \in Callbacks : Add(l, i) \/ Take(l, i)
           \/ FdWaitsIncr(l) \/ FdWaitsDecr(l)
           \/ SetCurrentRegistryId(l)
    PROVE  TableInv'
<1>1. UNCHANGED <<registries, parent, children, next_id, handle>>
  BY DEF Add, Take, FdWaitsIncr, FdWaitsDecr, SetCurrentRegistryId
<1>2. queue' \in [Loops -> SUBSET Callbacks]
  BY DEF Add, Take, FdWaitsIncr, FdWaitsDecr, SetCurrentRegistryId, TableInv,
         TypeOK
<1>3. fd_waits' \in [Loops -> 0..MaxFdWaits]
  BY TableAssumption
     DEF Add, Take, FdWaitsIncr, FdWaitsDecr, SetCurrentRegistryId, TableInv,
         TypeOK
<1>4. current_registry' \in Loops
  BY DEF Add, Take, FdWaitsIncr, FdWaitsDecr, SetCurrentRegistryId, TableInv,
         TypeOK
<1>5. TypeOK'
  BY <1>1, <1>2, <1>3, <1>4 DEF TableInv, TypeOK
<1>6. ForestOK' /\ RefsOK'
  BY <1>1 DEF TableInv, ForestOK, RefsOK, Exists
<1> QED
  BY <1>5, <1>6 DEF TableInv

LEMMA TableNextInv == TableInv /\ [TableNext]_tableVars => TableInv'
<1> SUFFICES ASSUME TableInv, [TableNext]_tableVars PROVE TableInv'
  OBVIOUS
<1>1. CASE \E p \in Loops \cup {NoLoop} : CreateLoop(p)
  BY <1>1, CreateLoopInv
<1>2. CASE \E l \in Loops : DestroyLoop(l)
  BY <1>2, DestroyLoopInv
<1>3. CASE \E l \in Loops : CollectHandle(l)
  BY <1>3, CollectHandleInv
<1>4. CASE \E l \in Loops : PruneRegistries /\ current_registry' = l
  BY <1>4, PruneRegistriesInv
<1>5. CASE \E l \in Loops, i \in Callbacks : Add(l, i) \/ Take(l, i)
  BY <1>5, RegistryStepInv
<1>6. CASE \E l \in Loops : FdWaitsIncr(l) \/ FdWaitsDecr(l)
  BY <1>6, RegistryStepInv
<1>7. CASE \E l \in Loops : SetCurrentRegistryId(l)
  BY <1>7, RegistryStepInv
<1>8. CASE UNCHANGED tableVars
  BY <1>8 DEF tableVars, TableInv, TypeOK, ForestOK, RefsOK, Exists
<1> QED
  BY <1>1, <1>2, <1>3, <1>4, <1>5, <1>6, <1>7, <1>8 DEF TableNext

\* The table of loops always has its types, is a forest whose children are
\* younger than their parents, and keeps the global loop and every loop that
\* R code can still reach by its handle (unless it is destroyed).
THEOREM TableInvariant == TableSpec => []TableInv
<1> QED
  BY TableInitInv, TableNextInv, PTL DEF TableSpec

\* ForestOK holds of the table for every number of loops and callbacks.
THEOREM TableForest == TableSpec => []ForestOK
<1>1. TableInv => ForestOK
  BY DEF TableInv
<1> QED
  BY <1>1, TableInvariant, PTL

\* RefsOK holds: getGlobalRegistry() always finds the global registry.
THEOREM TableRefs == TableSpec => []RefsOK
<1>1. TableInv => RefsOK
  BY DEF TableInv
<1> QED
  BY <1>1, TableInvariant, PTL

-----------------------------------------------------------------------------
(***************************************************************************)
(* Action properties.                                                      *)
(***************************************************************************)
\* A registry that may go once the pruned ones have gone is itself pruned.
LEMMA PrunableClosed ==
    ASSUME NEW regs, NEW x \in DOMAIN regs, MayGo(regs, Prunable(regs), x)
    PROVE  x \in Prunable(regs)
<1> SUFFICES ASSUME NEW S \in SUBSET DOMAIN regs,
                    \A y \in DOMAIN regs : MayGo(regs, S, y) => y \in S
             PROVE  x \in S
  BY DEF Prunable
<1>1. Prunable(regs) \subseteq S
  BY DEF Prunable
<1>2. MayGo(regs, S, x)
  BY <1>1 DEF MayGo
<1> QED
  BY <1>2

\* After the walk of pruneRegistries() a second walk finds nothing to remove.
LEMMA PruneOnce ==
    ASSUME TableInv, NEW regs, DOMAIN regs = DOMAIN registries,
           RemoveAll(regs, Prunable(regs)), UNCHANGED <<queue, fd_waits>>
    PROVE  Prunable(registries)' = {}
<1> DEFINE D == Prunable(regs)
<1>1. RemoveAll(regs, D)
  OBVIOUS
<1>2. D \subseteq DOMAIN registries
  BY PrunableWithoutRef
<1>3. \A x \in DOMAIN registries : MayGo(regs, D, x) => x \in D
  BY PrunableClosed
<1> HIDE DEF D
<1>4. /\ DOMAIN registries' = DOMAIN registries \ D
      /\ \A x \in DOMAIN registries' : registries'[x] = regs[x]
      /\ DOMAIN registries \subseteq Loops
  BY <1>1 DEF RemoveAll, TableInv, TypeOK
<1>5. \A x \in Loops : parent'[x] = IF \E p \in D : x \in children[p]
                                      THEN NoLoop ELSE parent[x]
  BY <1>1 DEF RemoveAll
<1>6. ASSUME NEW x \in DOMAIN registries',
             MayGo(registries, {}, x)'
      PROVE  FALSE
  <2>1. x \in DOMAIN registries /\ x \notin D /\ ~regs[x]
    BY <1>4, <1>6 DEF MayGo
  <2>2. Empty(x)' <=> Empty(x)
    BY <1>1 DEF Empty
  <2>3. CASE Empty(x)
    BY <1>3, <2>1, <2>3 DEF MayGo
  <2>4. CASE parent'[x] = NoLoop
    <3>1. parent[x] = NoLoop \/ \E p \in D : x \in children[p]
      BY <1>4, <1>5, <2>1, <2>4
    <3>2. ASSUME NEW p \in D, x \in children[p] PROVE parent[x] = p
      BY <1>2, <3>2 DEF TableInv, ForestOK
    <3>3. parent[x] = NoLoop \/ parent[x] \in D
      BY <3>1, <3>2
    <3> QED
      BY <1>3, <2>1, <3>3 DEF MayGo
  <2> QED
    BY <1>6, <2>2, <2>3, <2>4 DEF MayGo
<1>7. ASSUME NEW x \in Prunable(registries)' PROVE FALSE
  <2>1. {} \in SUBSET DOMAIN registries'
    OBVIOUS
  <2>2. (\A y \in DOMAIN registries' : MayGo(registries, {}, y)' => y \in {})
          => x \in {}
    BY <1>7, <2>1, Zenon DEF Prunable
  <2> QED
    BY <1>6, <2>2
<1> QED
  BY <1>7

\* pruneRegistries() settles in one walk, for every forest of loops.
THEOREM TablePruneSettles == TableSpec => PruneSettles
<1>1. ASSUME TableInv, PruneRegistries PROVE Prunable(registries)' = {}
  BY <1>1, PruneOnce DEF PruneRegistries
<1>2. ASSUME TableInv, NEW l \in Loops, CollectHandle(l), registries' # registries
      PROVE  Prunable(registries)' = {}
  <2> DEFINE regs == [registries EXCEPT ![l] = FALSE]
  <2>1. RemoveAll(regs, Prunable(regs)) /\ UNCHANGED <<queue, fd_waits>>
    BY <1>2 DEF CollectHandle
  <2>2. DOMAIN regs = DOMAIN registries
    OBVIOUS
  <2> HIDE DEF regs
  <2> QED
    BY <1>2, <2>1, <2>2, PruneOnce
<1>3. TableInv => (PruneRegistries \/ (\E l \in Loops : CollectHandle(l) /\ registries' # registries)
                     => Prunable(registries)' = {})
  BY <1>1, <1>2
<1> QED
  BY <1>3, TableInvariant, PTL DEF PruneSettles

\* A pruned registry has no work, or its parent is out of the table as well.
LEMMA PrunedIsLoose ==
    ASSUME TableInv,
           NEW regs \in [DOMAIN registries -> BOOLEAN],
           RemoveAll(regs, Prunable(regs)),
           NEW l \in DOMAIN registries, l \notin DOMAIN registries'
    PROVE  ~regs[l] /\ (Empty(l) \/ parent'[l] = NoLoop)
<1> DEFINE D == Prunable(regs)
<1>1. D \subseteq DOMAIN registries /\ \A x \in D : MayGo(regs, D, x)
  BY PrunableWithoutRef
<1> HIDE DEF D
<1>2. l \in D
  BY DEF RemoveAll, D
<1>3. l \in Loops /\ parent'[l] = IF \E p \in D : l \in children[p]
                                    THEN NoLoop ELSE parent[l]
  BY DEF RemoveAll, D, TableInv, TypeOK
<1>4. ~regs[l] /\ (Empty(l) \/ parent[l] = NoLoop \/ parent[l] \in D)
  BY <1>1, <1>2 DEF MayGo
<1>5. CASE parent[l] \in D
  <2>1. parent[l] # NoLoop
    BY <1>1, <1>5 DEF TableInv, TypeOK, Loops, NoLoop
  <2>2. l \in children[parent[l]]
    BY <2>1 DEF TableInv, ForestOK
  <2> QED
    BY <1>3, <1>4, <1>5, <2>2
<1> QED
  BY <1>3, <1>4, <1>5

LEMMA StepKeepsWork ==
    ASSUME TableInv, TableNext, NEW l \in DOMAIN registries,
           l \notin DOMAIN registries', ~DestroyLoop(l)
    PROVE  handle'[l] = "gone" /\ (Empty(l) \/ parent'[l] = NoLoop)
<1>1. /\ l \in Loops /\ handle \in [Loops -> {"none", "live", "gone"}]
      /\ handle[l] # "none" /\ (handle[l] = "live" => registries[l])
      /\ registries \in [DOMAIN registries -> BOOLEAN]
  BY DEF TableInv, TypeOK, RefsOK
<1>2. CASE \E p \in Loops \cup {NoLoop} : CreateLoop(p)
  BY <1>2 DEF CreateLoop, NewRegistry
<1>3. CASE \E x \in Loops : DestroyLoop(x)
  <2>1. PICK x \in Loops : DestroyLoop(x)
    BY <1>3
  <2>2. x # l
    BY <2>1
  <2> QED
    BY <2>1, <2>2 DEF DestroyLoop, RemoveAll
<1>4. CASE \E x \in Loops : CollectHandle(x)
  <2>1. PICK x \in Loops : CollectHandle(x)
    BY <1>4
  <2> DEFINE regs == [registries EXCEPT ![x] = FALSE]
  <2>2. RemoveAll(regs, Prunable(regs))
    BY <2>1 DEF CollectHandle
  <2>3. /\ regs \in [DOMAIN registries -> BOOLEAN]
        /\ \A y \in DOMAIN registries : y # x => regs[y] = registries[y]
    BY <1>1
  <2> HIDE DEF regs
  <2>4. ~regs[l] /\ (Empty(l) \/ parent'[l] = NoLoop)
    BY <2>2, <2>3, PrunedIsLoose
  <2>5. handle'[x] = "gone" /\ \A y \in Loops : y # x => handle'[y] = handle[y]
    BY <1>1, <2>1 DEF CollectHandle
  <2>6. CASE l = x
    BY <2>4, <2>5, <2>6
  <2>7. CASE l # x
    BY <1>1, <2>3, <2>4, <2>5, <2>7
  <2> QED
    BY <2>6, <2>7
<1>5. CASE PruneRegistries
  <2>1. RemoveAll(registries, Prunable(registries)) /\ handle' = handle
    BY <1>5 DEF PruneRegistries
  <2>2. ~registries[l] /\ (Empty(l) \/ parent'[l] = NoLoop)
    BY <1>1, <2>1, PrunedIsLoose
  <2> QED
    BY <1>1, <2>1, <2>2
<1>6. CASE \/ \E x \in Loops, i \in Callbacks : Add(x, i) \/ Take(x, i)
           \/ \E x \in Loops : FdWaitsIncr(x) \/ FdWaitsDecr(x)
           \/ \E x \in Loops : SetCurrentRegistryId(x)
  BY <1>6 DEF Add, Take, FdWaitsIncr, FdWaitsDecr, SetCurrentRegistryId
<1> QED
  BY <1>2, <1>3, <1>4, <1>5, <1>6 DEF TableNext

\* Loops with work are kept: only destroy_loop() takes a loop out of the table
\* whose handle is alive, or that has work and a parent to run it.
THEOREM TableWorkIsKept == TableSpec => WorkIsKept
<1> DEFINE Kept == \A l \in DOMAIN registries :
                     \/ l \in DOMAIN registries'
                     \/ DestroyLoop(l)
                     \/ /\ handle'[l] = "gone"
                        /\ Empty(l) \/ parent'[l] = NoLoop
<1>1. TableInv /\ [TableNext]_tableVars => [Kept]_tableVars
  <2> SUFFICES ASSUME TableInv, TableNext PROVE Kept
    OBVIOUS
  <2> QED
    BY StepKeepsWork
<1> QED
  BY <1>1, TableInvariant, PTL DEF WorkIsKept, TableSpec

-----------------------------------------------------------------------------
(***************************************************************************)
(* The one-step form of pruneRegistries() and its loop.  Induction over    *)
(* the iterations is a look at the first one that goes wrong.              *)
(***************************************************************************)
LEMMA LeastNat ==
    ASSUME NEW S \in SUBSET Nat, S # {}
    PROVE  \E m \in S : \A k \in S : m <= k
<1>1. PICK m \in S : \A k \in S : ~(<<k, m>> \in OpToRel(<, Nat))
  BY NatLessThanWellFounded, WFMin
<1>2. ASSUME NEW k \in S PROVE m <= k
  <2>1. ~(<<k, m>> \in OpToRel(<, Nat))
    BY <1>1
  <2>2. ~(k < m)
    BY <2>1 DEF OpToRel
  <2> QED
    BY <2>2
<1> QED
  BY <1>2

\* The table before the walk, and what the walk w makes of it up to id n.
WalkStart(regs) == [regs |-> regs, par |-> parent, kids |-> children]

Visit(regs, w, n) ==
    IF n = 0 THEN WalkStart(regs)
    ELSE IF n - 1 \in DOMAIN regs THEN PruneStep(w[n - 1], n - 1)
    ELSE w[n - 1]

Walk(regs) == CHOOSE w : w = [n \in 0 .. MaxLoop + 1 |-> Visit(regs, w, n)]

LEMMA WalkUpTo ==
    ASSUME NEW regs, NEW k \in Nat
    PROVE  \E w : w = [n \in 0 .. k |-> Visit(regs, w, n)]
<1> DEFINE Good(m) == \E w : w = [n \in 0 .. m |-> Visit(regs, w, n)]
           Bad == {m \in Nat : ~Good(m)}
<1>1. SUFFICES ASSUME Bad # {} PROVE FALSE
  OBVIOUS
<1>2. PICK m \in Bad : \A i \in Bad : m <= i
  <2>1. Bad \in SUBSET Nat
    OBVIOUS
  <2> HIDE DEF Bad
  <2> QED
    BY <1>1, <2>1, LeastNat
<1>3. m \in Nat /\ ~Good(m)
  BY <1>2
<1>4. \E g : g = [n \in 0 .. m - 1 |-> Visit(regs, g, n)]
  <2>1. CASE m = 0
    <3>1. 0 .. m - 1 = {}
      BY <2>1
    <3>2. \A g : [n \in 0 .. m - 1 |-> Visit(regs, g, n)] = [n \in {} |-> 0]
      BY <3>1
    <3> QED
      BY <3>2
  <2>2. CASE m # 0
    <3>1. m - 1 \in Nat /\ ~(m <= m - 1)
      BY <1>3, <2>2
    <3>2. m - 1 \notin Bad
      BY <1>2, <3>1
    <3> QED
      BY <3>1, <3>2
  <2> QED
    BY <2>1, <2>2
<1>5. PICK g : g = [n \in 0 .. m - 1 |-> Visit(regs, g, n)]
  BY <1>4
<1> DEFINE w == [n \in 0 .. m |-> Visit(regs, g, n)]
<1>6. \A n \in 0 .. m - 1 : w[n] = g[n]
  <2>1. \A n \in 0 .. m - 1 : n \in 0 .. m
    BY <1>3
  <2> QED
    BY <1>5, <2>1
<1>7. \A n \in 0 .. m : n # 0 => n - 1 \in 0 .. m - 1
  BY <1>3
<1>8. \A n \in 0 .. m : Visit(regs, w, n) = Visit(regs, g, n)
  <2> HIDE DEF w
  <2> QED
    BY <1>6, <1>7 DEF Visit
<1>9. w = [n \in 0 .. m |-> Visit(regs, w, n)]
  BY <1>8
<1> QED
  BY <1>3, <1>9

LEMMA WalkIsDefined ==
    ASSUME NEW regs
    PROVE  /\ Walk(regs) = [n \in 0 .. MaxLoop + 1 |-> Visit(regs, Walk(regs), n)]
           /\ PruneLoop(regs) = Walk(regs)[MaxLoop + 1]
<1>1. MaxLoop + 1 \in Nat
  BY TableAssumption
<1>2. \E w : w = [n \in 0 .. MaxLoop + 1 |-> Visit(regs, w, n)]
  BY <1>1, WalkUpTo
<1>3. Walk(regs) = [n \in 0 .. MaxLoop + 1 |-> Visit(regs, Walk(regs), n)]
  BY <1>2 DEF Walk
<1>4. PruneLoop(regs) = Walk(regs)[MaxLoop + 1]
  BY Zenon DEF PruneLoop, Walk, Visit, WalkStart
<1> QED
  BY <1>3, <1>4

\* Prunable is a fixed point: what it holds may go once all of it has gone.
LEMMA PrunableMayGo ==
    ASSUME NEW regs, NEW x \in DOMAIN regs
    PROVE  x \in Prunable(regs) <=> MayGo(regs, Prunable(regs), x)
<1> DEFINE P == Prunable(regs)
<1>1. P \subseteq DOMAIN regs
  BY DEF Prunable
<1>2. SUFFICES ASSUME x \in P, ~MayGo(regs, P, x) PROVE FALSE
  BY PrunableClosed
<1>3. ASSUME NEW y \in DOMAIN regs, MayGo(regs, P \ {x}, y) PROVE y \in P \ {x}
  <2>1. MayGo(regs, P, y)
    BY <1>3 DEF MayGo
  <2>2. y \in P
    BY <2>1, PrunableClosed
  <2> QED
    BY <1>2, <2>1, <2>2
<1>4. P \ {x} \in SUBSET DOMAIN regs
  BY <1>1
<1>5. x \in P \ {x}
  <2>1. x \in Prunable(regs)
    BY <1>2
  <2> QED
    BY <1>3, <1>4, <2>1, Zenon DEF Prunable
<1> QED
  BY <1>5

\* The table once the registries of D have been removed, parents first.
After(regs, D) ==
    [regs |-> [l \in DOMAIN regs \ D |-> regs[l]],
     par  |-> [l \in Loops |-> IF \E p \in D : l \in children[p]
                                 THEN NoLoop ELSE parent[l]],
     kids |-> [p \in Loops |->
                 IF p \in D THEN children[p]
                 ELSE {c \in children[p] : ~(c \in D /\ parent[c] = p)}]]

Below(D, n) == {x \in D : x < n}

\* One more iteration removes the next id, if it is to go at all.
LEMMA PruneNext ==
    ASSUME TypeOK, ForestOK, NEW regs \in [DOMAIN registries -> BOOLEAN],
           NEW n \in Loops
    PROVE  LET t == After(regs, Below(Prunable(regs), n))
           IN  (IF n \in DOMAIN regs THEN PruneStep(t, n) ELSE t)
                  = After(regs, Below(Prunable(regs), n + 1))
<1>1. PICK P : P = Prunable(regs)
  OBVIOUS
<1>2. /\ P \subseteq DOMAIN registries /\ DOMAIN registries \subseteq Loops
      /\ DOMAIN regs = DOMAIN registries
  BY <1>1 DEF Prunable, TypeOK
<1>3. \A x \in Loops : x \in Int /\ x # NoLoop
  BY TableAssumption DEF Loops, NoLoop
<1>4. PICK D : D = Below(P, n)
  OBVIOUS
<1>5. PICK E : E = Below(P, n + 1)
  OBVIOUS
<1>6. \A x \in P : x < n + 1 <=> x < n \/ x = n
  BY <1>2, <1>3
<1>7. E = IF n \in P THEN D \cup {n} ELSE D
  BY <1>4, <1>5, <1>6 DEF Below
<1>8. n \notin D /\ D \subseteq P /\ (\A x \in D : x < n)
  BY <1>2, <1>3, <1>4 DEF Below
<1>9. /\ \A p \in Loops : \A c \in children[p] : p < c /\ c \in Loops
      /\ \A l \in Loops : parent[l] < l /\ (parent[l] \in Loops \/ parent[l] = NoLoop)
      /\ \A l \in DOMAIN registries : parent[l] # NoLoop => l \in children[parent[l]]
      /\ \A p \in DOMAIN registries : \A c \in children[p] : parent[c] = p
  BY DEF TypeOK, ForestOK
<1> DEFINE t == After(regs, D)
<1>10. CASE n \notin DOMAIN regs
  BY <1>1, <1>2, <1>4, <1>5, <1>7, <1>10
<1>11. CASE n \in DOMAIN regs
  <2>1. t.regs[n] = regs[n]
    BY <1>8, <1>11 DEF After
  <2>2. t.par[n] = IF parent[n] \in D THEN NoLoop ELSE parent[n]
    <3>1. (\E p \in D : n \in children[p]) <=> parent[n] \in D
      BY <1>2, <1>3, <1>8, <1>9, <1>11
    <3> QED
      BY <3>1 DEF After
  <2>3. parent[n] \in P <=> parent[n] \in D
    BY <1>4, <1>9 DEF Below
  <2>4. n \in P <=> MayGo(regs, P, n)
    BY <1>1, <1>11, PrunableMayGo
  <2>5. n \in P <=> ~t.regs[n] /\ (Empty(n) \/ t.par[n] = NoLoop)
    <3> HIDE DEF t
    <3> QED
      BY <1>3, <2>1, <2>2, <2>3, <2>4 DEF MayGo
  <2>6. CASE n \notin P
    <3>1. PruneStep(t, n) = t
      <4> HIDE DEF t
      <4> QED
        BY <2>5, <2>6 DEF PruneStep
    <3> QED
      BY <1>1, <1>4, <1>5, <1>7, <1>11, <2>6, <3>1
  <2>7. CASE n \in P
    <3>1. PruneStep(t, n) = RemoveOne(t, n)
      <4> HIDE DEF t
      <4> QED
        BY <2>5, <2>7 DEF PruneStep
    <3>2. E = D \cup {n}
      BY <1>7, <2>7
    <3>3. t.kids[n] = children[n]
      <4>1. \A c \in children[n] : c \notin D
        BY <1>3, <1>8, <1>9
      <4>2. t.kids[n] = {c \in children[n] : ~(c \in D /\ parent[c] = n)}
        BY <1>8 DEF After
      <4> QED
        BY <4>1, <4>2
    <3>4. [x \in DOMAIN t.regs \ {n} |-> t.regs[x]] = [l \in DOMAIN regs \ E |-> regs[l]]
      BY <3>2 DEF After
    <3>5. [x \in Loops |-> IF x \in t.kids[n] THEN NoLoop ELSE t.par[x]]
            = [l \in Loops |-> IF \E p \in E : l \in children[p]
                                 THEN NoLoop ELSE parent[l]]
      <4>1. \A x \in Loops : t.par[x] = IF \E p \in D : x \in children[p]
                                          THEN NoLoop ELSE parent[x]
        BY DEF After
      <4> HIDE DEF t
      <4>2. \A x \in Loops : (\E p \in E : x \in children[p])
                               <=> x \in children[n] \/ \E p \in D : x \in children[p]
        BY <3>2
      <4> QED
        BY <3>3, <4>1, <4>2
    <3>6. [x \in Loops |-> IF x = t.par[n] THEN t.kids[x] \ {n} ELSE t.kids[x]]
            = [p \in Loops |->
                 IF p \in E THEN children[p]
                 ELSE {c \in children[p] : ~(c \in E /\ parent[c] = p)}]
      <4>1. \A x \in Loops :
              t.kids[x] = IF x \in D THEN children[x]
                          ELSE {c \in children[x] : ~(c \in D /\ parent[c] = x)}
        BY DEF After
      <4> HIDE DEF t
      <4>2. ASSUME NEW x \in Loops
            PROVE  (IF x = t.par[n] THEN t.kids[x] \ {n} ELSE t.kids[x])
                     = IF x \in E THEN children[x]
                       ELSE {c \in children[x] : ~(c \in E /\ parent[c] = x)}
        <5>1. CASE x = n
          <6>1. x # t.par[n]
            BY <1>3, <1>9, <2>2, <5>1
          <6> QED
            BY <3>2, <3>3, <5>1, <6>1
        <5>2. CASE x \in D
          <6>1. x # t.par[n]
            BY <1>3, <2>2, <5>2
          <6> QED
            BY <3>2, <4>1, <5>2, <6>1
        <5>3. CASE x # n /\ x \notin D /\ x = parent[n]
          <6>1. x = t.par[n] /\ x \notin E
            BY <2>2, <3>2, <5>3
          <6>2. {c \in children[x] : ~(c \in E /\ parent[c] = x)}
                  = {c \in children[x] : ~(c \in D /\ parent[c] = x)} \ {n}
            BY <3>2, <5>3
          <6> QED
            BY <4>1, <5>3, <6>1, <6>2
        <5>4. CASE x # n /\ x \notin D /\ x # parent[n]
          <6>1. x # t.par[n] /\ x \notin E
            BY <1>3, <2>2, <3>2, <5>4
          <6>2. {c \in children[x] : ~(c \in E /\ parent[c] = x)}
                  = {c \in children[x] : ~(c \in D /\ parent[c] = x)}
            BY <3>2, <5>4
          <6> QED
            BY <4>1, <5>4, <6>1, <6>2
        <5> QED
          BY <5>1, <5>2, <5>3, <5>4
      <4> QED
        BY <4>2
    <3>7. RemoveOne(t, n) = After(regs, E)
      <4> HIDE DEF t
      <4> QED
        BY <3>4, <3>5, <3>6 DEF RemoveOne, After
    <3> QED
      BY <1>1, <1>4, <1>5, <1>11, <3>1, <3>7
  <2> QED
    BY <2>6, <2>7
<1> QED
  BY <1>10, <1>11

LEMMA PruneWalk ==
    ASSUME TypeOK, ForestOK, NEW regs \in [DOMAIN registries -> BOOLEAN]
    PROVE  PruneLoop(regs) = After(regs, Prunable(regs))
<1>1. MaxLoop \in Nat /\ Loops = 0 .. MaxLoop
  BY TableAssumption DEF Loops
<1>2. PICK w : w = Walk(regs)
  OBVIOUS
<1>3. /\ \A n \in 0 .. MaxLoop + 1 : w[n] = Visit(regs, w, n)
      /\ PruneLoop(regs) = w[MaxLoop + 1]
  <2>1. w = [n \in 0 .. MaxLoop + 1 |-> Visit(regs, w, n)]
    BY <1>2, WalkIsDefined
  <2> QED
    BY <1>2, <2>1, WalkIsDefined
<1>4. Prunable(regs) \subseteq Loops
  BY DEF Prunable, TypeOK
<1> DEFINE Good(n) == w[n] = After(regs, Below(Prunable(regs), n))
           Bad == {n \in 0 .. MaxLoop + 1 : ~Good(n)}
<1>5. Bad = {}
  <2>1. SUFFICES ASSUME Bad # {} PROVE FALSE
    OBVIOUS
  <2>2. Bad \in SUBSET Nat
    OBVIOUS
  <2>3. PICK m \in Bad : \A i \in Bad : m <= i
    <3> HIDE DEF Bad
    <3> QED
      BY <2>1, <2>2, LeastNat
  <2>4. m \in 0 .. MaxLoop + 1 /\ ~Good(m)
    BY <2>3
  <2>5. CASE m = 0
    <3>1. Below(Prunable(regs), 0) = {}
      BY <1>1, <1>4 DEF Below
    <3>2. After(regs, {}) = WalkStart(regs)
      <4>1. /\ regs = [l \in DOMAIN regs |-> regs[l]]
            /\ parent = [l \in Loops |-> parent[l]]
            /\ children = [l \in Loops |-> children[l]]
        BY DEF TypeOK
      <4>2. /\ [l \in DOMAIN regs \ {} |-> regs[l]] = regs
            /\ [l \in Loops |-> IF \E p \in {} : l \in children[p]
                                  THEN NoLoop ELSE parent[l]] = parent
            /\ [p \in Loops |->
                  IF p \in {} THEN children[p]
                  ELSE {c \in children[p] : ~(c \in {} /\ parent[c] = p)}] = children
        BY <4>1
      <4> QED
        BY <4>2 DEF After, WalkStart
    <3>3. w[0] = WalkStart(regs)
      BY <1>3, <2>4, <2>5 DEF Visit
    <3> QED
      BY <2>4, <2>5, <3>1, <3>2, <3>3
  <2>6. CASE m # 0
    <3>1. /\ m - 1 \in Loops /\ m - 1 \in 0 .. MaxLoop + 1 /\ (m - 1) + 1 = m
          /\ ~(m <= m - 1)
      BY <1>1, <2>4, <2>6
    <3>2. Good(m - 1)
      BY <2>3, <3>1
    <3>3. w[m] = IF m - 1 \in DOMAIN regs THEN PruneStep(w[m - 1], m - 1) ELSE w[m - 1]
      BY <1>3, <2>4, <2>6 DEF Visit
    <3>4. w[m] = After(regs, Below(Prunable(regs), (m - 1) + 1))
      BY <3>1, <3>2, <3>3, PruneNext
    <3> QED
      BY <2>4, <3>1, <3>4
  <2> QED
    BY <2>5, <2>6
<1>6. Good(MaxLoop + 1)
  <2>1. MaxLoop + 1 \in 0 .. MaxLoop + 1
    BY <1>1
  <2> QED
    BY <1>5, <2>1
<1>7. Below(Prunable(regs), MaxLoop + 1) = Prunable(regs)
  <2>1. \A x \in Loops : x < MaxLoop + 1
    BY <1>1
  <2> QED
    BY <1>4, <2>1 DEF Below
<1> QED
  BY <1>3, <1>6, <1>7

\* The one-step pruneRegistries() is its loop, for every forest of loops.
THEOREM TablePruneIsTheLoop == TableSpec => PruneIsTheLoop
<1>1. ASSUME TableInv, NEW regs \in [DOMAIN registries -> BOOLEAN],
             RemoveAll(regs, Prunable(regs))
      PROVE  LoopLeaves(PruneLoop(regs))
  <2>1. PruneLoop(regs) = After(regs, Prunable(regs))
    BY <1>1, PruneWalk DEF TableInv
  <2> QED
    BY <1>1, <2>1 DEF LoopLeaves, After, RemoveAll
<1>2. ASSUME TableInv, PruneRegistries PROVE LoopLeaves(PruneLoop(registries))
  BY <1>1, <1>2 DEF PruneRegistries, TableInv, TypeOK
<1>3. ASSUME TableInv, NEW l \in Loops, CollectHandle(l), registries' # registries
      PROVE  LoopLeaves(PruneLoop([registries EXCEPT ![l] = FALSE]))
  <2>1. PICK regs : regs = [registries EXCEPT ![l] = FALSE]
    OBVIOUS
  <2>2. RemoveAll(regs, Prunable(regs))
    BY <1>3, <2>1 DEF CollectHandle
  <2>3. regs \in [DOMAIN registries -> BOOLEAN]
    BY <1>3, <2>1 DEF TableInv, TypeOK
  <2> QED
    BY <1>1, <1>3, <2>1, <2>2, <2>3
<1>4. TableInv =>
        /\ PruneRegistries => LoopLeaves(PruneLoop(registries))
        /\ \A l \in Loops :
             CollectHandle(l) /\ registries' # registries
               => LoopLeaves(PruneLoop([registries EXCEPT ![l] = FALSE]))
  BY <1>2, <1>3
<1> QED
  BY <1>4, TableInvariant, PTL DEF PruneIsTheLoop
=============================================================================
