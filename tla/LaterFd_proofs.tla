--------------------------- MODULE LaterFd_proofs ---------------------------
(***************************************************************************)
(* Proofs about later_fd(), for any number of waits and loops.             *)
(***************************************************************************)
EXTENDS LaterFd, SequenceTheorems, FiniteSetTheorems, TLAPS

(***************************************************************************)
(* The inductive invariant: the flag tells whether an outcome is promised, *)
(* and a ThreadArgs is in one place only, the one that owns it.            *)
(***************************************************************************)
Held(l) == {w \in Waits : loop[w] = l /\ owner[w] \in Living}
FlagOK == \A w \in Waits : active[w] <=> outcome[w] = "none"
QueueOK == \A l \in Loops : \A w \in queue[l] : loop[w] = l /\ owner[w] = "queue"
StackOK ==
    /\ \A k \in 1 .. Len(stack) : owner[stack[k]] = "callback"
    /\ \A j, k \in 1 .. Len(stack) : stack[j] = stack[k] => j = k
    /\ \A w \in Waits : owner[w] = "callback" => outcome[w] = "ran"
LaterFdInv == TypeOK /\ FlagOK /\ QueueOK /\ StackOK /\ FdWaitsCount

-----------------------------------------------------------------------------
(***************************************************************************)
(* Counting.                                                               *)
(***************************************************************************)
LEMMA HeldIsFinite ==
    ASSUME NEW l
    PROVE  /\ IsFiniteSet(Held(l))
           /\ Cardinality(Held(l)) \in 0 .. Cardinality(Waits)
<1>1. Held(l) \subseteq Waits /\ IsFiniteSet(Waits)
  BY LaterFdAssumption DEF Held
<1>2. /\ IsFiniteSet(Held(l))
      /\ Cardinality(Held(l)) <= Cardinality(Waits)
  BY <1>1, FS_Subset
<1>3. Cardinality(Held(l)) \in Nat /\ Cardinality(Waits) \in Nat
  BY <1>1, <1>2, FS_CardinalityType
<1> QED
  BY <1>2, <1>3

\* The same after a step, for fd_waits to keep its type.
LEMMA CountIsTyped ==
    ASSUME FdWaitsCount', NEW l \in Loops
    PROVE  fd_waits'[l] \in 0 .. Cardinality(Waits)
<1>1. Held(l)' \subseteq Waits /\ IsFiniteSet(Waits)
  BY LaterFdAssumption DEF Held
<1>2. /\ IsFiniteSet(Held(l)')
      /\ Cardinality(Held(l)') <= Cardinality(Waits)
  BY <1>1, FS_Subset
<1>3. Cardinality(Held(l)') \in Nat /\ Cardinality(Waits) \in Nat
  BY <1>1, <1>2, FS_CardinalityType
<1>4. fd_waits'[l] = Cardinality(Held(l)')
  BY DEF FdWaitsCount, Held
<1> QED
  BY <1>2, <1>3, <1>4

\* A ThreadArgs is made.
LEMMA CountGrows ==
    ASSUME LaterFdInv, NEW w \in Waits, NEW l \in Loops, NEW t, NEW o \in Living,
           NewThreadArgs(w, l, t), owner' = [owner EXCEPT ![w] = o]
    PROVE  FdWaitsCount'
<1>1. w \notin Held(l)
  BY DEF NewThreadArgs, Held, Living, Pending
<1>2. Held(l)' = Held(l) \cup {w}
  BY DEF NewThreadArgs, Held, LaterFdInv, TypeOK
<1>3. \A x \in Loops \ {l} : Held(x)' = Held(x)
  BY DEF NewThreadArgs, Held, LaterFdInv, TypeOK, Living, Pending
<1>4. Cardinality(Held(l)') = Cardinality(Held(l)) + 1
  BY <1>1, <1>2, HeldIsFinite, FS_AddElement
<1>5. /\ fd_waits'[l] = fd_waits[l] + 1
      /\ \A x \in Loops \ {l} : fd_waits'[x] = fd_waits[x]
  BY DEF NewThreadArgs, LaterFdInv, TypeOK
<1>6. \A x \in Loops : fd_waits[x] = Cardinality(Held(x))
  BY DEF LaterFdInv, FdWaitsCount, Held
<1>7. \A x \in Loops : fd_waits'[x] = Cardinality(Held(x)')
  <2>1. fd_waits'[l] = Cardinality(Held(l)')
    BY <1>4, <1>5, <1>6
  <2>2. ASSUME NEW x \in Loops, x # l
        PROVE  fd_waits'[x] = Cardinality(Held(x)')
    BY <1>3, <1>5, <1>6, <2>2
  <2> QED
    BY <2>1, <2>2
<1> QED
  BY <1>7 DEF FdWaitsCount, Held

\* A ThreadArgs is destroyed.
LEMMA CountShrinks ==
    ASSUME LaterFdInv, NEW w \in Waits, owner[w] \in Living,
           NEW by \in {"main freed", "thread freed"}, Destroy(w, by), UNCHANGED loop
    PROVE  FdWaitsCount'
<1>1. loop[w] \in Loops /\ w \in Held(loop[w])
  BY DEF LaterFdInv, TypeOK, Held
<1>2. by \notin Living
  BY DEF Living, Pending
<1>3. ASSUME NEW x \in Loops
      PROVE  Held(x)' = IF x = loop[w] THEN Held(x) \ {w} ELSE Held(x)
  BY <1>2, <1>3 DEF Destroy, Held, LaterFdInv, TypeOK
<1>4. Cardinality(Held(loop[w]) \ {w}) = Cardinality(Held(loop[w])) - 1
  BY <1>1, HeldIsFinite, FS_RemoveElement
<1>5. \A x \in Loops : fd_waits[x] = Cardinality(Held(x))
  BY DEF LaterFdInv, FdWaitsCount, Held
<1>6. /\ fd_waits'[loop[w]] = fd_waits[loop[w]] - 1
      /\ \A x \in Loops : x # loop[w] => fd_waits'[x] = fd_waits[x]
  BY <1>1 DEF Destroy, LaterFdInv, TypeOK
<1>7. ASSUME NEW x \in Loops
      PROVE  fd_waits'[x] = Cardinality(Held(x)')
  <2>1. CASE x = loop[w]
    BY <1>3, <1>4, <1>5, <1>6, <2>1
  <2>2. CASE x # loop[w]
    BY <1>3, <1>5, <1>6, <2>2
  <2> QED
    BY <2>1, <2>2
<1> QED
  BY <1>7 DEF FdWaitsCount, Held

\* A ThreadArgs changes hands.
LEMMA CountStays ==
    ASSUME LaterFdInv, UNCHANGED <<fd_waits, loop>>,
           \A w \in Waits : owner'[w] \in Living <=> owner[w] \in Living
    PROVE  FdWaitsCount'
<1>1. \A l \in Loops : Held(l)' = Held(l)
  BY DEF Held
<1> QED
  BY <1>1 DEF LaterFdInv, FdWaitsCount, Held

-----------------------------------------------------------------------------
(***************************************************************************)
(* The stack of callbacks.                                                 *)
(***************************************************************************)
LEMMA PushStack ==
    ASSUME stack \in Seq(Waits), NEW w \in Waits, stack' = Append(stack, w)
    PROVE  /\ stack' \in Seq(Waits)
           /\ stack'[Len(stack) + 1] = w
           /\ \A k \in 1 .. Len(stack) : stack'[k] = stack[k]
           /\ \A k \in 1 .. Len(stack') : k \in 1 .. Len(stack) \/ k = Len(stack) + 1
<1>1. /\ stack' \in Seq(Waits)
      /\ Len(stack') = Len(stack) + 1
      /\ stack'[Len(stack) + 1] = w
      /\ \A k \in 1 .. Len(stack) : stack'[k] = stack[k]
  BY AppendProperties
<1>2. Len(stack) \in Nat
  BY LenProperties
<1> QED
  BY <1>1, <1>2

LEMMA PopStack ==
    ASSUME stack \in Seq(Waits), stack # <<>>, stack' = SubSeq(stack, 1, Len(stack) - 1)
    PROVE  /\ stack' \in Seq(Waits)
           /\ Len(stack) \in 1 .. Len(stack)
           /\ \A k \in 1 .. Len(stack') :
                 k \in 1 .. Len(stack) /\ k # Len(stack) /\ stack'[k] = stack[k]
<1>1. Len(stack) \in Nat /\ Len(stack) # 0
  BY EmptySeq, LenProperties
<1>2. \A k \in 1 .. Len(stack) - 1 : stack[k] \in Waits
  BY <1>1, LenProperties
<1>3. ASSUME NEW n \in Nat, n = Len(stack) - 1
      PROVE  /\ SubSeq(stack, 1, n) \in Seq(Waits)
             /\ Len(SubSeq(stack, 1, n)) = n
             /\ \A k \in 1 .. n : SubSeq(stack, 1, n)[k] = stack[k]
  BY <1>2, <1>3, SubSeqProperties
<1>4. Len(stack) - 1 \in Nat
  BY <1>1
<1> QED
  BY <1>1, <1>3, <1>4

-----------------------------------------------------------------------------
(***************************************************************************)
(* Every step preserves the invariant.                                     *)
(***************************************************************************)
LEMMA NewThreadArgsKeeps ==
    ASSUME LaterFdInv, NEW w \in Waits, NEW l \in Loops, NEW t \in Timeouts,
           NEW o \in {"poll", "failed"},
           NewThreadArgs(w, l, t), owner' = [owner EXCEPT ![w] = o]
    PROVE  LaterFdInv'
<1>1. o \in Living /\ o \in Owners
  BY DEF Living, Pending, Owners
<1>2. FdWaitsCount'
  BY <1>1, CountGrows
<1>3. \A x \in Loops : fd_waits'[x] \in 0 .. Cardinality(Waits)
  BY <1>2, CountIsTyped
<1>4. Deadline(t) \in Int
  BY LaterFdAssumption DEF Deadline, LaterFdInv, TypeOK
<1>5. TypeOK'
  BY <1>1, <1>3, <1>4 DEF LaterFdInv, TypeOK, NewThreadArgs, tableVars
<1>6. FlagOK'
  BY DEF LaterFdInv, FlagOK, NewThreadArgs
<1>7. QueueOK'
  BY DEF LaterFdInv, QueueOK, NewThreadArgs, TypeOK
<1>8. StackOK'
  <2>1. \A k \in 1 .. Len(stack) : stack[k] \in Waits
    BY DEF LaterFdInv, TypeOK
  <2> QED
    BY <2>1 DEF LaterFdInv, StackOK, NewThreadArgs, TypeOK
<1> QED
  BY <1>2, <1>5, <1>6, <1>7, <1>8 DEF LaterFdInv

LEMMA PollCancelledKeeps ==
    ASSUME LaterFdInv, NEW w \in Waits, PollCancelled(w)
    PROVE  LaterFdInv'
<1>1. owner[w] \in Living
  BY DEF PollCancelled, Living, Pending
<1>2. FdWaitsCount'
  BY <1>1, CountShrinks DEF PollCancelled, argsVars
<1>3. \A x \in Loops : fd_waits'[x] \in 0 .. Cardinality(Waits)
  BY <1>2, CountIsTyped
<1>4. TypeOK'
  BY <1>3 DEF LaterFdInv, TypeOK, PollCancelled, Destroy, Owners, tableVars, argsVars
<1>5. FlagOK'
  BY DEF LaterFdInv, FlagOK, PollCancelled
<1>6. QueueOK'
  BY DEF LaterFdInv, QueueOK, PollCancelled, Destroy, TypeOK, argsVars
<1>7. StackOK'
  <2>1. \A k \in 1 .. Len(stack) : stack[k] \in Waits
    BY DEF LaterFdInv, TypeOK
  <2> QED
    BY <2>1 DEF LaterFdInv, StackOK, PollCancelled, Destroy, TypeOK
<1> QED
  BY <1>2, <1>4, <1>5, <1>6, <1>7 DEF LaterFdInv

LEMMA PollOverKeeps ==
    ASSUME LaterFdInv, NEW w \in Waits, NEW r \in {"FALSE", "TRUE", "NA"}, PollOver(w, r)
    PROVE  LaterFdInv'
<1>1. FdWaitsCount'
  BY CountStays DEF PollOver, Living, Pending, LaterFdInv, TypeOK, argsVars
<1>2. TypeOK'
  BY DEF LaterFdInv, TypeOK, PollOver, Owners, Living, Pending, tableVars, argsVars
<1>3. FlagOK'
  BY DEF LaterFdInv, FlagOK, PollOver
<1>4. QueueOK'
  BY DEF LaterFdInv, QueueOK, PollOver, TypeOK, argsVars
<1>5. StackOK'
  <2>1. \A k \in 1 .. Len(stack) : stack[k] \in Waits
    BY DEF LaterFdInv, TypeOK
  <2> QED
    BY <2>1 DEF LaterFdInv, StackOK, PollOver, TypeOK
<1> QED
  BY <1>1, <1>2, <1>3, <1>4, <1>5 DEF LaterFdInv

LEMMA ThreadSchedulesKeeps ==
    ASSUME LaterFdInv, NEW w \in Waits, ThreadSchedules(w)
    PROVE  LaterFdInv'
<1>1. PICK o \in {"queue", "leaked"} : owner' = [owner EXCEPT ![w] = o]
  BY DEF ThreadSchedules
<1>2. /\ loop[w] \in Loops
      /\ \/ o = "queue" /\ queue' = [queue EXCEPT ![loop[w]] = @ \cup {w}]
         \/ queue' = queue
  <2>1. loop[w] \in Loops
    BY DEF LaterFdInv, TypeOK
  <2>2. owner'[w] = o
    BY <1>1 DEF LaterFdInv, TypeOK
  <2>3. CASE loop[w] \in registries
    <3>1. owner'[w] = "queue"
      BY <2>3 DEF ThreadSchedules, LaterFdInv, TypeOK
    <3> QED
      BY <2>1, <2>2, <2>3, <3>1 DEF ThreadSchedules
  <2>4. CASE loop[w] \notin registries
    BY <2>1, <2>4 DEF ThreadSchedules
  <2> QED
    BY <2>3, <2>4
<1>3. FdWaitsCount'
  BY <1>1, CountStays DEF ThreadSchedules, Living, Pending, LaterFdInv, TypeOK, argsVars
<1>4. TypeOK'
  <2>1. owner' \in [Waits -> Owners]
    BY <1>1 DEF LaterFdInv, TypeOK, Owners, Living, Pending
  <2>2. queue' \in [Loops -> SUBSET Waits]
    <3>1. CASE queue' = [queue EXCEPT ![loop[w]] = @ \cup {w}]
      BY <1>2, <3>1 DEF LaterFdInv, TypeOK
    <3>2. CASE queue' = queue
      BY <3>2 DEF LaterFdInv, TypeOK
    <3> QED
      BY <1>2, <3>1, <3>2
  <2> QED
    BY <2>1, <2>2 DEF LaterFdInv, TypeOK, ThreadSchedules, tableVars, argsVars
<1>5. FlagOK'
  BY DEF LaterFdInv, FlagOK, ThreadSchedules
<1>6. QueueOK'
  <2>1. w \notin UNION {queue[l] : l \in Loops}
    BY DEF LaterFdInv, QueueOK, ThreadSchedules
  <2>2. ASSUME NEW l \in Loops, NEW x \in queue'[l]
        PROVE  loop[x] = l /\ owner'[x] = "queue"
    <3>1. x \in queue[l] \/ (o = "queue" /\ x = w /\ l = loop[w])
      BY <1>2, <2>2 DEF LaterFdInv, TypeOK
    <3>2. CASE x \in queue[l]
      <4>1. x # w /\ x \in Waits
        BY <2>1, <3>2 DEF LaterFdInv, TypeOK
      <4> QED
        BY <1>1, <3>2, <4>1 DEF LaterFdInv, QueueOK, TypeOK
    <3>3. CASE o = "queue" /\ x = w /\ l = loop[w]
      BY <1>1, <3>3 DEF LaterFdInv, TypeOK
    <3> QED
      BY <3>1, <3>2, <3>3
  <2>3. loop' = loop
    BY DEF ThreadSchedules, argsVars
  <2> QED
    BY <2>2, <2>3 DEF QueueOK
<1>7. StackOK'
  <2>1. \A k \in 1 .. Len(stack) : stack[k] \in Waits
    BY DEF LaterFdInv, TypeOK
  <2> QED
    BY <1>1, <2>1 DEF LaterFdInv, StackOK, ThreadSchedules, TypeOK
<1> QED
  BY <1>3, <1>4, <1>5, <1>6, <1>7 DEF LaterFdInv

LEMMA LaterCallbackKeeps ==
    ASSUME LaterFdInv, NEW w \in Waits, LaterCallback(w)
    PROVE  LaterFdInv'
<1>1. loop[w] \in Loops /\ owner[w] = "queue"
  BY DEF LaterFdInv, TypeOK, QueueOK, LaterCallback
<1>2. \A k \in 1 .. Len(stack) : stack[k] \in Waits /\ stack[k] # w
  BY <1>1 DEF LaterFdInv, TypeOK, StackOK
<1>3. queue' \in [Loops -> SUBSET Waits] /\ \A l \in Loops : queue'[l] \subseteq queue[l]
  BY <1>1 DEF LaterFdInv, TypeOK, LaterCallback
<1>4. \A l \in Loops : w \notin queue'[l]
  BY <1>1 DEF LaterFdInv, TypeOK, QueueOK, LaterCallback
<1>5. PICK o \in {"callback", "main freed"} : owner' = [owner EXCEPT ![w] = o]
  BY DEF LaterCallback, Destroy
<1>6. QueueOK'
  <2>1. ASSUME NEW l \in Loops, NEW x \in queue'[l]
        PROVE  loop[x] = l /\ owner'[x] = "queue"
    <3>1. x \in queue[l] /\ x # w /\ x \in Waits
      BY <1>3, <1>4, <2>1
    <3> QED
      BY <1>5, <3>1 DEF LaterFdInv, QueueOK, TypeOK
  <2>2. loop' = loop
    BY DEF LaterCallback, argsVars
  <2> QED
    BY <2>1, <2>2 DEF QueueOK
<1>7. CASE active[w]
  <2>1. /\ owner' = [owner EXCEPT ![w] = "callback"]
        /\ active' = [active EXCEPT ![w] = FALSE]
        /\ outcome' = [outcome EXCEPT ![w] = "ran"]
        /\ stack' = Append(stack, w)
        /\ UNCHANGED <<tableVars, fd_waits, argsVars, results, fds, now>>
    BY <1>7 DEF LaterCallback
  <2>2. FdWaitsCount'
    BY <1>1, <2>1, CountStays DEF Living, Pending, LaterFdInv, TypeOK, argsVars
  <2>3. /\ stack' \in Seq(Waits)
        /\ stack'[Len(stack) + 1] = w
        /\ \A k \in 1 .. Len(stack) : stack'[k] = stack[k]
        /\ \A k \in 1 .. Len(stack') : k \in 1 .. Len(stack) \/ k = Len(stack) + 1
    BY <2>1, PushStack DEF LaterFdInv, TypeOK
  <2>4. TypeOK'
    <3>1. /\ owner' \in [Waits -> Owners]
          /\ active' \in [Waits -> BOOLEAN]
          /\ outcome' \in [Waits -> {"none", "ran", "cancelled"}]
      BY <2>1 DEF LaterFdInv, TypeOK, Owners, Living, Pending
    <3> QED
      BY <1>3, <2>1, <2>3, <3>1 DEF LaterFdInv, TypeOK, tableVars, argsVars
  <2>5. FlagOK'
    BY <2>1 DEF LaterFdInv, FlagOK, TypeOK
  <2>6. StackOK'
    <3>1. ASSUME NEW k \in 1 .. Len(stack')
          PROVE  owner'[stack'[k]] = "callback"
      <4>1. CASE k \in 1 .. Len(stack)
        <5>1. stack'[k] = stack[k] /\ stack[k] \in Waits /\ stack[k] # w
          BY <1>2, <2>3, <4>1
        <5>2. owner[stack[k]] = "callback"
          BY <4>1 DEF LaterFdInv, StackOK
        <5> QED
          BY <2>1, <5>1, <5>2 DEF LaterFdInv, TypeOK
      <4>2. CASE k = Len(stack) + 1
        BY <2>1, <2>3, <4>2 DEF LaterFdInv, TypeOK
      <4> QED
        BY <2>3, <4>1, <4>2
    <3>2. ASSUME NEW j \in 1 .. Len(stack'), NEW k \in 1 .. Len(stack'), stack'[j] = stack'[k]
          PROVE  j = k
      <4>1. CASE j \in 1 .. Len(stack) /\ k \in 1 .. Len(stack)
        BY <2>3, <3>2, <4>1 DEF LaterFdInv, StackOK
      <4>2. CASE j = Len(stack) + 1 /\ k \in 1 .. Len(stack)
        BY <1>2, <2>3, <3>2, <4>2
      <4>3. CASE j \in 1 .. Len(stack) /\ k = Len(stack) + 1
        BY <1>2, <2>3, <3>2, <4>3
      <4> QED
        BY <2>3, <4>1, <4>2, <4>3
    <3>3. \A x \in Waits : owner'[x] = "callback" => outcome'[x] = "ran"
      BY <2>1 DEF LaterFdInv, StackOK, TypeOK
    <3> QED
      BY <3>1, <3>2, <3>3 DEF StackOK
  <2> QED
    BY <1>6, <2>2, <2>4, <2>5, <2>6 DEF LaterFdInv
<1>8. CASE ~active[w]
  <2>1. /\ Destroy(w, "main freed")
        /\ UNCHANGED <<tableVars, argsVars, active, outcome, stack, results, fds, now>>
    BY <1>8 DEF LaterCallback
  <2>2. FdWaitsCount'
    BY <1>1, <2>1, CountShrinks DEF Living, Pending, argsVars
  <2>3. \A x \in Loops : fd_waits'[x] \in 0 .. Cardinality(Waits)
    BY <2>2, CountIsTyped
  <2>4. TypeOK'
    BY <1>3, <2>1, <2>3 DEF LaterFdInv, TypeOK, Destroy, Owners, tableVars, argsVars
  <2>5. FlagOK'
    BY <2>1 DEF LaterFdInv, FlagOK
  <2>6. StackOK'
    BY <1>2, <2>1 DEF LaterFdInv, StackOK, Destroy, TypeOK
  <2> QED
    BY <1>6, <2>2, <2>4, <2>5, <2>6 DEF LaterFdInv
<1> QED
  BY <1>7, <1>8

LEMMA CallbackEndsKeeps ==
    ASSUME LaterFdInv, CallbackEnds
    PROVE  LaterFdInv'
<1>1. /\ stack' \in Seq(Waits)
      /\ Len(stack) \in 1 .. Len(stack)
      /\ \A k \in 1 .. Len(stack') :
            k \in 1 .. Len(stack) /\ k # Len(stack) /\ stack'[k] = stack[k]
  BY PopStack DEF LaterFdInv, TypeOK, CallbackEnds
<1>2. \A k \in 1 .. Len(stack) : stack[k] \in Waits /\ owner[stack[k]] = "callback"
  BY DEF LaterFdInv, TypeOK, StackOK
<1>3. PICK w \in Waits : w = stack[Len(stack)]
  BY <1>1, <1>2
<1>4. owner[w] = "callback"
  BY <1>1, <1>2, <1>3
<1>5. /\ Destroy(w, "main freed")
      /\ UNCHANGED <<tableVars, queue, argsVars, active, results, fds, outcome, now>>
  BY <1>3 DEF CallbackEnds
<1>6. FdWaitsCount'
  BY <1>4, <1>5, CountShrinks DEF Living, Pending, argsVars
<1>7. \A x \in Loops : fd_waits'[x] \in 0 .. Cardinality(Waits)
  BY <1>6, CountIsTyped
<1>8. TypeOK'
  BY <1>1, <1>5, <1>7 DEF LaterFdInv, TypeOK, Destroy, Owners, tableVars, argsVars
<1>9. FlagOK'
  BY <1>5 DEF LaterFdInv, FlagOK
<1>10. QueueOK'
  BY <1>4, <1>5 DEF LaterFdInv, QueueOK, Destroy, TypeOK, argsVars
<1>11. StackOK'
  <2>1. ASSUME NEW k \in 1 .. Len(stack')
        PROVE  owner'[stack'[k]] = "callback"
    <3>1. stack[k] \in Waits /\ stack[k] # w /\ stack'[k] = stack[k]
      BY <1>1, <1>2, <1>3, <2>1 DEF LaterFdInv, StackOK
    <3>2. owner[stack[k]] = "callback"
      BY <1>1, <1>2, <2>1
    <3> QED
      BY <1>5, <3>1, <3>2 DEF LaterFdInv, TypeOK, Destroy
  <2>2. \A j, k \in 1 .. Len(stack') : stack'[j] = stack'[k] => j = k
    BY <1>1 DEF LaterFdInv, StackOK
  <2>3. \A x \in Waits : owner'[x] = "callback" => outcome'[x] = "ran"
    BY <1>5 DEF LaterFdInv, StackOK, TypeOK, Destroy
  <2> QED
    BY <2>1, <2>2, <2>3 DEF StackOK
<1> QED
  BY <1>6, <1>8, <1>9, <1>10, <1>11 DEF LaterFdInv

LEMMA FdCancelKeeps ==
    ASSUME LaterFdInv, NEW w \in Waits, FdCancel(w)
    PROVE  LaterFdInv'
<1>1. FdWaitsCount'
  BY CountStays DEF FdCancel, argsVars
<1>2. TypeOK'
  BY DEF LaterFdInv, TypeOK, FdCancel, tableVars, argsVars
<1>3. FlagOK'
  BY DEF LaterFdInv, FlagOK, FdCancel, TypeOK
<1>4. QueueOK'
  BY DEF LaterFdInv, QueueOK, FdCancel, argsVars
<1>5. owner[w] # "callback"
  BY DEF LaterFdInv, FlagOK, StackOK, FdCancel
<1>6. StackOK'
  BY <1>5 DEF LaterFdInv, StackOK, FdCancel, TypeOK
<1> QED
  BY <1>1, <1>2, <1>3, <1>4, <1>6 DEF LaterFdInv

\* A step of the table, of the descriptors or of the clock.
LEMMA OthersKeep ==
    ASSUME LaterFdInv, TypeOK',
           UNCHANGED <<queue, fd_waits, owner, argsVars, active, outcome, stack>>
    PROVE  LaterFdInv'
<1>1. FdWaitsCount'
  BY CountStays DEF argsVars
<1> QED
  BY <1>1 DEF LaterFdInv, FlagOK, QueueOK, StackOK, argsVars

LEMMA TableStepsKeep ==
    ASSUME LaterFdInv,
           \/ \E l \in Loops : DestroyLoop(l) \/ CollectHandle(l)
           \/ ExecCallbacksEnds
    PROVE  LaterFdInv'
<1>1. /\ registries' \subseteq registries
      /\ handle' \subseteq handle
      /\ UNCHANGED <<queue, fd_waits, owner, argsVars, active, results, fds, outcome,
                     stack, now>>
  BY DEF DestroyLoop, CollectHandle, ExecCallbacksEnds
<1>2. TypeOK'
  BY <1>1 DEF LaterFdInv, TypeOK, argsVars
<1> QED
  BY <1>1, <1>2, OthersKeep

-----------------------------------------------------------------------------
LEMMA LaterFdInitial ==
    ASSUME Init
    PROVE  LaterFdInv
<1>1. TypeOK
  <2>1. (CHOOSE l \in Loops : TRUE) \in Loops
    BY LaterFdAssumption
  <2>2. Cardinality(Waits) \in Nat
    BY LaterFdAssumption, FS_CardinalityType
  <2> QED
    BY LaterFdAssumption, <2>1, <2>2 DEF Init, TypeOK, Owners
<1>2. FdWaitsCount
  <2>1. \A l \in Loops : Held(l) = {}
    BY DEF Init, Held, Living, Pending
  <2>2. \A l \in Loops : Cardinality(Held(l)) = 0
    BY <2>1, FS_EmptySet
  <2> QED
    BY <2>2 DEF Init, FdWaitsCount, Held
<1>3. FlagOK /\ QueueOK
  BY DEF Init, FlagOK, QueueOK
<1>4. StackOK
  BY DEF Init, StackOK
<1> QED
  BY <1>1, <1>2, <1>3, <1>4 DEF LaterFdInv

LEMMA LaterFdStep ==
    ASSUME LaterFdInv, [Next]_vars
    PROVE  LaterFdInv'
<1>1. ASSUME NEW w \in Waits, ThreadStep(w)
      PROVE  LaterFdInv'
  BY <1>1, PollCancelledKeeps, PollOverKeeps, ThreadSchedulesKeeps DEF ThreadStep, PollEnds
<1>2. ASSUME NEW w \in Waits, NEW l \in Loops, NEW t \in Timeouts,
             ExecLaterFd(w, l, t) \/ ThreadCreationFails(w, l, t)
      PROVE  LaterFdInv'
  BY <1>2, NewThreadArgsKeeps DEF ExecLaterFd, ThreadCreationFails
<1>3. ASSUME NEW w \in Waits, NEW s \in {"ready", "broken"}, FdChanges(w, s)
      PROVE  LaterFdInv'
  <2>1. TypeOK'
    BY <1>3 DEF LaterFdInv, TypeOK, FdChanges, tableVars, argsVars
  <2> QED
    BY <1>3, <2>1, OthersKeep DEF FdChanges
<1>4. CASE Tick
  <2>1. TypeOK'
    BY <1>4, LaterFdAssumption DEF LaterFdInv, TypeOK, Tick, tableVars, argsVars
  <2> QED
    BY <1>4, <2>1, OthersKeep DEF Tick
<1>5. CASE UNCHANGED vars
  <2>1. TypeOK'
    BY <1>5 DEF LaterFdInv, TypeOK, vars, tableVars, argsVars
  <2> QED
    BY <1>5, <2>1, OthersKeep DEF vars
<1> QED
  BY <1>1, <1>2, <1>3, <1>4, <1>5, PollOverKeeps, LaterCallbackKeeps, FdCancelKeeps,
     CallbackEndsKeeps, TableStepsKeep DEF Next, PollFails

(***************************************************************************)
(* The invariant of later_fd(), for any number of calls and loops.         *)
(***************************************************************************)
THEOREM LaterFdInvariant == Spec => []LaterFdInv
<1> QED
  BY LaterFdInitial, LaterFdStep, PTL DEF Spec

(***************************************************************************)
(* Type correctness.                                                       *)
(***************************************************************************)
THEOREM LaterFdTypeOK == Spec => []TypeOK
<1>1. LaterFdInv => TypeOK
  BY DEF LaterFdInv
<1> QED
  BY <1>1, LaterFdInvariant, PTL

(***************************************************************************)
(* fd_waits of a registry is the number of ThreadArgs that name it, however*)
(* many threads take part in making and destroying them.                   *)
(***************************************************************************)
THEOREM LaterFdCount == Spec => []FdWaitsCount
<1>1. LaterFdInv => FdWaitsCount
  BY DEF LaterFdInv
<1> QED
  BY <1>1, LaterFdInvariant, PTL

-----------------------------------------------------------------------------
\* What a step does to the outcome of a wait.
LEMMA OutcomeStep ==
    ASSUME LaterFdInv, LaterFdInv', [Next]_vars, NEW w \in Waits
    PROVE  /\ outcome[w] # "none" => outcome'[w] = outcome[w]
           /\ owner'[w] = "callback" => outcome'[w] = "ran"
<1>1. owner'[w] = "callback" => outcome'[w] = "ran"
  BY DEF LaterFdInv, StackOK
<1>2. ASSUME NEW x \in Waits, FdCancel(x) \/ LaterCallback(x), outcome[w] # "none"
      PROVE  outcome'[w] = outcome[w]
  <2>1. CASE active[x]
    <3>1. x # w
      BY <1>2, <2>1 DEF LaterFdInv, FlagOK
    <3> QED
      BY <1>2, <2>1, <3>1 DEF FdCancel, LaterCallback, LaterFdInv, TypeOK
  <2>2. CASE ~active[x]
    BY <1>2, <2>2 DEF FdCancel, LaterCallback
  <2> QED
    BY <2>1, <2>2
<1>3. \/ \E x \in Waits : FdCancel(x) \/ LaterCallback(x)
      \/ outcome' = outcome
  BY DEF Next, ThreadStep, PollCancelled, PollEnds, PollFails, PollOver, ThreadSchedules,
         ExecLaterFd,
         ThreadCreationFails, NewThreadArgs, DestroyLoop, CollectHandle, CallbackEnds,
         ExecCallbacksEnds, FdChanges, Tick, vars
<1> QED
  BY <1>1, <1>2, <1>3

(***************************************************************************)
(* The callback and the canceller exclude each other: what is promised of a*)
(* wait by the one compare_exchange that succeeds is never taken back.     *)
(***************************************************************************)
THEOREM LaterFdOutcome == Spec => OutcomeIsFinal
<1>1. ASSUME LaterFdInv, LaterFdInv', [Next]_vars
      PROVE  [\A w \in Waits :
                /\ outcome[w] # "none" => outcome'[w] = outcome[w]
                /\ owner'[w] = "callback" => outcome'[w] = "ran"]_vars
  BY <1>1, OutcomeStep
<1> QED
  BY <1>1, LaterFdInvariant, PTL DEF Spec, OutcomeIsFinal

\* What a step does to the loop of a wait.
LEMMA LoopStep ==
    ASSUME LaterFdInv, [Next]_vars, NEW w \in Waits, owner[w] \in Pending,
           loop[w] \in registries \ registries'
    PROVE  DestroyLoop(loop[w]) \/ loop[w] \in Orphans
<1>1. loop[w] \in Loops
  BY DEF LaterFdInv, TypeOK
<1>2. fd_waits[loop[w]] # 0
  <2>1. w \in Held(loop[w])
    BY DEF Held, Living
  <2>2. Cardinality(Held(loop[w])) # 0
    BY <2>1, HeldIsFinite, FS_EmptySet
  <2> QED
    BY <1>1, <2>2 DEF LaterFdInv, FdWaitsCount, Held
<1>3. \/ \E l \in Loops : DestroyLoop(l) \/ CollectHandle(l)
      \/ ExecCallbacksEnds
  BY DEF Next, ThreadStep, PollCancelled, PollEnds, PollFails, PollOver, ThreadSchedules,
         ExecLaterFd,
         ThreadCreationFails, NewThreadArgs, LaterCallback, FdCancel, CallbackEnds,
         FdChanges, Tick, vars, tableVars
<1>4. ASSUME NEW l \in Loops, DestroyLoop(l)
      PROVE  DestroyLoop(loop[w])
  <2>1. l = loop[w]
    BY <1>4 DEF DestroyLoop
  <2> QED
    BY <1>4, <2>1
<1>5. ASSUME ExecCallbacksEnds \/ \E l \in Loops : CollectHandle(l)
      PROVE  loop[w] \in Orphans
  BY <1>2, <1>5 DEF ExecCallbacksEnds, CollectHandle, MayGo
<1> QED
  BY <1>3, <1>4, <1>5

(***************************************************************************)
(* A loop that some loop can still run is not pruned under a wait.         *)
(***************************************************************************)
THEOREM LaterFdKeepsLoop == Spec => WaitKeepsLoop
<1>1. ASSUME LaterFdInv, [Next]_vars
      PROVE  [\A w \in Waits :
                owner[w] \in Pending /\ loop[w] \in registries \ registries'
                  => DestroyLoop(loop[w]) \/ loop[w] \in Orphans]_vars
  BY <1>1, LoopStep
<1> QED
  BY <1>1, LaterFdInvariant, PTL DEF Spec, WaitKeepsLoop

=============================================================================
