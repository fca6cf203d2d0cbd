-------------------------- MODULE EventLoop_proofs --------------------------
(***************************************************************************)
(* Proofs about the event loops, for any number of loops and callbacks and *)
(* any depth of nesting.                                                   *)
(***************************************************************************)
EXTENDS EventLoop, CallbackRegistryTable_proofs, SequenceTheorems,
        FiniteSetTheorems, TLAPS

-----------------------------------------------------------------------------
(***************************************************************************)
(* Facts about stacks of frames.                                           *)
(***************************************************************************)
LEMMA TopIsFrame ==
    ASSUME stack \in Seq(Frame), stack # <<>>
    PROVE  /\ Len(stack) \in Nat \ {0}
           /\ Len(stack) \in DOMAIN stack
           /\ DOMAIN stack = 1 .. Len(stack)
           /\ Top \in Frame
           /\ \A i \in DOMAIN stack : stack[i] \in Frame
BY DEF Top

LEMMA PushFrame ==
    ASSUME stack \in Seq(Frame), NEW f \in Frame, Push(f)
    PROVE  /\ stack' \in Seq(Frame)
           /\ Len(stack') = Len(stack) + 1
           /\ stack'[Len(stack) + 1] = f
           /\ \A i \in 1 .. Len(stack) : stack'[i] = stack[i]
BY AppendProperties DEF Push

LEMMA ReplaceTopFrame ==
    ASSUME stack \in Seq(Frame), stack # <<>>, NEW f \in Frame, ReplaceTop(f)
    PROVE  /\ stack' \in Seq(Frame)
           /\ Len(stack') = Len(stack)
           /\ stack'[Len(stack)] = f
           /\ \A i \in 1 .. Len(stack) - 1 : stack'[i] = stack[i]
BY ExceptSeq DEF ReplaceTop

LEMMA CutStack ==
    ASSUME stack \in Seq(Frame), NEW k \in 0 .. Len(stack),
           stack' = SubSeq(stack, 1, k)
    PROVE  /\ stack' \in Seq(Frame)
           /\ Len(stack') = k
           /\ \A i \in 1 .. k : stack'[i] = stack[i]
BY SubSeqProperties


-----------------------------------------------------------------------------
(***************************************************************************)
(* Every step of the event loops is a step of the table of loops, or       *)
(* leaves the table alone.                                                 *)
(***************************************************************************)
LEMMA MainStepOnTable ==
    ASSUME TypeOK, ExecTypeOK, MainStep
    PROVE  TableNext \/ UNCHANGED tableVars
<1>1. stack \in Seq(Frame) /\ stack # <<>>
  BY DEF ExecTypeOK, MainStep, WaitTimesOut, WaitEnds, PopCallback,
         NothingToPop, RunChild, ChildReturns, ExecCallbacksReturns
<1>2. Top \in Frame
  BY <1>1, TopIsFrame
<1>3. Top.loop \in Loops /\ Top.old \in Loops /\ Top.rest \subseteq Loops
  BY <1>2 DEF Frame
<1>4. CASE WaitTimesOut \/ NothingToPop
  BY <1>4 DEF WaitTimesOut, NothingToPop
<1>5. CASE WaitEnds
  BY <1>3, <1>5 DEF WaitEnds, Enter, TableNext
<1>6. CASE PopCallback
  <2>1. PICK i \in queue[Top.loop] : Take(Top.loop, i)
    BY <1>6 DEF PopCallback
  <2>2. i \in Callbacks
    BY <1>3, <2>1 DEF TypeOK
  <2> QED
    BY <1>3, <2>1, <2>2 DEF TableNext
<1>7. CASE RunChild
  BY <1>3, <1>7 DEF RunChild, Enter, TableNext
<1>8. CASE ChildReturns
  <2>1. SetCurrentRegistryId(Top.old)
    BY <1>8 DEF ChildReturns, Leave, SetCurrentRegistryId
  <2> QED
    BY <1>3, <2>1 DEF TableNext
<1>9. CASE ExecCallbacksReturns
  BY <1>3, <1>9 DEF ExecCallbacksReturns, Leave, TableNext
<1> QED
  BY <1>4, <1>5, <1>6, <1>7, <1>8, <1>9 DEF MainStep

LEMMA ScheduleOnTable ==
    ASSUME NEW l \in Loops, NEW d, NEW n, Schedule(l, d, n)
    PROVE  TableNext
BY DEF Schedule, TableNext

LEMMA UserStepOnTable ==
    ASSUME TypeOK, ExecTypeOK, UserStep \/ \E l \in Loops : GarbageCollect(l)
    PROVE  TableNext \/ UNCHANGED tableVars
<1>1. CASE \E l \in Loops, d \in Delays : Later(l, d)
  BY <1>1, ScheduleOnTable DEF Later
<1>2. CASE \E i \in Callbacks : Cancel(i)
  BY <1>2 DEF Cancel, TableNext, TypeOK
<1>3. CASE \E p \in Loops \cup {NoLoop} : UserCreateLoop(p)
  BY <1>3 DEF UserCreateLoop, TableNext
<1>4. CASE \E l \in Loops : UserDestroyLoop(l)
  BY <1>4 DEF UserDestroyLoop, TableNext
<1>5. CASE \E l \in Loops : GarbageCollect(l)
  BY <1>5 DEF GarbageCollect, TableNext
<1>6. CASE \E l \in Loops : WithLoop(l)
  BY <1>6 DEF WithLoop, TableNext
<1>7. CASE EndWithLoop
  <2>1. Top \in Frame
    BY <1>7, TopIsFrame DEF EndWithLoop, ExecTypeOK
  <2> QED
    BY <1>7, <2>1 DEF EndWithLoop, TableNext, Frame
<1>8. CASE \/ \E l \in Loops, t \in Timeouts, all \in BOOLEAN : RunNow(l, t, all)
           \/ CallbackReturns
  BY <1>8 DEF RunNow, CallbackReturns
<1>9. CASE \E k \in 0 .. Len(stack) : Throw(k)
  <2>1. PICK k \in 0 .. Len(stack) : Throw(k)
    BY <1>9
  <2>2. CASE Unwound(k) = {} /\ UNCHANGED tableVars
    BY <2>2
  <2>3. CASE \E i \in Unwound(k) : SetCurrentRegistryId(stack[i].old)
    <3>1. PICK i \in Unwound(k) : SetCurrentRegistryId(stack[i].old)
      BY <2>3
    <3>2. stack \in Seq(Frame) /\ stack # <<>>
      BY <2>1 DEF Throw, ExecTypeOK
    <3>3. i \in k + 1 .. Len(stack)
      BY <3>1 DEF Unwound
    <3>4. i \in 1 .. Len(stack)
      BY <2>1, <3>2, <3>3, LenProperties
    <3>5. stack[i] \in Frame
      BY <3>2, <3>4, ElementOfSeq
    <3>6. stack[i].old \in Loops
      BY <3>5 DEF Frame
    <3> QED
      BY <3>1, <3>6 DEF TableNext
  <2> QED
    BY <2>1, <2>2, <2>3 DEF Throw
<1> QED
  BY <1>1, <1>2, <1>3, <1>4, <1>5, <1>6, <1>7, <1>8, <1>9 DEF UserStep

LEMMA StepOnTable ==
    ASSUME TypeOK, ExecTypeOK, [Next]_vars
    PROVE  [TableNext]_tableVars
<1>1. CASE MainStep
  BY <1>1, MainStepOnTable
<1>2. CASE UserStep \/ \E l \in Loops : GarbageCollect(l)
  BY <1>2, UserStepOnTable
<1>3. CASE \E l \in Loops, d \in Delays, n \in BOOLEAN : ExecLaterNative(l, d, n)
  BY <1>3, ScheduleOnTable DEF ExecLaterNative
<1>4. CASE \E l \in Loops : FdWaits(l)
  BY <1>4 DEF FdWaits, TableNext
<1>5. CASE Tick \/ UNCHANGED vars
  BY <1>5 DEF Tick, vars
<1> QED
  BY <1>1, <1>2, <1>3, <1>4, <1>5 DEF Next

-----------------------------------------------------------------------------
(***************************************************************************)
(* Types: frames are frames, whatever is pushed, replaced or unwound.      *)
(***************************************************************************)
LEMMA MainStepTypeOK ==
    ASSUME TypeOK, ExecTypeOK, MainStep
    PROVE  ExecTypeOK'
<1> USE EventLoopAssumption, TableAssumption
<1>1. stack \in Seq(Frame) /\ stack # <<>>
  BY DEF ExecTypeOK, MainStep, WaitTimesOut, WaitEnds, PopCallback,
         NothingToPop, RunChild, ChildReturns, ExecCallbacksReturns
<1>2. Top \in Frame /\ Len(stack) \in Nat \ {0} /\ Len(stack) \in DOMAIN stack
  BY <1>1, TopIsFrame
<1>3. Len(stack) - 1 \in 0 .. Len(stack)
  BY <1>2
<1>4. Pop => stack' \in Seq(Frame)
  BY <1>1, <1>3, CutStack DEF Pop
<1>5. now \in Int
  BY DEF ExecTypeOK
<1>6. CASE WaitTimesOut
  BY <1>4, <1>6 DEF WaitTimesOut, ExecTypeOK
<1>7. CASE WaitEnds
  <2>1. [Top EXCEPT !.pc = "pop", !.at = now, !.seen = {Top.loop}] \in Frame
    BY <1>2, <1>5 DEF Frame, Pcs
  <2>2. stack' \in Seq(Frame)
    BY <1>1, <1>7, <2>1, ReplaceTopFrame DEF WaitEnds
  <2>3. collected' \in BOOLEAN
    BY <1>7, Zenon DEF WaitEnds
  <2> QED
    BY <1>7, <2>2, <2>3 DEF WaitEnds, Enter, ExecTypeOK
<1>8. CASE PopCallback
  <2>1. PICK i \in queue[Top.loop] :
          /\ fate' = [fate EXCEPT ![i] = "ran"]
          /\ ReplaceTop([Top EXCEPT !.pc = "invoke", !.cb = i, !.popped = @ + 1])
    BY <1>8 DEF PopCallback
  <2>2. i \in Callbacks
    BY <1>2, <2>1 DEF TypeOK, Frame
  <2>3. [Top EXCEPT !.pc = "invoke", !.cb = i, !.popped = @ + 1] \in Frame
    <3>1. Top.popped + 1 \in Nat
      BY <1>2 DEF Frame
    <3> QED
      BY <1>2, <2>2, <3>1 DEF Frame, Pcs
  <2>4. stack' \in Seq(Frame)
    BY <1>1, <2>1, <2>3, ReplaceTopFrame
  <2> QED
    BY <1>8, <2>1, <2>2, <2>4 DEF PopCallback, ExecTypeOK
<1>9. CASE NothingToPop
  <2>1. ToChildren(Top) \in Frame
    BY <1>2 DEF Frame, Pcs, ToChildren, TypeOK
  <2>2. stack' \in Seq(Frame)
    BY <1>1, <1>9, <2>1, ReplaceTopFrame DEF NothingToPop
  <2> QED
    BY <1>9, <2>2 DEF NothingToPop, ExecTypeOK
<1>10. CASE RunChild
  <2>1. PICK c \in Top.rest :
          /\ Enter(c)
          /\ stack' = Append([stack EXCEPT ![Len(stack)].rest = @ \ {c}],
                            [pc |-> "pop", loop |-> c, all |-> TRUE,
                             outer |-> FALSE, at |-> Top.at,
                             old |-> current_registry, cb |-> 0, rest |-> {},
                             seen |-> Top.seen \cup {c}, popped |-> 0])
    BY <1>10 DEF RunChild
  <2> DEFINE f == [pc |-> "pop", loop |-> c, all |-> TRUE,
                   outer |-> FALSE, at |-> Top.at,
                   old |-> current_registry, cb |-> 0, rest |-> {},
                   seen |-> Top.seen \cup {c}, popped |-> 0]
             s == [stack EXCEPT ![Len(stack)].rest = @ \ {c}]
  <2>2. f \in Frame
    BY <1>2 DEF Frame, Pcs, TypeOK
  <2>3. [Top EXCEPT !.rest = @ \ {c}] \in Frame
    BY <1>2 DEF Frame
  <2>4. s = [stack EXCEPT ![Len(stack)] = [Top EXCEPT !.rest = @ \ {c}]]
    BY <1>2 DEF Top
  <2>5. s \in Seq(Frame)
    <3>1. \A g \in Frame : [stack EXCEPT ![Len(stack)] = g] \in Seq(Frame)
      BY <1>1, <1>2, ExceptSeq
    <3> QED
      BY <2>3, <2>4, <3>1
  <2>6. stack' \in Seq(Frame)
    BY <2>1, <2>2, <2>5, AppendProperties
  <2>7. collected' = collected
    BY <1>10 DEF RunChild
  <2> QED
    BY <2>1, <2>6, <2>7 DEF Enter, ExecTypeOK
<1>11. CASE ChildReturns
  <2> DEFINE s == SubSeq(stack, 1, Len(stack) - 1)
             k == Len(stack) - 1
  <2>1. k \in Nat /\ k <= Len(stack)
    BY <1>2
  <2>2. s = [i \in 1 .. k |-> stack[i]]
    BY <1>1, <1>2, <2>1
  <2>3. \A i \in 1 .. k : stack[i] \in Frame
    BY <1>1, <1>2, <2>1
  <2>4. stack' \in Seq(Frame)
    <3>1. stack' = [i \in 1 .. k |->
                      IF i = k THEN [stack[i] EXCEPT !.popped = @ + Top.popped, !.seen = Top.seen]
                      ELSE stack[i]]
      BY <1>11, <2>2 DEF ChildReturns
    <3>2. Top.popped \in Nat /\ Top.seen \subseteq Loops
      BY <1>2 DEF Frame
    <3>3. \A f \in Frame : f.popped + Top.popped \in Nat
      BY <3>2 DEF Frame
    <3>4. \A f \in Frame : [f EXCEPT !.popped = @ + Top.popped, !.seen = Top.seen] \in Frame
      BY <3>2, <3>3 DEF Frame
    <3>5. \A i \in 1 .. k : stack'[i] \in Frame
      BY <2>3, <3>1, <3>4
    <3> QED
      <4>1. DOMAIN stack' = 1 .. k /\ stack' = [i \in 1 .. k |-> stack'[i]]
        BY <3>1
      <4> QED
        BY <2>1, <3>5, <4>1, IsASeq
  <2> QED
    BY <1>11, <2>4 DEF ChildReturns, Leave, ExecTypeOK
<1>12. CASE ExecCallbacksReturns
  BY <1>4, <1>12 DEF ExecCallbacksReturns, Leave, ExecTypeOK
<1> QED
  BY <1>6, <1>7, <1>8, <1>9, <1>10, <1>11, <1>12 DEF MainStep

LEMMA ScheduleTypeOK ==
    ASSUME ExecTypeOK, NEW l \in Loops, NEW d \in Delays, NEW n \in BOOLEAN,
           Schedule(l, d, n)
    PROVE  ExecTypeOK'
<1>1. nextCallbackId + 1 \in 1 .. MaxCallback + 1
  BY TableAssumption DEF Schedule, Callbacks
<1>2. [when |-> now + d, native |-> n] \in [when : Int, native : BOOLEAN]
  BY EventLoopAssumption DEF ExecTypeOK
<1>3. callback' \in [Callbacks -> [when : Int, native : BOOLEAN]]
  BY <1>2 DEF ExecTypeOK, Schedule
<1> QED
  BY <1>1, <1>3 DEF Schedule, ExecTypeOK

LEMMA ThrowTypeOK ==
    ASSUME ExecTypeOK, NEW k \in 0 .. Len(stack), Throw(k)
    PROVE  ExecTypeOK'
<1>1. stack \in Seq(Frame) /\ Len(stack) \in Nat
  BY DEF ExecTypeOK
<1>2. stack' \in Seq(Frame)
  BY <1>1, CutStack DEF Throw
<1> DEFINE S == {i \in Unwound(k) : stack[i].pc \in ExecPcs}
<1>3. IsFiniteSet(k + 1 .. Len(stack))
  BY <1>1, FS_Interval
<1>4. S \subseteq k + 1 .. Len(stack)
  BY DEF Unwound
<1>5. IsFiniteSet(S)
  BY <1>3, <1>4, FS_Subset
<1>6. Cardinality(S) \in Nat
  BY <1>5, FS_CardinalityType
<1>7. exec_callbacks_reentrancy_count' \in Int
  BY <1>6 DEF Throw, ExecTypeOK
<1> QED
  BY <1>2, <1>7 DEF Throw, ExecTypeOK

LEMMA UserStepTypeOK ==
    ASSUME TypeOK, ExecTypeOK, UserStep \/ \E l \in Loops : GarbageCollect(l)
    PROVE  ExecTypeOK'
<1> USE EventLoopAssumption, TableAssumption
<1>1. stack \in Seq(Frame) /\ Len(stack) \in Nat /\ now \in Int
  BY DEF ExecTypeOK
<1>2. CASE \E l \in Loops, d \in Delays : Later(l, d)
  BY <1>2, ScheduleTypeOK DEF Later
<1>3. CASE \E i \in Callbacks : Cancel(i)
  BY <1>3 DEF Cancel, ExecTypeOK
<1>4. CASE \/ \E p \in Loops \cup {NoLoop} : UserCreateLoop(p)
           \/ \E l \in Loops : UserDestroyLoop(l)
           \/ \E l \in Loops : GarbageCollect(l)
  BY <1>4 DEF UserCreateLoop, UserDestroyLoop, GarbageCollect, execVars,
              ExecTypeOK
<1>5. CASE \E l \in Loops : WithLoop(l)
  <2>1. PICK l \in Loops : WithLoop(l)
    BY <1>5
  <2>2. [pc |-> "with_loop", loop |-> l, all |-> TRUE, outer |-> FALSE,
         at |-> now, old |-> current_registry, cb |-> 0, rest |-> {},
         seen |-> {}, popped |-> 0] \in Frame
    BY <1>1 DEF Frame, Pcs, TypeOK
  <2>3. stack' \in Seq(Frame)
    BY <1>1, <2>1, <2>2, PushFrame DEF WithLoop
  <2> QED
    BY <2>1, <2>3 DEF WithLoop, ExecTypeOK
<1>6. CASE EndWithLoop
  <2>1. Len(stack) - 1 \in 0 .. Len(stack)
    BY <1>1, <1>6, TopIsFrame DEF EndWithLoop
  <2>2. stack' \in Seq(Frame)
    BY <1>1, <1>6, <2>1, CutStack DEF EndWithLoop, Pop
  <2> QED
    BY <1>6, <2>2 DEF EndWithLoop, ExecTypeOK
<1>7. CASE \E l \in Loops, t \in Timeouts, all \in BOOLEAN : RunNow(l, t, all)
  <2>1. PICK l \in Loops, t \in Timeouts, all \in BOOLEAN : RunNow(l, t, all)
    BY <1>7
  <2>2. ExpireTime(t) \in Int
    BY <1>1 DEF ExpireTime
  <2>3. [pc |-> "wait", loop |-> l, all |-> all, outer |-> TRUE,
         at |-> ExpireTime(t), old |-> current_registry, cb |-> 0,
         rest |-> {}, seen |-> {}, popped |-> 0] \in Frame
    BY <2>2 DEF Frame, Pcs, TypeOK
  <2>4. stack' \in Seq(Frame)
    BY <1>1, <2>1, <2>3, PushFrame DEF RunNow
  <2> QED
    BY <2>1, <2>4 DEF RunNow, ExecTypeOK
<1>8. CASE CallbackReturns
  <2>1. stack # <<>> /\ Top \in Frame
    BY <1>1, <1>8, TopIsFrame DEF CallbackReturns
  <2>2. [Top EXCEPT !.pc = "pop", !.cb = 0] \in Frame
    BY <2>1 DEF Frame, Pcs
  <2>3. ToChildren(Top) \in Frame
    BY <2>1 DEF Frame, Pcs, ToChildren, TypeOK
  <2>4. stack' \in Seq(Frame)
    BY <1>1, <1>8, <2>1, <2>2, <2>3, ReplaceTopFrame DEF CallbackReturns
  <2> QED
    BY <1>8, <2>4 DEF CallbackReturns, ExecTypeOK
<1>9. CASE \E k \in 0 .. Len(stack) : Throw(k)
  BY <1>9, ThrowTypeOK
<1> QED
  BY <1>2, <1>3, <1>4, <1>5, <1>6, <1>7, <1>8, <1>9 DEF UserStep

LEMMA InitTypeOK == Init => TableInv /\ ExecTypeOK
<1>1. Init => collected \in BOOLEAN
  BY Zenon DEF Init
<1> QED
  BY <1>1, TableInitInv, EventLoopAssumption, TableAssumption
     DEF Init, ExecTypeOK, Callbacks

LEMMA NextTypeOK ==
    ASSUME TableInv, ExecTypeOK, [Next]_vars
    PROVE  TableInv' /\ ExecTypeOK'
<1>1. TypeOK
  BY DEF TableInv
<1>2. TableInv'
  BY <1>1, StepOnTable, TableNextInv
<1>3. ExecTypeOK'
  <2>1. CASE MainStep
    BY <1>1, <2>1, MainStepTypeOK
  <2>2. CASE UserStep \/ \E l \in Loops : GarbageCollect(l)
    BY <1>1, <2>2, UserStepTypeOK
  <2>3. CASE \E l \in Loops, d \in Delays, n \in BOOLEAN : ExecLaterNative(l, d, n)
    BY <2>3, ScheduleTypeOK DEF ExecLaterNative
  <2>4. CASE \E l \in Loops : FdWaits(l)
    BY <2>4 DEF FdWaits, execVars, ExecTypeOK
  <2>5. CASE Tick
    BY <2>5, EventLoopAssumption DEF Tick, ExecTypeOK
  <2>6. CASE UNCHANGED vars
    BY <2>6 DEF vars, execVars, ExecTypeOK
  <2> QED
    BY <2>1, <2>2, <2>3, <2>4, <2>5, <2>6 DEF Next
<1> QED
  BY <1>2, <1>3

\* The invariant of the table and the types of the event loops hold together.
THEOREM LoopInvariant == Spec => [](TableInv /\ ExecTypeOK)
<1>1. TableInv /\ ExecTypeOK /\ [Next]_vars => (TableInv /\ ExecTypeOK)'
  BY NextTypeOK
<1> QED
  BY <1>1, InitTypeOK, PTL DEF Spec

\* Every variable of the event loops has its type, at any depth of nesting.
THEOREM LoopTypeOK == Spec => []EventLoopTypeOK
<1>1. TableInv /\ ExecTypeOK => EventLoopTypeOK
  BY DEF TableInv, EventLoopTypeOK
<1> QED
  BY <1>1, LoopInvariant, PTL

\* The specification of the table, so that its theorems hold here, too.
LEMMA LoopsImplementTable == Spec => TableSpec
<1>1. Init => TableInit
  BY DEF Init
<1>2. TableInv /\ ExecTypeOK /\ [Next]_vars => [TableNext]_tableVars
  BY StepOnTable DEF TableInv
<1> QED
  BY <1>1, <1>2, LoopInvariant, PTL DEF Spec, TableSpec

-----------------------------------------------------------------------------
(***************************************************************************)
(* The promise of CallbackLifecycle.  A pass never works with a timestamp  *)
(* from the future, and no callback is lost: together they make every step *)
(* of the event loops a step of the promise.                               *)
(***************************************************************************)
PassTimesOK == \A i \in DOMAIN stack : stack[i].pc \in ExecPcs => stack[i].at <= now

\* A callback not yet created has no fate.
FatesOK == \A i \in Callbacks : i >= nextCallbackId => fate[i] = "none"

CallbacksOK == FatesOK /\ NothingLost

LoopInv == TableInv /\ ExecTypeOK /\ PassTimesOK /\ CallbacksOK

LEMMA MainStepPassTimes ==
    ASSUME ExecTypeOK, PassTimesOK, ExecTypeOK', MainStep
    PROVE  PassTimesOK'
<1>1. stack \in Seq(Frame) /\ stack # <<>>
  BY DEF ExecTypeOK, MainStep, WaitTimesOut, WaitEnds, PopCallback,
         NothingToPop, RunChild, ChildReturns, ExecCallbacksReturns
<1>2. /\ Top \in Frame
      /\ Len(stack) \in Nat \ {0}
      /\ DOMAIN stack = 1 .. Len(stack)
      /\ Len(stack) \in DOMAIN stack
  BY <1>1, TopIsFrame
<1>3. now \in Int /\ now' = now
  <2>1. now \in Int
    BY EventLoopAssumption DEF ExecTypeOK
  <2>2. CASE WaitTimesOut \/ PopCallback \/ NothingToPop
    BY <2>1, <2>2 DEF WaitTimesOut, PopCallback, NothingToPop
  <2>3. CASE WaitEnds \/ RunChild
    BY <2>1, <2>3 DEF WaitEnds, RunChild, Enter
  <2>4. CASE ChildReturns \/ ExecCallbacksReturns
    BY <2>1, <2>4 DEF ChildReturns, ExecCallbacksReturns, Leave
  <2> QED
    BY <2>2, <2>3, <2>4 DEF MainStep
<1>4. Top.pc \in ExecPcs => Top.at <= now
  BY <1>2 DEF PassTimesOK, Top
<1>5. ASSUME NEW f, ReplaceTop(f), f.at <= now
      PROVE  PassTimesOK'
  BY <1>2, <1>3, <1>5 DEF ReplaceTop, PassTimesOK
<1>6. Pop => PassTimesOK'
  <2>1. SUFFICES ASSUME Pop PROVE PassTimesOK'
    OBVIOUS
  <2>2. Len(stack) - 1 \in 0 .. Len(stack)
    BY <1>2
  <2>3. /\ DOMAIN stack' = 1 .. Len(stack) - 1
        /\ \A i \in 1 .. Len(stack) - 1 : stack'[i] = stack[i]
    BY <1>1, <2>1, <2>2, CutStack DEF Pop
  <2> QED
    BY <1>2, <1>3, <2>3 DEF PassTimesOK
<1>7. CASE WaitTimesOut \/ ExecCallbacksReturns
  BY <1>6, <1>7 DEF WaitTimesOut, ExecCallbacksReturns
<1>8. CASE WaitEnds
  <2>1. [Top EXCEPT !.pc = "pop", !.at = now, !.seen = {Top.loop}].at <= now
    BY <1>2, <1>3 DEF Frame
  <2> QED
    BY <1>5, <1>8, <2>1 DEF WaitEnds
<1>9. CASE PopCallback
  <2>1. PICK i : ReplaceTop([Top EXCEPT !.pc = "invoke", !.cb = i, !.popped = @ + 1])
    BY <1>9 DEF PopCallback
  <2>2. [Top EXCEPT !.pc = "invoke", !.cb = i, !.popped = @ + 1].at = Top.at
    BY <1>2 DEF Frame
  <2>3. Top.at <= now
    BY <1>4, <1>9 DEF PopCallback, ExecPcs
  <2> QED
    BY <1>5, <2>1, <2>2, <2>3
<1>10. CASE NothingToPop
  <2>1. ToChildren(Top).at = Top.at
    BY <1>2 DEF Frame, ToChildren
  <2>2. Top.at <= now
    BY <1>4, <1>10 DEF NothingToPop, ExecPcs
  <2> QED
    BY <1>5, <1>10, <2>1, <2>2 DEF NothingToPop
<1>11. CASE RunChild
  <2>1. PICK c :
          stack' = Append([stack EXCEPT ![Len(stack)].rest = @ \ {c}],
                            [pc |-> "pop", loop |-> c, all |-> TRUE,
                             outer |-> FALSE, at |-> Top.at,
                             old |-> current_registry, cb |-> 0, rest |-> {},
                             seen |-> Top.seen \cup {c}, popped |-> 0])
    BY <1>11 DEF RunChild
  <2>2. Top.at <= now
    BY <1>4, <1>11 DEF RunChild, ExecPcs
  <2> DEFINE t == [stack EXCEPT ![Len(stack)].rest = @ \ {c}]
  <2>3. /\ t \in Seq(Frame) /\ Len(t) = Len(stack)
        /\ \A i \in 1 .. Len(stack) : t[i].pc = stack[i].pc /\ t[i].at = stack[i].at
    <3>1. [Top EXCEPT !.rest = @ \ {c}] \in Frame
      BY <1>2 DEF Frame
    <3>2. t = [stack EXCEPT ![Len(stack)] = [Top EXCEPT !.rest = @ \ {c}]]
      BY <1>2 DEF Top
    <3>3. \A g \in Frame :
            /\ [stack EXCEPT ![Len(stack)] = g] \in Seq(Frame)
            /\ Len([stack EXCEPT ![Len(stack)] = g]) = Len(stack)
      BY <1>1, <1>2, ExceptSeq
    <3>4. \A i \in 1 .. Len(stack) :
            t[i] = IF i = Len(stack) THEN [Top EXCEPT !.rest = @ \ {c}] ELSE stack[i]
      BY <1>2, <3>2
    <3>5. /\ [Top EXCEPT !.rest = @ \ {c}].pc = stack[Len(stack)].pc
          /\ [Top EXCEPT !.rest = @ \ {c}].at = stack[Len(stack)].at
      BY <1>2 DEF Frame, Top
    <3>6. t \in Seq(Frame) /\ Len(t) = Len(stack)
      <4> DEFINE g == [Top EXCEPT !.rest = @ \ {c}]
      <4>1. g \in Frame /\ t = [stack EXCEPT ![Len(stack)] = g]
        BY <3>1, <3>2
      <4> HIDE DEF g, t
      <4> QED
        BY <4>1, <3>3
    <3>7. \A i \in 1 .. Len(stack) : t[i].pc = stack[i].pc /\ t[i].at = stack[i].at
      BY <3>4, <3>5
    <3> QED
      BY <3>6, <3>7
  <2>4. /\ DOMAIN stack' = 1 .. Len(stack) + 1
        /\ stack'[Len(stack) + 1].at = Top.at
        /\ \A i \in 1 .. Len(stack) :
             stack'[i].pc = stack[i].pc /\ stack'[i].at = stack[i].at
    <3> HIDE DEF t
    <3>1. stack' = Append(t, [pc |-> "pop", loop |-> c, all |-> TRUE,
                             outer |-> FALSE, at |-> Top.at,
                             old |-> current_registry, cb |-> 0, rest |-> {},
                             seen |-> Top.seen \cup {c}, popped |-> 0])
      BY <2>1 DEF t
    <3> QED
      BY <1>2, <2>3, <3>1
  <2>5. ASSUME NEW i \in DOMAIN stack', stack'[i].pc \in ExecPcs
        PROVE  stack'[i].at <= now
    <3>1. CASE i = Len(stack) + 1
      BY <2>2, <2>4, <3>1
    <3>2. CASE i \in 1 .. Len(stack)
      BY <1>2, <2>4, <2>5, <3>2 DEF PassTimesOK
    <3> QED
      BY <1>2, <2>4, <2>5, <3>1, <3>2
  <2> QED
    BY <1>3, <2>5 DEF PassTimesOK
<1>12. CASE ChildReturns
  <2> DEFINE k == Len(stack) - 1
  <2>1. k \in Nat /\ k <= Len(stack)
    BY <1>2
  <2>2. SubSeq(stack, 1, k) = [i \in 1 .. k |-> stack[i]]
    BY <1>1, <1>2, <2>1
  <2>3. stack' = [i \in 1 .. k |->
                    IF i = k THEN [stack[i] EXCEPT !.popped = @ + Top.popped, !.seen = Top.seen]
                    ELSE stack[i]]
    BY <1>12, <2>2 DEF ChildReturns
  <2>4. \A i \in 1 .. k : stack[i] \in Frame
    BY <1>1, <1>2, <2>1
  <2>5. \A f \in Frame : /\ [f EXCEPT !.popped = @ + Top.popped, !.seen = Top.seen].pc = f.pc
                         /\ [f EXCEPT !.popped = @ + Top.popped, !.seen = Top.seen].at = f.at
    BY DEF Frame
  <2>6. \A i \in 1 .. k : stack'[i].pc = stack[i].pc /\ stack'[i].at = stack[i].at
    BY <2>3, <2>4, <2>5
  <2> QED
    <3>1. DOMAIN stack' = 1 .. k
      BY <2>3
    <3>2. \A i \in 1 .. k : i \in DOMAIN stack
      BY <1>2, <2>1
    <3> QED
      BY <1>3, <2>6, <3>1, <3>2 DEF PassTimesOK
<1> QED
  BY <1>7, <1>8, <1>9, <1>10, <1>11, <1>12 DEF MainStep

LEMMA StepPassTimes ==
    ASSUME TypeOK, ExecTypeOK, PassTimesOK, ExecTypeOK', [Next]_vars
    PROVE  PassTimesOK'
<1>1. stack \in Seq(Frame) /\ Len(stack) \in Nat /\ DOMAIN stack = 1 .. Len(stack)
  BY DEF ExecTypeOK
<1>2. CASE MainStep
  BY <1>2, MainStepPassTimes
<1>3. ASSUME UNCHANGED <<stack, now>> PROVE PassTimesOK'
  BY <1>3 DEF PassTimesOK
<1>4. ASSUME NEW l, NEW d, NEW n, Schedule(l, d, n) PROVE PassTimesOK'
  BY <1>3, <1>4 DEF Schedule
<1>5. ASSUME NEW k \in 0 .. Len(stack), stack' = SubSeq(stack, 1, k), now' = now
      PROVE  PassTimesOK'
  <2>1. DOMAIN stack' = 1 .. k /\ \A i \in 1 .. k : stack'[i] = stack[i]
    BY <1>1, <1>5, CutStack
  <2> QED
    BY <1>1, <1>5, <2>1 DEF PassTimesOK
<1>6. ASSUME NEW f \in Frame, Push(f), f.pc \notin ExecPcs, now' = now
      PROVE  PassTimesOK'
  <2>1. /\ DOMAIN stack' = 1 .. Len(stack) + 1
        /\ stack'[Len(stack) + 1] = f
        /\ \A i \in 1 .. Len(stack) : stack'[i] = stack[i]
    BY <1>1, <1>6, PushFrame
  <2> QED
    BY <1>1, <1>6, <2>1 DEF PassTimesOK
<1>7. CASE UserStep \/ \E l \in Loops : GarbageCollect(l)
  <2>1. CASE \E l \in Loops, d \in Delays : Later(l, d)
    BY <1>4, <2>1 DEF Later
  <2>2. CASE \/ \E i \in Callbacks : Cancel(i)
             \/ \E p \in Loops \cup {NoLoop} : UserCreateLoop(p)
             \/ \E l \in Loops : UserDestroyLoop(l)
             \/ \E l \in Loops : GarbageCollect(l)
    BY <1>3, <2>2 DEF Cancel, UserCreateLoop, UserDestroyLoop, GarbageCollect,
                      execVars
  <2>3. CASE \E l \in Loops : WithLoop(l)
    <3>1. PICK l \in Loops : WithLoop(l)
      BY <2>3
    <3>2. [pc |-> "with_loop", loop |-> l, all |-> TRUE, outer |-> FALSE,
           at |-> now, old |-> current_registry, cb |-> 0, rest |-> {},
           seen |-> {}, popped |-> 0] \in Frame
      BY DEF Frame, Pcs, TypeOK, ExecTypeOK
    <3> QED
      BY <1>6, <3>1, <3>2 DEF WithLoop, ExecPcs
  <2>4. CASE EndWithLoop
    <3>1. Len(stack) - 1 \in 0 .. Len(stack)
      BY <1>1, <2>4, TopIsFrame DEF EndWithLoop
    <3> QED
      BY <1>5, <2>4, <3>1 DEF EndWithLoop, Pop
  <2>5. CASE \E l \in Loops, t \in Timeouts, all \in BOOLEAN : RunNow(l, t, all)
    <3>1. PICK l \in Loops, t \in Timeouts, all \in BOOLEAN : RunNow(l, t, all)
      BY <2>5
    <3>2. ExpireTime(t) \in Int
      BY EventLoopAssumption DEF ExpireTime, ExecTypeOK
    <3>3. [pc |-> "wait", loop |-> l, all |-> all, outer |-> TRUE,
           at |-> ExpireTime(t), old |-> current_registry, cb |-> 0,
           rest |-> {}, seen |-> {}, popped |-> 0] \in Frame
      BY <3>2 DEF Frame, Pcs, TypeOK
    <3> QED
      BY <1>6, <3>1, <3>3 DEF RunNow, ExecPcs
  <2>6. CASE CallbackReturns
    <3>1. stack # <<>> /\ Top \in Frame /\ Len(stack) \in DOMAIN stack
      BY <1>1, <2>6, TopIsFrame DEF CallbackReturns
    <3>2. Top.at <= now
      BY <2>6, <3>1 DEF CallbackReturns, PassTimesOK, Top, ExecPcs
    <3>3. PICK f : ReplaceTop(f) /\ f.at = Top.at
      <4>1. [Top EXCEPT !.pc = "pop", !.cb = 0].at = Top.at
        BY <3>1 DEF Frame
      <4>2. ToChildren(Top).at = Top.at
        BY <3>1 DEF Frame, ToChildren
      <4>3. CASE Top.all
        BY <2>6, <4>1, <4>3 DEF CallbackReturns
      <4>4. CASE ~Top.all
        BY <2>6, <4>2, <4>4 DEF CallbackReturns
      <4> QED
        BY <4>3, <4>4
    <3>4. now' = now
      BY <2>6 DEF CallbackReturns
    <3> QED
      BY <3>1, <3>2, <3>3, <3>4 DEF ReplaceTop, PassTimesOK
  <2>7. CASE \E k \in 0 .. Len(stack) : Throw(k)
    BY <1>5, <2>7 DEF Throw
  <2> QED
    BY <1>7, <2>1, <2>2, <2>3, <2>4, <2>5, <2>6, <2>7 DEF UserStep
<1>8. CASE \E l \in Loops, d \in Delays, n \in BOOLEAN : ExecLaterNative(l, d, n)
  BY <1>4, <1>8 DEF ExecLaterNative
<1>9. CASE \E l \in Loops : FdWaits(l)
  BY <1>3, <1>9 DEF FdWaits, execVars
<1>10. CASE Tick
  <2>1. stack' = stack /\ now' = now + 1 /\ now \in Int
    BY <1>10, EventLoopAssumption DEF Tick, ExecTypeOK
  <2>2. \A i \in DOMAIN stack : stack[i].at \in Int
    <3>1. \A i \in DOMAIN stack : stack[i] \in Frame
      BY <1>1
    <3>2. \A f \in Frame : f.at \in Int
      BY DEF Frame
    <3> QED
      BY <3>1, <3>2
  <2> QED
    BY <2>1, <2>2 DEF PassTimesOK
<1>11. CASE UNCHANGED vars
  BY <1>3, <1>11 DEF vars, execVars
<1> QED
  BY <1>2, <1>7, <1>8, <1>9, <1>10, <1>11 DEF Next

\* A step that touches no callback is none of the promise's business.
LEMMA QuietStep ==
    ASSUME CallbacksOK, UNCHANGED <<queue, callback, nextCallbackId, fate, now>>
    PROVE  CallbacksOK' /\ UNCHANGED Lifecycle!vars
<1>1. \A i \in Callbacks : Homes(i)' = Homes(i) /\ Status(i)' = Status(i)
  BY DEF Homes, Status
<1>2. CallbacksOK'
  BY <1>1 DEF CallbacksOK, FatesOK, NothingLost
<1> QED
  BY <1>1, <1>2 DEF Lifecycle!vars

\* A new callback is queued in one loop, and nothing else happens.
LEMMA ScheduleStep ==
    ASSUME TypeOK, ExecTypeOK, CallbacksOK, NEW l \in Loops, NEW d, NEW n,
           Schedule(l, d, n)
    PROVE  CallbacksOK' /\ Lifecycle!Schedule(nextCallbackId, l)
<1>0. PICK i \in Callbacks : i = nextCallbackId
  BY DEF Schedule
<1>1. i \in Nat /\ nextCallbackId = i /\ nextCallbackId' = i + 1
  BY <1>0, TableAssumption DEF Schedule, Callbacks
<1>2. queue' = [queue EXCEPT ![l] = @ \cup {i}] /\ fate' = fate /\ now' = now
  BY <1>1 DEF Schedule, Add
<1>3. Homes(i) = {} /\ fate[i] = "none"
  BY <1>1 DEF CallbacksOK, NothingLost, FatesOK
<1>4. Homes(i)' = {l}
  BY <1>2, <1>3 DEF Homes, TypeOK
<1>5. \A j \in Callbacks \ {i} : Homes(j)' = Homes(j)
  BY <1>2 DEF Homes, TypeOK
<1>6. \A j \in Callbacks : j \in Nat
  BY TableAssumption DEF Callbacks
<1>7. CallbacksOK'
  <2>1. FatesOK'
    BY <1>1, <1>2, <1>6 DEF CallbacksOK, FatesOK
  <2>2. ASSUME NEW j \in Callbacks
        PROVE  IF j < i + 1 /\ fate[j] = "none"
                 THEN \E x \in Loops : Homes(j)' = {x} ELSE Homes(j)' = {}
    <3>1. CASE j = i
      BY <1>1, <1>3, <1>4, <3>1
    <3>2. CASE j # i
      <4>1. j < i + 1 <=> j < i
        BY <1>1, <1>6, <3>2
      <4>2. Homes(j)' = Homes(j)
        BY <1>5, <3>2
      <4> QED
        BY <1>1, <4>1, <4>2 DEF CallbacksOK, NothingLost
    <3> QED
      BY <3>1, <3>2
  <2>3. NothingLost'
    BY <1>1, <1>2, <2>2 DEF NothingLost
  <2> QED
    BY <2>1, <2>3 DEF CallbacksOK
<1>8. Status(i) = "new" /\ Status(i)' = "queued"
  BY <1>1, <1>2, <1>3 DEF Status
<1>9. \A j \in Callbacks \ {i} : Status(j)' = Status(j)
  BY <1>1, <1>2, <1>6 DEF Status
<1>10. \A j \in Callbacks : j < i => Status(j) # "new"
  <2>1. \A j \in Callbacks : fate[j] # "new"
    BY DEF ExecTypeOK
  <2> QED
    BY <1>1, <1>6, <2>1 DEF Status
<1>11. \A j \in Callbacks \ {i} : callback'[j] = callback[j]
  BY <1>1 DEF Schedule, ExecTypeOK
<1>12. Lifecycle!Schedule(i, l)
  <2>1. [j \in Callbacks |-> Status(j)'] = [[j \in Callbacks |-> Status(j)] EXCEPT ![i] = "queued"]
    BY <1>1, <1>8, <1>9
  <2>2. [j \in Callbacks |-> Homes(j)'] = [[j \in Callbacks |-> Homes(j)] EXCEPT ![i] = {l}]
    BY <1>1, <1>4, <1>5
  <2>3. [j \in Callbacks |-> callback'[j].when] =
          [[j \in Callbacks |-> callback[j].when] EXCEPT ![i] =
             [j \in Callbacks |-> callback'[j].when][i]]
    BY <1>1, <1>11
  <2> QED
    BY <1>1, <1>2, <1>8, <1>10, <2>1, <2>2, <2>3 DEF Lifecycle!Schedule
<1> QED
  BY <1>1, <1>7, <1>12

\* A callback that leaves its queue to be run or cancelled is finished.
LEMMA FinishStep ==
    ASSUME TypeOK, ExecTypeOK, CallbacksOK, NEW l \in Loops, NEW i \in queue[l],
           NEW s \in {"ran", "cancelled"}, Take(l, i),
           fate' = [fate EXCEPT ![i] = s],
           UNCHANGED <<callback, nextCallbackId, now>>
    PROVE  /\ CallbacksOK'
           /\ i \in Callbacks
           /\ Homes(i) = {l}
           /\ Lifecycle!Finish(i, s)
<1>1. i \in Callbacks
  BY DEF TypeOK
<1>2. l \in Homes(i)
  BY DEF Homes
<1>3. Homes(i) = {l} /\ i < nextCallbackId /\ fate[i] = "none"
  <2>1. Homes(i) # {}
    BY <1>2
  <2>2. i < nextCallbackId /\ fate[i] = "none" /\ \E x \in Loops : Homes(i) = {x}
    BY <1>1, <2>1 DEF CallbacksOK, NothingLost
  <2> QED
    BY <1>2, <2>2
<1>4. queue' = [queue EXCEPT ![l] = @ \ {i}]
  BY DEF Take
<1>5. Homes(i)' = {}
  BY <1>3, <1>4 DEF Homes, TypeOK
<1>6. \A j \in Callbacks \ {i} : Homes(j)' = Homes(j) /\ fate'[j] = fate[j]
  BY <1>4 DEF Homes, TypeOK, ExecTypeOK
<1>7. fate'[i] = s /\ s # "none"
  BY <1>1 DEF ExecTypeOK
<1>8. i \in Int /\ nextCallbackId \in Int /\ ~(i >= nextCallbackId)
  BY <1>1, <1>3, TableAssumption DEF Callbacks, ExecTypeOK
<1>9. CallbacksOK'
  <2>1. FatesOK'
    BY <1>6, <1>8 DEF CallbacksOK, FatesOK
  <2>2. NothingLost'
    BY <1>5, <1>6, <1>7 DEF CallbacksOK, NothingLost
  <2> QED
    BY <2>1, <2>2 DEF CallbacksOK
<1>10. Status(i) = "queued" /\ Status(i)' = s
  BY <1>3, <1>7, <1>8 DEF Status
<1>11. \A j \in Callbacks \ {i} : Status(j)' = Status(j)
  BY <1>6 DEF Status
<1>12. Lifecycle!Finish(i, s)
  <2>1. [j \in Callbacks |-> Status(j)'] = [[j \in Callbacks |-> Status(j)] EXCEPT ![i] = s]
    BY <1>1, <1>10, <1>11
  <2>2. [j \in Callbacks |-> Homes(j)'] = [[j \in Callbacks |-> Homes(j)] EXCEPT ![i] = {}]
    BY <1>1, <1>5, <1>6
  <2> QED
    BY <1>1, <1>10, <2>1, <2>2 DEF Lifecycle!Finish
<1> QED
  BY <1>1, <1>3, <1>9, <1>12

\* pop() starts the first due callback of a loop.
LEMMA PopStep ==
    ASSUME TypeOK, ExecTypeOK, PassTimesOK, CallbacksOK, PopCallback
    PROVE  CallbacksOK' /\ \E i \in Callbacks : Lifecycle!Start(i)
<1>1. PICK i \in queue[Top.loop] :
        /\ IsFirst(Top.loop, i)
        /\ ~(callback[i].when > Top.at)
        /\ Take(Top.loop, i)
        /\ fate' = [fate EXCEPT ![i] = "ran"]
  BY DEF PopCallback
<1>2. stack \in Seq(Frame) /\ stack # <<>> /\ Top.pc = "pop"
  BY DEF PopCallback, ExecTypeOK
<1>3. Top \in Frame /\ Len(stack) \in DOMAIN stack
  BY <1>2, TopIsFrame
<1>4. Top.loop \in Loops /\ Top.at \in Int
  BY <1>3 DEF Frame
<1>5. /\ CallbacksOK'
      /\ i \in Callbacks
      /\ Homes(i) = {Top.loop}
      /\ Lifecycle!Finish(i, "ran")
  BY <1>1, <1>4, FinishStep DEF PopCallback
<1>6. \A j \in Callbacks : callback[j].when \in Int
  BY DEF ExecTypeOK
<1>7. callback[i].when <= now
  <2>1. Top.at <= now
    BY <1>2, <1>3 DEF PassTimesOK, Top, ExecPcs
  <2>2. now \in Int
    BY EventLoopAssumption DEF ExecTypeOK
  <2> QED
    BY <1>1, <1>4, <1>5, <1>6, <2>1, <2>2
<1>8. ASSUME NEW j \in Callbacks \ {i}, Homes(j) = Homes(i)
      PROVE  \/ callback[i].when < callback[j].when
             \/ callback[i].when = callback[j].when /\ i < j
  <2>1. j \in queue[Top.loop]
    BY <1>5, <1>8 DEF Homes
  <2>2. Before(i, j)
    BY <1>1, <2>1 DEF IsFirst
  <2> QED
    BY <1>5, <1>6, <2>2 DEF Before
<1>9. Lifecycle!Start(i)
  BY <1>5, <1>7, <1>8 DEF Lifecycle!Start, Lifecycle!Precedes
<1> QED
  BY <1>5, <1>9

\* Every step keeps the callbacks and is a step of the promise or none.
LEMMA LifecycleStep ==
    ASSUME TypeOK, ExecTypeOK, PassTimesOK, CallbacksOK, [Next]_vars
    PROVE  CallbacksOK' /\ [Lifecycle!Next]_(Lifecycle!vars)
<1>1. ASSUME UNCHANGED <<queue, callback, nextCallbackId, fate, now>>
      PROVE  CallbacksOK' /\ [Lifecycle!Next]_(Lifecycle!vars)
  BY <1>1, QuietStep
<1>2. ASSUME NEW l \in Loops, NEW d, NEW n, Schedule(l, d, n)
      PROVE  CallbacksOK' /\ Lifecycle!Next
  <2>1. CallbacksOK' /\ Lifecycle!Schedule(nextCallbackId, l)
    BY <1>2, ScheduleStep
  <2>2. nextCallbackId \in Callbacks
    BY <1>2 DEF Schedule
  <2> QED
    BY <2>1, <2>2 DEF Lifecycle!Next
<1>3. CASE MainStep
  <2>1. CASE PopCallback
    BY <2>1, PopStep DEF Lifecycle!Next
  <2>2. CASE WaitTimesOut \/ NothingToPop
    BY <1>1, <2>2 DEF WaitTimesOut, NothingToPop, tableVars
  <2>3. CASE WaitEnds \/ RunChild
    BY <1>1, <2>3 DEF WaitEnds, RunChild, Enter, SetCurrentRegistryId
  <2>4. CASE ChildReturns \/ ExecCallbacksReturns
    BY <1>1, <2>4 DEF ChildReturns, ExecCallbacksReturns, Leave, PruneRegistries
  <2> QED
    BY <1>3, <2>1, <2>2, <2>3, <2>4 DEF MainStep
<1>4. CASE UserStep \/ \E l \in Loops : GarbageCollect(l)
  <2>1. CASE \E l \in Loops, d \in Delays : Later(l, d)
    BY <1>2, <2>1 DEF Later
  <2>2. CASE \E i \in Callbacks : Cancel(i)
    <3>1. PICK i \in Callbacks : Cancel(i)
      BY <2>2
    <3>2. PICK l \in DOMAIN registries : Take(l, i)
      BY <3>1 DEF Cancel
    <3>3. l \in Loops /\ i \in queue[l]
      BY <3>2 DEF TypeOK, Take
    <3>4. CallbacksOK' /\ Lifecycle!Finish(i, "cancelled")
      BY <3>1, <3>2, <3>3, FinishStep DEF Cancel
    <3> QED
      BY <3>1, <3>4 DEF Lifecycle!Next, Lifecycle!Cancel
  <2>3. CASE \E p \in Loops \cup {NoLoop} : UserCreateLoop(p)
    BY <1>1, <2>3 DEF UserCreateLoop, CreateLoop, execVars
  <2>4. CASE \E l \in Loops : UserDestroyLoop(l)
    BY <1>1, <2>4 DEF UserDestroyLoop, DestroyLoop, execVars
  <2>5. CASE \E l \in Loops : GarbageCollect(l)
    BY <1>1, <2>5 DEF GarbageCollect, CollectHandle, execVars
  <2>6. CASE (\E l \in Loops : WithLoop(l)) \/ EndWithLoop
    BY <1>1, <2>6 DEF WithLoop, EndWithLoop, SetCurrentRegistryId
  <2>7. CASE \/ \E l \in Loops, t \in Timeouts, all \in BOOLEAN : RunNow(l, t, all)
             \/ CallbackReturns
    BY <1>1, <2>7 DEF RunNow, CallbackReturns, tableVars
  <2>8. CASE \E k \in 0 .. Len(stack) : Throw(k)
    BY <1>1, <2>8 DEF Throw, SetCurrentRegistryId, tableVars
  <2> QED
    BY <1>4, <2>1, <2>2, <2>3, <2>4, <2>5, <2>6, <2>7, <2>8 DEF UserStep
<1>5. CASE \E l \in Loops, d \in Delays, n \in BOOLEAN : ExecLaterNative(l, d, n)
  BY <1>2, <1>5 DEF ExecLaterNative
<1>6. CASE \E l \in Loops : FdWaits(l)
  BY <1>1, <1>6 DEF FdWaits, FdWaitsIncr, FdWaitsDecr, execVars
<1>7. CASE Tick
  <2>1. /\ now' = now + 1
        /\ UNCHANGED <<queue, callback, nextCallbackId, fate>>
    BY <1>7 DEF Tick, tableVars
  <2>2. \A i \in Callbacks : Homes(i)' = Homes(i) /\ Status(i)' = Status(i)
    BY <2>1 DEF Homes, Status
  <2>3. CallbacksOK'
    BY <2>1, <2>2 DEF CallbacksOK, FatesOK, NothingLost
  <2>4. Lifecycle!Tick
    BY <2>1, <2>2 DEF Lifecycle!Tick
  <2> QED
    BY <2>3, <2>4 DEF Lifecycle!Next
<1>8. CASE UNCHANGED vars
  BY <1>1, <1>8 DEF vars, tableVars, execVars
<1> QED
  BY <1>3, <1>4, <1>5, <1>6, <1>7, <1>8 DEF Next

LEMMA InitLoopInv == Init => LoopInv /\ Lifecycle!Init
<1> SUFFICES ASSUME Init PROVE LoopInv /\ Lifecycle!Init
  OBVIOUS
<1>1. TableInv /\ ExecTypeOK
  BY InitTypeOK
<1>2. PassTimesOK
  BY DEF Init, PassTimesOK
<1>3. \A i \in Callbacks : i \in Nat /\ i >= 1
  BY TableAssumption DEF Callbacks
<1>4. \A i \in Callbacks : Homes(i) = {} /\ Status(i) = "new"
  BY <1>3 DEF Init, TableInit, Homes, Status
<1>5. CallbacksOK
  BY <1>3, <1>4 DEF CallbacksOK, FatesOK, NothingLost, Init
<1>6. Lifecycle!Init
  BY <1>4 DEF Lifecycle!Init, Init
<1> QED
  BY <1>1, <1>2, <1>5, <1>6 DEF LoopInv

(***************************************************************************)
(* The inductive invariant of the event loops: the table's, the types, no  *)
(* pass ahead of the clock, no callback lost.                              *)
(***************************************************************************)
THEOREM LoopInductive == Spec => []LoopInv
<1>1. LoopInv /\ [Next]_vars => LoopInv'
  <2> SUFFICES ASSUME LoopInv, [Next]_vars PROVE LoopInv'
    OBVIOUS
  <2>1. TableInv /\ TypeOK /\ ExecTypeOK /\ PassTimesOK /\ CallbacksOK
    BY DEF LoopInv, TableInv
  <2>2. TableInv' /\ ExecTypeOK'
    BY <2>1, NextTypeOK
  <2>3. PassTimesOK'
    BY <2>1, <2>2, StepPassTimes
  <2>4. CallbacksOK'
    BY <2>1, LifecycleStep
  <2> QED
    BY <2>2, <2>3, <2>4 DEF LoopInv
<1> QED
  BY <1>1, InitLoopInv, PTL DEF Spec

(***************************************************************************)
(* execCallbacksOne() loses no callback, whatever throws, nests, destroys  *)
(* loops or schedules from other threads.                                  *)
(***************************************************************************)
THEOREM LoopNothingLost == Spec => []NothingLost
<1>1. LoopInv => NothingLost
  BY DEF LoopInv, CallbacksOK
<1> QED
  BY <1>1, LoopInductive, PTL

(***************************************************************************)
(* The event loops implement CallbackLifecycle: at most one start for each *)
(* callback, not early, not after a successful cancel(), and in the order  *)
(* of operator< within a loop.                                             *)
(***************************************************************************)
THEOREM LoopsKeepPromise == Spec => LifecycleSpec
<1>1. LoopInv /\ [Next]_vars => [Lifecycle!Next]_(Lifecycle!vars)
  BY LifecycleStep DEF LoopInv, TableInv
<1> QED
  BY <1>1, InitLoopInv, LoopInductive, PTL DEF Spec, LifecycleSpec, Lifecycle!Spec

-----------------------------------------------------------------------------
(***************************************************************************)
(* The subtree that nextTimestamp() and due() visit: the recursive         *)
(* definition, its equation and what follows from it.                      *)
(***************************************************************************)
\* A loop is visited if it is l or a child of one that is.
Visited(l, f, x) == x = l \/ \E p \in 0 .. x - 1 : x \in children[p] /\ f[p]

Under(l) == CHOOSE f : f = [x \in Loops |-> Visited(l, f, x)]

LEMMA VisitedUpTo ==
    ASSUME NEW l, NEW n \in Nat
    PROVE  \E f \in [0 .. n -> BOOLEAN] : \A x \in 0 .. n : f[x] = Visited(l, f, x)
<1> DEFINE Good(m) == \E f \in [0 .. m -> BOOLEAN] :
                         \A x \in 0 .. m : f[x] = Visited(l, f, x)
           Bad == {m \in Nat : ~Good(m)}
<1>1. SUFFICES ASSUME Bad # {} PROVE FALSE
  OBVIOUS
<1>2. PICK m \in Bad : \A k \in Bad : m <= k
  <2>1. Bad \in SUBSET Nat
    OBVIOUS
  <2> HIDE DEF Bad
  <2> QED
    BY <1>1, <2>1, LeastNat
<1>3. m \in Nat /\ ~Good(m)
  BY <1>2
<1>4. \E g \in [0 .. m - 1 -> BOOLEAN] : \A x \in 0 .. m - 1 : g[x] = Visited(l, g, x)
  <2>1. CASE m = 0
    <3> DEFINE g == [x \in 0 .. m - 1 |-> TRUE]
    <3>1. g \in [0 .. m - 1 -> BOOLEAN]
      OBVIOUS
    <3>2. 0 .. m - 1 = {}
      BY <2>1
    <3> QED
      BY <3>1, <3>2
  <2>2. CASE m # 0
    <3>1. m - 1 \in Nat /\ ~(m <= m - 1)
      BY <1>3, <2>2
    <3>2. m - 1 \notin Bad
      BY <1>2, <3>1
    <3> QED
      BY <3>1, <3>2
  <2> QED
    BY <2>1, <2>2
<1>5. PICK g \in [0 .. m - 1 -> BOOLEAN] :
        \A x \in 0 .. m - 1 : g[x] = Visited(l, g, x)
  BY <1>4
<1> DEFINE f == [x \in 0 .. m |-> IF x < m THEN g[x] ELSE Visited(l, g, x)]
<1>6. \A x \in 0 .. m : Visited(l, g, x) \in BOOLEAN
  BY DEF Visited
<1>7. f \in [0 .. m -> BOOLEAN]
  <2>1. \A x \in 0 .. m : x < m => g[x] \in BOOLEAN
    BY <1>3, <1>5
  <2> QED
    BY <1>6, <2>1
<1>8. \A x \in 0 .. m : \A p \in 0 .. x - 1 : f[p] = g[p]
  BY <1>3
<1>9. \A x \in 0 .. m : Visited(l, f, x) = Visited(l, g, x)
  <2> HIDE DEF f
  <2> QED
    BY <1>8 DEF Visited
<1>10. \A x \in 0 .. m : f[x] = Visited(l, f, x)
  <2>1. \A x \in 0 .. m : f[x] = Visited(l, g, x)
    BY <1>3, <1>5
  <2> QED
    BY <1>9, <2>1
<1>11. Good(m)
  <2> HIDE DEF f
  <2> QED
    BY <1>7, <1>10
<1> QED
  BY <1>3, <1>11

\* The recursive definition defines: Under(l) satisfies its equation.
LEMMA UnderIsDefined ==
    ASSUME NEW l
    PROVE  /\ Under(l) = [x \in Loops |-> Visited(l, Under(l), x)]
           /\ Subtree(l) = {x \in Loops : Under(l)[x]}
<1>1. Loops = 0 .. MaxLoop /\ MaxLoop \in Nat
  BY TableAssumption DEF Loops
<1>2. PICK f \in [Loops -> BOOLEAN] : \A x \in Loops : f[x] = Visited(l, f, x)
  BY <1>1, VisitedUpTo
<1>3. f = [x \in Loops |-> Visited(l, f, x)]
  BY <1>2
<1>4. Under(l) = [x \in Loops |-> Visited(l, Under(l), x)]
  BY <1>3 DEF Under
<1>5. Subtree(l) = {x \in Loops : Under(l)[x]}
  BY Zenon DEF Subtree, Under, Visited
<1> QED
  BY <1>4, <1>5

LEMMA SubtreeMembers ==
    ASSUME NEW l \in Loops
    PROVE  /\ l \in Subtree(l)
           /\ Subtree(l) \subseteq Loops
           /\ \A x \in Subtree(l) : x # l =>
                \E p \in Subtree(l) : p < x /\ x \in children[p]
           /\ \A p \in Subtree(l) : \A x \in Loops :
                x \in children[p] /\ p < x => x \in Subtree(l)
<1>1. Loops = 0 .. MaxLoop /\ MaxLoop \in Nat
  BY TableAssumption DEF Loops
<1> DEFINE u == Under(l)
<1>2. u = [x \in Loops |-> Visited(l, u, x)] /\ Subtree(l) = {x \in Loops : u[x]}
  BY UnderIsDefined
<1> HIDE DEF u
<1>3. \A x \in Loops : u[x] <=> Visited(l, u, x)
  BY <1>2
<1>4. \A x \in Loops : 0 .. x - 1 \subseteq Loops /\ \A p \in Loops : p < x => p \in 0 .. x - 1
  BY <1>1
<1>5. l \in Subtree(l)
  BY <1>2, <1>3 DEF Visited
<1>6. ASSUME NEW x \in Subtree(l), x # l
      PROVE  \E p \in Subtree(l) : p < x /\ x \in children[p]
  <2>1. x \in Loops /\ Visited(l, u, x)
    BY <1>2, <1>3
  <2>2. PICK p \in 0 .. x - 1 : x \in children[p] /\ u[p]
    BY <1>6, <2>1 DEF Visited
  <2>3. p \in Loops /\ p < x
    BY <1>1, <2>1, <2>2
  <2> QED
    BY <1>2, <2>2, <2>3
<1>7. ASSUME NEW p \in Subtree(l), NEW x \in Loops, x \in children[p], p < x
      PROVE  x \in Subtree(l)
  <2>1. p \in Loops /\ u[p]
    BY <1>2
  <2>2. p \in 0 .. x - 1
    BY <1>4, <1>7, <2>1
  <2>3. Visited(l, u, x)
    BY <1>7, <2>1, <2>2 DEF Visited
  <2> QED
    BY <1>2, <1>3, <2>3
<1> QED
  BY <1>2, <1>5, <1>6, <1>7

\* What is below a loop, and not the loop itself, is below one of its children.
LEMMA SubtreeOfChild ==
    ASSUME TypeOK, ForestOK, NEW l \in Loops, NEW y \in Subtree(l), y # l
    PROVE  \E c \in children[l] : y \in Subtree(c)
<1>1. Loops = 0 .. MaxLoop /\ MaxLoop \in Nat
  BY TableAssumption DEF Loops
<1>2. children \in [Loops -> SUBSET Loops]
  BY DEF TypeOK
<1> DEFINE Bad == {x \in Subtree(l) \ {l} : ~ \E c \in children[l] : x \in Subtree(c)}
<1>3. SUFFICES ASSUME Bad # {} PROVE FALSE
  OBVIOUS
<1>4. Subtree(l) \subseteq Loops
  BY SubtreeMembers
<1>5. Bad \in SUBSET Nat
  BY <1>1, <1>4
<1>6. PICK x \in Bad : \A k \in Bad : x <= k
  <2> HIDE DEF Bad
  <2> QED
    BY <1>3, <1>5, LeastNat
<1>7. x \in Subtree(l) /\ x # l /\ x \in Loops
  BY <1>4, <1>6
<1>8. PICK p \in Subtree(l) : p < x /\ x \in children[p]
  BY <1>7, SubtreeMembers
<1>9. CASE p = l
  <2>1. x \in Subtree(x)
    BY <1>7, SubtreeMembers
  <2> QED
    BY <1>6, <1>8, <1>9, <2>1
<1>10. CASE p # l
  <2>1. p \in Loops /\ ~(x <= p)
    BY <1>1, <1>4, <1>7, <1>8
  <2>2. PICK c \in children[l] : p \in Subtree(c)
    BY <1>6, <1>8, <1>10, <2>1
  <2>3. x \in Subtree(c)
    BY <1>2, <1>7, <1>8, <2>2, SubtreeMembers
  <2> QED
    BY <1>6, <2>2, <2>3
<1> QED
  BY <1>9, <1>10

-----------------------------------------------------------------------------
(***************************************************************************)
(* How frames nest.  A call blocked in wait() is innermost and belongs to  *)
(* run_now(); a recursive call of execCallbacksOne() is right above the    *)
(* call that runs its children, on a younger loop and with the same time;  *)
(* a call that runs a callback has popped one.                             *)
(***************************************************************************)
FrameNests(i) ==
    /\ stack[i].pc = "wait" => stack[i].outer /\ i = Len(stack)
    /\ \A c \in stack[i].rest : stack[i].loop < c
    /\ stack[i].pc # "children" => stack[i].rest = {}
    /\ stack[i].pc \in ExecPcs /\ ~stack[i].outer
         => /\ i > 1
            /\ stack[i - 1].pc = "children"
            /\ stack[i - 1].loop < stack[i].loop
            /\ stack[i - 1].at = stack[i].at
    /\ stack[i].pc = "invoke" => stack[i].popped > 0 /\ stack[i].cb \in Callbacks

NestingOK == \A i \in 1 .. Len(stack) : FrameNests(i)

(***************************************************************************)
(* What the guards restore: every frame remembers the loop that the frame  *)
(* below it made current.                                                  *)
(***************************************************************************)
LoopBelow(i) == IF i = 1 THEN GLOBAL_LOOP ELSE stack[i - 1].loop

OldOK == \A i \in 1 .. Len(stack) : stack[i].old = LoopBelow(i)

NoLongjmp == \A i \in Callbacks : ~callback[i].native

GuardsInv == OldOK /\ NoLongjmp /\ GuardsMatchStack

(***************************************************************************)
(* A pass is an outermost execCallbacksOne() with the recursive calls      *)
(* right above it.  It has popped a callback, or it has not called user    *)
(* code yet and one that is due when it started is still ahead of it,      *)
(* unless a handle was collected since.                                    *)
(***************************************************************************)
SamePass(o, j) ==
    \A g \in o + 1 .. j : stack[g].pc \in ExecPcs /\ ~stack[g].outer

HasPopped(o) ==
    \E j \in o .. Len(stack) : SamePass(o, j) /\ stack[j].popped > 0

Ahead(j) ==
    stack[j].rest \cup (IF stack[j].pc = "pop" THEN {stack[j].loop} ELSE {})

DueAhead(o) == \E j \in o .. Len(stack) : \E c \in Ahead(j) : Due(c, stack[j].at)

WillPop(o) ==
    /\ Top.pc \in {"pop", "children"}
    /\ SamePass(o, Len(stack))
    /\ collected \/ DueAhead(o)

PassesPop ==
    \A o \in 1 .. Len(stack) :
       stack[o].outer /\ stack[o].pc \in ExecPcs => HasPopped(o) \/ WillPop(o)

-----------------------------------------------------------------------------
(***************************************************************************)
(* What the two steps that change two frames do to the stack.              *)
(***************************************************************************)
RunChildStack(c) ==
    /\ Len(stack') = Len(stack) + 1
    /\ \A i \in 1 .. Len(stack) - 1 : stack'[i] = stack[i]
    /\ stack'[Len(stack)] = [Top EXCEPT !.rest = @ \ {c}]
    /\ stack'[Len(stack) + 1] =
         [pc |-> "pop", loop |-> c, all |-> TRUE, outer |-> FALSE,
          at |-> Top.at, old |-> current_registry, cb |-> 0, rest |-> {},
          seen |-> Top.seen \cup {c}, popped |-> 0]

LEMMA RunChildShape ==
    ASSUME TypeOK, ExecTypeOK, RunChild
    PROVE  \E c \in Top.rest : Enter(c) /\ RunChildStack(c)
<1>1. stack \in Seq(Frame) /\ stack # <<>>
  BY DEF ExecTypeOK, RunChild
<1>2. /\ Top \in Frame
      /\ Len(stack) \in Nat \ {0}
      /\ DOMAIN stack = 1 .. Len(stack)
      /\ Len(stack) \in DOMAIN stack
  BY <1>1, TopIsFrame
<1>3. PICK c \in Top.rest :
        /\ Enter(c)
        /\ stack' = Append([stack EXCEPT ![Len(stack)].rest = @ \ {c}],
                           [pc |-> "pop", loop |-> c, all |-> TRUE,
                            outer |-> FALSE, at |-> Top.at,
                            old |-> current_registry, cb |-> 0, rest |-> {},
                            seen |-> Top.seen \cup {c}, popped |-> 0])
  BY DEF RunChild
<1> DEFINE g == [Top EXCEPT !.rest = @ \ {c}]
           t == [stack EXCEPT ![Len(stack)].rest = @ \ {c}]
           f == [pc |-> "pop", loop |-> c, all |-> TRUE,
                 outer |-> FALSE, at |-> Top.at,
                 old |-> current_registry, cb |-> 0, rest |-> {},
                 seen |-> Top.seen \cup {c}, popped |-> 0]
<1>4. g \in Frame
  BY <1>2 DEF Frame
<1>5. t = [stack EXCEPT ![Len(stack)] = g]
  BY <1>2 DEF Top
<1>6. f \in Frame
  BY <1>2 DEF Frame, Pcs, TypeOK
<1>7. stack' = Append(t, f)
  BY <1>3
<1> HIDE DEF g, t, f
<1>8. t \in Seq(Frame) /\ Len(t) = Len(stack)
  BY <1>1, <1>2, <1>4, <1>5, ExceptSeq
<1>9. /\ t[Len(stack)] = g
      /\ \A i \in 1 .. Len(stack) - 1 : t[i] = stack[i]
  <2>1. \A i \in 1 .. Len(stack) - 1 : i \in DOMAIN stack /\ i # Len(stack)
    <3>1. PICK n \in Nat : n = Len(stack)
      BY <1>2
    <3>2. \A i \in 1 .. n - 1 : i \in 1 .. n /\ i # n
      OBVIOUS
    <3> QED
      BY <1>2, <3>1, <3>2
  <2>2. stack = [i \in DOMAIN stack |-> stack[i]]
    BY <1>1
  <2> QED
    BY <1>2, <1>5, <2>1, <2>2
<1>10. /\ Len(stack') = Len(stack) + 1
       /\ stack'[Len(stack) + 1] = f
       /\ \A i \in 1 .. Len(stack) : stack'[i] = t[i]
  BY <1>6, <1>7, <1>8, AppendProperties
<1>11. RunChildStack(c)
  BY <1>2, <1>9, <1>10 DEF RunChildStack, f, g
<1> QED
  BY <1>3, <1>11

ChildReturnsStack ==
    /\ Len(stack) - 1 \in Nat
    /\ Len(stack') = Len(stack) - 1
    /\ \A i \in 1 .. Len(stack) - 1 :
         stack'[i] = IF i = Len(stack) - 1
                       THEN [stack[i] EXCEPT !.popped = @ + Top.popped, !.seen = Top.seen]
                       ELSE stack[i]

\* All but the count of a frame.
SameFrame(f, g) ==
    /\ f.pc = g.pc /\ f.loop = g.loop /\ f.outer = g.outer /\ f.at = g.at
    /\ f.rest = g.rest /\ f.cb = g.cb /\ f.old = g.old

LEMMA ChildReturnsFrames ==
    ASSUME ExecTypeOK, ChildReturnsStack
    PROVE  \A i \in 1 .. Len(stack) - 1 : SameFrame(stack'[i], stack[i])
<1>1. \A f \in Frame : SameFrame([f EXCEPT !.popped = @ + Top.popped, !.seen = Top.seen], f)
  BY DEF Frame, SameFrame
<1>2. \A f \in Frame : SameFrame(f, f)
  BY DEF SameFrame
<1>3. stack \in Seq(Frame)
  BY DEF ExecTypeOK
<1>4. PICK n \in Nat : n = Len(stack)
  BY <1>3
<1>5. \A i \in 1 .. n - 1 : stack[i] \in Frame
  BY <1>3, <1>4
<1>6. ASSUME NEW i \in 1 .. n - 1 PROVE SameFrame(stack'[i], stack[i])
  BY <1>1, <1>2, <1>4, <1>5 DEF ChildReturnsStack
<1> QED
  BY <1>4, <1>6

LEMMA ChildReturnsShape ==
    ASSUME ExecTypeOK, ExecTypeOK', ChildReturns
    PROVE  ChildReturnsStack
<1>1. stack \in Seq(Frame) /\ stack # <<>> /\ stack' \in Seq(Frame)
  BY DEF ExecTypeOK, ChildReturns
<1>2. Len(stack) \in Nat \ {0}
  BY <1>1, TopIsFrame
<1> DEFINE k == Len(stack) - 1
<1>3. k \in Nat /\ k <= Len(stack)
  BY <1>2
<1>4. SubSeq(stack, 1, k) = [i \in 1 .. k |-> stack[i]]
  BY <1>1, <1>2, <1>3
<1>5. stack' = [i \in 1 .. k |->
                  IF i = k THEN [stack[i] EXCEPT !.popped = @ + Top.popped, !.seen = Top.seen]
                  ELSE stack[i]]
  BY <1>4 DEF ChildReturns
<1>6. DOMAIN stack' = 1 .. k
  BY <1>5
<1>7. Len(stack') = k
  BY <1>1, <1>3, <1>6, LenProperties
<1> QED
  BY <1>3, <1>5, <1>7 DEF ChildReturnsStack

-----------------------------------------------------------------------------
(***************************************************************************)
(* Frames keep nesting.                                                    *)
(***************************************************************************)
LEMMA NestingCut ==
    ASSUME ExecTypeOK, NestingOK, NEW k \in 0 .. Len(stack) - 1,
           stack' = SubSeq(stack, 1, k)
    PROVE  NestingOK'
<1>1. stack \in Seq(Frame) /\ Len(stack) \in Nat
  BY DEF ExecTypeOK
<1>2. k \in 0 .. Len(stack)
  BY <1>1
<1>3. Len(stack') = k /\ \A i \in 1 .. k : stack'[i] = stack[i]
  BY <1>1, <1>2, CutStack
<1>4. ASSUME NEW i \in 1 .. k PROVE FrameNests(i)'
  <2>1. i \in 1 .. Len(stack) /\ i # Len(stack) /\ (i > 1 => i - 1 \in 1 .. k)
    BY <1>1
  <2>2. FrameNests(i)
    BY <2>1 DEF NestingOK
  <2> QED
    BY <1>3, <2>1, <2>2 DEF FrameNests
<1> QED
  BY <1>3, <1>4 DEF NestingOK

LEMMA NestingPush ==
    ASSUME ExecTypeOK, NestingOK, UserCode, NEW f \in Frame, Push(f),
           f.pc \in {"wait", "with_loop"}, f.pc = "wait" => f.outer, f.rest = {}
    PROVE  NestingOK'
<1>1. stack \in Seq(Frame) /\ Len(stack) \in Nat
  BY DEF ExecTypeOK
<1>2. /\ Len(stack') = Len(stack) + 1
      /\ stack'[Len(stack) + 1] = f
      /\ \A i \in 1 .. Len(stack) : stack'[i] = stack[i]
  BY <1>1, PushFrame
<1>3. ASSUME NEW i \in 1 .. Len(stack) PROVE FrameNests(i)'
  <2>1. FrameNests(i) /\ (i > 1 => i - 1 \in 1 .. Len(stack))
    BY <1>1 DEF NestingOK
  <2>2. stack[i].pc # "wait"
    <3>1. i = Len(stack) => stack # <<>>
      BY <1>1
    <3> QED
      BY <2>1, <3>1 DEF FrameNests, UserCode, IsUserFrame, Top
  <2> QED
    BY <1>2, <2>1, <2>2 DEF FrameNests
<1>4. PICK n : n = Len(stack) + 1
  OBVIOUS
<1>5. FrameNests(n)'
  BY <1>1, <1>2, <1>4 DEF FrameNests, ExecPcs
<1>6. \A i \in 1 .. Len(stack') : i \in 1 .. Len(stack) \/ i = n
  BY <1>1, <1>2, <1>4
<1> QED
  BY <1>3, <1>5, <1>6 DEF NestingOK

\* The innermost call goes on: same loop, same time, once it has left wait().
GoesOn(f) ==
    /\ stack # <<>>
    /\ f \in Frame
    /\ ReplaceTop(f)
    /\ Top.pc # "with_loop"
    /\ f.pc \in ExecPcs
    /\ f.loop = Top.loop
    /\ f.outer = Top.outer
    /\ f.old = Top.old
    /\ f.popped >= Top.popped
    /\ Top.pc # "wait" => f.at = Top.at
    /\ \A c \in f.rest : f.loop < c
    /\ f.pc # "children" => f.rest = {}
    /\ f.pc = "invoke" => f.popped > 0 /\ f.cb \in Callbacks

LEMMA NestingGoesOn ==
    ASSUME ExecTypeOK, NestingOK, NEW f, GoesOn(f)
    PROVE  NestingOK'
<1>1. stack \in Seq(Frame) /\ stack # <<>>
  BY DEF ExecTypeOK, GoesOn
<1>2. Top \in Frame /\ Len(stack) \in Nat \ {0}
  BY <1>1, TopIsFrame
<1>3. /\ Len(stack') = Len(stack)
      /\ stack'[Len(stack)] = f
      /\ \A i \in 1 .. Len(stack) - 1 : stack'[i] = stack[i]
  BY <1>1, ReplaceTopFrame DEF GoesOn
<1>4. ASSUME NEW i \in 1 .. Len(stack) - 1 PROVE FrameNests(i)'
  <2>1. /\ i \in 1 .. Len(stack) /\ i # Len(stack)
        /\ i > 1 => i - 1 \in 1 .. Len(stack) - 1
    BY <1>2
  <2>2. FrameNests(i)
    BY <2>1 DEF NestingOK
  <2> QED
    BY <1>3, <2>1, <2>2 DEF FrameNests
<1>5. FrameNests(Len(stack))'
  <2>1. FrameNests(Len(stack)) /\ Top = stack[Len(stack)]
    BY <1>2 DEF NestingOK, Top
  <2>2. Top.pc \in ExecPcs \cup {"wait"}
    BY <1>2 DEF GoesOn, Frame, Pcs, ExecPcs
  <2>3. Len(stack) > 1 => Len(stack) - 1 \in 1 .. Len(stack) - 1
    BY <1>2
  <2>4. f.pc # "wait"
    BY DEF GoesOn, ExecPcs
  <2>5. f.pc \in ExecPcs /\ ~f.outer
          => /\ Len(stack) > 1
             /\ stack[Len(stack) - 1].pc = "children"
             /\ stack[Len(stack) - 1].loop < f.loop
             /\ stack[Len(stack) - 1].at = f.at
    BY <2>1, <2>2 DEF FrameNests, GoesOn
  <2>6. /\ \A c \in f.rest : f.loop < c
        /\ f.pc # "children" => f.rest = {}
        /\ f.pc = "invoke" => f.popped > 0 /\ f.cb \in Callbacks
    BY DEF GoesOn
  <2> QED
    BY <1>3, <2>3, <2>4, <2>5, <2>6 DEF FrameNests
<1> QED
  BY <1>2, <1>3, <1>4, <1>5 DEF NestingOK

LEMMA WaitEndsGoesOn ==
    ASSUME ExecTypeOK, NestingOK, WaitEnds
    PROVE  GoesOn([Top EXCEPT !.pc = "pop", !.at = now, !.seen = {Top.loop}])
<1>1. stack \in Seq(Frame) /\ stack # <<>> /\ now \in Int
  BY EventLoopAssumption DEF ExecTypeOK, WaitEnds
<1>2. Top \in Frame /\ Len(stack) \in Nat \ {0}
  BY <1>1, TopIsFrame
<1>3. Top.rest = {}
  BY <1>2 DEF NestingOK, FrameNests, Top, WaitEnds
<1>4. [Top EXCEPT !.pc = "pop", !.at = now, !.seen = {Top.loop}] \in Frame
  BY <1>1, <1>2 DEF Frame, Pcs
<1>5. Top.popped \in Nat
  BY <1>2 DEF Frame
<1> QED
  BY <1>1, <1>2, <1>3, <1>4, <1>5 DEF GoesOn, WaitEnds, Frame, ExecPcs

LEMMA PopCallbackGoesOn ==
    ASSUME TypeOK, ExecTypeOK, NestingOK, NEW i \in queue[Top.loop],
           stack # <<>>, Top.pc = "pop",
           ReplaceTop([Top EXCEPT !.pc = "invoke", !.cb = i, !.popped = @ + 1])
    PROVE  /\ i \in Callbacks
           /\ GoesOn([Top EXCEPT !.pc = "invoke", !.cb = i, !.popped = @ + 1])
<1>1. stack \in Seq(Frame)
  BY DEF ExecTypeOK
<1>2. Top \in Frame /\ Len(stack) \in Nat \ {0}
  BY <1>1, TopIsFrame
<1>3. Top.rest = {}
  BY <1>2 DEF NestingOK, FrameNests, Top
<1>4. i \in Callbacks
  BY <1>2 DEF TypeOK, Frame
<1>5. Top.popped \in Nat /\ Top.popped + 1 \in Nat /\ Top.popped + 1 > 0
      /\ Top.popped + 1 >= Top.popped
  BY <1>2 DEF Frame
<1>6. [Top EXCEPT !.pc = "invoke", !.cb = i, !.popped = @ + 1] \in Frame
  BY <1>2, <1>4, <1>5 DEF Frame, Pcs
<1>7. GoesOn([Top EXCEPT !.pc = "invoke", !.cb = i, !.popped = @ + 1])
  BY <1>1, <1>2, <1>3, <1>4, <1>5, <1>6 DEF GoesOn, Frame, ExecPcs
<1> QED
  BY <1>4, <1>7

LEMMA ToChildrenGoesOn ==
    ASSUME TypeOK, ForestOK, ExecTypeOK, NestingOK, stack # <<>>,
           Top.pc \in ExecPcs, ReplaceTop(ToChildren(Top))
    PROVE  GoesOn(ToChildren(Top))
<1>1. stack \in Seq(Frame)
  BY DEF ExecTypeOK
<1>2. Top \in Frame /\ Len(stack) \in Nat \ {0}
  BY <1>1, TopIsFrame
<1>3. children[Top.loop] \in SUBSET Loops /\ \A c \in children[Top.loop] : Top.loop < c
  BY <1>2 DEF TypeOK, ForestOK, Frame
<1>4. ToChildren(Top) \in Frame
  BY <1>2, <1>3 DEF Frame, Pcs, ToChildren
<1>5. Top.popped \in Nat
  BY <1>2 DEF Frame
<1> QED
  BY <1>1, <1>2, <1>3, <1>4, <1>5 DEF GoesOn, ToChildren, Frame, ExecPcs

LEMMA NextPopGoesOn ==
    ASSUME ExecTypeOK, NestingOK, stack # <<>>, Top.pc = "invoke",
           ReplaceTop([Top EXCEPT !.pc = "pop", !.cb = 0])
    PROVE  GoesOn([Top EXCEPT !.pc = "pop", !.cb = 0])
<1>1. stack \in Seq(Frame)
  BY DEF ExecTypeOK
<1>2. Top \in Frame /\ Len(stack) \in Nat \ {0}
  BY <1>1, TopIsFrame
<1>3. Top.rest = {}
  BY <1>2 DEF NestingOK, FrameNests, Top
<1>4. [Top EXCEPT !.pc = "pop", !.cb = 0] \in Frame
  BY <1>2 DEF Frame, Pcs
<1>5. Top.popped \in Nat
  BY <1>2 DEF Frame
<1> QED
  BY <1>1, <1>2, <1>3, <1>4, <1>5 DEF GoesOn, Frame, ExecPcs

\* A step that leaves the innermost frame a running call of execCallbacksOne().
LEMMA StepGoesOn ==
    ASSUME TableInv, ExecTypeOK, NestingOK,
           WaitEnds \/ PopCallback \/ NothingToPop \/ CallbackReturns
    PROVE  \E f : GoesOn(f)
<1>1. TypeOK /\ ForestOK
  BY DEF TableInv
<1>2. CASE WaitEnds
  BY <1>2, WaitEndsGoesOn
<1>3. CASE PopCallback
  <2>1. PICK i \in queue[Top.loop] :
          ReplaceTop([Top EXCEPT !.pc = "invoke", !.cb = i, !.popped = @ + 1])
    BY <1>3 DEF PopCallback
  <2>2. GoesOn([Top EXCEPT !.pc = "invoke", !.cb = i, !.popped = @ + 1])
    BY <1>1, <1>3, <2>1, PopCallbackGoesOn DEF PopCallback
  <2> QED
    BY <2>2
<1>4. CASE NothingToPop
  <2>1. GoesOn(ToChildren(Top))
    BY <1>1, <1>4, ToChildrenGoesOn DEF NothingToPop, ExecPcs
  <2> QED
    BY <2>1
<1>5. CASE CallbackReturns
  <2>1. CASE Top.all
    BY <1>5, <2>1, NextPopGoesOn DEF CallbackReturns
  <2>2. CASE ~Top.all
    <3>1. GoesOn(ToChildren(Top))
      BY <1>1, <1>5, <2>2, ToChildrenGoesOn DEF CallbackReturns, ExecPcs
    <3> QED
      BY <3>1
  <2> QED
    BY <2>1, <2>2
<1> QED
  BY <1>2, <1>3, <1>4, <1>5

LEMMA RunChildNests ==
    ASSUME TypeOK, ExecTypeOK, NestingOK, RunChild
    PROVE  NestingOK'
<1>1. stack \in Seq(Frame) /\ stack # <<>> /\ Top.pc = "children"
  BY DEF ExecTypeOK, RunChild
<1>2. Top \in Frame /\ Len(stack) \in Nat \ {0}
  BY <1>1, TopIsFrame
<1>3. PICK c \in Top.rest : RunChildStack(c)
  BY RunChildShape
<1>4. PICK n \in Nat \ {0} : n = Len(stack)
  BY <1>2
<1>5. /\ Len(stack') = n + 1
      /\ \A i \in 1 .. n - 1 : stack'[i] = stack[i]
      /\ stack'[n] = [Top EXCEPT !.rest = @ \ {c}]
      /\ stack'[n + 1].pc = "pop"
      /\ stack'[n + 1].loop = c
      /\ stack'[n + 1].at = Top.at
      /\ stack'[n + 1].rest = {}
  BY <1>3, <1>4 DEF RunChildStack
<1>6. /\ stack'[n].pc = "children" /\ stack'[n].loop = Top.loop
      /\ stack'[n].at = Top.at /\ stack'[n].outer = Top.outer
      /\ stack'[n].rest = Top.rest \ {c}
  BY <1>1, <1>2, <1>5 DEF Frame
<1>7. FrameNests(n) /\ Top = stack[n]
  BY <1>2, <1>4 DEF NestingOK, Top
<1>8. ASSUME NEW i \in 1 .. n - 1 PROVE FrameNests(i)'
  <2>1. FrameNests(i) /\ i # n /\ (i > 1 => i - 1 \in 1 .. n - 1)
    BY <1>4 DEF NestingOK
  <2> QED
    BY <1>4, <1>5, <2>1 DEF FrameNests
<1>9. FrameNests(n)'
  <2>1. n > 1 => stack'[n - 1] = stack[n - 1]
    BY <1>5
  <2> QED
    BY <1>1, <1>6, <1>7, <2>1 DEF FrameNests
<1>10. FrameNests(n + 1)'
  <2>1. n + 1 > 1 /\ (n + 1) - 1 = n
    OBVIOUS
  <2>2. Top.loop < c
    BY <1>7 DEF FrameNests
  <2> QED
    BY <1>5, <1>6, <2>1, <2>2 DEF FrameNests
<1>11. \A i \in 1 .. Len(stack') : i \in 1 .. n - 1 \/ i = n \/ i = n + 1
  BY <1>5
<1> QED
  BY <1>8, <1>9, <1>10, <1>11 DEF NestingOK

LEMMA ChildReturnsNests ==
    ASSUME ExecTypeOK, ExecTypeOK', NestingOK, ChildReturns
    PROVE  NestingOK'
<1>1. stack \in Seq(Frame) /\ stack # <<>> /\ Top.pc = "children" /\ ~Top.outer
  BY DEF ExecTypeOK, ChildReturns
<1>2. /\ Top \in Frame /\ Len(stack) \in Nat \ {0}
      /\ \A i \in 1 .. Len(stack) : stack[i] \in Frame
  BY <1>1, TopIsFrame
<1>3. PICK n \in Nat \ {0} : n = Len(stack)
  BY <1>2
<1>4. /\ Len(stack') = n - 1
      /\ \A i \in 1 .. n - 1 :
           stack'[i] = IF i = n - 1 THEN [stack[i] EXCEPT !.popped = @ + Top.popped, !.seen = Top.seen]
                       ELSE stack[i]
  BY <1>3, ChildReturnsShape DEF ChildReturnsStack
<1>5. Top = stack[n] /\ n \in 1 .. n
  BY <1>3 DEF Top
<1>6. stack[n - 1].pc = "children"
  BY <1>1, <1>3, <1>5 DEF NestingOK, FrameNests, ExecPcs
<1>7. \A i \in 1 .. n - 1 :
        /\ stack'[i].pc = stack[i].pc
        /\ stack'[i].loop = stack[i].loop
        /\ stack'[i].outer = stack[i].outer
        /\ stack'[i].at = stack[i].at
        /\ stack'[i].rest = stack[i].rest
        /\ stack'[i].cb = stack[i].cb
        /\ i # n - 1 => stack'[i] = stack[i]
  BY <1>3, <1>4, ChildReturnsShape, ChildReturnsFrames DEF SameFrame
<1>8. ASSUME NEW i \in 1 .. n - 1 PROVE FrameNests(i)'
  <2>1. FrameNests(i) /\ i # Len(stack) /\ (i > 1 => i - 1 \in 1 .. n - 1)
    BY <1>3 DEF NestingOK
  <2>2. stack'[i].pc = "invoke" => stack'[i] = stack[i]
    BY <1>6, <1>7
  <2> QED
    BY <1>7, <2>1, <2>2 DEF FrameNests
<1> QED
  BY <1>4, <1>8 DEF NestingOK

LEMMA PushedFrames ==
    ASSUME TypeOK, ExecTypeOK, NEW l \in Loops,
           WithLoop(l) \/ \E t \in Timeouts, all \in BOOLEAN : RunNow(l, t, all)
    PROVE  \E f \in Frame :
             /\ Push(f) /\ f.rest = {} /\ f.old = current_registry
             /\ \/ f.pc = "with_loop" /\ WithLoop(l) /\ f.loop = l /\ ~f.outer
                \/ f.pc = "wait" /\ f.outer /\ UNCHANGED tableVars
             /\ f.popped = 0
<1>1. stack \in Seq(Frame) /\ now \in Int /\ MaxTime \in Int
  BY EventLoopAssumption DEF ExecTypeOK
<1>2. CASE WithLoop(l)
  <2> DEFINE f == [pc |-> "with_loop", loop |-> l, all |-> TRUE, outer |-> FALSE,
                   at |-> now, old |-> current_registry, cb |-> 0, rest |-> {},
                   seen |-> {}, popped |-> 0]
  <2>1. f \in Frame
    BY <1>1 DEF Frame, Pcs, TypeOK
  <2>2. Push(f)
    BY <1>2 DEF WithLoop
  <2> QED
    BY <1>2, <2>1, <2>2
<1>3. CASE \E t \in Timeouts, all \in BOOLEAN : RunNow(l, t, all)
  <2>1. PICK t \in Timeouts, all \in BOOLEAN : RunNow(l, t, all)
    BY <1>3
  <2> DEFINE f == [pc |-> "wait", loop |-> l, all |-> all, outer |-> TRUE,
                   at |-> ExpireTime(t), old |-> current_registry, cb |-> 0,
                   rest |-> {}, seen |-> {}, popped |-> 0]
  <2>2. ExpireTime(t) \in Int
    BY <1>1, EventLoopAssumption DEF ExpireTime
  <2>3. f \in Frame
    BY <2>2 DEF Frame, Pcs, TypeOK
  <2>4. Push(f) /\ UNCHANGED tableVars
    BY <2>1 DEF RunNow
  <2> QED
    BY <2>3, <2>4
<1> QED
  BY <1>2, <1>3

\* The steps that cut the stack.
LEMMA PoppedFrames ==
    ASSUME ExecTypeOK, stack # <<>>, Pop
    PROVE  /\ Len(stack) - 1 \in 0 .. Len(stack) - 1
           /\ stack' = SubSeq(stack, 1, Len(stack) - 1)
<1>1. Len(stack) \in Nat \ {0}
  BY TopIsFrame DEF ExecTypeOK
<1> QED
  BY <1>1 DEF Pop

LEMMA QuietNesting ==
    ASSUME NestingOK, UNCHANGED stack
    PROVE  NestingOK'
BY DEF NestingOK, FrameNests

LEMMA NestingStep ==
    ASSUME TableInv, ExecTypeOK, ExecTypeOK', NestingOK, [Next]_vars
    PROVE  NestingOK'
<1>1. TypeOK
  BY DEF TableInv
<1>2. CASE UNCHANGED stack
  BY <1>2, QuietNesting
<1>3. CASE WaitEnds \/ PopCallback \/ NothingToPop \/ CallbackReturns
  BY <1>3, StepGoesOn, NestingGoesOn
<1>4. CASE RunChild
  BY <1>1, <1>4, RunChildNests
<1>5. CASE ChildReturns
  BY <1>5, ChildReturnsNests
<1>6. CASE WaitTimesOut \/ ExecCallbacksReturns \/ EndWithLoop
  <2>1. stack # <<>> /\ Pop
    BY <1>6 DEF WaitTimesOut, ExecCallbacksReturns, EndWithLoop
  <2> QED
    BY <2>1, PoppedFrames, NestingCut
<1>7. CASE \E k \in 0 .. Len(stack) : Throw(k)
  BY <1>7, NestingCut DEF Throw
<1>8. CASE \E l \in Loops : \/ WithLoop(l)
                            \/ \E t \in Timeouts, all \in BOOLEAN : RunNow(l, t, all)
  <2>1. UserCode
    BY <1>8 DEF WithLoop, RunNow
  <2>2. PICK f \in Frame : /\ Push(f) /\ f.rest = {}
                           /\ f.pc \in {"wait", "with_loop"}
                           /\ f.pc = "wait" => f.outer
    BY <1>1, <1>8, PushedFrames
  <2> QED
    BY <2>1, <2>2, NestingPush
<1>9. CASE UserStep \/ \E l \in Loops : GarbageCollect(l)
  <2>1. CASE \/ \E l \in Loops, d \in Delays : Later(l, d)
             \/ \E i \in Callbacks : Cancel(i)
    BY <1>2, <2>1 DEF Later, Schedule, Cancel
  <2>2. CASE \/ \E p \in Loops \cup {NoLoop} : UserCreateLoop(p)
             \/ \E l \in Loops : UserDestroyLoop(l)
             \/ \E l \in Loops : GarbageCollect(l)
    BY <1>2, <2>2 DEF UserCreateLoop, UserDestroyLoop, GarbageCollect, execVars
  <2> QED
    BY <1>3, <1>6, <1>7, <1>8, <1>9, <2>1, <2>2 DEF UserStep
<1>10. CASE \/ \E l \in Loops, d \in Delays, n \in BOOLEAN : ExecLaterNative(l, d, n)
            \/ \E l \in Loops : FdWaits(l)
            \/ Tick
            \/ UNCHANGED vars
  BY <1>2, <1>10 DEF ExecLaterNative, Schedule, FdWaits, Tick, vars, execVars
<1> QED
  BY <1>3, <1>4, <1>5, <1>6, <1>9, <1>10 DEF Next, MainStep

LEMMA NestingInit == Init => NestingOK
BY DEF Init, NestingOK

\* Frames nest as FrameNests says, at any depth.
THEOREM LoopNesting == Spec => [](TableInv /\ ExecTypeOK /\ NestingOK)
<1>1. Init => TableInv /\ ExecTypeOK /\ NestingOK
  BY InitTypeOK, NestingInit
<1>2. TableInv /\ ExecTypeOK /\ NestingOK /\ [Next]_vars
        => (TableInv /\ ExecTypeOK /\ NestingOK)'
  BY NextTypeOK, NestingStep
<1> QED
  BY <1>1, <1>2, PTL DEF Spec

(***************************************************************************)
(* Within one pass execCallbacksOne() only descends, to younger loops and  *)
(* with the time at which the pass started, whatever callbacks create,     *)
(* destroy or throw and however deep passes nest.                          *)
(***************************************************************************)
THEOREM LoopPassDescends == Spec => []PassDescends
<1>1. ExecTypeOK /\ NestingOK => PassDescends
  <2>1. ExecTypeOK => DOMAIN stack = 1 .. Len(stack)
    BY LenProperties DEF ExecTypeOK
  <2> QED
    BY <2>1 DEF NestingOK, FrameNests, PassDescends
<1> QED
  BY <1>1, LoopNesting, PTL

-----------------------------------------------------------------------------
(***************************************************************************)
(* The RAII guards, when every callback turns R's errors into C++          *)
(* exceptions.                                                             *)
(***************************************************************************)
LEMMA ExecFramesFinite ==
    ASSUME ExecTypeOK
    PROVE  IsFiniteSet(ExecFrames)
<1>1. DOMAIN stack = 1 .. Len(stack) /\ Len(stack) \in Nat
  BY LenProperties DEF ExecTypeOK
<1>2. IsFiniteSet(1 .. Len(stack))
  BY <1>1, FS_Interval
<1>3. ExecFrames \in SUBSET (1 .. Len(stack))
  BY <1>1 DEF ExecFrames
<1> QED
  BY <1>2, <1>3, FS_Subset

LEMMA QuietGuards ==
    ASSUME GuardsInv,
           UNCHANGED <<stack, current_registry, exec_callbacks_reentrancy_count>>
    PROVE  OldOK' /\ GuardsMatchStack'
BY DEF GuardsInv, OldOK, LoopBelow, GuardsMatchStack, ActiveLoop, ExecFrames, Top

\* Where the guards of the frames above the k-th leave the program.
LEMMA GuardsCut ==
    ASSUME ExecTypeOK, ExecTypeOK', NestingOK, GuardsInv,
           NEW k \in 0 .. Len(stack) - 1,
           stack' = SubSeq(stack, 1, k),
           current_registry' = LoopBelow(k + 1),
           exec_callbacks_reentrancy_count' = exec_callbacks_reentrancy_count -
             Cardinality({i \in k + 1 .. Len(stack) : stack[i].pc \in ExecPcs})
    PROVE  OldOK' /\ GuardsMatchStack'
<1>1. stack \in Seq(Frame) /\ Len(stack) \in Nat /\ DOMAIN stack = 1 .. Len(stack)
  BY LenProperties DEF ExecTypeOK
<1>2. k \in 0 .. Len(stack) /\ k \in Nat /\ k < Len(stack)
  BY <1>1
<1>3. Len(stack') = k /\ stack' \in Seq(Frame) /\ \A i \in 1 .. k : stack'[i] = stack[i]
  BY <1>1, <1>2, CutStack
<1>4. DOMAIN stack' = 1 .. k
  BY <1>3, LenProperties
<1>5. OldOK'
  <2>1. ASSUME NEW i \in 1 .. k PROVE stack'[i].old = LoopBelow(i)'
    <3>1. i \in 1 .. Len(stack) /\ (i # 1 => i - 1 \in 1 .. k)
      BY <1>1, <1>2
    <3>2. stack[i].old = LoopBelow(i)
      BY <3>1 DEF GuardsInv, OldOK
    <3> QED
      BY <1>3, <3>1, <3>2 DEF LoopBelow
  <2> QED
    BY <1>3, <2>1 DEF OldOK
<1>6. current_registry' = ActiveLoop'
  <2>1. CASE k = 0
    BY <1>3, <2>1 DEF LoopBelow, ActiveLoop
  <2>2. CASE k # 0
    <3>1. k \in 1 .. Len(stack) /\ k # Len(stack) /\ k + 1 # 1 /\ (k + 1) - 1 = k
      <4>1. PICK n \in Nat : n = Len(stack)
        BY <1>1
      <4> QED
        BY <1>2, <2>2, <4>1
    <3>2. stack[k].pc # "wait"
      BY <3>1 DEF NestingOK, FrameNests
    <3>3. stack' # <<>> /\ stack'[Len(stack')] = stack[k]
      BY <1>2, <1>3, <2>2
    <3> QED
      BY <3>1, <3>2, <3>3 DEF LoopBelow, ActiveLoop, Top
  <2> QED
    BY <2>1, <2>2
<1>7. exec_callbacks_reentrancy_count' = Cardinality(ExecFrames')
  <2> DEFINE T == {i \in k + 1 .. Len(stack) : stack[i].pc \in ExecPcs}
  <2>1. ExecFrames' = ExecFrames \ T
    <3>1. \A i \in 1 .. k : i \in 1 .. Len(stack) /\ i \notin k + 1 .. Len(stack)
      BY <1>1, <1>2
    <3>2. \A i \in 1 .. Len(stack) : i \in 1 .. k \/ i \in k + 1 .. Len(stack)
      BY <1>1, <1>2
    <3> QED
      BY <1>1, <1>3, <1>4, <3>1, <3>2 DEF ExecFrames
  <2>2. T = ExecFrames \cap T
    <3>1. k + 1 .. Len(stack) \subseteq 1 .. Len(stack)
      BY <1>1, <1>2
    <3> QED
      BY <1>1, <3>1 DEF ExecFrames
  <2>3. IsFiniteSet(ExecFrames)
    BY ExecFramesFinite
  <2> HIDE DEF T
  <2>4. Cardinality(ExecFrames \ T) = Cardinality(ExecFrames) - Cardinality(ExecFrames \cap T)
    BY <2>3, FS_Difference
  <2>5. exec_callbacks_reentrancy_count' = Cardinality(ExecFrames) - Cardinality(T)
    BY DEF GuardsInv, GuardsMatchStack, T
  <2> QED
    BY <2>1, <2>2, <2>4, <2>5
<1> QED
  BY <1>5, <1>6, <1>7 DEF GuardsMatchStack

LEMMA GuardsPop ==
    ASSUME ExecTypeOK, ExecTypeOK', NestingOK, GuardsInv, stack # <<>>, Pop,
           current_registry' = Top.old,
           exec_callbacks_reentrancy_count' =
             exec_callbacks_reentrancy_count - (IF Top.pc \in ExecPcs THEN 1 ELSE 0)
    PROVE  OldOK' /\ GuardsMatchStack'
<1>1. Len(stack) \in Nat \ {0}
  BY TopIsFrame DEF ExecTypeOK
<1>2. PICK k \in 0 .. Len(stack) - 1 : k = Len(stack) - 1
  BY <1>1
<1>3. stack' = SubSeq(stack, 1, k) /\ k + 1 = Len(stack)
  BY <1>1, <1>2 DEF Pop
<1>4. current_registry' = LoopBelow(k + 1)
  BY <1>1, <1>3 DEF GuardsInv, OldOK, Top
<1>5. k + 1 .. Len(stack) = {Len(stack)}
  BY <1>1, <1>3
<1>6. Cardinality({i \in k + 1 .. Len(stack) : stack[i].pc \in ExecPcs})
        = IF Top.pc \in ExecPcs THEN 1 ELSE 0
  <2>1. CASE Top.pc \in ExecPcs
    <3>1. {i \in k + 1 .. Len(stack) : stack[i].pc \in ExecPcs} = {Len(stack)}
      BY <1>5, <2>1 DEF Top
    <3> QED
      BY <2>1, <3>1, FS_Singleton
  <2>2. CASE Top.pc \notin ExecPcs
    <3>1. {i \in k + 1 .. Len(stack) : stack[i].pc \in ExecPcs} = {}
      BY <1>5, <2>2 DEF Top
    <3> QED
      BY <2>2, <3>1, FS_EmptySet
  <2> QED
    BY <2>1, <2>2
<1>7. exec_callbacks_reentrancy_count' = exec_callbacks_reentrancy_count -
        Cardinality({i \in k + 1 .. Len(stack) : stack[i].pc \in ExecPcs})
  BY <1>6
<1> QED
  BY <1>3, <1>4, <1>7, GuardsCut

LEMMA GuardsGoesOn ==
    ASSUME ExecTypeOK, NestingOK, GuardsInv, NEW f, GoesOn(f),
           current_registry' = Top.loop,
           exec_callbacks_reentrancy_count' =
             exec_callbacks_reentrancy_count + (IF Top.pc = "wait" THEN 1 ELSE 0)
    PROVE  OldOK' /\ GuardsMatchStack'
<1>1. stack \in Seq(Frame) /\ stack # <<>>
  BY DEF ExecTypeOK, GoesOn
<1>2. Top \in Frame
  BY <1>1, TopIsFrame
<1>3. PICK n \in Nat \ {0} : n = Len(stack)
  BY <1>1, TopIsFrame
<1>4. /\ Len(stack') = n
      /\ stack' \in Seq(Frame)
      /\ stack'[n] = f
      /\ \A i \in 1 .. n - 1 : stack'[i] = stack[i]
  BY <1>1, <1>3, ReplaceTopFrame DEF GoesOn
<1>5. Top = stack[n] /\ DOMAIN stack = 1 .. n /\ DOMAIN stack' = 1 .. n
  BY <1>1, <1>3, <1>4, LenProperties DEF Top
<1>6. OldOK'
  <2>1. ASSUME NEW i \in 1 .. n PROVE stack'[i].old = LoopBelow(i)'
    <3>1. stack'[i].old = stack[i].old
      BY <1>3, <1>4, <1>5 DEF GoesOn
    <3>2. i # 1 => i - 1 \in 1 .. n - 1
      OBVIOUS
    <3>3. stack[i].old = LoopBelow(i)
      BY <1>3 DEF GuardsInv, OldOK
    <3> QED
      BY <1>4, <3>1, <3>2, <3>3 DEF LoopBelow
  <2> QED
    BY <1>4, <2>1 DEF OldOK
<1>7. current_registry' = ActiveLoop'
  <2>1. f.pc # "wait" /\ f.loop = Top.loop
    BY DEF GoesOn, ExecPcs
  <2>2. stack' # <<>>
    BY <1>4
  <2> QED
    BY <1>4, <2>1, <2>2 DEF ActiveLoop, Top
<1>8. ExecFrames' = ExecFrames \cup {n}
  <2>1. f.pc \in ExecPcs
    BY DEF GoesOn
  <2> QED
    BY <1>4, <1>5, <2>1 DEF ExecFrames
<1>9. n \in ExecFrames <=> Top.pc # "wait"
  BY <1>2, <1>5 DEF ExecFrames, GoesOn, Frame, Pcs, ExecPcs
<1>10. /\ IsFiniteSet(ExecFrames)
       /\ Cardinality(ExecFrames) \in Nat
  BY ExecFramesFinite, FS_CardinalityType
<1>11. Cardinality(ExecFrames \cup {n}) =
         IF n \in ExecFrames THEN Cardinality(ExecFrames) ELSE Cardinality(ExecFrames) + 1
  BY <1>10, FS_AddElement
<1>12. exec_callbacks_reentrancy_count' = Cardinality(ExecFrames')
  BY <1>8, <1>9, <1>10, <1>11 DEF GuardsInv, GuardsMatchStack
<1> QED
  BY <1>6, <1>7, <1>12 DEF GuardsMatchStack

\* A frame is pushed and its loop, or that of the frame below, is current.
LEMMA GuardsPush ==
    ASSUME ExecTypeOK, NestingOK, GuardsInv, UserCode, NEW f \in Frame, Push(f),
           f.pc \in {"wait", "with_loop"}, f.old = current_registry,
           current_registry' = (IF f.pc = "wait" THEN current_registry ELSE f.loop),
           UNCHANGED exec_callbacks_reentrancy_count
    PROVE  OldOK' /\ GuardsMatchStack'
<1>1. stack \in Seq(Frame)
  BY DEF ExecTypeOK
<1>2. PICK n \in Nat : n = Len(stack)
  BY <1>1
<1>3. /\ stack' \in Seq(Frame)
      /\ Len(stack') = n + 1
      /\ stack'[n + 1] = f
      /\ \A i \in 1 .. n : stack'[i] = stack[i]
  BY <1>1, <1>2, PushFrame
<1>4. DOMAIN stack = 1 .. n /\ DOMAIN stack' = 1 .. n + 1
  BY <1>1, <1>2, <1>3, LenProperties
<1>5. OldOK'
  <2>1. ASSUME NEW i \in 1 .. n PROVE stack'[i].old = LoopBelow(i)'
    <3>1. stack[i].old = LoopBelow(i) /\ (i # 1 => i - 1 \in 1 .. n)
      BY <1>2 DEF GuardsInv, OldOK
    <3> QED
      BY <1>3, <3>1 DEF LoopBelow
  <2>2. stack'[n + 1].old = LoopBelow(n + 1)'
    <3>1. CASE n = 0
      <4>1. stack = <<>>
        BY <1>1, <1>2, <3>1, EmptySeq
      <4> QED
        BY <1>3, <3>1, <4>1 DEF GuardsInv, GuardsMatchStack, ActiveLoop, LoopBelow
    <3>2. CASE n # 0
      <4>1. stack # <<>>
        BY <1>1, <1>2, <3>2
      <4>2. Top.pc # "wait"
        BY <4>1 DEF UserCode, IsUserFrame
      <4>3. current_registry = stack[n].loop
        BY <1>2, <4>1, <4>2 DEF GuardsInv, GuardsMatchStack, ActiveLoop, Top
      <4>4. n \in 1 .. n /\ (n + 1) - 1 = n /\ n + 1 # 1
        BY <3>2
      <4> QED
        BY <1>3, <4>3, <4>4 DEF LoopBelow
    <3> QED
      BY <3>1, <3>2
  <2>3. \A i \in 1 .. n + 1 : i \in 1 .. n \/ i = n + 1
    OBVIOUS
  <2> QED
    BY <1>3, <2>1, <2>2, <2>3 DEF OldOK
<1>6. current_registry' = ActiveLoop'
  <2>1. stack' # <<>>
    BY <1>3
  <2> QED
    BY <1>3, <2>1 DEF ActiveLoop, Top
<1>7. ExecFrames' = ExecFrames
  <2>1. \A i \in 1 .. n + 1 : i \in 1 .. n \/ i = n + 1
    OBVIOUS
  <2>2. \A i \in 1 .. n : i \in 1 .. n + 1
    OBVIOUS
  <2> QED
    BY <1>3, <1>4, <2>1, <2>2 DEF ExecFrames, ExecPcs
<1> QED
  BY <1>5, <1>6, <1>7 DEF GuardsInv, GuardsMatchStack

LEMMA GuardsRunChild ==
    ASSUME TypeOK, ExecTypeOK, ExecTypeOK', NestingOK, GuardsInv, RunChild
    PROVE  OldOK' /\ GuardsMatchStack'
<1>1. stack \in Seq(Frame) /\ stack # <<>> /\ Top.pc = "children" /\ stack' \in Seq(Frame)
  BY DEF ExecTypeOK, RunChild
<1>2. PICK n \in Nat \ {0} : n = Len(stack)
  BY <1>1, TopIsFrame
<1>3. PICK c \in Top.rest : Enter(c) /\ RunChildStack(c)
  BY RunChildShape
<1>4. /\ Len(stack') = n + 1
      /\ \A i \in 1 .. n - 1 : stack'[i] = stack[i]
      /\ stack'[n] = [Top EXCEPT !.rest = @ \ {c}]
      /\ stack'[n + 1].pc = "pop"
      /\ stack'[n + 1].loop = c
      /\ stack'[n + 1].old = current_registry
  BY <1>2, <1>3 DEF RunChildStack
<1>5. Top = stack[n] /\ DOMAIN stack = 1 .. n /\ DOMAIN stack' = 1 .. n + 1
  BY <1>1, <1>2, <1>4, LenProperties DEF Top
<1>6. /\ stack'[n].pc = stack[n].pc /\ stack'[n].old = stack[n].old
      /\ stack'[n].loop = stack[n].loop
  BY <1>1, <1>4, <1>5, TopIsFrame DEF Frame
<1>7. \A i \in 1 .. n : /\ stack'[i].pc = stack[i].pc /\ stack'[i].old = stack[i].old
                        /\ stack'[i].loop = stack[i].loop
  <2>1. \A i \in 1 .. n : i = n \/ i \in 1 .. n - 1
    OBVIOUS
  <2> QED
    BY <1>4, <1>6, <2>1
<1>8. OldOK'
  <2>1. ASSUME NEW i \in 1 .. n PROVE stack'[i].old = LoopBelow(i)'
    <3>1. stack[i].old = LoopBelow(i) /\ (i # 1 => i - 1 \in 1 .. n)
      BY <1>2 DEF GuardsInv, OldOK
    <3> QED
      BY <1>7, <3>1 DEF LoopBelow
  <2>2. stack'[n + 1].old = LoopBelow(n + 1)'
    <3>1. current_registry = stack[n].loop
      BY <1>1, <1>5 DEF GuardsInv, GuardsMatchStack, ActiveLoop
    <3>2. n \in 1 .. n /\ (n + 1) - 1 = n /\ n + 1 # 1
      OBVIOUS
    <3> QED
      BY <1>4, <1>7, <3>1, <3>2 DEF LoopBelow
  <2>3. \A i \in 1 .. n + 1 : i \in 1 .. n \/ i = n + 1
    OBVIOUS
  <2> QED
    BY <1>4, <2>1, <2>2, <2>3 DEF OldOK
<1>9. current_registry' = ActiveLoop'
  <2>1. stack' # <<>>
    BY <1>4
  <2> QED
    BY <1>3, <1>4, <2>1 DEF ActiveLoop, Top, Enter, SetCurrentRegistryId
<1>10. ExecFrames' = ExecFrames \cup {n + 1} /\ n + 1 \notin ExecFrames
  <2>1. \A i \in 1 .. n + 1 : i \in 1 .. n \/ i = n + 1
    OBVIOUS
  <2>2. n + 1 \in 1 .. n + 1 /\ n + 1 \notin 1 .. n /\ \A i \in 1 .. n : i \in 1 .. n + 1
    OBVIOUS
  <2> QED
    BY <1>4, <1>5, <1>7, <2>1, <2>2 DEF ExecFrames, ExecPcs
<1>11. Cardinality(ExecFrames') = Cardinality(ExecFrames) + 1
  BY <1>10, ExecFramesFinite, FS_AddElement
<1>12. exec_callbacks_reentrancy_count' = Cardinality(ExecFrames')
  BY <1>3, <1>11 DEF GuardsInv, GuardsMatchStack, Enter
<1> QED
  BY <1>8, <1>9, <1>12 DEF GuardsMatchStack

LEMMA GuardsChildReturns ==
    ASSUME ExecTypeOK, ExecTypeOK', NestingOK, GuardsInv, ChildReturns
    PROVE  OldOK' /\ GuardsMatchStack'
<1>1. /\ stack \in Seq(Frame) /\ stack # <<>> /\ stack' \in Seq(Frame)
      /\ Top.pc = "children" /\ ~Top.outer
  BY DEF ExecTypeOK, ChildReturns
<1>2. PICK n \in Nat \ {0} : n = Len(stack)
  BY <1>1, TopIsFrame
<1>3. /\ Len(stack') = n - 1
      /\ \A i \in 1 .. n - 1 : /\ stack'[i].pc = stack[i].pc
                               /\ stack'[i].old = stack[i].old
                               /\ stack'[i].loop = stack[i].loop
  BY <1>2, ChildReturnsShape, ChildReturnsFrames DEF ChildReturnsStack, SameFrame
<1>4. Top = stack[n] /\ DOMAIN stack = 1 .. n /\ DOMAIN stack' = 1 .. n - 1
  BY <1>1, <1>2, <1>3, LenProperties DEF Top
<1>5. n > 1 /\ stack[n - 1].pc = "children"
  BY <1>1, <1>2, <1>4 DEF NestingOK, FrameNests, ExecPcs
<1>6. OldOK'
  <2>1. ASSUME NEW i \in 1 .. n - 1 PROVE stack'[i].old = LoopBelow(i)'
    <3>1. stack[i].old = LoopBelow(i) /\ (i # 1 => i - 1 \in 1 .. n - 1)
      BY <1>2 DEF GuardsInv, OldOK
    <3> QED
      BY <1>3, <3>1 DEF LoopBelow
  <2> QED
    BY <1>3, <2>1 DEF OldOK
<1>7. current_registry' = ActiveLoop'
  <2>1. stack' # <<>> /\ n - 1 \in 1 .. n - 1 /\ n # 1 /\ n \in 1 .. n
    BY <1>3, <1>5
  <2>2. Top.old = stack[n - 1].loop
    BY <1>2, <1>4, <2>1 DEF GuardsInv, OldOK, LoopBelow
  <2> QED
    BY <1>3, <1>5, <2>1, <2>2 DEF ActiveLoop, Top, ChildReturns, Leave
<1>8. ExecFrames' = ExecFrames \ {n} /\ n \in ExecFrames
  <2>1. \A i \in 1 .. n : i # n => i \in 1 .. n - 1
    OBVIOUS
  <2>2. n \in 1 .. n /\ \A i \in 1 .. n - 1 : i \in 1 .. n /\ i # n
    OBVIOUS
  <2> QED
    BY <1>1, <1>3, <1>4, <2>1, <2>2 DEF ExecFrames, ExecPcs
<1>9. Cardinality(ExecFrames') = Cardinality(ExecFrames) - 1
  BY <1>8, ExecFramesFinite, FS_RemoveElement
<1>10. exec_callbacks_reentrancy_count' = Cardinality(ExecFrames')
  BY <1>9 DEF GuardsInv, GuardsMatchStack, ChildReturns, Leave
<1> QED
  BY <1>6, <1>7, <1>10 DEF GuardsMatchStack

LEMMA GuardsThrow ==
    ASSUME ExecTypeOK, ExecTypeOK', NestingOK, GuardsInv,
           NEW k \in 0 .. Len(stack), Throw(k)
    PROVE  OldOK' /\ GuardsMatchStack'
<1>1. stack \in Seq(Frame) /\ Len(stack) \in Nat /\ k \in 0 .. Len(stack) - 1
  BY DEF ExecTypeOK, Throw
<1>2. PICK n \in Nat : n = Len(stack)
  BY <1>1
<1>3. k \in Nat /\ k < n /\ k + 1 \in k + 1 .. n /\ k + 1 \in 1 .. n
  BY <1>1, <1>2
<1>4. \A g \in 1 .. n : stack[g].pc = "invoke" => ~callback[stack[g].cb].native
  BY <1>2 DEF NestingOK, FrameNests, GuardsInv, NoLongjmp
<1>5. Unwound(k) = k + 1 .. n
  <2>1. \A i \in k + 1 .. n : \A g \in i .. n : g \in 1 .. n
    BY <1>3
  <2> QED
    BY <1>2, <1>4, <2>1 DEF Unwound
<1>6. current_registry' = stack[k + 1].old
  <2>1. Unwound(k) # {}
    BY <1>3, <1>5
  <2>2. PICK i \in Unwound(k) :
          (\A j \in Unwound(k) : i <= j) /\ SetCurrentRegistryId(stack[i].old)
    BY <2>1 DEF Throw
  <2>3. i = k + 1
    <3>1. i \in k + 1 .. n /\ i <= k + 1
      BY <1>3, <1>5, <2>2
    <3> QED
      BY <1>3, <3>1
  <2> QED
    BY <2>2, <2>3 DEF SetCurrentRegistryId
<1>7. current_registry' = LoopBelow(k + 1)
  BY <1>2, <1>3, <1>6 DEF GuardsInv, OldOK
<1>8. exec_callbacks_reentrancy_count' = exec_callbacks_reentrancy_count -
        Cardinality({i \in k + 1 .. Len(stack) : stack[i].pc \in ExecPcs})
  BY <1>2, <1>5 DEF Throw
<1>9. stack' = SubSeq(stack, 1, k)
  BY DEF Throw
<1> QED
  BY <1>1, <1>7, <1>8, <1>9, GuardsCut

\* The steps that only change a callback, a queue or the table of loops.
QuietSteps ==
    \/ \E l \in Loops, d \in Delays : Later(l, d)
    \/ \E i \in Callbacks : Cancel(i)
    \/ \E p \in Loops \cup {NoLoop} : UserCreateLoop(p)
    \/ \E l \in Loops : UserDestroyLoop(l)
    \/ \E l \in Loops : GarbageCollect(l)
    \/ \E l \in Loops, d \in Delays, n \in BOOLEAN : ExecLaterNative(l, d, n)
    \/ \E l \in Loops : FdWaits(l)
    \/ Tick

LEMMA QuietStepsAreQuiet ==
    ASSUME QuietSteps \/ UNCHANGED vars
    PROVE  UNCHANGED <<stack, current_registry, exec_callbacks_reentrancy_count>>
<1>1. CASE \/ \E l \in Loops, d \in Delays : Later(l, d)
           \/ \E l \in Loops, d \in Delays, n \in BOOLEAN : ExecLaterNative(l, d, n)
  BY <1>1 DEF Later, ExecLaterNative, Schedule, Add
<1>2. CASE \E i \in Callbacks : Cancel(i)
  BY <1>2 DEF Cancel, Take
<1>3. CASE \/ \E p \in Loops \cup {NoLoop} : UserCreateLoop(p)
           \/ \E l \in Loops : UserDestroyLoop(l)
           \/ \E l \in Loops : GarbageCollect(l)
           \/ \E l \in Loops : FdWaits(l)
  BY <1>3 DEF UserCreateLoop, CreateLoop, UserDestroyLoop, DestroyLoop,
              GarbageCollect, CollectHandle, FdWaits, FdWaitsIncr, FdWaitsDecr,
              execVars
<1>4. CASE Tick \/ UNCHANGED vars
  BY <1>4 DEF Tick, vars, execVars, tableVars
<1> QED
  BY <1>1, <1>2, <1>3, <1>4 DEF QuietSteps

LEMMA NoLongjmpStep ==
    ASSUME Natives \subseteq {FALSE}, ExecTypeOK, NoLongjmp, [Next]_vars
    PROVE  NoLongjmp'
<1>1. ASSUME NEW l, NEW d, Schedule(l, d, FALSE) PROVE NoLongjmp'
  BY <1>1 DEF Schedule, NoLongjmp, ExecTypeOK
<1>2. CASE \/ \E l \in Loops, d \in Delays : Later(l, d)
           \/ \E l \in Loops, d \in Delays, n \in BOOLEAN : ExecLaterNative(l, d, n)
  BY <1>1, <1>2 DEF Later, ExecLaterNative
<1>3. CASE UNCHANGED callback
  BY <1>3 DEF NoLongjmp
<1>4. CASE MainStep
  BY <1>3, <1>4 DEF MainStep, WaitTimesOut, WaitEnds, Enter, PopCallback,
     NothingToPop, RunChild, ChildReturns, ExecCallbacksReturns, Leave
<1>5. CASE UserStep \/ \E l \in Loops : GarbageCollect(l)
  BY <1>2, <1>3, <1>5 DEF UserStep, Cancel, UserCreateLoop, UserDestroyLoop,
     GarbageCollect, WithLoop, EndWithLoop, RunNow, CallbackReturns, Throw,
     execVars
<1>6. CASE (\E l \in Loops : FdWaits(l)) \/ Tick \/ UNCHANGED vars
  BY <1>3, <1>6 DEF FdWaits, Tick, vars, execVars
<1> QED
  BY <1>2, <1>4, <1>5, <1>6 DEF Next

LEMMA GuardsStep ==
    ASSUME Natives \subseteq {FALSE}, TableInv, ExecTypeOK, ExecTypeOK',
           NestingOK, GuardsInv, [Next]_vars
    PROVE  GuardsInv'
<1>1. TypeOK
  BY DEF TableInv
<1>2. NoLongjmp'
  BY NoLongjmpStep DEF GuardsInv
<1>3. SUFFICES OldOK' /\ GuardsMatchStack'
  BY <1>2 DEF GuardsInv
<1>4. current_registry = ActiveLoop
  BY DEF GuardsInv, GuardsMatchStack
<1>5. exec_callbacks_reentrancy_count \in Int
  BY DEF ExecTypeOK
<1>6. CASE QuietSteps \/ UNCHANGED vars
  BY <1>6, QuietStepsAreQuiet, QuietGuards
<1>7. CASE WaitEnds \/ PopCallback \/ NothingToPop \/ CallbackReturns
  <2>1. PICK f : GoesOn(f)
    BY <1>7, StepGoesOn
  <2>2. CASE WaitEnds
    <3>1. /\ current_registry' = Top.loop
          /\ exec_callbacks_reentrancy_count' =
               exec_callbacks_reentrancy_count + (IF Top.pc = "wait" THEN 1 ELSE 0)
      BY <2>2 DEF WaitEnds, Enter, SetCurrentRegistryId
    <3> QED
      BY <2>1, <3>1, GuardsGoesOn
  <2>3. CASE PopCallback \/ NothingToPop \/ CallbackReturns
    <3>1. /\ stack # <<>> /\ Top.pc # "wait"
          /\ UNCHANGED <<current_registry, exec_callbacks_reentrancy_count>>
      BY <2>3 DEF PopCallback, NothingToPop, CallbackReturns, Take, tableVars
    <3>2. current_registry' = Top.loop
      BY <1>4, <3>1 DEF ActiveLoop
    <3>3. exec_callbacks_reentrancy_count' =
            exec_callbacks_reentrancy_count + (IF Top.pc = "wait" THEN 1 ELSE 0)
      BY <1>5, <3>1
    <3> QED
      BY <2>1, <3>2, <3>3, GuardsGoesOn
  <2> QED
    BY <1>7, <2>2, <2>3
<1>8. CASE RunChild
  BY <1>1, <1>8, GuardsRunChild
<1>9. CASE ChildReturns
  BY <1>9, GuardsChildReturns
<1>10. CASE WaitTimesOut \/ EndWithLoop \/ ExecCallbacksReturns
  <2>1. stack # <<>> /\ Pop
    BY <1>10 DEF WaitTimesOut, EndWithLoop, ExecCallbacksReturns
  <2>2. current_registry' = Top.old
    <3>1. CASE WaitTimesOut
      BY <1>4, <3>1 DEF WaitTimesOut, ActiveLoop, tableVars
    <3>2. CASE EndWithLoop \/ ExecCallbacksReturns
      BY <3>2 DEF EndWithLoop, ExecCallbacksReturns, SetCurrentRegistryId, Leave
    <3> QED
      BY <1>10, <3>1, <3>2
  <2>3. exec_callbacks_reentrancy_count' =
          exec_callbacks_reentrancy_count - (IF Top.pc \in ExecPcs THEN 1 ELSE 0)
    BY <1>5, <1>10 DEF WaitTimesOut, EndWithLoop, ExecCallbacksReturns, Leave, ExecPcs
  <2> QED
    BY <2>1, <2>2, <2>3, GuardsPop
<1>11. CASE \E k \in 0 .. Len(stack) : Throw(k)
  BY <1>11, GuardsThrow
<1>12. CASE \E l \in Loops : \/ WithLoop(l)
                             \/ \E t \in Timeouts, all \in BOOLEAN : RunNow(l, t, all)
  <2>1. UserCode /\ UNCHANGED exec_callbacks_reentrancy_count
    BY <1>12 DEF WithLoop, RunNow
  <2>2. PICK f \in Frame :
          /\ Push(f) /\ f.old = current_registry
          /\ f.pc \in {"wait", "with_loop"}
          /\ current_registry' = IF f.pc = "wait" THEN current_registry ELSE f.loop
    BY <1>1, <1>12, PushedFrames DEF WithLoop, SetCurrentRegistryId, tableVars
  <2> QED
    BY <2>1, <2>2, GuardsPush
<1> QED
  BY <1>6, <1>7, <1>8, <1>9, <1>10, <1>11, <1>12
     DEF Next, MainStep, UserStep, QuietSteps

LEMMA GuardsInit == Init => GuardsInv
<1>1. SUFFICES ASSUME Init PROVE GuardsInv
  OBVIOUS
<1>2. stack = <<>> /\ ExecFrames = {}
  BY <1>1 DEF Init, ExecFrames
<1>3. Cardinality(ExecFrames) = 0
  BY <1>2, FS_EmptySet
<1>4. GuardsMatchStack
  BY <1>1, <1>2, <1>3 DEF Init, TableInit, GuardsMatchStack, ActiveLoop
<1>5. OldOK /\ NoLongjmp
  BY <1>1, <1>2 DEF Init, OldOK, NoLongjmp
<1> QED
  BY <1>4, <1>5 DEF GuardsInv

(***************************************************************************)
(* Whatever callbacks nest, return or throw, and wherever an error is      *)
(* caught, the guards of execCallbacksOne() and with_loop() restore the    *)
(* current loop and the reentrancy count, provided that no callback lets   *)
(* R's longjmp pass over the C++ frames.                                   *)
(***************************************************************************)
THEOREM LoopGuards ==
    ASSUME Natives \subseteq {FALSE}
    PROVE  Spec => []GuardsMatchStack
<1> DEFINE Inv == TableInv /\ ExecTypeOK /\ NestingOK /\ GuardsInv
<1>1. Init => Inv
  BY InitTypeOK, NestingInit, GuardsInit
<1>2. Inv /\ [Next]_vars => Inv'
  BY NextTypeOK, NestingStep, GuardsStep
<1>3. Inv => GuardsMatchStack
  BY DEF GuardsInv
<1> QED
  BY <1>1, <1>2, <1>3, PTL DEF Spec

-----------------------------------------------------------------------------
(***************************************************************************)
(* What is due stays due until user code runs.                             *)
(***************************************************************************)
LEMMA BeforeIsStrict ==
    ASSUME ExecTypeOK, NEW i \in Callbacks, NEW j \in Callbacks
    PROVE  /\ callback[i].when \in Int /\ i \in Nat
           /\ Before(i, j) => callback[i].when <= callback[j].when
           /\ i < j /\ ~Before(i, j) => callback[j].when < callback[i].when
BY TableAssumption DEF ExecTypeOK, Before, Callbacks

LEMMA DueHereKept ==
    ASSUME TypeOK, ExecTypeOK, ExecTypeOK', NothingLost,
           NEW l \in Loops, NEW d, NEW n, Schedule(l, d, n),
           NEW x \in Loops, NEW t \in Int, DueHere(x, t)
    PROVE  DueHere(x, t)'
<1>1. PICK i \in queue[x] : IsFirst(x, i) /\ ~(callback[i].when > t)
  BY DEF DueHere
<1>2. queue[x] \subseteq Callbacks
  BY DEF TypeOK
<1>3. \A q \in queue[x] : q < nextCallbackId
  BY <1>2, TableAssumption DEF NothingLost, Homes, ExecTypeOK, Callbacks
<1>4. \A q \in queue[x] : callback'[q] = callback[q]
  BY <1>2, <1>3 DEF Schedule, ExecTypeOK, Callbacks
<1>5. PICK j \in Callbacks : j = nextCallbackId
  BY DEF Schedule
<1>6. queue'[x] = IF x = l THEN queue[x] \cup {j} ELSE queue[x]
  BY <1>5 DEF Schedule, Add, TypeOK
<1>7. \A p, q \in queue[x] : Before(p, q)' <=> Before(p, q)
  BY <1>4 DEF Before
<1>8. CASE x # l \/ Before(i, j)'
  <2>1. \A q \in queue'[x] \ {i} : Before(i, q)'
    BY <1>1, <1>6, <1>7, <1>8 DEF IsFirst
  <2>2. IsFirst(x, i)'
    BY <1>1, <1>6, <2>1 DEF IsFirst
  <2> QED
    BY <1>1, <1>4, <1>6, <2>2 DEF DueHere
<1>9. CASE x = l /\ ~Before(i, j)'
  <2>1. /\ callback'[j].when \in Int
        /\ \A q \in queue[x] : q \in Callbacks /\ callback[q].when \in Int
    BY <1>2, BeforeIsStrict DEF ExecTypeOK
  <2>2. callback'[j].when < callback[i].when
    BY <1>1, <1>3, <1>4, <1>5, <1>9, <2>1 DEF Before
  <2>3. ASSUME NEW q \in queue[x] PROVE Before(j, q)'
    <3>1. callback[i].when <= callback[q].when
      BY <1>1, <2>1, BeforeIsStrict DEF IsFirst
    <3>2. callback'[j].when < callback'[q].when
      BY <1>1, <1>4, <2>1, <2>2, <3>1
    <3> QED
      BY <3>2 DEF Before
  <2>4. j \in queue'[x] /\ \A q \in queue'[x] \ {j} : q \in queue[x]
    BY <1>6, <1>9
  <2>5. IsFirst(x, j)'
    BY <2>3, <2>4 DEF IsFirst
  <2>6. ~(callback'[j].when > t)
    BY <1>1, <2>1, <2>2
  <2> QED
    BY <2>4, <2>5, <2>6 DEF DueHere
<1> QED
  BY <1>8, <1>9

\* What a step of another thread leaves due.
DueKept == \A c \in Loops, t \in Int : Due(c, t) => Due(c, t)'

LEMMA SubtreeSame ==
    ASSUME UNCHANGED children, NEW c
    PROVE  Subtree(c)' = Subtree(c)
BY DEF Subtree

LEMMA DueUnchanged ==
    ASSUME UNCHANGED <<children, queue, callback>>
    PROVE  DueKept
<1>1. ASSUME NEW x, NEW t, DueHere(x, t) PROVE DueHere(x, t)'
  BY <1>1 DEF DueHere, IsFirst, Before
<1> QED
  BY <1>1, SubtreeSame DEF DueKept, Due

LEMMA ScheduleKeepsDue ==
    ASSUME TypeOK, ExecTypeOK, ExecTypeOK', NothingLost,
           NEW l \in Loops, NEW d, NEW n, Schedule(l, d, n)
    PROVE  DueKept
<1>1. UNCHANGED children
  BY DEF Schedule, Add
<1>2. ASSUME NEW c \in Loops, NEW t \in Int, Due(c, t) PROVE Due(c, t)'
  <2>1. PICK x \in Subtree(c) : DueHere(x, t)
    BY <1>2 DEF Due
  <2>2. x \in Loops
    BY <2>1, SubtreeMembers
  <2>3. DueHere(x, t)'
    BY <2>1, <2>2, DueHereKept
  <2> QED
    BY <1>1, <2>1, <2>3, SubtreeSame DEF Due
<1> QED
  BY <1>2 DEF DueKept

-----------------------------------------------------------------------------
(***************************************************************************)
(* Every pass pops a callback.                                             *)
(***************************************************************************)
\* The i-th frame goes on, in the same pass and with what it has popped.
Carries(i) ==
    /\ stack[i].pc \in ExecPcs => stack'[i].pc \in ExecPcs
    /\ stack'[i].outer = stack[i].outer
    /\ stack'[i].popped >= stack[i].popped

LEMMA SameFrameCarries ==
    ASSUME NEW i, stack[i] \in Frame, stack'[i] = stack[i]
    PROVE  Carries(i)
<1>1. stack[i].popped \in Nat
  BY DEF Frame
<1> QED
  BY <1>1 DEF Carries

LEMMA PoppedKept ==
    ASSUME ExecTypeOK, ExecTypeOK', NEW o \in 1 .. Len(stack),
           NEW j \in o .. Len(stack), SamePass(o, j), stack[j].popped > 0,
           j <= Len(stack'), \A i \in 1 .. j : Carries(i)
    PROVE  HasPopped(o)'
<1>1. PICK n \in Nat, m \in Nat : n = Len(stack) /\ m = Len(stack')
  BY DEF ExecTypeOK
<1>2. o \in 1 .. n /\ j \in o .. n /\ j \in 1 .. n /\ j <= m /\ j \in o .. m
  BY <1>1
<1>3. stack[j].popped \in Nat /\ stack'[j].popped \in Nat
  <2>1. j \in 1 .. m
    BY <1>2
  <2>2. stack[j] \in Frame /\ stack'[j] \in Frame
    BY <1>1, <1>2, <2>1, ElementOfSeq DEF ExecTypeOK
  <2> QED
    BY <2>2 DEF Frame
<1>4. stack'[j].popped > 0
  <2>1. Carries(j) /\ stack'[j].popped >= stack[j].popped
    BY <1>2 DEF Carries
  <2> QED
    BY <1>3, <2>1
<1>5. SamePass(o, j)'
  <2>1. \A g \in o + 1 .. j : g \in 1 .. j
    BY <1>2
  <2> QED
    BY <2>1 DEF SamePass, Carries
<1> QED
  BY <1>1, <1>2, <1>4, <1>5 DEF HasPopped

LEMMA UserCodeHasPopped ==
    ASSUME PassesPop, NEW o \in 1 .. Len(stack), stack[o].outer,
           stack[o].pc \in ExecPcs, Top.pc \notin {"pop", "children"}
    PROVE  HasPopped(o)
BY DEF PassesPop, WillPop

LEMMA QuietPasses ==
    ASSUME ExecTypeOK, NestingOK, PassesPop, UNCHANGED stack,
           \/ UserCode
           \/ DueKept /\ UNCHANGED collected
           \/ collected'
    PROVE  PassesPop'
<1>1. SUFFICES ASSUME NEW o \in 1 .. Len(stack), stack[o].outer, stack[o].pc \in ExecPcs
               PROVE  HasPopped(o)' \/ WillPop(o)'
  BY DEF PassesPop
<1>2. PICK n \in Nat : n = Len(stack) /\ o \in 1 .. n
  BY DEF ExecTypeOK
<1>3. HasPopped(o) => HasPopped(o)'
  BY DEF HasPopped, SamePass
<1>4. CASE UserCode
  <2>1. stack # <<>>
    BY <1>2
  <2>2. Top.pc \notin {"pop", "children"}
    BY <1>4, <2>1 DEF UserCode, IsUserFrame
  <2> QED
    BY <1>1, <1>3, <2>2, UserCodeHasPopped
<1>5. CASE collected' /\ WillPop(o)
  BY <1>5 DEF WillPop, SamePass, Top
<1>6. CASE DueKept /\ DueAhead(o) /\ WillPop(o)
  <2>1. PICK j \in o .. Len(stack) : \E c \in Ahead(j) : Due(c, stack[j].at)
    BY <1>6 DEF DueAhead
  <2>2. PICK c \in Ahead(j) : Due(c, stack[j].at)
    BY <2>1
  <2>3. stack[j] \in Frame
    BY <1>2, <2>1 DEF ExecTypeOK
  <2>4. c \in Loops /\ stack[j].at \in Int
    BY <2>2, <2>3 DEF Frame, Ahead
  <2>5. \A t : t = stack[j].at => Due(c, t)'
    BY <1>6, <2>2, <2>4 DEF DueKept
  <2>6. Due(c, stack[j].at)'
    BY <2>5
  <2>7. DueAhead(o)'
    BY <2>1, <2>2, <2>6 DEF DueAhead, Ahead
  <2> QED
    BY <1>6, <2>7 DEF WillPop, SamePass, Top
<1>7. CASE WillPop(o)
  BY <1>4, <1>5, <1>6, <1>7 DEF WillPop
<1> QED
  BY <1>1, <1>3, <1>7 DEF PassesPop

LEMMA PassesCut ==
    ASSUME ExecTypeOK, ExecTypeOK', NestingOK, PassesPop,
           NEW k \in 0 .. Len(stack) - 1, stack' = SubSeq(stack, 1, k),
           \A o \in 1 .. k : ~WillPop(o),
           \/ k = 0
           \/ IsUserFrame(stack[k])
           \/ ~(stack[k + 1].pc \in ExecPcs /\ ~stack[k + 1].outer)
    PROVE  PassesPop'
<1>1. stack \in Seq(Frame)
  BY DEF ExecTypeOK
<1>2. PICK n \in Nat : n = Len(stack)
  BY <1>1
<1>3. k \in Nat /\ k < n /\ k \in 0 .. n
  BY <1>2
<1>4. Len(stack') = k /\ \A i \in 1 .. k : stack'[i] = stack[i]
  BY <1>1, <1>2, <1>3, CutStack
<1>5. SUFFICES ASSUME NEW o \in 1 .. k, stack[o].outer, stack[o].pc \in ExecPcs
               PROVE  HasPopped(o)'
  BY <1>4 DEF PassesPop
<1>6. o \in 1 .. n /\ o <= k /\ k \in o .. n
  BY <1>3
<1>7. PICK j \in o .. n : SamePass(o, j) /\ stack[j].popped > 0
  BY <1>2, <1>5, <1>6 DEF PassesPop, HasPopped
<1>8. \A i \in 1 .. k : Carries(i)
  <2>1. \A i \in 1 .. k : stack[i] \in Frame
    BY <1>1, <1>2, <1>3
  <2> QED
    BY <1>4, <2>1, SameFrameCarries
<1>9. CASE j <= k
  <2>1. \A i \in 1 .. j : i \in 1 .. k
    BY <1>3, <1>6, <1>7, <1>9
  <2> QED
    BY <1>2, <1>4, <1>6, <1>7, <1>8, <1>9, <2>1, PoppedKept
<1>10. CASE ~(j <= k)
  <2>1. k + 1 \in o + 1 .. j /\ k # 0 /\ (k = o \/ k \in o + 1 .. j)
    BY <1>3, <1>6, <1>7, <1>10
  <2>2. stack[k + 1].pc \in ExecPcs /\ ~stack[k + 1].outer
    BY <1>7, <2>1 DEF SamePass
  <2>3. stack[k].pc \in ExecPcs
    BY <1>5, <1>7, <2>1 DEF SamePass
  <2>4. stack[k].pc = "invoke"
    BY <2>1, <2>2, <2>3 DEF IsUserFrame, ExecPcs
  <2>5. stack[k].popped > 0
    <3>1. k \in 1 .. n
      BY <1>3, <2>1
    <3> QED
      BY <1>2, <2>4, <3>1 DEF NestingOK, FrameNests
  <2>6. SamePass(o, k)
    <3>1. \A g \in o + 1 .. k : g \in o + 1 .. j
      BY <1>3, <1>6, <1>7, <1>10
    <3> QED
      BY <1>7, <3>1 DEF SamePass
  <2>7. k <= Len(stack')
    BY <1>3, <1>4
  <2> QED
    BY <1>2, <1>6, <1>8, <2>5, <2>6, <2>7, PoppedKept
<1> QED
  BY <1>9, <1>10

LEMMA PassesPush ==
    ASSUME ExecTypeOK, ExecTypeOK', NestingOK, PassesPop, UserCode,
           NEW f \in Frame, Push(f), f.pc \notin ExecPcs
    PROVE  PassesPop'
<1>1. stack \in Seq(Frame)
  BY DEF ExecTypeOK
<1>2. PICK n \in Nat : n = Len(stack)
  BY <1>1
<1>3. /\ Len(stack') = n + 1
      /\ stack'[n + 1] = f
      /\ \A i \in 1 .. n : stack'[i] = stack[i]
  BY <1>1, <1>2, PushFrame
<1>4. SUFFICES ASSUME NEW o \in 1 .. n, stack[o].outer, stack[o].pc \in ExecPcs
               PROVE  HasPopped(o)'
  <2>1. \A o \in 1 .. n + 1 : o \in 1 .. n \/ o = n + 1
    OBVIOUS
  <2> QED
    BY <1>3, <2>1 DEF PassesPop
<1>5. stack # <<>>
  BY <1>2
<1>6. PICK j \in o .. n : SamePass(o, j) /\ stack[j].popped > 0
  <2>1. HasPopped(o)
    BY <1>2, <1>4, <1>5, UserCodeHasPopped DEF UserCode, IsUserFrame
  <2> QED
    BY <1>2, <2>1 DEF HasPopped
<1>7. \A i \in 1 .. j : Carries(i)
  <2>1. \A i \in 1 .. j : i \in 1 .. n
    OBVIOUS
  <2>2. \A i \in 1 .. n : stack[i] \in Frame
    BY <1>1, <1>2
  <2> QED
    BY <1>3, <2>1, <2>2, SameFrameCarries
<1>8. j <= Len(stack')
  BY <1>3
<1> QED
  BY <1>2, <1>6, <1>7, <1>8, PoppedKept

\* A pass goes on, with what it has popped.
LEMMA PassesGoOn ==
    ASSUME ExecTypeOK, ExecTypeOK', NestingOK, NEW f, GoesOn(f),
           NEW o \in 1 .. Len(stack), HasPopped(o),
           Top.pc = "wait" => o # Len(stack)
    PROVE  HasPopped(o)'
<1>1. stack \in Seq(Frame) /\ stack # <<>>
  BY DEF ExecTypeOK, GoesOn
<1>2. PICK n \in Nat \ {0} : n = Len(stack)
  BY <1>1, TopIsFrame
<1>3. /\ Len(stack') = n
      /\ stack'[n] = f
      /\ \A i \in 1 .. n - 1 : stack'[i] = stack[i]
  BY <1>1, <1>2, ReplaceTopFrame DEF GoesOn
<1>4. PICK j \in o .. n : SamePass(o, j) /\ stack[j].popped > 0
  BY <1>2 DEF HasPopped
<1>5. j \in 1 .. n /\ o \in 1 .. n /\ j \in o .. Len(stack) /\ j <= Len(stack')
  BY <1>2, <1>3, <1>4
<1>6. \A i \in 1 .. n - 1 : Carries(i)
  <2>1. \A i \in 1 .. n - 1 : stack[i] \in Frame
    BY <1>1, <1>2
  <2> QED
    BY <1>3, <2>1, SameFrameCarries
<1>7. CASE j # n
  <2>1. \A i \in 1 .. j : i \in 1 .. n - 1
    BY <1>5, <1>7
  <2> QED
    BY <1>4, <1>5, <1>6, <2>1, PoppedKept
<1>8. CASE j = n
  <2>1. Carries(n)
    BY <1>2, <1>3 DEF Carries, GoesOn, Top
  <2>2. \A i \in 1 .. j : i = n \/ i \in 1 .. n - 1
    BY <1>5, <1>8
  <2>3. \A i \in 1 .. j : Carries(i)
    BY <1>6, <2>1, <2>2
  <2> QED
    BY <1>4, <1>5, <2>3, PoppedKept
<1> QED
  BY <1>7, <1>8

LEMMA PassesWaitEnds ==
    ASSUME ExecTypeOK, ExecTypeOK', NestingOK, PassesPop, WaitEnds
    PROVE  PassesPop'
<1>1. stack \in Seq(Frame) /\ stack # <<>> /\ now \in Int
  BY EventLoopAssumption DEF ExecTypeOK, WaitEnds
<1>2. PICK n \in Nat \ {0} : n = Len(stack)
  BY <1>1, TopIsFrame
<1>3. PICK f : f = [Top EXCEPT !.pc = "pop", !.at = now, !.seen = {Top.loop}]
  OBVIOUS
<1>4. GoesOn(f) /\ f.pc = "pop" /\ f.loop = Top.loop /\ f.at = now
  <2>1. Top \in Frame
    BY <1>1, TopIsFrame
  <2> QED
    BY <1>3, <2>1, WaitEndsGoesOn DEF Frame
<1>5. /\ Len(stack') = n
      /\ stack'[n] = f
      /\ \A i \in 1 .. n - 1 : stack'[i] = stack[i]
  BY <1>1, <1>2, <1>4, ReplaceTopFrame DEF GoesOn
<1>6. ASSUME NEW o \in 1 .. n - 1, stack'[o].outer, stack'[o].pc \in ExecPcs
      PROVE  HasPopped(o)'
  <2>1. o \in 1 .. Len(stack) /\ o # Len(stack) /\ stack'[o] = stack[o]
    BY <1>2, <1>5
  <2>2. HasPopped(o)
    BY <1>6, <2>1, UserCodeHasPopped DEF WaitEnds
  <2> QED
    BY <1>4, <2>1, <2>2, PassesGoOn
<1>7. WillPop(n)'
  <2>1. stack'[Len(stack')] = f /\ n \in n .. n
    BY <1>5
  <2>2. SamePass(n, Len(stack))'
    <3>1. n + 1 .. n = {}
      OBVIOUS
    <3> QED
      BY <1>5, <3>1 DEF SamePass
  <2>3. UNCHANGED <<children, queue, callback>>
    BY DEF WaitEnds, Enter, SetCurrentRegistryId
  <2>4. PICK c \in Loops, t \in Int : c = Top.loop /\ t = now
    BY <1>1, TopIsFrame DEF Frame
  <2>5. Due(c, t)'
    BY <2>3, <2>4, DueUnchanged DEF DueKept, WaitEnds
  <2>6. c \in Ahead(n)' /\ stack'[n].at = t
    BY <1>4, <1>5, <2>4 DEF Ahead
  <2>7. (\E q \in Ahead(n) : Due(q, stack[n].at))'
    BY <2>5, <2>6
  <2>8. DueAhead(n)'
    BY <1>5, <2>1, <2>7 DEF DueAhead
  <2> QED
    BY <1>4, <1>5, <2>1, <2>2, <2>8 DEF WillPop, Top
<1>8. \A o \in 1 .. n : o = n \/ o \in 1 .. n - 1
  OBVIOUS
<1> QED
  BY <1>5, <1>6, <1>7, <1>8 DEF PassesPop

LEMMA PassesPopCallback ==
    ASSUME TypeOK, ExecTypeOK, ExecTypeOK', NestingOK, PassesPop, PopCallback
    PROVE  PassesPop'
<1>1. stack \in Seq(Frame) /\ stack # <<>> /\ Top.pc = "pop"
  BY DEF ExecTypeOK, PopCallback
<1>2. PICK n \in Nat \ {0} : n = Len(stack)
  BY <1>1, TopIsFrame
<1>3. PICK i \in queue[Top.loop] :
        ReplaceTop([Top EXCEPT !.pc = "invoke", !.cb = i, !.popped = @ + 1])
  BY DEF PopCallback
<1>4. PICK f : f = [Top EXCEPT !.pc = "invoke", !.cb = i, !.popped = @ + 1]
  OBVIOUS
<1>5. GoesOn(f) /\ f.popped > 0
  <2>1. Top.popped \in Nat /\ Top \in Frame
    BY <1>1, TopIsFrame DEF Frame
  <2>2. f.popped = Top.popped + 1
    BY <1>4, <2>1 DEF Frame
  <2>3. GoesOn(f)
    BY <1>1, <1>3, <1>4, PopCallbackGoesOn
  <2> QED
    BY <2>1, <2>2, <2>3
<1>6. /\ Len(stack') = n
      /\ stack'[n] = f
      /\ \A g \in 1 .. n - 1 : stack'[g] = stack[g]
  BY <1>1, <1>2, <1>5, ReplaceTopFrame DEF GoesOn
<1>7. ASSUME NEW o \in 1 .. n, stack'[o].outer, stack'[o].pc \in ExecPcs
      PROVE  HasPopped(o)'
  <2>1. stack[o].outer /\ stack[o].pc \in ExecPcs
    BY <1>1, <1>2, <1>5, <1>6, <1>7 DEF GoesOn, Top, ExecPcs
  <2>2. CASE HasPopped(o)
    BY <1>1, <1>2, <1>5, <2>2, PassesGoOn
  <2>3. CASE WillPop(o)
    <3>1. SamePass(o, n)
      BY <1>2, <2>3 DEF WillPop
    <3>2. \A g \in o + 1 .. n : stack'[g].pc \in ExecPcs /\ ~stack'[g].outer
      BY <1>1, <1>2, <1>5, <1>6, <3>1 DEF SamePass, GoesOn, Top
    <3>3. SamePass(o, n)'
      BY <3>2 DEF SamePass
    <3>4. n \in o .. n
      OBVIOUS
    <3> QED
      BY <1>5, <1>6, <3>3, <3>4 DEF HasPopped
  <2> QED
    BY <1>2, <2>1, <2>2, <2>3 DEF PassesPop
<1> QED
  BY <1>6, <1>7 DEF PassesPop

LEMMA PassesNothingToPop ==
    ASSUME TableInv, ExecTypeOK, ExecTypeOK', NestingOK, PassesPop, NothingToPop
    PROVE  PassesPop'
<1>1. /\ stack \in Seq(Frame) /\ stack # <<>> /\ Top.pc = "pop"
      /\ ReplaceTop(ToChildren(Top)) /\ TypeOK /\ ForestOK
  BY DEF ExecTypeOK, NothingToPop, TableInv
<1>2. PICK n \in Nat \ {0} : n = Len(stack)
  BY <1>1, TopIsFrame
<1>3. /\ Top = stack[n] /\ Top \in Frame /\ Top.loop \in Loops /\ Top.at \in Int
      /\ Top.rest = {}
  <2>1. Top = stack[n] /\ Top \in Frame
    BY <1>1, <1>2, TopIsFrame DEF Top
  <2>2. Top.rest = {}
    BY <1>1, <1>2, <2>1 DEF NestingOK, FrameNests
  <2> QED
    BY <2>1, <2>2 DEF Frame
<1>4. PICK f : f = ToChildren(Top)
  OBVIOUS
<1>5. GoesOn(f) /\ f.pc = "children" /\ f.rest = children[Top.loop] /\ f.at = Top.at
  BY <1>1, <1>3, <1>4, ToChildrenGoesOn DEF ToChildren, Frame, ExecPcs
<1>6. /\ Len(stack') = n
      /\ stack'[n] = f
      /\ \A g \in 1 .. n - 1 : stack'[g] = stack[g]
  BY <1>1, <1>2, <1>5, ReplaceTopFrame DEF GoesOn
<1>7. DueKept
  BY DueUnchanged DEF NothingToPop, tableVars
<1>8. SUFFICES ASSUME NEW o \in 1 .. n, stack'[o].outer, stack'[o].pc \in ExecPcs
               PROVE  HasPopped(o)' \/ WillPop(o)'
  BY <1>6 DEF PassesPop
<1>9. stack[o].outer /\ stack[o].pc \in ExecPcs
  BY <1>1, <1>3, <1>5, <1>6, <1>8 DEF GoesOn, ExecPcs
<1>10. CASE HasPopped(o)
  BY <1>1, <1>2, <1>5, <1>10, PassesGoOn
<1>11. ASSUME SamePass(o, n) PROVE SamePass(o, Len(stack))'
  <2>1. \A g \in o + 1 .. n : stack'[g].pc \in ExecPcs /\ ~stack'[g].outer
    BY <1>1, <1>3, <1>5, <1>6, <1>11 DEF SamePass, GoesOn
  <2> QED
    BY <1>6, <2>1 DEF SamePass
<1>12. ASSUME DueAhead(o) PROVE DueAhead(o)'
  <2>2. PICK j \in o .. n : \E c \in Ahead(j) : Due(c, stack[j].at)
    BY <1>2, <1>12 DEF DueAhead
  <2>3. PICK c \in Ahead(j) : Due(c, stack[j].at)
    BY <2>2
  <2>4. PICK t : t = stack[j].at
    OBVIOUS
  <2>5. stack[j] \in Frame /\ t \in Int /\ c \in Loops
    <3>1. stack[j] \in Frame
      BY <1>1, <1>2, <2>2
    <3> QED
      BY <2>3, <2>4, <3>1 DEF Frame, Ahead
  <2>6. (\E q \in Ahead(j) : Due(q, stack[j].at))'
    <3>1. CASE j # n
      <4>1. stack'[j] = stack[j]
        BY <1>6, <2>2, <3>1
      <4>2. c \in Ahead(j)' /\ stack'[j].at = t
        BY <2>3, <2>4, <4>1 DEF Ahead
      <4>3. Due(c, t)'
        BY <1>7, <2>3, <2>4, <2>5 DEF DueKept
      <4> QED
        BY <4>2, <4>3
    <3>2. CASE j = n
      <4>1. c = Top.loop /\ t = Top.at
        BY <1>1, <1>3, <2>3, <2>4, <3>2 DEF Ahead
      <4>2. PICK y \in Subtree(Top.loop) : DueHere(y, Top.at)
        BY <2>3, <2>4, <4>1 DEF Due
      <4>3. y # Top.loop
        BY <4>2 DEF NothingToPop
      <4>4. PICK q \in children[Top.loop] : y \in Subtree(q)
        BY <1>1, <1>3, <4>2, <4>3, SubtreeOfChild
      <4>5. q \in Loops /\ Due(q, t)
        BY <1>1, <1>3, <4>1, <4>2, <4>4 DEF TypeOK, Due
      <4>6. Due(q, t)'
        BY <1>7, <2>5, <4>5 DEF DueKept
      <4>7. q \in Ahead(j)' /\ stack'[j].at = t
        BY <1>5, <1>6, <3>2, <4>1, <4>4 DEF Ahead
      <4> QED
        BY <4>6, <4>7
    <3> QED
      BY <3>1, <3>2
  <2>7. DueAhead(o)'
    BY <1>6, <2>2, <2>6 DEF DueAhead
  <2> QED
    BY <2>7
<1>13. CASE WillPop(o)
  <2>1. collected' = collected
    BY DEF NothingToPop
  <2> QED
    BY <1>2, <1>5, <1>6, <1>11, <1>12, <1>13, <2>1 DEF WillPop, Top
<1> QED
  BY <1>2, <1>9, <1>10, <1>13 DEF PassesPop

LEMMA PassesCallbackReturns ==
    ASSUME TableInv, ExecTypeOK, ExecTypeOK', NestingOK, PassesPop, CallbackReturns
    PROVE  PassesPop'
<1>1. stack \in Seq(Frame) /\ stack # <<>> /\ Top.pc = "invoke"
  BY DEF ExecTypeOK, CallbackReturns
<1>2. PICK n \in Nat \ {0} : n = Len(stack)
  BY <1>1, TopIsFrame
<1>3. PICK f : GoesOn(f)
  BY StepGoesOn
<1>4. /\ Len(stack') = n
      /\ stack'[n] = f
      /\ \A g \in 1 .. n - 1 : stack'[g] = stack[g]
  BY <1>1, <1>2, <1>3, ReplaceTopFrame DEF GoesOn
<1>5. SUFFICES ASSUME NEW o \in 1 .. n, stack'[o].outer, stack'[o].pc \in ExecPcs
               PROVE  HasPopped(o)'
  BY <1>4 DEF PassesPop
<1>6. stack[o].outer /\ stack[o].pc \in ExecPcs
  BY <1>1, <1>2, <1>3, <1>4, <1>5 DEF GoesOn, ExecPcs, Top
<1>7. HasPopped(o)
  BY <1>1, <1>2, <1>6, UserCodeHasPopped
<1> QED
  BY <1>1, <1>2, <1>3, <1>7, PassesGoOn

LEMMA PassesRunChild ==
    ASSUME TypeOK, ExecTypeOK, ExecTypeOK', NestingOK, PassesPop, RunChild
    PROVE  PassesPop'
<1>1. stack \in Seq(Frame) /\ stack # <<>> /\ Top.pc = "children"
  BY DEF ExecTypeOK, RunChild
<1>2. PICK n \in Nat \ {0} : n = Len(stack)
  BY <1>1, TopIsFrame
<1>3. PICK c \in Top.rest : Enter(c) /\ RunChildStack(c)
  BY RunChildShape
<1>4. /\ Len(stack') = n + 1
      /\ \A i \in 1 .. n - 1 : stack'[i] = stack[i]
      /\ stack'[n] = [Top EXCEPT !.rest = @ \ {c}]
      /\ stack'[n + 1].pc = "pop"
      /\ stack'[n + 1].loop = c
      /\ stack'[n + 1].at = Top.at
      /\ stack'[n + 1].outer = FALSE
  BY <1>2, <1>3 DEF RunChildStack
<1>5. Top = stack[n] /\ Top \in Frame
  BY <1>1, <1>2, TopIsFrame DEF Top
<1>6. /\ stack'[n].pc = stack[n].pc /\ stack'[n].outer = stack[n].outer
      /\ stack'[n].popped = stack[n].popped /\ stack'[n].at = stack[n].at
      /\ stack'[n].rest = stack[n].rest \ {c}
  BY <1>4, <1>5 DEF Frame
<1>7. \A i \in 1 .. n : i = n \/ i \in 1 .. n - 1
  OBVIOUS
<1>8. \A i \in 1 .. n : Carries(i)
  <2>1. Carries(n)
    <3>1. stack[n].popped \in Nat
      BY <1>5 DEF Frame
    <3> QED
      BY <1>6, <3>1 DEF Carries
  <2>2. \A i \in 1 .. n - 1 : stack[i] \in Frame
    BY <1>1, <1>2
  <2> QED
    BY <1>4, <1>7, <2>1, <2>2, SameFrameCarries
<1>9. DueKept
  BY <1>3, DueUnchanged DEF Enter, SetCurrentRegistryId
<1>10. SUFFICES ASSUME NEW o \in 1 .. n, stack'[o].outer, stack'[o].pc \in ExecPcs
                PROVE  HasPopped(o)' \/ WillPop(o)'
  <2>1. \A o \in 1 .. n + 1 : o \in 1 .. n \/ o = n + 1
    OBVIOUS
  <2> QED
    BY <1>4, <2>1 DEF PassesPop
<1>11. stack[o].outer /\ stack[o].pc \in ExecPcs
  BY <1>4, <1>6, <1>7, <1>10
<1>12. CASE HasPopped(o)
  <2>1. PICK j \in o .. n : SamePass(o, j) /\ stack[j].popped > 0
    BY <1>2, <1>12 DEF HasPopped
  <2>2. j <= Len(stack') /\ \A i \in 1 .. j : i \in 1 .. n
    BY <1>4
  <2> QED
    BY <1>2, <1>8, <2>1, <2>2, PoppedKept
<1>13. ASSUME SamePass(o, n) PROVE SamePass(o, Len(stack))'
  <2>1. \A g \in o + 1 .. n + 1 : g = n + 1 \/ g \in o + 1 .. n
    OBVIOUS
  <2>2. \A g \in o + 1 .. n : stack'[g].pc \in ExecPcs /\ ~stack'[g].outer
    BY <1>8, <1>13 DEF SamePass, Carries
  <2>3. \A g \in o + 1 .. n + 1 : stack'[g].pc \in ExecPcs /\ ~stack'[g].outer
    BY <1>4, <2>1, <2>2 DEF ExecPcs
  <2> QED
    BY <1>4, <2>3 DEF SamePass
<1>14. ASSUME DueAhead(o) PROVE DueAhead(o)'
  <2>2. PICK j \in o .. n : \E q \in Ahead(j) : Due(q, stack[j].at)
    BY <1>2, <1>14 DEF DueAhead
  <2>3. PICK q \in Ahead(j) : Due(q, stack[j].at)
    BY <2>2
  <2>4. PICK t : t = stack[j].at
    OBVIOUS
  <2>5. t \in Int /\ q \in Loops
    <3>1. stack[j] \in Frame
      BY <1>1, <1>2, <2>2
    <3> QED
      BY <2>3, <2>4, <3>1 DEF Frame, Ahead
  <2>6. Due(q, t)'
    BY <1>9, <2>3, <2>4, <2>5 DEF DueKept
  <2>7. \E h \in o .. n + 1 : q \in Ahead(h)' /\ stack'[h].at = t
    <3>1. CASE j # n
      <4>1. stack'[j] = stack[j] /\ j \in o .. n + 1
        BY <1>4, <2>2, <3>1
      <4> QED
        BY <2>3, <2>4, <4>1 DEF Ahead
    <3>2. CASE j = n /\ q # c
      <4>1. q \in stack'[n].rest /\ stack'[n].at = t /\ n \in o .. n + 1
        BY <1>1, <1>5, <1>6, <2>3, <2>4, <3>2 DEF Ahead
      <4> QED
        BY <4>1 DEF Ahead
    <3>3. CASE j = n /\ q = c
      <4>1. q \in Ahead(n + 1)' /\ stack'[n + 1].at = t /\ n + 1 \in o .. n + 1
        BY <1>4, <1>5, <2>4, <3>3 DEF Ahead
      <4> QED
        BY <4>1
    <3> QED
      BY <3>1, <3>2, <3>3
  <2>8. PICK h \in o .. n + 1 : q \in Ahead(h)' /\ stack'[h].at = t
    BY <2>7
  <2>9. (\E x \in Ahead(h) : Due(x, stack[h].at))'
    BY <2>6, <2>8
  <2>10. DueAhead(o)'
    BY <1>4, <2>8, <2>9 DEF DueAhead
  <2> QED
    BY <2>10
<1>15. CASE WillPop(o)
  <2>1. collected' = collected
    BY DEF RunChild
  <2> QED
    BY <1>2, <1>4, <1>13, <1>14, <1>15, <2>1 DEF WillPop, Top
<1> QED
  BY <1>2, <1>11, <1>12, <1>15 DEF PassesPop

LEMMA PassesChildReturns ==
    ASSUME ExecTypeOK, ExecTypeOK', NestingOK, PassesPop, ChildReturns
    PROVE  PassesPop'
<1>1. /\ stack \in Seq(Frame) /\ stack # <<>>
      /\ Top.pc = "children" /\ Top.rest = {} /\ ~Top.outer
  BY DEF ExecTypeOK, ChildReturns
<1>2. PICK n \in Nat \ {0} : n = Len(stack)
  BY <1>1, TopIsFrame
<1>3. ChildReturnsStack
  BY ChildReturnsShape
<1>4. /\ Len(stack') = n - 1
      /\ \A i \in 1 .. n - 1 :
           stack'[i] = IF i = n - 1 THEN [stack[i] EXCEPT !.popped = @ + Top.popped, !.seen = Top.seen]
                       ELSE stack[i]
  BY <1>2, <1>3 DEF ChildReturnsStack
<1>5. \A i \in 1 .. n - 1 : SameFrame(stack'[i], stack[i])
  BY <1>2, <1>3, ChildReturnsFrames
<1>6. Top = stack[n] /\ \A i \in 1 .. n : stack[i] \in Frame /\ stack[i].popped \in Nat
  <2>1. \A i \in 1 .. n : stack[i] \in Frame
    BY <1>1, <1>2
  <2> QED
    BY <1>2, <2>1 DEF Top, Frame
<1>7. n > 1 /\ stack[n - 1].pc = "children"
  BY <1>1, <1>2, <1>6 DEF NestingOK, FrameNests, ExecPcs
<1>8. n - 1 \in 1 .. n - 1 /\ n - 1 \in 1 .. n /\ n \in 1 .. n
  BY <1>7
<1>9. stack'[n - 1].popped = stack[n - 1].popped + Top.popped
  <2>1. stack[n - 1] \in Frame /\ stack'[n - 1] = [stack[n - 1] EXCEPT !.popped = @ + Top.popped, !.seen = Top.seen]
    BY <1>4, <1>6, <1>8
  <2> QED
    BY <2>1 DEF Frame
<1>10. \A i \in 1 .. n - 1 : Carries(i)
  <2>1. stack'[n - 1].popped >= stack[n - 1].popped
    BY <1>6, <1>8, <1>9
  <2>2. \A i \in 1 .. n - 1 : i # n - 1 => stack'[i] = stack[i]
    BY <1>4
  <2>3. ASSUME NEW i \in 1 .. n - 1 PROVE stack'[i].popped >= stack[i].popped
    <3>1. stack[i].popped \in Nat
      BY <1>6
    <3> QED
      BY <2>1, <2>2, <3>1
  <2> QED
    BY <1>5, <2>3 DEF Carries, SameFrame
<1>11. DueKept
  BY DueUnchanged DEF ChildReturns, Leave
<1>12. SUFFICES ASSUME NEW o \in 1 .. n - 1, stack'[o].outer, stack'[o].pc \in ExecPcs
                PROVE  HasPopped(o)' \/ WillPop(o)'
  BY <1>4 DEF PassesPop
<1>13. stack[o].outer /\ stack[o].pc \in ExecPcs /\ o \in 1 .. Len(stack)
  BY <1>2, <1>5, <1>12 DEF SameFrame
<1>15. CASE HasPopped(o)
  <2>1. PICK j \in o .. n : SamePass(o, j) /\ stack[j].popped > 0
    BY <1>2, <1>15 DEF HasPopped
  <2>2. CASE j # n
    <3>1. Len(stack') = n - 1
      BY <1>4
    <3>2. j <= Len(stack') /\ \A i \in 1 .. j : i \in 1 .. n - 1
      BY <2>1, <2>2, <3>1
    <3> QED
      BY <1>2, <1>10, <1>13, <2>1, <3>2, PoppedKept
  <2>3. CASE j = n
    <3>1. SamePass(o, n - 1)'
      <4>1. \A g \in o + 1 .. n - 1 : g \in o + 1 .. n /\ g \in 1 .. n - 1
        OBVIOUS
      <4> QED
        BY <1>10, <2>1, <2>3, <4>1 DEF SamePass, Carries
    <3>2. stack'[n - 1].popped > 0
      BY <1>6, <1>8, <1>9, <2>1, <2>3
    <3>3. n - 1 \in o .. n - 1
      OBVIOUS
    <3> QED
      BY <1>4, <3>1, <3>2, <3>3 DEF HasPopped
  <2> QED
    BY <2>2, <2>3
<1>16. ASSUME SamePass(o, n) PROVE SamePass(o, Len(stack))'
  <2>1. \A g \in o + 1 .. n - 1 : g \in o + 1 .. n /\ g \in 1 .. n - 1
    OBVIOUS
  <2> QED
    BY <1>4, <1>10, <1>16, <2>1 DEF SamePass, Carries
<1>17. ASSUME DueAhead(o) PROVE DueAhead(o)'
  <2>2. PICK j \in o .. n : \E q \in Ahead(j) : Due(q, stack[j].at)
    BY <1>2, <1>17 DEF DueAhead
  <2>3. PICK q \in Ahead(j) : Due(q, stack[j].at)
    BY <2>2
  <2>4. j # n
    BY <1>1, <1>6, <2>3 DEF Ahead
  <2>5. j \in o .. n - 1 /\ j \in 1 .. n - 1 /\ j \in 1 .. n
    BY <2>2, <2>4
  <2>6. PICK t : t = stack[j].at
    OBVIOUS
  <2>7. t \in Int /\ q \in Loops
    BY <1>6, <2>3, <2>5, <2>6 DEF Frame, Ahead
  <2>8. Due(q, t)'
    BY <1>11, <2>3, <2>6, <2>7 DEF DueKept
  <2>9. q \in Ahead(j)' /\ stack'[j].at = t
    BY <1>5, <2>3, <2>5, <2>6 DEF Ahead, SameFrame
  <2>10. (\E x \in Ahead(j) : Due(x, stack[j].at))'
    BY <2>8, <2>9
  <2> QED
    BY <1>4, <2>5, <2>10 DEF DueAhead
<1>18. CASE WillPop(o)
  <2>1. collected' = collected
    BY DEF ChildReturns, Leave
  <2>2. stack'[Len(stack')].pc = "children"
    BY <1>4, <1>5, <1>7, <1>8 DEF SameFrame
  <2> QED
    BY <1>2, <1>16, <1>17, <1>18, <2>1, <2>2 DEF WillPop, Top
<1> QED
  BY <1>13, <1>15, <1>18 DEF PassesPop

LEMMA PassesCutSteps ==
    ASSUME ExecTypeOK, ExecTypeOK', NestingOK, PassesPop,
           \/ WaitTimesOut \/ EndWithLoop \/ ExecCallbacksReturns
           \/ \E k \in 0 .. Len(stack) : Throw(k)
    PROVE  PassesPop'
<1>1. CASE WaitTimesOut \/ EndWithLoop \/ ExecCallbacksReturns
  <2>1. /\ stack # <<>> /\ Pop
        /\ Top.pc \in {"wait", "with_loop"} \/ Top.outer
    BY <1>1 DEF WaitTimesOut, EndWithLoop, ExecCallbacksReturns
  <2>2. PICK n \in Nat \ {0} : n = Len(stack)
    BY <2>1, TopIsFrame DEF ExecTypeOK
  <2>3. PICK k \in 0 .. Len(stack) - 1 : k = n - 1
    BY <2>2
  <2>4. stack' = SubSeq(stack, 1, k) /\ k + 1 = n
    BY <2>1, <2>2, <2>3 DEF Pop
  <2>5. ~(stack[n].pc \in ExecPcs /\ ~stack[n].outer)
    BY <2>1, <2>2 DEF Top, ExecPcs
  <2>6. ASSUME NEW o \in 1 .. k PROVE ~WillPop(o)
    <3>1. n \in o + 1 .. n
      BY <2>3
    <3> QED
      BY <2>2, <2>5, <3>1 DEF WillPop, SamePass
  <2>7. ~(stack[k + 1].pc \in ExecPcs /\ ~stack[k + 1].outer)
    BY <2>4, <2>5
  <2> QED
    BY <2>4, <2>6, <2>7, PassesCut
<1>2. CASE \E k \in 0 .. Len(stack) : Throw(k)
  <2>1. PICK k \in 0 .. Len(stack) - 1 : Throw(k)
    BY <1>2 DEF Throw
  <2>2. Len(stack) \in Nat
    BY DEF ExecTypeOK
  <2>3. \A o \in 1 .. k : ~WillPop(o)
    BY <2>1 DEF Throw, WillPop
  <2>4. k = 0 \/ IsUserFrame(stack[k])
    BY <2>1, <2>2 DEF Throw
  <2>5. stack' = SubSeq(stack, 1, k)
    BY <2>1 DEF Throw
  <2> QED
    BY <2>3, <2>4, <2>5, PassesCut
<1> QED
  BY <1>1, <1>2

LEMMA PassesStep ==
    ASSUME TableInv, ExecTypeOK, ExecTypeOK', NothingLost, NestingOK, PassesPop,
           [Next]_vars
    PROVE  PassesPop'
<1>1. TypeOK
  BY DEF TableInv
<1>2. CASE QuietSteps \/ UNCHANGED vars
  <2>1. UNCHANGED stack
    BY <1>2, QuietStepsAreQuiet
  <2>2. \/ UserCode
        \/ DueKept /\ UNCHANGED collected
        \/ collected'
    <3>1. CASE \E l \in Loops, d \in Delays, n \in BOOLEAN : ExecLaterNative(l, d, n)
      BY <1>1, <3>1, ScheduleKeepsDue DEF ExecLaterNative, Schedule
    <3>2. CASE \/ \E l \in Loops, d \in Delays : Later(l, d)
               \/ \E i \in Callbacks : Cancel(i)
               \/ \E p \in Loops \cup {NoLoop} : UserCreateLoop(p)
               \/ \E l \in Loops : UserDestroyLoop(l)
               \/ \E l \in Loops : GarbageCollect(l)
      BY <3>2 DEF Later, Cancel, UserCreateLoop, UserDestroyLoop, GarbageCollect
    <3>3. CASE \E l \in Loops : FdWaits(l)
      BY <3>3, DueUnchanged DEF FdWaits, FdWaitsDecr, execVars
    <3>4. CASE Tick \/ UNCHANGED vars
      BY <3>4, DueUnchanged DEF Tick, vars, execVars, tableVars
    <3> QED
      BY <1>2, <3>1, <3>2, <3>3, <3>4 DEF QuietSteps
  <2> QED
    BY <2>1, <2>2, QuietPasses
<1>3. CASE WaitEnds
  BY <1>3, PassesWaitEnds
<1>4. CASE PopCallback
  BY <1>1, <1>4, PassesPopCallback
<1>5. CASE NothingToPop
  BY <1>5, PassesNothingToPop
<1>6. CASE CallbackReturns
  BY <1>6, PassesCallbackReturns
<1>7. CASE RunChild
  BY <1>1, <1>7, PassesRunChild
<1>8. CASE ChildReturns
  BY <1>8, PassesChildReturns
<1>9. CASE \/ WaitTimesOut \/ EndWithLoop \/ ExecCallbacksReturns
           \/ \E k \in 0 .. Len(stack) : Throw(k)
  BY <1>9, PassesCutSteps
<1>10. CASE \E l \in Loops : \/ WithLoop(l)
                             \/ \E t \in Timeouts, all \in BOOLEAN : RunNow(l, t, all)
  <2>1. UserCode
    BY <1>10 DEF WithLoop, RunNow
  <2>2. PICK f \in Frame : Push(f) /\ f.pc \notin ExecPcs
    BY <1>1, <1>10, PushedFrames DEF ExecPcs
  <2> QED
    BY <2>1, <2>2, PassesPush
<1> QED
  BY <1>2, <1>3, <1>4, <1>5, <1>6, <1>7, <1>8, <1>9, <1>10
     DEF Next, MainStep, UserStep, QuietSteps

LEMMA PassesInit == Init => PassesPop
BY DEF Init, PassesPop

(***************************************************************************)
(* run_now() returns TRUE only after a callback ran, or when PutRNGstate() *)
(* collected a handle between two loops of this pass: what wait() saw due  *)
(* is still there when the pass reaches its loop, at any depth of the tree *)
(* of loops, whatever other threads schedule; callbacks, and the garbage   *)
(* collected while they run, may take away what they like.                 *)
(***************************************************************************)
THEOREM LoopTrueMeansRan == Spec => []TrueMeansRanUnlessCollected
<1> DEFINE Inv == NestingOK /\ PassesPop
<1>1. Init => Inv
  BY NestingInit, PassesInit
<1>2. LoopInv /\ LoopInv' /\ Inv /\ [Next]_vars => Inv'
  BY NestingStep, PassesStep DEF LoopInv, CallbacksOK
<1>3. LoopInv /\ Inv => TrueMeansRanUnlessCollected
  <2>1. SUFFICES ASSUME ExecTypeOK, PassesPop, stack # <<>>, Top.outer,
                        Top.pc = "children", Top.rest = {}, ~collected
                 PROVE  Top.popped > 0
    BY DEF LoopInv, TrueMeansRanUnlessCollected, TrueMeansRan, AtPutRNGstate
  <2>2. PICK n \in Nat \ {0} : n = Len(stack)
    BY <2>1, TopIsFrame DEF ExecTypeOK
  <2>3. HasPopped(n) \/ WillPop(n)
    BY <2>1, <2>2 DEF PassesPop, Top, ExecPcs
  <2>4. \A j \in n .. n : j = n
    OBVIOUS
  <2>5. CASE HasPopped(n)
    BY <2>2, <2>4, <2>5 DEF HasPopped, Top
  <2>6. CASE WillPop(n)
    BY <2>1, <2>2, <2>4, <2>6 DEF WillPop, DueAhead, Ahead, Top
  <2> QED
    BY <2>3, <2>5, <2>6
<1> QED
  BY <1>1, <1>2, <1>3, LoopInductive, PTL DEF Spec
=============================================================================
