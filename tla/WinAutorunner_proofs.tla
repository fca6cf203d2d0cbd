------------------------ MODULE WinAutorunner_proofs ------------------------
(***************************************************************************)
(* Proofs about the autorunner on Windows, for any loops, callbacks,       *)
(* passes, commands and depth of nesting.                                  *)
(***************************************************************************)
EXTENDS WinAutorunner, SequenceTheorems, FiniteSetTheorems, TLAPS

-----------------------------------------------------------------------------
(***************************************************************************)
(* The inductive invariant.  Only R code and passes have frames above      *)
(* them, so an error never returns to a window procedure that was about to *)
(* kill the timer, and exec_callbacks_reentrancy_count counts the passes,  *)
(* so that at_top_level() sees them.  NoLostWakeup alone is not inductive: *)
(* a timer that is about to be killed does not count, and a callback that  *)
(* arrives after the look at the queue has its message, which nobody       *)
(* dispatches before KillTimer().                                          *)
(***************************************************************************)
Suspended == {"code", "run_now", "pass"}
Autorunning == {"exec", "pass", "idle", "kill"}
OnlySuspendedBelow == \A k \in 1 .. Len(stack) - 1 : stack[k].pc \in Suspended
PassesLeft == \A k \in DOMAIN stack : stack[k].pc = "pass" => stack[k].n > 0
Running == {i \in DOMAIN stack : stack[i].pc \in PassPcs}
Counted == exec_callbacks_reentrancy_count = Cardinality(Running)
StackOK == OnlySuspendedBelow /\ NotReentered /\ PassesLeft /\ Counted
FramesOK == stack \in Seq(Frame) /\ exec_callbacks_reentrancy_count \in Int
TimerStays == timer /\ ~OnTop("kill")
WakeupOK == queue[GLOBAL_LOOP] # {} => TimerStays \/ posted > 0 \/ failed
WinAutorunnerInv == TypeOK /\ StackOK /\ WakeupOK

-----------------------------------------------------------------------------
(***************************************************************************)
(* Facts about stacks of frames.                                           *)
(***************************************************************************)
LEMMA BelowTop ==
    ASSUME NEW n \in Nat, NEW k \in 1 .. n, k # n
    PROVE  k \in 1 .. n - 1
OBVIOUS

LEMMA TopIsFrame ==
    ASSUME stack \in Seq(Frame), stack # <<>>
    PROVE  /\ Len(stack) \in Nat \ {0}
           /\ DOMAIN stack = 1 .. Len(stack)
           /\ Top \in Frame
           /\ \A i \in DOMAIN stack : stack[i] \in Frame
BY DEF Top

LEMMA EnteredFrame ==
    ASSUME NEW pc \in Pcs
    PROVE  Enter(pc) \in Frame /\ Enter(pc).pc = pc /\ Enter(pc).n = 0
<1>1. 0 \in 0 .. Passes
  BY WinAutorunnerAssumption
<1> QED
  BY <1>1 DEF Enter, Frame

LEMMA RunningIsFinite ==
    ASSUME stack \in Seq(Frame)
    PROVE  /\ IsFiniteSet(Running)
           /\ Cardinality(Running) \in Nat
           /\ Running \subseteq 1 .. Len(stack)
<1>1. DOMAIN stack = 1 .. Len(stack) /\ Len(stack) \in Nat
  BY LenProperties
<1>2. IsFiniteSet(1 .. Len(stack))
  BY <1>1, FS_Interval
<1>3. Running \in SUBSET (1 .. Len(stack))
  BY <1>1 DEF Running
<1>4. IsFiniteSet(Running)
  BY <1>2, <1>3, FS_Subset
<1> QED
  BY <1>3, <1>4, FS_CardinalityType

\* A frame pushed on R code, on a pass or at the prompt.
LEMMA PushedStack ==
    ASSUME stack \in Seq(Frame), StackOK, NEW f \in Frame, Push(f),
           stack # <<>> => Top.pc \in Suspended,
           f.pc \notin Autorunning,
           \/ f.pc \in PassPcs /\ EnterPass
           \/ f.pc \notin PassPcs /\ UNCHANGED exec_callbacks_reentrancy_count
    PROVE  /\ FramesOK'
           /\ StackOK'
           /\ ~OnTop("kill")'
<1>1. /\ stack' \in Seq(Frame)
      /\ Len(stack') = Len(stack) + 1
      /\ stack'[Len(stack) + 1] = f
      /\ \A i \in 1 .. Len(stack) : stack'[i] = stack[i]
  BY AppendProperties DEF Push
<1>2. /\ Len(stack) \in Nat
      /\ DOMAIN stack = 1 .. Len(stack)
      /\ DOMAIN stack' = 1 .. Len(stack) + 1
  BY <1>1, LenProperties
<1>3. OnlySuspendedBelow'
  <2>1. ASSUME NEW k \in 1 .. Len(stack)
        PROVE  stack[k].pc \in Suspended
    <3>1. CASE k = Len(stack)
      BY <1>2, <2>1, <3>1 DEF Top
    <3>2. CASE k # Len(stack)
      <4>1. k \in 1 .. Len(stack) - 1
        BY <1>2, <3>2, BelowTop
      <4> QED
        BY <4>1 DEF StackOK, OnlySuspendedBelow
    <3> QED
      BY <3>1, <3>2
  <2> QED
    BY <1>1, <1>2, <2>1 DEF OnlySuspendedBelow
<1>4. PICK m \in Nat : m = Len(stack) + 1 /\ m \notin 1 .. Len(stack)
  BY <1>2
<1>5. DOMAIN stack' = DOMAIN stack \cup {m} /\ stack'[m] = f
  BY <1>1, <1>2, <1>4
<1>6. NotReentered'
  <2>1. SUFFICES ASSUME NEW i \in DOMAIN stack', NEW k \in DOMAIN stack',
                        i < k, stack'[i].pc \in PassPcs
                 PROVE  stack'[k].pc \notin Autorunning
    BY DEF NotReentered, Autorunning
  <2>2. CASE k = m
    BY <1>5, <2>2
  <2>3. CASE k # m
    <3>1. k \in DOMAIN stack /\ i \in DOMAIN stack
      BY <1>2, <1>4, <1>5, <2>1, <2>3
    <3>2. stack'[k] = stack[k] /\ stack'[i] = stack[i]
      BY <1>1, <1>2, <3>1
    <3> QED
      BY <2>1, <3>1, <3>2 DEF StackOK, NotReentered, Autorunning
  <2> QED
    BY <2>2, <2>3
<1>7. PassesLeft'
  BY <1>1, <1>2, <1>5 DEF StackOK, PassesLeft, Autorunning
<1>8. Counted' /\ exec_callbacks_reentrancy_count' \in Int
  <2>1. /\ IsFiniteSet(Running)
        /\ Cardinality(Running) \in Nat
        /\ m \notin Running
    BY <1>2, <1>4, RunningIsFinite
  <2>2. exec_callbacks_reentrancy_count = Cardinality(Running)
    BY DEF StackOK, Counted
  <2>3. CASE f.pc \in PassPcs
    <3>1. Running' = Running \cup {m}
      BY <1>1, <1>2, <1>5, <2>3 DEF Running
    <3>2. Cardinality(Running \cup {m}) = Cardinality(Running) + 1
      BY <2>1, FS_AddElement
    <3> QED
      BY <2>1, <2>2, <2>3, <3>1, <3>2 DEF Counted, EnterPass
  <2>4. CASE f.pc \notin PassPcs
    <3>1. Running' = Running
      BY <1>1, <1>2, <1>5, <2>4 DEF Running
    <3> QED
      BY <2>1, <2>2, <2>4, <3>1 DEF Counted
  <2> QED
    BY <2>3, <2>4
<1>9. ~OnTop("kill")'
  BY <1>1, <1>2 DEF OnTop, Top, Autorunning
<1> QED
  BY <1>1, <1>3, <1>6, <1>7, <1>8, <1>9 DEF StackOK, FramesOK

\* The window procedure, which runs under no callback, goes on.
LEMMA ReplacedStack ==
    ASSUME stack \in Seq(Frame), stack # <<>>, StackOK,
           NEW f \in Frame, ReplaceTop(f),
           \A i \in 1 .. Len(stack) - 1 : stack[i].pc \notin PassPcs,
           f.pc \in Autorunning,
           f.pc = "pass" => f.n > 0,
           exec_callbacks_reentrancy_count' = IF f.pc = "pass" THEN 1 ELSE 0
    PROVE  /\ FramesOK'
           /\ StackOK'
           /\ f.pc # "kill" => ~OnTop("kill")'
<1>1. /\ stack' \in Seq(Frame)
      /\ Len(stack') = Len(stack)
      /\ stack'[Len(stack)] = f
      /\ \A i \in 1 .. Len(stack) - 1 : stack'[i] = stack[i]
  BY ExceptSeq DEF ReplaceTop
<1>2. PICK n \in Nat \ {0} : n = Len(stack)
  BY TopIsFrame
<1>3. DOMAIN stack' = 1 .. n /\ DOMAIN stack = 1 .. n
  BY <1>1, <1>2, LenProperties
<1>4. \A i \in 1 .. n : i = n \/ i \in 1 .. n - 1
  OBVIOUS
<1>5. OnlySuspendedBelow'
  BY <1>1, <1>2 DEF StackOK, OnlySuspendedBelow
<1>6. NotReentered'
  <2>1. \A i, k \in 1 .. n : i < k => i \in 1 .. n - 1
    OBVIOUS
  <2> QED
    BY <1>1, <1>2, <1>3, <2>1 DEF NotReentered
<1>7. PassesLeft'
  <2>1. \A k \in 1 .. n - 1 : k \in DOMAIN stack
    BY <1>3
  <2> QED
    BY <1>1, <1>2, <1>3, <1>4, <2>1 DEF StackOK, PassesLeft
<1>8. Counted' /\ exec_callbacks_reentrancy_count' \in Int
  <2>1. CASE f.pc = "pass"
    <3>1. ASSUME NEW i \in 1 .. n PROVE stack'[i].pc \in PassPcs <=> i = n
      BY <1>1, <1>2, <1>4, <2>1 DEF PassPcs
    <3>2. Running' = {n}
      BY <1>3, <3>1 DEF Running
    <3>3. Cardinality({n}) = 1
      BY FS_Singleton
    <3> QED
      BY <2>1, <3>2, <3>3 DEF Counted
  <2>2. CASE f.pc # "pass"
    <3>1. Running' = {}
      BY <1>1, <1>2, <1>3, <1>4, <2>2 DEF Running, PassPcs, Autorunning
    <3> QED
      BY <2>2, <3>1, FS_EmptySet DEF Counted
  <2> QED
    BY <2>1, <2>2
<1>9. f.pc # "kill" => ~OnTop("kill")'
  BY <1>1 DEF OnTop, Top
<1> QED
  BY <1>1, <1>5, <1>6, <1>7, <1>8, <1>9 DEF StackOK, FramesOK

\* No callback runs below the window procedure once it is past at_top_level().
LEMMA HandlerAlone ==
    ASSUME stack \in Seq(Frame), stack # <<>>, StackOK,
           Top.pc \in Autorunning \/ exec_callbacks_reentrancy_count = 0
    PROVE  /\ \A i \in 1 .. Len(stack) - 1 : stack[i].pc \notin PassPcs
           /\ Top.pc = "pass" => exec_callbacks_reentrancy_count = 1
           /\ Top.pc \notin PassPcs => exec_callbacks_reentrancy_count = 0
<1>1. PICK n \in Nat \ {0} : n = Len(stack) /\ DOMAIN stack = 1 .. n
  BY TopIsFrame
<1>2. ASSUME NEW i \in 1 .. n - 1 PROVE stack[i].pc \notin PassPcs
  <2>1. i \in 1 .. n /\ n \in 1 .. n /\ i < n
    OBVIOUS
  <2>2. CASE Top.pc \in Autorunning
    BY <1>1, <2>1, <2>2 DEF StackOK, NotReentered, Autorunning, Top
  <2>3. CASE exec_callbacks_reentrancy_count = 0
    <3>1. IsFiniteSet(Running) /\ Cardinality(Running) = 0
      BY <2>3, RunningIsFinite DEF StackOK, Counted
    <3>2. Running = {}
      BY <3>1, FS_EmptySet
    <3> QED
      BY <1>1, <2>1, <3>2 DEF Running
  <2> QED
    BY <2>2, <2>3
<1>3. \A i \in 1 .. n : i = n \/ i \in 1 .. n - 1
  OBVIOUS
<1>4. n \in 1 .. n /\ Top = stack[n]
  BY <1>1 DEF Top
<1>5. ASSUME Top.pc = "pass" PROVE exec_callbacks_reentrancy_count = 1
  <2>1. Running = {n}
    BY <1>1, <1>2, <1>3, <1>4, <1>5 DEF Running, PassPcs
  <2> QED
    BY <2>1, FS_Singleton DEF StackOK, Counted
<1>6. ASSUME Top.pc \notin PassPcs PROVE exec_callbacks_reentrancy_count = 0
  <2>1. Running = {}
    BY <1>1, <1>2, <1>3, <1>4, <1>6 DEF Running
  <2> QED
    BY <2>1, FS_EmptySet DEF StackOK, Counted
<1> QED
  BY <1>1, <1>2, <1>5, <1>6

\* The pass on top of the stack ends.
LEMMA TopPassEnds ==
    ASSUME stack \in Seq(Frame), stack # <<>>, Top.pc = "pass",
           LeavePasses(Len(stack))
    PROVE  exec_callbacks_reentrancy_count' = exec_callbacks_reentrancy_count - 1
<1>1. PICK n \in Nat \ {0} : n = Len(stack)
  BY TopIsFrame
<1>2. {i \in Len(stack) .. Len(stack) : stack[i].pc \in PassPcs} = {n}
  <2>1. n .. n = {n}
    OBVIOUS
  <2> QED
    BY <1>1, <2>1 DEF Top, PassPcs
<1>3. Cardinality({n}) = 1
  BY FS_Singleton
<1> QED
  BY <1>2, <1>3 DEF LeavePasses

\* The stack is cut back to its first k frames, less than all: what comes to
\* the top again is R code or a pass.
LEMMA CutStack ==
    ASSUME stack \in Seq(Frame), StackOK, NEW k \in 0 .. Len(stack) - 1,
           stack' = SubSeq(stack, 1, k), LeavePasses(k + 1)
    PROVE  /\ FramesOK'
           /\ StackOK'
           /\ ~OnTop("kill")'
<1>0. Len(stack) \in Nat /\ k \in 0 .. Len(stack)
  BY LenProperties
<1>1. /\ stack' \in Seq(Frame)
      /\ Len(stack') = k
      /\ \A i \in 1 .. k : stack'[i] = stack[i]
  BY <1>0, SubSeqProperties
<1>2. PICK n \in Nat : n = Len(stack) /\ k \in 0 .. n
  BY <1>0, LenProperties
<1>3. DOMAIN stack = 1 .. n /\ DOMAIN stack' = 1 .. k
  BY <1>1, <1>2, LenProperties
<1>4. OnlySuspendedBelow'
  BY <1>1, <1>2 DEF StackOK, OnlySuspendedBelow
<1>5. \A i \in 1 .. k : i \in 1 .. n
  BY <1>2
<1>6. NotReentered' /\ PassesLeft'
  BY <1>1, <1>3, <1>5 DEF StackOK, NotReentered, PassesLeft
<1>7. Counted' /\ exec_callbacks_reentrancy_count' \in Int
  <2> DEFINE T == {i \in k + 1 .. n : stack[i].pc \in PassPcs}
  <2>1. Running' = Running \ T
    <3>1. \A i \in 1 .. k : i \in 1 .. n /\ i \notin k + 1 .. n
      BY <1>2
    <3>2. \A i \in 1 .. n : i \in 1 .. k \/ i \in k + 1 .. n
      BY <1>2
    <3> QED
      BY <1>1, <1>3, <3>1, <3>2 DEF Running
  <2>2. T = Running \cap T
    <3>1. k + 1 .. n \subseteq 1 .. n
      BY <1>2
    <3> QED
      BY <1>3, <3>1 DEF Running
  <2>3. IsFiniteSet(Running)
    BY RunningIsFinite
  <2>4. exec_callbacks_reentrancy_count' = Cardinality(Running) - Cardinality(T)
    BY <1>2 DEF StackOK, Counted, LeavePasses
  <2> HIDE DEF T
  <2>5. Cardinality(Running \ T) = Cardinality(Running) - Cardinality(Running \cap T)
    BY <2>3, FS_Difference
  <2>6. IsFiniteSet(Running \ T)
    BY <2>3, FS_Difference
  <2>7. Cardinality(Running \ T) \in Nat
    BY <2>6, FS_CardinalityType
  <2> QED
    <3>1. exec_callbacks_reentrancy_count' = Cardinality(Running \ T)
      BY <2>2, <2>4, <2>5
    <3> QED
      BY <2>1, <2>7, <3>1 DEF Counted
<1>8. ASSUME k # 0
      PROVE  stack[k].pc \in Suspended
  BY <1>0, <1>8 DEF StackOK, OnlySuspendedBelow
<1>9. ~OnTop("kill")'
  BY <1>0, <1>1, <1>8 DEF OnTop, Top, Suspended
<1> QED
  BY <1>1, <1>3, <1>4, <1>6, <1>7, <1>9 DEF StackOK, FramesOK

\* The topmost frame ends.
LEMMA PoppedStack ==
    ASSUME stack \in Seq(Frame), stack # <<>>, StackOK, Pop,
           \/ LeavePasses(Len(stack))
           \/ Top.pc \notin PassPcs /\ UNCHANGED exec_callbacks_reentrancy_count
    PROVE  /\ FramesOK'
           /\ StackOK'
           /\ ~OnTop("kill")'
<1>1. /\ Len(stack) \in Nat \ {0}
      /\ DOMAIN stack = 1 .. Len(stack)
  BY TopIsFrame
<1>2. PICK n \in Nat \ {0} : n = Len(stack)
  BY <1>1
<1>3. PICK k \in 0 .. Len(stack) : k = n - 1 /\ k + 1 = n
  <2>1. n - 1 \in 0 .. n /\ (n - 1) + 1 = n
    OBVIOUS
  <2> QED
    BY <1>2, <2>1
<1>4. LeavePasses(k + 1)
  <2>1. SUFFICES ASSUME Top.pc \notin PassPcs, UNCHANGED exec_callbacks_reentrancy_count
                 PROVE  LeavePasses(Len(stack))
    BY <1>2, <1>3
  <2>2. \A i \in n .. n : i = n
    OBVIOUS
  <2>3. {i \in Len(stack) .. Len(stack) : stack[i].pc \in PassPcs} = {}
    BY <1>2, <2>1, <2>2 DEF Top
  <2>4. exec_callbacks_reentrancy_count \in Int
    BY RunningIsFinite DEF StackOK, Counted
  <2>5. Cardinality({i \in Len(stack) .. Len(stack) : stack[i].pc \in PassPcs}) = 0
    BY <2>3, FS_EmptySet
  <2> QED
    BY <2>1, <2>4, <2>5 DEF LeavePasses
<1>5. k \in 0 .. Len(stack) - 1 /\ k = Len(stack) - 1
  BY <1>2, <1>3
<1> QED
  BY <1>4, <1>5, CutStack DEF Pop

\* What an error leaves of the stack: the prompt, R code, or the window procedure
\* at the end of its try block.
LEMMA UnwoundStack ==
    ASSUME stack \in Seq(Frame), StackOK, Unwind
    PROVE  FramesOK' /\ StackOK' /\ ~OnTop("kill")'
<1>1. PICK k \in 0 .. Len(stack) - 1 :
            \/ stack' = SubSeq(stack, 1, k) /\ LeavePasses(k + 1)
            \/ /\ k > 0
               /\ stack[k].pc = "pass"
               /\ stack' = [SubSeq(stack, 1, k) EXCEPT ![k] = Enter("idle")]
               /\ LeavePasses(k)
  BY DEF Unwind
<1>2. CASE stack' = SubSeq(stack, 1, k) /\ LeavePasses(k + 1)
  BY <1>2, CutStack
<1>3. CASE /\ k > 0
           /\ stack[k].pc = "pass"
           /\ stack' = [SubSeq(stack, 1, k) EXCEPT ![k] = Enter("idle")]
           /\ LeavePasses(k)
  <2>1. PICK n \in Nat : n = Len(stack) /\ k \in 1 .. n /\ k # n
    BY <1>1, <1>3
  <2>2. stack[k] \in Frame /\ DOMAIN stack = 1 .. n
    BY <1>1, <2>1, ElementOfSeq
  <2> DEFINE s == SubSeq(stack, 1, k)
             f == Enter("idle")
  <2>3. s \in Seq(Frame) /\ Len(s) = k /\ (\A i \in 1 .. k : s[i] = stack[i])
    BY <2>1, SubSeqProperties
  <2>4. f \in Frame /\ f.pc = "idle"
    BY EnteredFrame DEF Pcs
  <2>5. stack' = [s EXCEPT ![k] = f]
    BY <1>3
  <2> HIDE DEF s, f
  <2>6. /\ stack' \in Seq(Frame)
        /\ Len(stack') = k
        /\ stack'[k] = f
        /\ \A i \in 1 .. k - 1 : stack'[i] = stack[i]
    <3>1. k \in 1 .. Len(s) /\ k \in DOMAIN s
      BY <2>1, <2>3
    <3>2. stack' \in Seq(Frame) /\ Len(stack') = k /\ stack'[k] = f
      BY <2>3, <2>4, <2>5, <3>1, ExceptSeq
    <3>3. ASSUME NEW i \in 1 .. k - 1 PROVE stack'[i] = stack[i]
      <4>1. i \in 1 .. k /\ i # k
        BY <2>1
      <4>2. stack'[i] = s[i]
        BY <2>3, <2>4, <2>5, <3>1, <4>1, ExceptSeq
      <4> QED
        BY <2>3, <4>1, <4>2
    <3> QED
      BY <3>2, <3>3
  <2>7. DOMAIN stack' = 1 .. k
    BY <2>6, LenProperties
  <2>8. \A i \in 1 .. k : i = k \/ i \in 1 .. k - 1
    BY <2>1
  <2>9. ASSUME NEW i \in 1 .. k - 1 PROVE stack[i].pc \notin PassPcs
    <3>1. i \in DOMAIN stack /\ k \in DOMAIN stack /\ i < k
      BY <2>1, <2>2
    <3> QED
      BY <1>3, <3>1 DEF StackOK, NotReentered
  <2>10. OnlySuspendedBelow'
    <3>1. \A i \in 1 .. k - 1 : i \in 1 .. n - 1
      BY <2>1
    <3> QED
      BY <2>1, <2>6, <3>1 DEF OnlySuspendedBelow, StackOK
  <2>11. NotReentered'
    <3>1. \A i, g \in 1 .. k : i < g => i \in 1 .. k - 1
      BY <2>1
    <3> QED
      BY <2>6, <2>7, <2>9, <3>1 DEF NotReentered
  <2>12. PassesLeft'
    <3>1. \A i \in 1 .. k - 1 : i \in DOMAIN stack
      BY <2>1, <2>2
    <3> QED
      BY <2>4, <2>6, <2>7, <2>8, <3>1 DEF StackOK, PassesLeft
  <2>13. Counted' /\ exec_callbacks_reentrancy_count' \in Int
    <3>1. Running' = {}
      BY <2>4, <2>6, <2>7, <2>8, <2>9 DEF Running, PassPcs
    <3>2. Running = {i \in k .. Len(stack) : stack[i].pc \in PassPcs}
      <4>1. \A i \in 1 .. n : i \in 1 .. k - 1 \/ i \in k .. n
        BY <2>1
      <4>2. k .. n \subseteq 1 .. n
        BY <2>1
      <4> QED
        BY <2>1, <2>2, <2>9, <4>1, <4>2 DEF Running
    <3>3. Cardinality(Running) \in Nat
      BY RunningIsFinite
    <3>4. exec_callbacks_reentrancy_count' = Cardinality(Running) - Cardinality(Running)
      BY <1>3, <3>2 DEF LeavePasses, StackOK, Counted
    <3>5. exec_callbacks_reentrancy_count' = 0
      BY <3>3, <3>4
    <3> QED
      BY <3>1, <3>5, FS_EmptySet DEF Counted
  <2>14. ~OnTop("kill")'
    BY <2>4, <2>6 DEF OnTop, Top
  <2> QED
    BY <2>6, <2>10, <2>11, <2>12, <2>13, <2>14 DEF StackOK, FramesOK
<1> QED
  BY <1>1, <1>2, <1>3

\* The stack and the count do not change.
LEMMA SameStack ==
    ASSUME StackOK, UNCHANGED <<exec_callbacks_reentrancy_count, stack>>
    PROVE  StackOK' /\ (OnTop("kill")' <=> OnTop("kill"))
<1>1. OnlySuspendedBelow' /\ PassesLeft' /\ NotReentered'
  BY DEF StackOK, OnlySuspendedBelow, PassesLeft, NotReentered
<1>2. Counted'
  <2>1. Running' = Running
    BY DEF Running
  <2> QED
    BY <2>1 DEF StackOK, Counted
<1>3. OnTop("kill")' <=> OnTop("kill")
  BY DEF OnTop, Top
<1> QED
  BY <1>1, <1>2, <1>3 DEF StackOK

-----------------------------------------------------------------------------
(***************************************************************************)
(* Facts about the queues and the timer.                                   *)
(***************************************************************************)
\* A callback leaves its loop.
LEMMA TakenFromQueue ==
    ASSUME TypeOK, NEW i, queue' = [l \in Loops |-> queue[l] \ {i}]
    PROVE  /\ queue' \in [Loops -> SUBSET Callbacks]
           /\ queue'[GLOBAL_LOOP] # {} => queue[GLOBAL_LOOP] # {}
<1>1. queue \in [Loops -> SUBSET Callbacks] /\ GLOBAL_LOOP \in Loops
  BY WinAutorunnerAssumption DEF TypeOK
<1> QED
  BY <1>1

LEMMA DueIsScheduled ==
    ASSUME TypeOK, NEW l
    PROVE  DueNow(l) \subseteq Callbacks
BY DEF TypeOK, DueNow

LEMMA AddedToQueue ==
    ASSUME TypeOK, NEW l \in Loops, NEW i \in Callbacks, Add(l, i)
    PROVE  /\ queue' \in [Loops -> SUBSET Callbacks]
           /\ known' \subseteq Callbacks
           /\ due' \subseteq known'
BY DEF TypeOK, Add

\* A step that takes no timer away and adds no callback keeps the wakeup, if
\* it does not turn to KillTimer().
LEMMA WakeupKept ==
    ASSUME WakeupOK, UNCHANGED <<timer, posted, failed>>,
           ~OnTop("kill")',
           queue'[GLOBAL_LOOP] # {} => queue[GLOBAL_LOOP] # {}
    PROVE  WakeupOK'
BY DEF WakeupOK, TimerStays

\* The steps that change the stack and the count only.
StackMoves == UNCHANGED <<queueVars, timerVars, commands>>

LEMMA StackMovesKeep ==
    ASSUME WinAutorunnerInv, StackMoves, FramesOK', StackOK', ~OnTop("kill")'
    PROVE  WinAutorunnerInv'
<1>1. TypeOK'
  BY DEF WinAutorunnerInv, TypeOK, FramesOK, StackMoves, queueVars, timerVars
<1>2. WakeupOK'
  BY WakeupKept DEF WinAutorunnerInv, StackMoves, queueVars, timerVars
<1> QED
  BY <1>1, <1>2 DEF WinAutorunnerInv

-----------------------------------------------------------------------------
(***************************************************************************)
(* Each step keeps the invariant.                                          *)
(***************************************************************************)
LEMMA InvInit == Init => WinAutorunnerInv
<1> SUFFICES ASSUME Init PROVE WinAutorunnerInv
  OBVIOUS
<1>1. stack \in Seq(Frame) /\ Len(stack) = 0 /\ DOMAIN stack = {}
  BY DEF Init
<1>2. timer \in BOOLEAN /\ elapsed \in BOOLEAN /\ failed \in BOOLEAN
  BY Zenon DEF Init
<1>3. commands \in 0 .. MaxCommands
  BY WinAutorunnerAssumption DEF Init
<1>4. TypeOK
  <2>1. exec_callbacks_reentrancy_count \in Int /\ posted \in Nat
    BY DEF Init
  <2> QED
    BY <1>1, <1>2, <1>3, <2>1 DEF Init, TypeOK
<1>5. StackOK
  <2>1. Running = {}
    BY <1>1 DEF Running
  <2>2. Counted
    BY <2>1, FS_EmptySet DEF Counted, Init
  <2> QED
    BY <1>1, <2>2 DEF StackOK, OnlySuspendedBelow, NotReentered, PassesLeft
<1>6. WakeupOK
  BY WinAutorunnerAssumption DEF Init, WakeupOK
<1> QED
  BY <1>4, <1>5, <1>6 DEF WinAutorunnerInv

LEMMA LaterKeeps ==
    ASSUME WinAutorunnerInv, NEW l \in Loops, NEW i \in Callbacks, Later(l, i)
    PROVE  WinAutorunnerInv'
<1>1. /\ TypeOK /\ StackOK /\ WakeupOK
      /\ stack \in Seq(Frame)
      /\ OnTop("code")
  BY DEF WinAutorunnerInv, TypeOK, Later
<1>2. /\ queue' \in [Loops -> SUBSET Callbacks]
      /\ known' \subseteq Callbacks
      /\ due' \subseteq known'
  BY <1>1, AddedToQueue DEF Later
<1>3. CASE SetupTimer /\ UNCHANGED <<exec_callbacks_reentrancy_count, stack>>
  <2>1. timer' \in BOOLEAN
    BY <1>3, Zenon DEF SetupTimer
  <2>2. TypeOK'
    BY <1>1, <1>2, <1>3, <2>1 DEF TypeOK, Later, SetupTimer
  <2>3. StackOK'
    BY <1>1, <1>3, SameStack
  <2>4. WakeupOK'
    BY <1>1, <1>3 DEF WakeupOK, TimerStays, SetupTimer, OnTop, Top
  <2> QED
    BY <2>2, <2>3, <2>4 DEF WinAutorunnerInv
<1>4. CASE SetupTimerFails /\ Unwind
  <2>1. FramesOK' /\ StackOK'
    BY <1>1, <1>4, UnwoundStack
  <2>2. failed' \in BOOLEAN
    BY <1>4, Zenon DEF SetupTimerFails
  <2>3. TypeOK'
    BY <1>1, <1>2, <1>4, <2>1, <2>2 DEF TypeOK, FramesOK, Later, SetupTimerFails
  <2>4. WakeupOK'
    BY <1>4 DEF WakeupOK, SetupTimerFails
  <2> QED
    BY <2>1, <2>3, <2>4 DEF WinAutorunnerInv
<1> QED
  BY <1>3, <1>4 DEF Later

LEMMA ScheduleCallbackKeeps ==
    ASSUME WinAutorunnerInv, NEW l \in Loops, NEW i \in Callbacks,
           ScheduleCallback(l, i)
    PROVE  WinAutorunnerInv'
<1>1. /\ TypeOK /\ StackOK /\ Add(l, i)
      /\ UNCHANGED <<timer, elapsed, commands, exec_callbacks_reentrancy_count, stack>>
  BY DEF WinAutorunnerInv, ScheduleCallback
<1>2. /\ queue' \in [Loops -> SUBSET Callbacks]
      /\ known' \subseteq Callbacks
      /\ due' \subseteq known'
  BY <1>1, AddedToQueue
<1>3. StackOK'
  BY <1>1, SameStack
<1>4. CASE posted' = posted + 1 /\ UNCHANGED failed
  <2>1. TypeOK'
    BY <1>1, <1>2, <1>4 DEF TypeOK
  <2>2. WakeupOK'
    BY <1>1, <1>4 DEF TypeOK, WakeupOK
  <2> QED
    BY <1>3, <2>1, <2>2 DEF WinAutorunnerInv
<1>5. CASE failed' = TRUE /\ UNCHANGED posted
  <2>1. failed' \in BOOLEAN
    BY <1>5, Zenon
  <2>2. TypeOK'
    BY <1>1, <1>2, <1>5, <2>1 DEF TypeOK
  <2>3. WakeupOK'
    BY <1>5 DEF WakeupOK
  <2> QED
    BY <1>3, <2>2, <2>3 DEF WinAutorunnerInv
<1> QED
  BY <1>4, <1>5 DEF ScheduleCallback

LEMMA ElapseKeeps ==
    ASSUME WinAutorunnerInv, NEW i \in Callbacks, Elapse(i)
    PROVE  WinAutorunnerInv'
<1>1. TypeOK'
  BY DEF WinAutorunnerInv, Elapse, TypeOK, timerVars
<1>2. StackOK'
  BY SameStack DEF WinAutorunnerInv, Elapse
<1>3. WakeupOK'
  BY DEF WinAutorunnerInv, Elapse, WakeupOK, TimerStays, OnTop, Top, timerVars
<1> QED
  BY <1>1, <1>2, <1>3 DEF WinAutorunnerInv

LEMMA TimerElapsesKeeps ==
    ASSUME WinAutorunnerInv, TimerElapses
    PROVE  WinAutorunnerInv'
<1>1. elapsed' \in BOOLEAN
  BY Zenon DEF TimerElapses
<1>2. TypeOK'
  BY <1>1 DEF WinAutorunnerInv, TimerElapses, TypeOK, queueVars
<1>3. StackOK'
  BY SameStack DEF WinAutorunnerInv, TimerElapses
<1>4. WakeupOK'
  BY DEF WinAutorunnerInv, TimerElapses, WakeupOK, TimerStays, OnTop, Top, queueVars
<1> QED
  BY <1>2, <1>3, <1>4 DEF WinAutorunnerInv

LEMMA CommandKeeps ==
    ASSUME WinAutorunnerInv, Command
    PROVE  WinAutorunnerInv'
<1>1. Enter("code") \in Frame /\ Enter("code").pc = "code"
  BY EnteredFrame DEF Pcs
<1>2. FramesOK' /\ StackOK' /\ ~OnTop("kill")'
  BY <1>1, PushedStack
     DEF WinAutorunnerInv, TypeOK, Command, Autorunning, PassPcs
<1>3. commands' \in 0 .. MaxCommands
  BY WinAutorunnerAssumption DEF WinAutorunnerInv, TypeOK, Command
<1>4. TypeOK'
  BY <1>2, <1>3 DEF WinAutorunnerInv, TypeOK, FramesOK, Command, queueVars, timerVars
<1>5. WakeupOK'
  BY <1>2, WakeupKept DEF WinAutorunnerInv, Command, queueVars, timerVars
<1> QED
  BY <1>2, <1>4, <1>5 DEF WinAutorunnerInv

LEMMA CodeKeeps ==
    ASSUME WinAutorunnerInv, CodeEnds \/ CodeThrows
    PROVE  WinAutorunnerInv'
<1>1. stack \in Seq(Frame) /\ StackOK
  BY DEF WinAutorunnerInv, TypeOK
<1>2. FramesOK' /\ StackOK' /\ ~OnTop("kill")'
  BY <1>1, PoppedStack, UnwoundStack DEF CodeEnds, CodeThrows, OnTop, PassPcs
<1> QED
  BY <1>2, StackMovesKeep DEF CodeEnds, CodeThrows, StackMoves

LEMMA RunNowKeeps ==
    ASSUME WinAutorunnerInv, NEW l \in Loops, RunNow(l)
    PROVE  WinAutorunnerInv'
<1> DEFINE f == [Enter("run_now") EXCEPT !.todo = DueNow(l)]
<1>1. f \in Frame /\ f.pc = "run_now"
  <2>1. DueNow(l) \subseteq Callbacks
    BY DueIsScheduled DEF WinAutorunnerInv
  <2> QED
    BY <2>1, WinAutorunnerAssumption DEF Enter, Frame, Pcs
<1>2. /\ stack \in Seq(Frame) /\ StackOK /\ Top.pc \in Suspended
      /\ Push(f) /\ EnterPass
  BY DEF WinAutorunnerInv, TypeOK, RunNow, OnTop, Suspended
<1> HIDE DEF f
<1>3. FramesOK' /\ StackOK' /\ ~OnTop("kill")'
  BY <1>1, <1>2, PushedStack DEF Autorunning, PassPcs
<1> QED
  BY <1>3, StackMovesKeep DEF RunNow, StackMoves

\* A pass takes a callback off its loop and runs it.
LEMMA PassPopsKeeps ==
    ASSUME WinAutorunnerInv, PassPops
    PROVE  WinAutorunnerInv'
<1>1. /\ TypeOK /\ StackOK /\ WakeupOK
      /\ stack \in Seq(Frame)
      /\ Top.pc \in Suspended
      /\ Push(Enter("code"))
      /\ UNCHANGED <<known, due, timerVars, commands, exec_callbacks_reentrancy_count>>
  BY DEF WinAutorunnerInv, TypeOK, PassPops, OnTop, Suspended
<1>2. PICK i : queue' = [l \in Loops |-> queue[l] \ {i}]
  BY DEF PassPops
<1>3. /\ queue' \in [Loops -> SUBSET Callbacks]
      /\ queue'[GLOBAL_LOOP] # {} => queue[GLOBAL_LOOP] # {}
  BY <1>1, <1>2, TakenFromQueue
<1>4. Enter("code") \in Frame /\ Enter("code").pc = "code"
  BY EnteredFrame DEF Pcs
<1>5. FramesOK' /\ StackOK' /\ ~OnTop("kill")'
  BY <1>1, <1>4, PushedStack DEF Autorunning, PassPcs
<1>6. TypeOK'
  BY <1>1, <1>3, <1>5 DEF TypeOK, FramesOK, timerVars
<1>7. WakeupOK'
  BY <1>1, <1>3, <1>5, WakeupKept DEF timerVars
<1> QED
  BY <1>5, <1>6, <1>7 DEF WinAutorunnerInv

LEMMA RunNowEndsKeeps ==
    ASSUME WinAutorunnerInv, RunNowEnds
    PROVE  WinAutorunnerInv'
<1>1. FramesOK' /\ StackOK' /\ ~OnTop("kill")'
  BY PoppedStack DEF WinAutorunnerInv, TypeOK, RunNowEnds, OnTop
<1> QED
  BY <1>1, StackMovesKeep DEF RunNowEnds, StackMoves

\* A message is dispatched only while no window procedure is about to kill the
\* timer, so the timer it sets stays.
LEMMA DispatchSetupTimerKeeps ==
    ASSUME WinAutorunnerInv, DispatchSetupTimer
    PROVE  WinAutorunnerInv'
<1>1. /\ TypeOK /\ StackOK
      /\ stack \in Seq(Frame)
      /\ stack = <<>> \/ OnTop("code")
      /\ posted' \in Nat
      /\ UNCHANGED <<queue, known, due, elapsed, commands>>
  BY DEF WinAutorunnerInv, TypeOK, DispatchSetupTimer, Pumps, queueVars
<1>2. CASE /\ timer' = TRUE
           /\ UNCHANGED <<failed, exec_callbacks_reentrancy_count, stack>>
  <2>1. timer' \in BOOLEAN
    BY <1>2, Zenon
  <2>2. TypeOK'
    BY <1>1, <1>2, <2>1 DEF TypeOK
  <2>3. StackOK'
    BY <1>1, <1>2, SameStack
  <2>4. WakeupOK'
    BY <1>1, <1>2 DEF WakeupOK, TimerStays, OnTop, Top
  <2> QED
    BY <2>2, <2>3, <2>4 DEF WinAutorunnerInv
<1>3. CASE /\ failed' = TRUE
           /\ UNCHANGED timer
           /\ IF stack = <<>> THEN UNCHANGED <<exec_callbacks_reentrancy_count, stack>>
              ELSE Unwind
  <2>1. FramesOK' /\ StackOK'
    <3>1. CASE stack = <<>>
      BY <1>1, <1>3, <3>1, SameStack DEF FramesOK, TypeOK
    <3>2. CASE stack # <<>>
      BY <1>1, <1>3, <3>2, UnwoundStack
    <3> QED
      BY <3>1, <3>2
  <2>2. failed' \in BOOLEAN
    BY <1>3, Zenon
  <2>3. TypeOK'
    BY <1>1, <1>3, <2>1, <2>2 DEF TypeOK, FramesOK
  <2>4. WakeupOK'
    BY <1>3 DEF WakeupOK
  <2> QED
    BY <2>1, <2>3, <2>4 DEF WinAutorunnerInv
<1> QED
  BY <1>2, <1>3 DEF DispatchSetupTimer

LEMMA DispatchTimerKeeps ==
    ASSUME WinAutorunnerInv, NEW nframe \in {0, 1}, DispatchTimer(nframe)
    PROVE  WinAutorunnerInv'
<1> DEFINE f == [Enter("timer") EXCEPT !.nframe = nframe]
<1>1. f \in Frame /\ f.pc = "timer"
  BY WinAutorunnerAssumption DEF Enter, Frame, Pcs
<1>2. /\ stack \in Seq(Frame) /\ StackOK
      /\ stack # <<>> => Top.pc \in Suspended
      /\ Push(f) /\ UNCHANGED exec_callbacks_reentrancy_count
  BY DEF WinAutorunnerInv, TypeOK, DispatchTimer, Pumps, OnTop, Suspended
<1> HIDE DEF f
<1>3. FramesOK' /\ StackOK' /\ ~OnTop("kill")'
  BY <1>1, <1>2, PushedStack DEF Autorunning, PassPcs
<1>4. elapsed' \in BOOLEAN
  BY Zenon DEF DispatchTimer
<1>5. TypeOK'
  BY <1>3, <1>4 DEF WinAutorunnerInv, TypeOK, FramesOK, DispatchTimer, queueVars
<1>6. WakeupOK'
  BY <1>3, WakeupKept DEF WinAutorunnerInv, DispatchTimer, queueVars
<1> QED
  BY <1>3, <1>5, <1>6 DEF WinAutorunnerInv

LEMMA HandlerLeavesKeeps ==
    ASSUME WinAutorunnerInv, HandlerWaits \/ HandlerInterrupted
    PROVE  WinAutorunnerInv'
<1>1. stack \in Seq(Frame) /\ StackOK
  BY DEF WinAutorunnerInv, TypeOK
<1>2. FramesOK' /\ StackOK' /\ ~OnTop("kill")'
  BY <1>1, PoppedStack, UnwoundStack DEF HandlerWaits, HandlerInterrupted, OnTop, PassPcs
<1> QED
  BY <1>2, StackMovesKeep DEF HandlerWaits, HandlerInterrupted, StackMoves

LEMMA HandlerRunsKeeps ==
    ASSUME WinAutorunnerInv, HandlerRuns
    PROVE  WinAutorunnerInv'
<1> DEFINE f == [Enter("exec") EXCEPT !.n = Passes]
<1>1. f \in Frame /\ f.pc = "exec"
  BY WinAutorunnerAssumption DEF Enter, Frame, Pcs
<1>2. /\ stack \in Seq(Frame) /\ StackOK /\ stack # <<>>
      /\ exec_callbacks_reentrancy_count = 0
      /\ exec_callbacks_reentrancy_count' = 0
      /\ ReplaceTop(f)
  BY DEF WinAutorunnerInv, TypeOK, HandlerRuns, OnTop, AtTopLevel
<1> HIDE DEF f
<1>3. FramesOK' /\ StackOK' /\ ~OnTop("kill")'
  BY <1>1, <1>2, HandlerAlone, ReplacedStack DEF Autorunning
<1> QED
  BY <1>3, StackMovesKeep DEF HandlerRuns, StackMoves

LEMMA PassBeginsKeeps ==
    ASSUME WinAutorunnerInv, PassBegins
    PROVE  WinAutorunnerInv'
<1> DEFINE f == [Top EXCEPT !.pc = "pass", !.todo = DueNow(GLOBAL_LOOP)]
<1>1. /\ stack \in Seq(Frame) /\ StackOK /\ stack # <<>>
      /\ Top \in Frame /\ Top.pc = "exec" /\ Top.n > 0
      /\ ReplaceTop(f) /\ EnterPass
  BY TopIsFrame DEF WinAutorunnerInv, TypeOK, PassBegins, OnTop
<1>2. DueNow(GLOBAL_LOOP) \subseteq Callbacks
  BY DueIsScheduled DEF WinAutorunnerInv
<1>3. f \in Frame /\ f.pc = "pass" /\ f.n > 0
  BY <1>1, <1>2 DEF Frame, Pcs
<1> HIDE DEF f
<1>4. /\ \A i \in 1 .. Len(stack) - 1 : stack[i].pc \notin PassPcs
      /\ exec_callbacks_reentrancy_count' = 1
  BY <1>1, HandlerAlone DEF Autorunning, PassPcs, EnterPass
<1>5. FramesOK' /\ StackOK' /\ ~OnTop("kill")'
  BY <1>1, <1>3, <1>4, ReplacedStack DEF Autorunning
<1> QED
  BY <1>5, StackMovesKeep DEF PassBegins, StackMoves

LEMMA PassEndsKeeps ==
    ASSUME WinAutorunnerInv, PassEnds
    PROVE  WinAutorunnerInv'
<1> DEFINE f == [Top EXCEPT !.pc = "exec", !.n = @ - 1, !.todo = {}]
<1>1. /\ stack \in Seq(Frame) /\ StackOK /\ stack # <<>>
      /\ Len(stack) \in DOMAIN stack
      /\ Top \in Frame /\ Top.pc = "pass"
      /\ ReplaceTop(f) /\ LeavePasses(Len(stack))
  BY TopIsFrame DEF WinAutorunnerInv, TypeOK, PassEnds, OnTop
<1>2. Top.n \in 0 .. Passes /\ Top.n > 0
  BY <1>1 DEF Frame, Top, StackOK, PassesLeft
<1>3. Top.n - 1 \in 0 .. Passes
  BY <1>2, WinAutorunnerAssumption
<1>4. f \in Frame /\ f.pc = "exec"
  BY <1>1, <1>3 DEF Frame, Pcs
<1> HIDE DEF f
<1>5. /\ \A i \in 1 .. Len(stack) - 1 : stack[i].pc \notin PassPcs
      /\ exec_callbacks_reentrancy_count' = 0
  BY <1>1, HandlerAlone, TopPassEnds DEF Autorunning
<1>6. FramesOK' /\ StackOK' /\ ~OnTop("kill")'
  BY <1>1, <1>4, <1>5, ReplacedStack DEF Autorunning
<1> QED
  BY <1>6, StackMovesKeep DEF PassEnds, StackMoves

LEMMA ExecEndsKeeps ==
    ASSUME WinAutorunnerInv, ExecEnds
    PROVE  WinAutorunnerInv'
<1>1. Enter("idle") \in Frame /\ Enter("idle").pc = "idle"
  BY EnteredFrame DEF Pcs
<1>2. /\ stack \in Seq(Frame) /\ StackOK /\ stack # <<>> /\ Top.pc = "exec"
      /\ ReplaceTop(Enter("idle")) /\ UNCHANGED exec_callbacks_reentrancy_count
  BY DEF WinAutorunnerInv, TypeOK, ExecEnds, OnTop
<1>3. FramesOK' /\ StackOK' /\ ~OnTop("kill")'
  BY <1>1, <1>2, HandlerAlone, ReplacedStack DEF Autorunning, PassPcs
<1> QED
  BY <1>3, StackMovesKeep DEF ExecEnds, StackMoves

\* The timer is killed only after the queue of the global loop was empty.
LEMMA IdleKeeps ==
    ASSUME WinAutorunnerInv, Idle
    PROVE  WinAutorunnerInv'
<1>1. /\ stack \in Seq(Frame) /\ StackOK /\ stack # <<>> /\ Top.pc = "idle"
      /\ StackMoves /\ UNCHANGED exec_callbacks_reentrancy_count
  BY DEF WinAutorunnerInv, TypeOK, Idle, OnTop, StackMoves
<1>2. CASE queue[GLOBAL_LOOP] = {} /\ ReplaceTop(Enter("kill"))
  <2>1. Enter("kill") \in Frame /\ Enter("kill").pc = "kill"
    BY EnteredFrame DEF Pcs
  <2>2. FramesOK' /\ StackOK'
    BY <1>1, <1>2, <2>1, HandlerAlone, ReplacedStack DEF Autorunning, PassPcs
  <2>3. TypeOK'
    BY <1>1, <2>2 DEF WinAutorunnerInv, TypeOK, FramesOK, StackMoves, queueVars, timerVars
  <2>4. WakeupOK'
    BY <1>1, <1>2 DEF WakeupOK, StackMoves, queueVars
  <2> QED
    BY <2>2, <2>3, <2>4 DEF WinAutorunnerInv
<1>3. CASE Pop
  BY <1>1, <1>3, PoppedStack, StackMovesKeep DEF PassPcs
<1> QED
  BY <1>2, <1>3 DEF Idle

LEMMA KillTimerKeeps ==
    ASSUME WinAutorunnerInv, KillTimer
    PROVE  WinAutorunnerInv'
<1>1. FramesOK' /\ StackOK'
  BY PoppedStack DEF WinAutorunnerInv, TypeOK, KillTimer, OnTop, PassPcs
<1>2. timer' \in BOOLEAN
  BY Zenon DEF KillTimer
<1>3. TypeOK'
  BY <1>1, <1>2 DEF WinAutorunnerInv, TypeOK, FramesOK, KillTimer, queueVars
<1>4. WakeupOK'
  BY DEF WinAutorunnerInv, WakeupOK, TimerStays, KillTimer, queueVars
<1> QED
  BY <1>1, <1>3, <1>4 DEF WinAutorunnerInv

-----------------------------------------------------------------------------
\* The invariant holds in every reachable state.
THEOREM WinAutorunnerInvariant == Spec => []WinAutorunnerInv
<1>1. Init => WinAutorunnerInv
  BY InvInit
<1>2. ASSUME WinAutorunnerInv, [Next]_vars
      PROVE  WinAutorunnerInv'
  <2>1. CASE HandlerStep
    BY <1>2, <2>1, HandlerLeavesKeeps, HandlerRunsKeeps, PassBeginsKeeps, PassPopsKeeps,
       RunNowEndsKeeps, PassEndsKeeps, ExecEndsKeeps, IdleKeeps, KillTimerKeeps DEF HandlerStep
  <2>2. CASE HandlerInterrupted
    BY <1>2, <2>2, HandlerLeavesKeeps
  <2>3. CASE DispatchSetupTimer
    BY <1>2, <2>3, DispatchSetupTimerKeeps
  <2>4. CASE \E nframe \in {0, 1} : DispatchTimer(nframe)
    BY <1>2, <2>4, DispatchTimerKeeps
  <2>5. CASE TimerElapses
    BY <1>2, <2>5, TimerElapsesKeeps
  <2>6. CASE Command
    BY <1>2, <2>6, CommandKeeps
  <2>7. CASE CodeEnds \/ CodeThrows
    BY <1>2, <2>7, CodeKeeps
  <2>8. CASE \E l \in Loops : RunNow(l)
    BY <1>2, <2>8, RunNowKeeps
  <2>9. CASE \E l \in Loops, i \in Callbacks : Later(l, i) \/ ScheduleCallback(l, i)
    BY <1>2, <2>9, LaterKeeps, ScheduleCallbackKeeps
  <2>10. CASE \E i \in Callbacks : Elapse(i)
    BY <1>2, <2>10, ElapseKeeps
  <2>11. CASE UNCHANGED vars
    <3>1. TypeOK'
      BY <1>2, <2>11 DEF WinAutorunnerInv, TypeOK, vars, queueVars, timerVars
    <3>2. StackOK'
      BY <1>2, <2>11, SameStack DEF WinAutorunnerInv, vars
    <3>3. WakeupOK'
      BY <1>2, <2>11
         DEF WinAutorunnerInv, WakeupOK, TimerStays, OnTop, Top, vars, queueVars, timerVars
    <3> QED
      BY <3>1, <3>2, <3>3 DEF WinAutorunnerInv
  <2> QED
    BY <1>2, <2>1, <2>2, <2>3, <2>4, <2>5, <2>6, <2>7, <2>8, <2>9, <2>10, <2>11 DEF Next
<1> QED
  BY <1>1, <1>2, PTL DEF Spec

\* The state of the window procedure and of its timer keeps its type.
THEOREM WinAutorunnerTypeOK == Spec => []TypeOK
<1>1. WinAutorunnerInv => TypeOK
  BY DEF WinAutorunnerInv
<1> QED
  BY <1>1, WinAutorunnerInvariant, PTL

(***************************************************************************)
(* No wakeup is lost, however the steps of other threads fall between the  *)
(* look at the queue in idle() and KillTimer().                            *)
(***************************************************************************)
THEOREM WinAutorunnerNoLostWakeup == Spec => []NoLostWakeup
<1>1. WinAutorunnerInv => NoLostWakeup
  BY DEF WinAutorunnerInv, WakeupOK, TimerStays, NoLostWakeup
<1> QED
  BY <1>1, WinAutorunnerInvariant, PTL

(***************************************************************************)
(* executeHandlers() never starts callbacks on top of a running one,       *)
(* however R and C code nest run_now() and event processing and whatever   *)
(* errors unwind.                                                          *)
(***************************************************************************)
THEOREM WinAutorunnerNotReentered == Spec => []NotReentered
<1>1. WinAutorunnerInv => NotReentered
  BY DEF WinAutorunnerInv, StackOK
<1> QED
  BY <1>1, WinAutorunnerInvariant, PTL
=============================================================================
