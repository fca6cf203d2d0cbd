------------------------- MODULE Autorunner_proofs -------------------------
(***************************************************************************)
(* Proofs about the autorunner, for any loops, callbacks, delays, passes   *)
(* and depth of nesting.                                                   *)
(***************************************************************************)
EXTENDS Autorunner, SequenceTheorems, FiniteSetTheorems, TLAPS

-----------------------------------------------------------------------------
(***************************************************************************)
(* The inductive invariant.  Only R code and passes have frames above them *)
(* (so an error that unwinds the stack cannot drop the end of the input    *)
(* handler), exec_callbacks_reentrancy_count counts the passes (so that    *)
(* at_top_level() sees them), and the flag `hot` tells what is in the pipe.*)
(***************************************************************************)
Suspended == {"code", "run_now", "pass"}
Autorunning == {"exec", "pass", "reset", "resetting"}
OnlySuspendedBelow == \A k \in 1 .. Len(stack) - 1 : stack[k].pc \in Suspended
PassesLeft == \A k \in DOMAIN stack : stack[k].pc = "pass" => stack[k].n > 0
Running == {i \in DOMAIN stack : stack[i].pc \in PassPcs}
Counted == exec_callbacks_reentrancy_count = Cardinality(Running)
StackOK == OnlySuspendedBelow /\ NotReentered /\ PassesLeft /\ Counted
FramesOK == stack \in Seq(Frame) /\ exec_callbacks_reentrancy_count \in Int
PipeOK == pipe = IF hot THEN 1 ELSE 0
AutorunnerInv == TypeOK /\ PipeOK /\ StackOK

-----------------------------------------------------------------------------
(***************************************************************************)
(* Facts about stacks of frames.                                           *)
(***************************************************************************)
LEMMA BelowTop ==
    ASSUME NEW n \in Nat, NEW k \in 1 .. n, k # n
    PROVE  k \in 1 .. n - 1
OBVIOUS

LEMMA TopIsFrame ==
    ASSUME stack \in Seq(Frame), stack # <<>>
    PROVE  /\ Len(stack) \in Nat \ {0}
           /\ DOMAIN stack = 1 .. Len(stack)
           /\ Top \in Frame
           /\ \A i \in DOMAIN stack : stack[i] \in Frame
BY DEF Top

LEMMA RunningIsFinite ==
    ASSUME stack \in Seq(Frame)
    PROVE  /\ IsFiniteSet(Running)
           /\ Cardinality(Running) \in Nat
           /\ Running \subseteq 1 .. Len(stack)
<1>1. DOMAIN stack = 1 .. Len(stack) /\ Len(stack) \in Nat
  BY LenProperties
<1>2. IsFiniteSet(1 .. Len(stack))
  BY <1>1, FS_Interval
<1>3. Running \in SUBSET (1 .. Len(stack))
  BY <1>1 DEF Running
<1>4. IsFiniteSet(Running)
  BY <1>2, <1>3, FS_Subset
<1> QED
  BY <1>3, <1>4, FS_CardinalityType

\* A frame pushed on R code, on a pass or at the prompt.
LEMMA PushedStack ==
    ASSUME stack \in Seq(Frame), StackOK, NEW f \in Frame, Push(f),
           stack # <<>> => Top.pc \in Suspended,
           f.pc \notin Autorunning,
           \/ f.pc \in PassPcs /\ EnterPass
           \/ f.pc \notin PassPcs /\ UNCHANGED exec_callbacks_reentrancy_count
    PROVE  /\ FramesOK'
           /\ StackOK'
           /\ Len(stack') = Len(stack) + 1
           /\ stack'[Len(stack) + 1] = f
           /\ Handling => Handling'
<1>1. /\ stack' \in Seq(Frame)
      /\ Len(stack') = Len(stack) + 1
      /\ stack'[Len(stack) + 1] = f
      /\ \A i \in 1 .. Len(stack) : stack'[i] = stack[i]
  BY AppendProperties DEF Push
<1>2. /\ Len(stack) \in Nat
      /\ DOMAIN stack = 1 .. Len(stack)
      /\ DOMAIN stack' = 1 .. Len(stack) + 1
  BY <1>1, LenProperties
<1>3. OnlySuspendedBelow'
  <2>1. ASSUME NEW k \in 1 .. Len(stack)
        PROVE  stack[k].pc \in Suspended
    <3>1. CASE k = Len(stack)
      BY <1>2, <2>1, <3>1 DEF Top
    <3>2. CASE k # Len(stack)
      <4>1. k \in 1 .. Len(stack) - 1
        BY <1>2, <3>2, BelowTop
      <4> QED
        BY <4>1 DEF StackOK, OnlySuspendedBelow
    <3> QED
      BY <3>1, <3>2
  <2> QED
    BY <1>1, <1>2, <2>1 DEF OnlySuspendedBelow
<1>4. PICK m \in Nat : m = Len(stack) + 1 /\ m \notin 1 .. Len(stack)
  BY <1>2
<1>5. DOMAIN stack' = DOMAIN stack \cup {m} /\ stack'[m] = f
  BY <1>1, <1>2, <1>4
<1>6. NotReentered'
  <2>1. SUFFICES ASSUME NEW i \in DOMAIN stack', NEW k \in DOMAIN stack',
                        i < k, stack'[i].pc \in PassPcs
                 PROVE  stack'[k].pc \notin Autorunning
    BY DEF NotReentered, Autorunning
  <2>2. CASE k = m
    BY <1>5, <2>2
  <2>3. CASE k # m
    <3>1. k \in DOMAIN stack /\ i \in DOMAIN stack
      BY <1>2, <1>4, <1>5, <2>1, <2>3
    <3>2. stack'[k] = stack[k] /\ stack'[i] = stack[i]
      BY <1>1, <1>2, <3>1
    <3> QED
      BY <2>1, <3>1, <3>2 DEF StackOK, NotReentered, Autorunning
  <2> QED
    BY <2>2, <2>3
<1>7. PassesLeft'
  BY <1>1, <1>2, <1>5 DEF StackOK, PassesLeft, Autorunning
<1>8. Counted' /\ exec_callbacks_reentrancy_count' \in Int
  <2>1. /\ IsFiniteSet(Running)
        /\ Cardinality(Running) \in Nat
        /\ m \notin Running
    BY <1>2, <1>4, RunningIsFinite
  <2>2. exec_callbacks_reentrancy_count = Cardinality(Running)
    BY DEF StackOK, Counted
  <2>3. CASE f.pc \in PassPcs
    <3>1. Running' = Running \cup {m}
      BY <1>1, <1>2, <1>5, <2>3 DEF Running
    <3>2. Cardinality(Running \cup {m}) = Cardinality(Running) + 1
      BY <2>1, FS_AddElement
    <3> QED
      BY <2>1, <2>2, <2>3, <3>1, <3>2 DEF Counted, EnterPass
  <2>4. CASE f.pc \notin PassPcs
    <3>1. Running' = Running
      BY <1>1, <1>2, <1>5, <2>4 DEF Running
    <3> QED
      BY <2>1, <2>2, <2>4, <3>1 DEF Counted
  <2> QED
    BY <2>3, <2>4
<1>9. Handling => Handling'
  BY <1>1, <1>2, <1>5 DEF Handling
<1> QED
  BY <1>1, <1>3, <1>6, <1>7, <1>8, <1>9 DEF StackOK, FramesOK

\* The handler, which runs under no callback, goes on.
LEMMA ReplacedStack ==
    ASSUME stack \in Seq(Frame), stack # <<>>, StackOK,
           NEW f \in Frame, ReplaceTop(f),
           \A i \in 1 .. Len(stack) - 1 : stack[i].pc \notin PassPcs,
           f.pc \in Autorunning,
           f.pc = "pass" => f.n > 0,
           exec_callbacks_reentrancy_count' = IF f.pc = "pass" THEN 1 ELSE 0
    PROVE  /\ FramesOK'
           /\ StackOK'
           /\ Handling'
<1>1. /\ stack' \in Seq(Frame)
      /\ Len(stack') = Len(stack)
      /\ stack'[Len(stack)] = f
      /\ \A i \in 1 .. Len(stack) - 1 : stack'[i] = stack[i]
  BY ExceptSeq DEF ReplaceTop
<1>2. PICK n \in Nat \ {0} : n = Len(stack)
  BY TopIsFrame
<1>3. DOMAIN stack' = 1 .. n /\ DOMAIN stack = 1 .. n
  BY <1>1, <1>2, LenProperties
<1>4. \A i \in 1 .. n : i = n \/ i \in 1 .. n - 1
  OBVIOUS
<1>5. OnlySuspendedBelow'
  BY <1>1, <1>2 DEF StackOK, OnlySuspendedBelow
<1>6. NotReentered'
  <2>1. \A i, k \in 1 .. n : i < k => i \in 1 .. n - 1
    OBVIOUS
  <2> QED
    BY <1>1, <1>2, <1>3, <2>1 DEF NotReentered
<1>7. PassesLeft'
  <2>1. \A k \in 1 .. n - 1 : k \in DOMAIN stack
    BY <1>3
  <2> QED
    BY <1>1, <1>2, <1>3, <1>4, <2>1 DEF StackOK, PassesLeft
<1>8. Counted' /\ exec_callbacks_reentrancy_count' \in Int
  <2>1. CASE f.pc = "pass"
    <3>1. ASSUME NEW i \in 1 .. n PROVE stack'[i].pc \in PassPcs <=> i = n
      BY <1>1, <1>2, <1>4, <2>1 DEF PassPcs
    <3>2. Running' = {n}
      BY <1>3, <3>1 DEF Running
    <3>3. Cardinality({n}) = 1
      BY FS_Singleton
    <3> QED
      BY <2>1, <3>2, <3>3 DEF Counted
  <2>2. CASE f.pc # "pass"
    <3>1. Running' = {}
      BY <1>1, <1>2, <1>3, <1>4, <2>2 DEF Running, PassPcs, Autorunning
    <3> QED
      BY <2>2, <3>1, FS_EmptySet DEF Counted
  <2> QED
    BY <2>1, <2>2
<1>9. Handling'
  BY <1>1, <1>2, <1>3 DEF Handling, Autorunning
<1> QED
  BY <1>1, <1>5, <1>6, <1>7, <1>8, <1>9 DEF StackOK, FramesOK

\* No callback runs below the handler once it is past at_top_level().
LEMMA HandlerAlone ==
    ASSUME stack \in Seq(Frame), stack # <<>>, StackOK,
           Top.pc \in Autorunning \/ exec_callbacks_reentrancy_count = 0
    PROVE  /\ \A i \in 1 .. Len(stack) - 1 : stack[i].pc \notin PassPcs
           /\ Top.pc = "pass" => exec_callbacks_reentrancy_count = 1
           /\ Top.pc \notin PassPcs => exec_callbacks_reentrancy_count = 0
<1>1. PICK n \in Nat \ {0} : n = Len(stack) /\ DOMAIN stack = 1 .. n
  BY TopIsFrame
<1>2. ASSUME NEW i \in 1 .. n - 1 PROVE stack[i].pc \notin PassPcs
  <2>1. i \in 1 .. n /\ n \in 1 .. n /\ i < n
    OBVIOUS
  <2>2. CASE Top.pc \in Autorunning
    BY <1>1, <2>1, <2>2 DEF StackOK, NotReentered, Autorunning, Top
  <2>3. CASE exec_callbacks_reentrancy_count = 0
    <3>1. IsFiniteSet(Running) /\ Cardinality(Running) = 0
      BY <2>3, RunningIsFinite DEF StackOK, Counted
    <3>2. Running = {}
      BY <3>1, FS_EmptySet
    <3> QED
      BY <1>1, <2>1, <3>2 DEF Running
  <2> QED
    BY <2>2, <2>3
<1>3. \A i \in 1 .. n : i = n \/ i \in 1 .. n - 1
  OBVIOUS
<1>4. n \in 1 .. n /\ Top = stack[n]
  BY <1>1 DEF Top
<1>5. ASSUME Top.pc = "pass" PROVE exec_callbacks_reentrancy_count = 1
  <2>1. Running = {n}
    BY <1>1, <1>2, <1>3, <1>4, <1>5 DEF Running, PassPcs
  <2> QED
    BY <2>1, FS_Singleton DEF StackOK, Counted
<1>6. ASSUME Top.pc \notin PassPcs PROVE exec_callbacks_reentrancy_count = 0
  <2>1. Running = {}
    BY <1>1, <1>2, <1>3, <1>4, <1>6 DEF Running
  <2> QED
    BY <2>1, FS_EmptySet DEF StackOK, Counted
<1> QED
  BY <1>1, <1>2, <1>5, <1>6

\* The pass on top of the stack ends.
LEMMA TopPassEnds ==
    ASSUME stack \in Seq(Frame), stack # <<>>, Top.pc = "pass",
           LeavePasses(Len(stack))
    PROVE  exec_callbacks_reentrancy_count' = exec_callbacks_reentrancy_count - 1
<1>1. PICK n \in Nat \ {0} : n = Len(stack)
  BY TopIsFrame
<1>2. {i \in Len(stack) .. Len(stack) : stack[i].pc \in PassPcs} = {n}
  <2>1. n .. n = {n}
    OBVIOUS
  <2> QED
    BY <1>1, <2>1 DEF Top, PassPcs
<1>3. Cardinality({n}) = 1
  BY FS_Singleton
<1> QED
  BY <1>2, <1>3 DEF LeavePasses

\* The stack is cut back to its first k frames.
LEMMA CutStack ==
    ASSUME stack \in Seq(Frame), StackOK, NEW k \in 0 .. Len(stack),
           stack' = SubSeq(stack, 1, k), LeavePasses(k + 1)
    PROVE  /\ FramesOK'
           /\ StackOK'
           /\ DOMAIN stack' = 1 .. k
           /\ \A i \in 1 .. k : stack'[i] = stack[i]
<1>1. /\ stack' \in Seq(Frame)
      /\ Len(stack') = k
      /\ \A i \in 1 .. k : stack'[i] = stack[i]
  BY SubSeqProperties
<1>2. PICK n \in Nat : n = Len(stack) /\ k \in 0 .. n
  BY LenProperties
<1>3. DOMAIN stack = 1 .. n /\ DOMAIN stack' = 1 .. k
  BY <1>1, <1>2, LenProperties
<1>4. OnlySuspendedBelow'
  BY <1>1, <1>2 DEF StackOK, OnlySuspendedBelow
<1>5. \A i \in 1 .. k : i \in 1 .. n
  BY <1>2
<1>6. NotReentered' /\ PassesLeft'
  BY <1>1, <1>3, <1>5 DEF StackOK, NotReentered, PassesLeft
<1>7. Counted' /\ exec_callbacks_reentrancy_count' \in Int
  <2> DEFINE T == {i \in k + 1 .. n : stack[i].pc \in PassPcs}
  <2>1. Running' = Running \ T
    <3>1. \A i \in 1 .. k : i \in 1 .. n /\ i \notin k + 1 .. n
      BY <1>2
    <3>2. \A i \in 1 .. n : i \in 1 .. k \/ i \in k + 1 .. n
      BY <1>2
    <3> QED
      BY <1>1, <1>3, <3>1, <3>2 DEF Running
  <2>2. T = Running \cap T
    <3>1. k + 1 .. n \subseteq 1 .. n
      BY <1>2
    <3> QED
      BY <1>3, <3>1 DEF Running
  <2>3. IsFiniteSet(Running)
    BY RunningIsFinite
  <2>4. exec_callbacks_reentrancy_count' = Cardinality(Running) - Cardinality(T)
    BY <1>2 DEF StackOK, Counted, LeavePasses
  <2> HIDE DEF T
  <2>5. Cardinality(Running \ T) = Cardinality(Running) - Cardinality(Running \cap T)
    BY <2>3, FS_Difference
  <2>6. IsFiniteSet(Running \ T)
    BY <2>3, FS_Difference
  <2>7. Cardinality(Running \ T) \in Nat
    BY <2>6, FS_CardinalityType
  <2> QED
    <3>1. exec_callbacks_reentrancy_count' = Cardinality(Running \ T)
      BY <2>2, <2>4, <2>5
    <3> QED
      BY <2>1, <2>7, <3>1 DEF Counted
<1> QED
  BY <1>1, <1>3, <1>4, <1>6, <1>7 DEF StackOK, FramesOK

\* The topmost frame ends.
LEMMA PoppedStack ==
    ASSUME stack \in Seq(Frame), stack # <<>>, StackOK, Pop,
           \/ LeavePasses(Len(stack))
           \/ Top.pc \notin PassPcs /\ UNCHANGED exec_callbacks_reentrancy_count
    PROVE  /\ FramesOK'
           /\ StackOK'
           /\ Handling /\ Top.pc \in {"code", "run_now"} => Handling'
<1>1. /\ Len(stack) \in Nat \ {0}
      /\ DOMAIN stack = 1 .. Len(stack)
  BY TopIsFrame
<1>2. PICK n \in Nat \ {0} : n = Len(stack)
  BY <1>1
<1>3. PICK k \in 0 .. Len(stack) : k = n - 1 /\ k + 1 = n
  <2>1. n - 1 \in 0 .. n /\ (n - 1) + 1 = n
    OBVIOUS
  <2> QED
    BY <1>2, <2>1
<1>4. LeavePasses(k + 1)
  <2>1. SUFFICES ASSUME Top.pc \notin PassPcs, UNCHANGED exec_callbacks_reentrancy_count
                 PROVE  LeavePasses(Len(stack))
    BY <1>2, <1>3
  <2>2. \A i \in n .. n : i = n
    OBVIOUS
  <2>3. {i \in Len(stack) .. Len(stack) : stack[i].pc \in PassPcs} = {}
    BY <1>2, <2>1, <2>2 DEF Top
  <2>4. exec_callbacks_reentrancy_count \in Int
    BY RunningIsFinite DEF StackOK, Counted
  <2>5. Cardinality({i \in Len(stack) .. Len(stack) : stack[i].pc \in PassPcs}) = 0
    BY <2>3, FS_EmptySet
  <2> QED
    BY <2>1, <2>4, <2>5 DEF LeavePasses
<1>5. /\ FramesOK'
      /\ StackOK'
      /\ DOMAIN stack' = 1 .. Len(stack) - 1
      /\ \A i \in 1 .. Len(stack) - 1 : stack'[i] = stack[i]
  BY <1>2, <1>3, <1>4, CutStack DEF Pop
<1>6. ASSUME Handling, Top.pc \in {"code", "run_now"}
      PROVE  Handling'
  <2>1. PICK i \in DOMAIN stack :
               stack[i].pc \in {"settimer", "asked", "exec", "pass", "reset",
                                "resetting"}
    BY <1>6 DEF Handling
  <2>2. i # Len(stack)
    BY <1>6, <2>1 DEF Top
  <2> QED
    BY <1>1, <1>5, <2>1, <2>2 DEF Handling
<1> QED
  BY <1>5, <1>6

\* What an error in R code leaves of the stack: an input handler is never lost,
\* its try block takes it to its end.
LEMMA ThrownStack ==
    ASSUME stack \in Seq(Frame), StackOK, NEW k, CodeThrows(k)
    PROVE  /\ FramesOK'
           /\ StackOK'
           /\ Handling => Handling'
<1>1. /\ Len(stack) \in Nat \ {0}
      /\ DOMAIN stack = 1 .. Len(stack)
      /\ Top.pc = "code"
      /\ k \in 0 .. Len(stack) - 1
      /\ \A i \in k + 1 .. Len(stack) : stack[i].pc # "pass"
  BY TopIsFrame DEF CodeThrows, OnTop
<1>2. k \in 0 .. Len(stack)
  BY <1>1
<1>3. ASSUME NEW i \in DOMAIN stack,
             stack[i].pc \in {"settimer", "asked", "exec", "pass", "reset",
                              "resetting"}
      PROVE  i \in 1 .. k /\ stack[i].pc = "pass"
  <2>1. i # Len(stack)
    BY <1>1, <1>3 DEF Top
  <2>2. i \in 1 .. Len(stack) - 1
    BY <1>1, <2>1, BelowTop
  <2>3. stack[i].pc = "pass"
    BY <1>3, <2>2 DEF StackOK, OnlySuspendedBelow, Suspended
  <2> QED
    BY <1>1, <2>2, <2>3
<1>4. CASE stack' = SubSeq(stack, 1, k) /\ LeavePasses(k + 1)
  BY <1>2, <1>3, <1>4, CutStack DEF Handling
<1>5. CASE /\ k > 0
           /\ stack[k].pc = "pass"
           /\ stack' = [SubSeq(stack, 1, k) EXCEPT ![k].pc = "reset"]
           /\ LeavePasses(k)
  <2>1. PICK n \in Nat : n = Len(stack) /\ k \in 1 .. n /\ k # n
    BY <1>1, <1>5
  <2>2. stack[k] \in Frame /\ DOMAIN stack = 1 .. n
    BY <1>1, <2>1, ElementOfSeq
  <2> DEFINE s == SubSeq(stack, 1, k)
             f == [stack[k] EXCEPT !.pc = "reset"]
  <2>3. s \in Seq(Frame) /\ Len(s) = k /\ (\A i \in 1 .. k : s[i] = stack[i])
    BY <2>1, SubSeqProperties
  <2>4. f \in Frame /\ f.pc = "reset"
    BY <2>2 DEF Frame, Pcs
  <2>5. stack' = [s EXCEPT ![k] = f]
    <3>1. s[k] = stack[k]
      BY <2>1, <2>3
    <3> QED
      BY <1>5, <3>1
  <2> HIDE DEF s, f
  <2>6. /\ stack' \in Seq(Frame)
        /\ Len(stack') = k
        /\ stack'[k] = f
        /\ \A i \in 1 .. k - 1 : stack'[i] = stack[i]
    <3>1. k \in 1 .. Len(s) /\ k \in DOMAIN s
      BY <2>1, <2>3
    <3>2. stack' \in Seq(Frame) /\ Len(stack') = k /\ stack'[k] = f
      BY <2>3, <2>4, <2>5, <3>1, ExceptSeq
    <3>3. ASSUME NEW i \in 1 .. k - 1 PROVE stack'[i] = stack[i]
      <4>1. i \in 1 .. k /\ i # k
        BY <2>1
      <4>2. stack'[i] = s[i]
        BY <2>3, <2>4, <2>5, <3>1, <4>1, ExceptSeq
      <4> QED
        BY <2>3, <4>1, <4>2
    <3> QED
      BY <3>2, <3>3
  <2>7. DOMAIN stack' = 1 .. k
    BY <2>6, LenProperties
  <2>8. \A i \in 1 .. k : i = k \/ i \in 1 .. k - 1
    BY <2>1
  <2>9. ASSUME NEW i \in 1 .. k - 1 PROVE stack[i].pc \notin PassPcs
    <3>1. i \in DOMAIN stack /\ k \in DOMAIN stack /\ i < k
      BY <2>1, <2>2
    <3> QED
      BY <1>5, <3>1 DEF StackOK, NotReentered
  <2>10. OnlySuspendedBelow'
    <3>1. \A i \in 1 .. k - 1 : i \in 1 .. n - 1
      BY <2>1
    <3> QED
      BY <2>1, <2>6, <3>1 DEF OnlySuspendedBelow, StackOK
  <2>11. NotReentered'
    <3>1. \A i, g \in 1 .. k : i < g => i \in 1 .. k - 1
      BY <2>1
    <3> QED
      BY <2>6, <2>7, <2>9, <3>1 DEF NotReentered
  <2>12. PassesLeft'
    <3>1. \A i \in 1 .. k - 1 : i \in DOMAIN stack
      BY <2>1, <2>2
    <3> QED
      BY <2>4, <2>6, <2>7, <2>8, <3>1 DEF StackOK, PassesLeft
  <2>13. Counted' /\ exec_callbacks_reentrancy_count' \in Int
    <3>1. Running' = {}
      BY <2>4, <2>6, <2>7, <2>8, <2>9 DEF Running, PassPcs
    <3>2. Running = {i \in k .. Len(stack) : stack[i].pc \in PassPcs}
      <4>1. \A i \in 1 .. n : i \in 1 .. k - 1 \/ i \in k .. n
        BY <2>1
      <4>2. k .. n \subseteq 1 .. n
        BY <2>1
      <4> QED
        BY <2>1, <2>2, <2>9, <4>1, <4>2 DEF Running
    <3>3. Cardinality(Running) \in Nat
      BY RunningIsFinite
    <3>4. exec_callbacks_reentrancy_count' = Cardinality(Running) - Cardinality(Running)
      BY <1>5, <3>2 DEF LeavePasses, StackOK, Counted
    <3>5. exec_callbacks_reentrancy_count' = 0
      BY <3>3, <3>4
    <3> QED
      BY <3>1, <3>5, FS_EmptySet DEF Counted
  <2>14. Handling'
    <3>1. k \in DOMAIN stack'
      BY <2>1, <2>7
    <3> QED
      BY <2>4, <2>6, <3>1 DEF Handling
  <2> QED
    BY <2>6, <2>10, <2>11, <2>12, <2>13, <2>14 DEF StackOK, FramesOK
<1> QED
  BY <1>4, <1>5 DEF CodeThrows

-----------------------------------------------------------------------------
(***************************************************************************)
(* Facts about the timer, the pipe and the queues.                         *)
(***************************************************************************)
\* Timer::set() arms the timer.
LEMMA TimerIsSet ==
    ASSUME TypeOK, NEW t \in Times, TimerSet(t)
    PROVE  /\ wakeAt' \in Times \cup {NoTime}
           /\ wakeAt' # NoTime
           /\ bgthread' \in {"none", "wait", "timedwait", "callback"}
           /\ until' \in Times
           /\ interrupted' \in BOOLEAN
<1>1. \A x \in Times : x # NoTime
  BY AutorunnerAssumption DEF Times, NoTime
<1> QED
  BY <1>1 DEF TypeOK, TimerSet

\* set_fd() keeps the flag and the pipe in agreement.
LEMMA FdIsSet ==
    ASSUME TypeOK, PipeOK, NEW ready \in BOOLEAN, SetFd(ready)
    PROVE  hot' \in BOOLEAN /\ pipe' \in {0, 1} /\ PipeOK'
<1>1. CASE ready = hot
  BY <1>1 DEF TypeOK, FramesOK, PipeOK, SetFd
<1>2. CASE ready = TRUE /\ hot = FALSE
  <2>1. pipe = 0
    BY <1>2 DEF PipeOK
  <2>2. pipe' = pipe + 1 /\ hot' = TRUE
    BY <1>2, Zenon DEF SetFd
  <2>3. pipe' = 1
    BY <2>1, <2>2
  <2> QED
    BY <2>2, <2>3 DEF PipeOK
<1>3. CASE ready = FALSE /\ hot = TRUE
  <2>1. pipe' = 0 /\ hot' = FALSE
    BY <1>3 DEF SetFd
  <2> QED
    BY <2>1 DEF PipeOK
<1> QED
  BY <1>1, <1>2, <1>3, Zenon DEF TypeOK

LEMMA CallbackIsAdded ==
    ASSUME TypeOK, NEW l \in Loops, NEW d \in Delays, AddCallback(l, d)
    PROVE  /\ queue' \in [Loops -> SUBSET Callbacks]
           /\ when' \in [Callbacks -> Times]
           /\ nextCallbackId' \in 1 .. MaxCallback + 1
BY AutorunnerAssumption DEF TypeOK, AddCallback, Callbacks

\* Removing a callback adds none to the loops a pass runs.
LEMMA CallbackIsTaken ==
    ASSUME TypeOK, NEW l \in Loops, NEW i,
           queue' = [queue EXCEPT ![l] = @ \ {i}]
    PROVE  /\ queue' \in [Loops -> SUBSET Callbacks]
           /\ Waiting(GLOBAL_LOOP)' \subseteq Waiting(GLOBAL_LOOP)
<1>1. queue' \in [Loops -> SUBSET Callbacks]
  BY DEF TypeOK
<1>2. \A x \in Loops : queue'[x] \subseteq queue[x]
  BY DEF TypeOK
<1> QED
  BY <1>1, <1>2, AutorunnerAssumption DEF Waiting, Below

-----------------------------------------------------------------------------
(***************************************************************************)
(* Steps by what they touch.                                               *)
(***************************************************************************)
\* The main thread goes on without touching the queues, the pipe or the timer.
LEMMA StackStep ==
    ASSUME AutorunnerInv,
           UNCHANGED <<queueVars, now, commands, interrupted, hot, pipe, timerVars>>,
           FramesOK', StackOK', Handling => Handling'
    PROVE  AutorunnerInv' /\ (NoLostWakeup => NoLostWakeup')
<1>1. AutorunnerInv'
  BY DEF AutorunnerInv, TypeOK, FramesOK, PipeOK, queueVars, timerVars
<1>2. Waiting(GLOBAL_LOOP)' = Waiting(GLOBAL_LOOP)
  BY DEF Waiting, Below, queueVars
<1>3. NoLostWakeup => NoLostWakeup'
  BY <1>2 DEF NoLostWakeup, timerVars
<1> QED
  BY <1>1, <1>3

\* The timer is set.
LEMMA TimerStep ==
    ASSUME AutorunnerInv, NEW t \in Times, TimerSet(t),
           UNCHANGED <<now, commands, hot, pipe>>,
           queue' \in [Loops -> SUBSET Callbacks],
           when' \in [Callbacks -> Times],
           nextCallbackId' \in 1 .. MaxCallback + 1,
           FramesOK', StackOK'
    PROVE  AutorunnerInv' /\ NoLostWakeup'
<1>1. /\ wakeAt' \in Times \cup {NoTime}
      /\ wakeAt' # NoTime
      /\ bgthread' \in {"none", "wait", "timedwait", "callback"}
      /\ until' \in Times
      /\ interrupted' \in BOOLEAN
  BY TimerIsSet DEF AutorunnerInv
<1> QED
  BY <1>1 DEF AutorunnerInv, TypeOK, FramesOK, PipeOK, NoLostWakeup

\* The stack stays as it is.
LEMMA SameStack ==
    ASSUME AutorunnerInv, UNCHANGED <<stack, exec_callbacks_reentrancy_count>>
    PROVE  FramesOK' /\ StackOK' /\ (Handling <=> Handling')
BY DEF AutorunnerInv, TypeOK, StackOK, OnlySuspendedBelow, NotReentered,
       PassesLeft, Counted, Running, FramesOK, Handling

-----------------------------------------------------------------------------
(***************************************************************************)
(* Every step preserves the invariant and loses no wakeup.                 *)
(***************************************************************************)
LEMMA BgStepKeeps ==
    ASSUME AutorunnerInv, BgStep
    PROVE  AutorunnerInv' /\ (NoLostWakeup => NoLostWakeup')
<1>1. UNCHANGED <<queueVars, now, commands, interrupted,
                  exec_callbacks_reentrancy_count, stack>>
  BY DEF BgStep, BgElapses, BgWaits, BgSignalled, BgCallback
<1>2. FramesOK' /\ StackOK' /\ (Handling <=> Handling')
  BY <1>1, SameStack
<1>3. Waiting(GLOBAL_LOOP)' = Waiting(GLOBAL_LOOP)
  BY <1>1 DEF Waiting, Below, queueVars
<1>4. CASE BgElapses
  BY <1>1, <1>2, <1>4 DEF BgElapses, AutorunnerInv, TypeOK, FramesOK, PipeOK, NoLostWakeup, queueVars
<1>5. CASE BgWaits
  <2>1. wakeAt \in Times
    BY <1>5, AutorunnerAssumption DEF BgWaits, AutorunnerInv, TypeOK, Times, NoTime
  <2>2. AutorunnerInv'
    BY <1>1, <1>2, <1>5, <2>1 DEF BgWaits, AutorunnerInv, TypeOK, FramesOK, PipeOK, queueVars
  <2>3. NoLostWakeup => NoLostWakeup'
    BY <1>2, <1>3, <1>5 DEF BgWaits, NoLostWakeup
  <2> QED
    BY <2>2, <2>3
<1>6. CASE BgSignalled
  <2>1. AutorunnerInv'
    BY <1>1, <1>2, <1>6 DEF BgSignalled, AutorunnerInv, TypeOK, FramesOK, PipeOK, queueVars
  <2>2. NoLostWakeup => NoLostWakeup'
    BY <1>2, <1>3, <1>6 DEF BgSignalled, NoLostWakeup
  <2> QED
    BY <2>1, <2>2
<1>7. CASE BgCallback
  <2>1. hot' \in BOOLEAN /\ pipe' \in {0, 1} /\ PipeOK'
    BY <1>7, FdIsSet DEF BgCallback, AutorunnerInv
  <2>2. hot'
    BY <1>7 DEF BgCallback, SetFd
  <2> QED
    BY <1>1, <1>2, <1>7, <2>1, <2>2
       DEF BgCallback, AutorunnerInv, TypeOK, NoLostWakeup, queueVars
<1> QED
  BY <1>4, <1>5, <1>6, <1>7 DEF BgStep

LEMMA MainStepKeeps ==
    ASSUME AutorunnerInv, MainStep
    PROVE  AutorunnerInv' /\ (NoLostWakeup => NoLostWakeup')
<1>1. stack \in Seq(Frame) /\ stack # <<>> /\ StackOK /\ TypeOK
  BY DEF AutorunnerInv, TypeOK, MainStep, OnTop, SetTimer, PassPops, RunNowEnds,
         HandlerReturnsEarly, HandlerRuns, PassBegins, PassEnds, ExecEnds,
         ResetReads, ResetSets
<1>2. Top \in Frame
  BY <1>1, TopIsFrame
<1>3. Top.at \in Times /\ Top.n \in 0 .. Passes /\ Top.loop \in Loops
  BY <1>2 DEF Frame
<1>4. CASE SetTimer \/ ResetSets
  <2>1. FramesOK' /\ StackOK'
    BY <1>1, <1>4, PoppedStack DEF SetTimer, ResetSets, OnTop, PassPcs
  <2> QED
    BY <1>1, <1>3, <1>4, <2>1, TimerStep DEF SetTimer, ResetSets, TypeOK, queueVars
<1>5. CASE PassPops
  <2>1. PICK l \in Below(Top.loop), i \in UNION {queue[x] : x \in Below(Top.loop)} :
               queue' = [queue EXCEPT ![l] = @ \ {i}]
    BY <1>5 DEF PassPops
  <2>2. l \in Loops
    BY <1>3, <2>1, AutorunnerAssumption DEF Below
  <2>3. /\ queue' \in [Loops -> SUBSET Callbacks]
        /\ Waiting(GLOBAL_LOOP)' \subseteq Waiting(GLOBAL_LOOP)
    BY <1>1, <2>1, <2>2, CallbackIsTaken
  <2>4. CodeFrame \in Frame /\ CodeFrame.pc = "code"
    BY AutorunnerAssumption DEF CodeFrame, Frame, Pcs, Times
  <2>5. /\ Top.pc \in Suspended
        /\ CodeFrame.pc \notin Autorunning /\ CodeFrame.pc \notin PassPcs
    BY <1>5, <2>4 DEF PassPops, OnTop, Suspended, Autorunning, PassPcs
  <2>6. FramesOK' /\ StackOK' /\ (Handling => Handling')
    BY <1>1, <1>5, <2>4, <2>5, PushedStack DEF PassPops
  <2>7. AutorunnerInv'
    BY <1>5, <2>3, <2>6 DEF PassPops, AutorunnerInv, TypeOK, FramesOK, PipeOK, timerVars
  <2>8. NoLostWakeup => NoLostWakeup'
    BY <1>5, <2>3, <2>6 DEF PassPops, NoLostWakeup, timerVars
  <2> QED
    BY <2>7, <2>8
<1>6. CASE RunNowEnds
  <2>1. Top.pc \in {"code", "run_now"}
    BY <1>6 DEF RunNowEnds, OnTop
  <2>2. FramesOK' /\ StackOK' /\ (Handling => Handling')
    BY <1>1, <1>6, <2>1, PoppedStack DEF RunNowEnds
  <2> QED
    BY <1>6, <2>2, StackStep DEF RunNowEnds
<1>7. CASE HandlerReturnsEarly
  <2>1. FramesOK' /\ StackOK'
    BY <1>1, <1>7, PoppedStack DEF HandlerReturnsEarly, OnTop, PassPcs
  <2>2. now \in Times
    BY <1>1 DEF TypeOK
  <2> QED
    BY <1>1, <1>7, <2>1, <2>2, TimerStep DEF HandlerReturnsEarly, TypeOK, queueVars
<1>8. CASE HandlerRuns \/ PassBegins \/ PassEnds \/ ExecEnds
           \/ (ResetReads /\ ~ (Waiting(GLOBAL_LOOP) = {} /\ Pop))
  <2>0. Top.pc \in Autorunning \/ exec_callbacks_reentrancy_count = 0
    BY <1>8 DEF HandlerRuns, PassBegins, PassEnds, ExecEnds, ResetReads, OnTop,
                AtTopLevel, Autorunning
  <2>3. /\ \A i \in 1 .. Len(stack) - 1 : stack[i].pc \notin PassPcs
        /\ Top.pc = "pass" => exec_callbacks_reentrancy_count = 1
        /\ Top.pc \notin PassPcs => exec_callbacks_reentrancy_count = 0
    BY <1>1, <2>0, HandlerAlone
  <2>1. PICK pc \in Autorunning, t \in Times, n \in 0 .. Passes :
               /\ pc = "pass" => n > 0
               /\ exec_callbacks_reentrancy_count' = IF pc = "pass" THEN 1 ELSE 0
               /\ ReplaceTop([Top EXCEPT !.pc = pc, !.at = t, !.n = n])
    <3>1. CASE HandlerRuns
      <4>1. ReplaceTop([Top EXCEPT !.pc = "exec", !.at = Top.at, !.n = Passes])
        BY <1>2, <3>1 DEF HandlerRuns, Frame
      <4>2. Passes \in 0 .. Passes
        BY AutorunnerAssumption
      <4>3. exec_callbacks_reentrancy_count' = 0
        BY <2>3, <3>1 DEF HandlerRuns, OnTop, PassPcs
      <4> QED
        BY <1>3, <4>1, <4>2, <4>3 DEF Autorunning
    <3>2. CASE PassBegins
      <4>1. ReplaceTop([Top EXCEPT !.pc = "pass", !.at = now, !.n = Top.n])
        BY <1>2, <3>2 DEF PassBegins, Frame
      <4>2. Top.n > 0 /\ now \in Times
        BY <1>1, <3>2 DEF PassBegins, TypeOK
      <4>3. "pass" \in Autorunning
        BY DEF Autorunning
      <4>4. exec_callbacks_reentrancy_count' = 1
        BY <2>3, <3>2 DEF PassBegins, OnTop, PassPcs, EnterPass
      <4> QED
        BY <1>3, <4>1, <4>2, <4>3, <4>4, Zenon
    <3>3. CASE PassEnds
      <4>1. ReplaceTop([Top EXCEPT !.pc = "exec", !.at = Top.at, !.n = Top.n - 1])
        BY <1>2, <3>3 DEF PassEnds, Frame
      <4>2. Top.n > 0
        BY <1>1, <3>3, TopIsFrame DEF PassEnds, OnTop, StackOK, PassesLeft, Top
      <4>3. Top.n - 1 \in 0 .. Passes
        BY <1>3, <4>2, AutorunnerAssumption
      <4>4. exec_callbacks_reentrancy_count' = 0
        BY <1>1, <2>3, <3>3, TopPassEnds DEF PassEnds, OnTop
      <4> QED
        BY <1>3, <4>1, <4>3, <4>4 DEF Autorunning
    <3>4. CASE ExecEnds
      <4>1. ReplaceTop([Top EXCEPT !.pc = "reset", !.at = Top.at, !.n = Top.n])
        BY <1>2, <3>4 DEF ExecEnds, Frame
      <4>2. exec_callbacks_reentrancy_count' = 0
        BY <2>3, <3>4 DEF ExecEnds, OnTop, PassPcs
      <4> QED
        BY <1>3, <4>1, <4>2 DEF Autorunning
    <3>5. CASE ResetReads /\ ~ (Waiting(GLOBAL_LOOP) = {} /\ Pop)
      <4>1. PICK t \in Times : ReplaceTop([Top EXCEPT !.pc = "resetting", !.at = t])
        BY <3>5, Zenon DEF ResetReads
      <4>2. ReplaceTop([Top EXCEPT !.pc = "resetting", !.at = t, !.n = Top.n])
        BY <1>2, <4>1 DEF Frame
      <4>3. exec_callbacks_reentrancy_count' = 0
        BY <2>3, <3>5 DEF ResetReads, OnTop, PassPcs
      <4> QED
        BY <1>3, <4>2, <4>3 DEF Autorunning
    <3> QED
      BY <1>8, <3>1, <3>2, <3>3, <3>4, <3>5
  <2>2. /\ [Top EXCEPT !.pc = pc, !.at = t, !.n = n] \in Frame
        /\ [Top EXCEPT !.pc = pc, !.at = t, !.n = n].pc = pc
        /\ [Top EXCEPT !.pc = pc, !.at = t, !.n = n].n = n
    BY <1>2 DEF Frame, Pcs, Autorunning
  <2>4. FramesOK' /\ StackOK' /\ Handling'
    BY <1>1, <2>1, <2>2, <2>3, ReplacedStack
  <2> QED
    BY <1>8, <2>4, StackStep DEF HandlerRuns, PassBegins, PassEnds, ExecEnds, ResetReads
<1>9. CASE ResetReads /\ Waiting(GLOBAL_LOOP) = {} /\ Pop
  <2>1. FramesOK' /\ StackOK'
    BY <1>1, <1>9, PoppedStack DEF ResetReads, OnTop, PassPcs
  <2>2. Waiting(GLOBAL_LOOP)' = {}
    BY <1>9 DEF ResetReads, Waiting, Below, queueVars
  <2> QED
    BY <1>9, <2>1, <2>2
       DEF ResetReads, AutorunnerInv, TypeOK, FramesOK, PipeOK, NoLostWakeup, queueVars, timerVars
<1> QED
  BY <1>4, <1>5, <1>6, <1>7, <1>8, <1>9 DEF MainStep

LEMMA CodeStepKeeps ==
    ASSUME AutorunnerInv, CodeStep
    PROVE  AutorunnerInv' /\ (NoLostWakeup => NoLostWakeup')
<1>1. stack \in Seq(Frame) /\ StackOK /\ TypeOK
  BY DEF AutorunnerInv, TypeOK
<1>2. CodeFrame \in Frame /\ CodeFrame.pc = "code"
  BY AutorunnerAssumption DEF CodeFrame, Frame, Pcs, Times
<1>3. CASE Command
  <2>1. FramesOK' /\ StackOK' /\ (Handling => Handling')
    BY <1>1, <1>2, <1>3, PushedStack DEF Command, Autorunning, PassPcs
  <2>2. commands' \in 0 .. MaxCommands
    BY <1>1, <1>3, AutorunnerAssumption DEF Command, TypeOK
  <2>3. Waiting(GLOBAL_LOOP)' = Waiting(GLOBAL_LOOP)
    BY <1>3 DEF Command, Waiting, Below, queueVars
  <2>4. AutorunnerInv'
    BY <1>3, <2>1, <2>2 DEF Command, AutorunnerInv, TypeOK, FramesOK, PipeOK, queueVars, timerVars
  <2>5. NoLostWakeup => NoLostWakeup'
    BY <1>3, <2>1, <2>3 DEF Command, NoLostWakeup, timerVars
  <2> QED
    BY <2>4, <2>5
<1>4. CASE CodeEnds
  <2>1. FramesOK' /\ StackOK' /\ (Handling => Handling')
    BY <1>1, <1>4, PoppedStack DEF CodeEnds, OnTop, PassPcs
  <2> QED
    BY <1>4, <2>1, StackStep DEF CodeEnds
<1>5. CASE \E k \in 0 .. Len(stack) : CodeThrows(k)
  <2>1. PICK k \in 0 .. Len(stack) : CodeThrows(k)
    BY <1>5
  <2>2. FramesOK' /\ StackOK' /\ (Handling => Handling')
    BY <1>1, <2>1, ThrownStack
  <2> QED
    BY <2>1, <2>2, StackStep DEF CodeThrows
<1>6. CASE \E l \in Loops, d \in Delays : Later(l, d)
  <2>1. PICK l \in Loops, d \in Delays : Later(l, d)
    BY <1>6
  <2>2. PICK t \in Times : Push([pc |-> "settimer", loop |-> l, at |-> t, n |-> 0, nframe |-> 0])
    BY <2>1 DEF Later
  <2>3. /\ queue' \in [Loops -> SUBSET Callbacks]
        /\ when' \in [Callbacks -> Times]
        /\ nextCallbackId' \in 1 .. MaxCallback + 1
    BY <1>1, <2>1, CallbackIsAdded DEF Later
  <2>4. PICK f \in Frame : f.pc = "settimer" /\ Push(f)
    <3>1. [pc |-> "settimer", loop |-> l, at |-> t, n |-> 0, nframe |-> 0] \in Frame
      BY AutorunnerAssumption DEF Frame, Pcs
    <3> QED
      BY <2>2, <3>1
  <2>5. Top.pc \in Suspended
    BY <2>1 DEF Later, OnTop, Suspended
  <2>6. /\ FramesOK'
        /\ StackOK'
        /\ Len(stack') = Len(stack) + 1
        /\ stack'[Len(stack) + 1] = f
    BY <1>1, <2>1, <2>4, <2>5, PushedStack DEF Autorunning, PassPcs, Later
  <2>7. Handling'
    <3>1. Len(stack) + 1 \in DOMAIN stack'
      BY <1>1, <2>6, LenProperties
    <3> QED
      BY <2>4, <2>6, <3>1 DEF Handling
  <2> QED
    BY <2>1, <2>3, <2>6, <2>7
       DEF Later, AutorunnerInv, TypeOK, FramesOK, PipeOK, NoLostWakeup, timerVars
<1>7. CASE \E l \in Loops, i \in Callbacks : Cancel(l, i)
  <2>1. PICK l \in Loops, i \in Callbacks : Cancel(l, i)
    BY <1>7
  <2>2. /\ queue' \in [Loops -> SUBSET Callbacks]
        /\ Waiting(GLOBAL_LOOP)' \subseteq Waiting(GLOBAL_LOOP)
    BY <1>1, <2>1, CallbackIsTaken DEF Cancel
  <2>3. FramesOK' /\ StackOK' /\ (Handling <=> Handling')
    BY <2>1, SameStack DEF Cancel
  <2>4. AutorunnerInv'
    BY <2>1, <2>2, <2>3 DEF Cancel, AutorunnerInv, TypeOK, FramesOK, PipeOK, timerVars
  <2>5. NoLostWakeup => NoLostWakeup'
    BY <2>1, <2>2, <2>3 DEF Cancel, NoLostWakeup, timerVars
  <2> QED
    BY <2>4, <2>5
<1>8. CASE \E l \in Loops : RunNow(l)
  <2>1. PICK l \in Loops : RunNow(l)
    BY <1>8
  <2>2. PICK f \in Frame : f.pc = "run_now" /\ Push(f)
    <3>1. [pc |-> "run_now", loop |-> l, at |-> now, n |-> 0, nframe |-> 0] \in Frame
      BY <1>1, AutorunnerAssumption DEF Frame, Pcs, TypeOK
    <3> QED
      BY <2>1, <3>1 DEF RunNow
  <2>3. Top.pc \in Suspended
    BY <2>1 DEF RunNow, OnTop, Suspended
  <2>4. FramesOK' /\ StackOK' /\ (Handling => Handling')
    BY <1>1, <2>1, <2>2, <2>3, PushedStack DEF Autorunning, PassPcs, RunNow
  <2> QED
    BY <2>1, <2>4, StackStep DEF RunNow
<1> QED
  BY <1>3, <1>4, <1>5, <1>6, <1>7, <1>8 DEF CodeStep

LEMMA HandlerCalledKeeps ==
    ASSUME AutorunnerInv, NEW nframe \in {0, 1}, HandlerCalled(nframe)
    PROVE  AutorunnerInv' /\ NoLostWakeup'
<1>1. stack \in Seq(Frame) /\ StackOK /\ TypeOK /\ PipeOK
  BY DEF AutorunnerInv, TypeOK
<1>2. PICK f \in Frame : f.pc = "asked" /\ Push(f)
  <2>1. [pc |-> "asked", loop |-> GLOBAL_LOOP, at |-> 0, n |-> 0,
         nframe |-> nframe] \in Frame
    BY AutorunnerAssumption DEF Frame, Pcs, Times
  <2> QED
    BY <2>1 DEF HandlerCalled
<1>3. stack # <<>> => Top.pc \in Suspended
  BY DEF HandlerCalled, Suspended
<1>4. /\ FramesOK'
      /\ StackOK'
      /\ Len(stack') = Len(stack) + 1
      /\ stack'[Len(stack) + 1] = f
  BY <1>1, <1>2, <1>3, PushedStack DEF Autorunning, PassPcs, HandlerCalled
<1>5. Handling'
  <2>1. Len(stack) + 1 \in DOMAIN stack'
    BY <1>1, <1>4, LenProperties
  <2> QED
    BY <1>2, <1>4, <2>1 DEF Handling
<1>6. hot' \in BOOLEAN /\ pipe' \in {0, 1} /\ PipeOK'
  BY <1>1, FdIsSet DEF HandlerCalled
<1> QED
  BY <1>4, <1>5, <1>6
     DEF HandlerCalled, AutorunnerInv, TypeOK, FramesOK, NoLostWakeup, queueVars, timerVars

LEMMA HandlerInterruptedKeeps ==
    ASSUME AutorunnerInv, NEW k \in 0 .. Len(stack), HandlerInterrupted(k)
    PROVE  AutorunnerInv' /\ NoLostWakeup'
<1>1. /\ stack \in Seq(Frame) /\ StackOK
      /\ stack # <<>> /\ Top.pc = "asked" /\ exec_callbacks_reentrancy_count = 0
      /\ stack' = SubSeq(stack, 1, k) /\ exec_callbacks_reentrancy_count' = 0
  BY DEF HandlerInterrupted, AutorunnerInv, TypeOK, OnTop
<1>2. LeavePasses(k + 1)
  <2>1. Running = {}
    BY <1>1, RunningIsFinite, FS_EmptySet DEF StackOK, Counted
  <2>2. {i \in k + 1 .. Len(stack) : stack[i].pc \in PassPcs} = {}
    <3>1. k + 1 .. Len(stack) \subseteq DOMAIN stack
      BY <1>1, LenProperties
    <3> QED
      BY <2>1, <3>1 DEF Running
  <2>3. Cardinality({i \in k + 1 .. Len(stack) : stack[i].pc \in PassPcs}) = 0
    BY <2>2, FS_EmptySet
  <2> QED
    BY <1>1, <2>3 DEF LeavePasses
<1>3. FramesOK' /\ StackOK'
  BY <1>1, <1>2, CutStack
<1> QED
  BY <1>3 DEF HandlerInterrupted, AutorunnerInv, TypeOK, FramesOK, PipeOK, NoLostWakeup, queueVars,
              timerVars

LEMMA ScheduleCallbackKeeps ==
    ASSUME AutorunnerInv, NEW l \in Loops, NEW d \in Delays, ScheduleCallback(l, d)
    PROVE  AutorunnerInv' /\ NoLostWakeup'
<1>1. PICK t \in Times : TimerSet(t)
  BY DEF ScheduleCallback
<1>2. /\ queue' \in [Loops -> SUBSET Callbacks]
      /\ when' \in [Callbacks -> Times]
      /\ nextCallbackId' \in 1 .. MaxCallback + 1
  BY CallbackIsAdded DEF ScheduleCallback, AutorunnerInv
<1>3. FramesOK' /\ StackOK'
  BY SameStack DEF ScheduleCallback
<1> QED
  BY <1>1, <1>2, <1>3, TimerStep DEF ScheduleCallback

LEMMA TickKeeps ==
    ASSUME AutorunnerInv, Tick
    PROVE  AutorunnerInv' /\ (NoLostWakeup => NoLostWakeup')
<1>1. FramesOK' /\ StackOK' /\ (Handling <=> Handling')
  BY SameStack DEF Tick
<1>2. now' \in Times
  BY AutorunnerAssumption DEF Tick, AutorunnerInv, TypeOK, Times
<1>3. Waiting(GLOBAL_LOOP)' = Waiting(GLOBAL_LOOP)
  BY DEF Tick, Waiting, Below, queueVars
<1>4. AutorunnerInv'
  BY <1>1, <1>2 DEF Tick, AutorunnerInv, TypeOK, FramesOK, PipeOK, queueVars, timerVars
<1>5. NoLostWakeup => NoLostWakeup'
  BY <1>1, <1>3 DEF Tick, NoLostWakeup, timerVars
<1> QED
  BY <1>4, <1>5

LEMMA AutorunnerInductive ==
    ASSUME AutorunnerInv, [Next]_vars
    PROVE  AutorunnerInv' /\ (NoLostWakeup => NoLostWakeup')
<1>1. CASE UNCHANGED vars
  <2>1. FramesOK' /\ StackOK' /\ (Handling <=> Handling')
    BY <1>1, SameStack DEF vars
  <2> QED
    BY <1>1, <2>1, StackStep DEF vars
<1>2. CASE \E k \in 0 .. Len(stack) : HandlerInterrupted(k)
  BY <1>2, HandlerInterruptedKeeps
<1>3. CASE \E l \in Loops, d \in Delays : ScheduleCallback(l, d)
  BY <1>3, ScheduleCallbackKeeps
<1>4. CASE \E nframe \in {0, 1} : HandlerCalled(nframe)
  BY <1>4, HandlerCalledKeeps
<1> QED
  BY <1>1, <1>2, <1>3, <1>4, MainStepKeeps, CodeStepKeeps,
     BgStepKeeps, TickKeeps DEF Next

LEMMA AutorunnerInitial ==
    Init => AutorunnerInv /\ NoLostWakeup
<1> SUFFICES ASSUME Init
             PROVE  AutorunnerInv /\ NoLostWakeup
  OBVIOUS
<1>1. TypeOK
  <2>1. 0 \in Times /\ 1 \in 1 .. MaxCallback + 1 /\ 0 \in 0 .. MaxCommands
    BY AutorunnerAssumption DEF Times
  <2>2. queue \in [Loops -> SUBSET Callbacks] /\ when \in [Callbacks -> Times]
    BY <2>1 DEF Init
  <2>3. stack \in Seq(Frame)
    BY DEF Init
  <2>4. wakeAt \in Times \cup {NoTime} /\ exec_callbacks_reentrancy_count \in Int
    BY DEF Init
  <2>5. hot \in BOOLEAN /\ pipe \in {0, 1} /\ interrupted \in BOOLEAN
    BY DEF Init
  <2> QED
    BY <2>1, <2>2, <2>3, <2>4, <2>5 DEF Init, TypeOK
<1>2. stack = <<>> /\ Len(stack) = 0 /\ DOMAIN stack = {}
  BY DEF Init
<1>3. StackOK
  <2>1. Running = {}
    BY <1>2 DEF Running
  <2>2. Counted
    BY <2>1, FS_EmptySet DEF Counted, Init
  <2> QED
    BY <1>2, <2>2 DEF StackOK, OnlySuspendedBelow, NotReentered, PassesLeft
<1>4. PipeOK
  BY DEF Init, PipeOK
<1>5. Waiting(GLOBAL_LOOP) = {}
  <2>1. \A x \in Loops : queue[x] = {}
    BY DEF Init
  <2> QED
    BY <2>1, AutorunnerAssumption DEF Waiting, Below
<1> QED
  BY <1>1, <1>3, <1>4, <1>5 DEF AutorunnerInv, NoLostWakeup

-----------------------------------------------------------------------------
(***************************************************************************)
(* The invariant holds in every reachable state.                           *)
(***************************************************************************)
THEOREM AutorunnerInvariant == Spec => []AutorunnerInv
<1>1. Init => AutorunnerInv
  BY AutorunnerInitial
<1>2. AutorunnerInv /\ [Next]_vars => AutorunnerInv'
  BY AutorunnerInductive
<1> QED
  BY <1>1, <1>2, PTL DEF Spec

(***************************************************************************)
(* The variables keep their types; in particular the pipe never holds more *)
(* than the one byte that set_fd() reads back.                             *)
(***************************************************************************)
THEOREM AutorunnerTypeOK == Spec => []TypeOK
<1>1. AutorunnerInv => TypeOK
  BY DEF AutorunnerInv
<1> QED
  BY <1>1, AutorunnerInvariant, PTL

(***************************************************************************)
(* async_input_handler() never starts callbacks on top of a running one,   *)
(* however R and C code nest run_now() and event processing and whatever   *)
(* errors unwind.                                                          *)
(***************************************************************************)
THEOREM AutorunnerNotReentered == Spec => []NotReentered
<1>1. AutorunnerInv => NotReentered
  BY DEF AutorunnerInv, StackOK
<1> QED
  BY <1>1, AutorunnerInvariant, PTL

(***************************************************************************)
(* The handler and the timer thread never lose the wakeup of a waiting     *)
(* callback, but for an interrupt of the handler after which the timer has *)
(* not been set.                                                           *)
(***************************************************************************)
THEOREM AutorunnerNoLostWakeup == Spec => []NoLostWakeup
<1>1. Init => NoLostWakeup
  BY AutorunnerInitial
<1>2. AutorunnerInv /\ NoLostWakeup /\ [Next]_vars => NoLostWakeup'
  BY AutorunnerInductive
<1> QED
  BY <1>1, <1>2, AutorunnerInvariant, PTL DEF Spec
=============================================================================
