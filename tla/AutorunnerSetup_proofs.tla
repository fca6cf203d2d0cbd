----------------------- MODULE AutorunnerSetup_proofs -----------------------
(***************************************************************************)
(* Proofs about the set-up of the POSIX autorunner, for any processes, and *)
(* any number of pipes and callbacks.                                      *)
(***************************************************************************)
EXTENDS AutorunnerSetup, SequenceTheorems, TLAPS

-----------------------------------------------------------------------------
(***************************************************************************)
(* The inductive invariant.  PipeIsPrivate needs to know who may write to  *)
(* or read from a pipe:                                                    *)
(*   - a process without an autorunner that could set a timer has no pipe: *)
(*     its copy of pipe_in and pipe_out was closed;                        *)
(*   - the pipe of a process with an autorunner is nobody else's, and no   *)
(*     other process has a handler on it;                                  *)
(*   - a byte is only ever in the pipe of a process with an autorunner.    *)
(***************************************************************************)
Created == 1 .. Len(bytes)

ProcOK(p) ==
    /\ pipe[p] \in Created \cup {NoPipe}
    /\ handlers[p] \subseteq Created
    /\ ready[p] => p \in alive
    /\ initialized[p] => ready[p] /\ pipe[p] \in Created
    /\ ready[p] /\ ~initialized[p] => pipe[p] = NoPipe
    /\ ~ready[p] => timer[p] = "none" /\ ~hot[p] /\ ~calls[p]

ProcsOK == \A p \in Procs : ProcOK(p)

Owns(p, k) == initialized[p] /\ pipe[p] = k

OneOwner ==
    \A p, q \in Procs : \A k \in Created :
       Owns(p, k) /\ (k \in handlers[q] \/ Owns(q, k)) => q = p

BytesOwned == \A k \in Created : bytes[k] # 0 => \E p \in Procs : Owns(p, k)

HotTells == \A p \in Procs : \A k \in Created :
               Owns(p, k) => bytes[k] = IF hot[p] THEN 1 ELSE 0

SetupInv == TypeOK /\ ProcsOK /\ OneOwner /\ BytesOwned /\ HotTells

-----------------------------------------------------------------------------
LEMMA CreatedIsPipes ==
    ASSUME TypeOK
    PROVE  /\ Len(bytes) \in Nat
           /\ Created = DOMAIN bytes
           /\ Created \subseteq Pipes
           /\ NoPipe \notin Created
           /\ \A k \in Created : bytes[k] \in {0, 1}
<1>1. Len(bytes) \in Nat /\ DOMAIN bytes = 1 .. Len(bytes) /\ Len(bytes) <= MaxPipes
  BY LenProperties DEF TypeOK
<1>2. \A k \in 1 .. Len(bytes) : bytes[k] \in {0, 1}
  BY <1>1, ElementOfSeq DEF TypeOK
<1> QED
  BY <1>1, <1>2, SetupAssumption DEF Created, Pipes, NoPipe

\* Writing to a pipe or reading from it creates none.
LEMMA RewrittenBytes ==
    ASSUME TypeOK, NEW b \in [DOMAIN bytes -> {0, 1}]
    PROVE  b \in Seq({0, 1}) /\ Len(b) = Len(bytes)
<1>1. Len(bytes) \in Nat /\ DOMAIN bytes = 1 .. Len(bytes)
  BY LenProperties DEF TypeOK
<1>2. b \in [1 .. Len(bytes) -> {0, 1}]
  BY <1>1
<1>3. b \in Seq({0, 1})
  BY <1>1, <1>2, SeqDef
<1> QED
  BY <1>1, <1>2, <1>3, LenProperties

-----------------------------------------------------------------------------
(***************************************************************************)
(* Each step keeps the invariant.                                          *)
(***************************************************************************)
LEMMA InvInit == Init => SetupInv
<1> SUFFICES ASSUME Init PROVE SetupInv
  OBVIOUS
<1>1. Len(bytes) = 0 /\ bytes \in Seq({0, 1}) /\ Created = {}
  BY DEF Init, Created
<1>2. TypeOK
  BY <1>1, SetupAssumption DEF Init, TypeOK, Timers
<1>3. ProcsOK
  BY <1>1 DEF Init, ProcsOK, ProcOK
<1> QED
  BY <1>1, <1>2, <1>3 DEF SetupInv, OneOwner, BytesOwned, HotTells

\* The set-up that fails half-way: a pipe with a handler and without a writer.
LEMMA DummyPipeFailsKeeps ==
    ASSUME SetupInv, NEW p \in alive, DummyPipeFails(p)
    PROVE  SetupInv'
<1>1. TypeOK /\ ProcsOK /\ OneOwner /\ BytesOwned /\ HotTells /\ p \in Procs
  BY DEF SetupInv, TypeOK
<1>2. PICK k \in Pipes :
         /\ k = Len(bytes) + 1
         /\ bytes' = Append(bytes, 0)
         /\ pipe' = [pipe EXCEPT ![p] = k]
         /\ handlers' = [handlers EXCEPT ![p] = @ \cup {k}]
  BY DEF DummyPipeFails
<1>3. /\ ~ready[p]
      /\ UNCHANGED <<alive, ready, initialized, dummy, hot, timer, queue, calls>>
  BY DEF DummyPipeFails
<1>4. /\ bytes' \in Seq({0, 1})
      /\ Len(bytes') = Len(bytes) + 1
      /\ \A i \in Created : bytes'[i] = bytes[i]
      /\ bytes'[Len(bytes) + 1] = 0
  BY <1>1, <1>2, AppendProperties DEF TypeOK, Created
<1>5. /\ Created' = 1 .. Len(bytes) + 1
      /\ Created \subseteq Created'
      /\ \A i \in Created' \ Created : bytes'[i] = 0
      /\ k \notin Created /\ k \in Created'
      /\ Len(bytes') <= MaxPipes
  BY <1>1, <1>2, <1>4, CreatedIsPipes, SetupAssumption DEF Created, Pipes
<1>6. TypeOK'
  BY <1>1, <1>2, <1>3, <1>4, <1>5 DEF TypeOK
<1>7. ~initialized[p]
  BY <1>1, <1>3 DEF ProcsOK, ProcOK
<1>8. ASSUME NEW q \in Procs
      PROVE  /\ q # p => pipe'[q] = pipe[q] /\ handlers'[q] = handlers[q]
             /\ pipe'[p] = k /\ handlers'[p] = handlers[p] \cup {k}
  BY <1>1, <1>2, <1>8 DEF TypeOK
<1>9. ProcsOK'
  BY <1>1, <1>3, <1>5, <1>7, <1>8 DEF ProcsOK, ProcOK
<1>10. ASSUME NEW q \in Procs, NEW i \in Created'
       PROVE  Owns(q, i)' <=> i \in Created /\ Owns(q, i)
  BY <1>1, <1>3, <1>5, <1>7, <1>8 DEF Owns, ProcsOK, ProcOK
<1>11. OneOwner'
  BY <1>1, <1>5, <1>8, <1>10 DEF OneOwner
<1>12. BytesOwned'
  BY <1>1, <1>4, <1>5, <1>10 DEF BytesOwned
<1>13. HotTells'
  BY <1>1, <1>3, <1>4, <1>10 DEF HotTells
<1> QED
  BY <1>6, <1>9, <1>11, <1>12, <1>13 DEF SetupInv

\* The pipes of a new autorunner are new: nobody else has them.
LEMMA EnsureInitializedKeeps ==
    ASSUME SetupInv, NEW p \in alive, EnsureInitialized(p)
    PROVE  SetupInv'
<1>1. TypeOK /\ ProcsOK /\ OneOwner /\ BytesOwned /\ HotTells /\ p \in Procs
  BY DEF SetupInv, TypeOK
<1>2. PICK k \in Pipes, d \in Pipes :
         /\ k = Len(bytes) + 1 /\ d = k + 1
         /\ bytes' = bytes \o <<0, 0>>
         /\ pipe' = [pipe EXCEPT ![p] = k]
         /\ dummy' = [dummy EXCEPT ![p] = d]
         /\ handlers' = [handlers EXCEPT ![p] = @ \cup {k, d}]
  BY DEF EnsureInitialized
<1>3. /\ ~ready[p]
      /\ initialized' = [initialized EXCEPT ![p] = TRUE]
      /\ ready' = [ready EXCEPT ![p] = TRUE]
      /\ UNCHANGED <<alive, hot, timer, queue, calls>>
  BY DEF EnsureInitialized
<1>4. /\ bytes' \in Seq({0, 1})
      /\ Len(bytes') = Len(bytes) + 2
      /\ \A i \in Created : bytes'[i] = bytes[i]
      /\ bytes'[Len(bytes) + 1] = 0
      /\ bytes'[Len(bytes) + 2] = 0
  <2>1. <<0, 0>> \in Seq({0, 1}) /\ Len(<<0, 0>>) = 2
    OBVIOUS
  <2> QED
    BY <1>1, <1>2, <2>1, CreatedIsPipes, ConcatProperties DEF TypeOK, Created
<1>5. /\ Created' = 1 .. Len(bytes) + 2
      /\ Created \subseteq Created'
      /\ \A i \in Created' \ Created : bytes'[i] = 0
      /\ k \notin Created /\ k \in Created'
      /\ d \notin Created /\ d \in Created' /\ d # k
      /\ Len(bytes') <= MaxPipes
  BY <1>1, <1>2, <1>4, CreatedIsPipes, SetupAssumption DEF Created, Pipes
<1>6. TypeOK'
  BY <1>1, <1>2, <1>3, <1>4, <1>5 DEF TypeOK
<1>7. ASSUME NEW q \in Procs
      PROVE  /\ q # p => /\ pipe'[q] = pipe[q]
                         /\ handlers'[q] = handlers[q]
                         /\ initialized'[q] = initialized[q]
                         /\ ready'[q] = ready[q]
             /\ pipe'[p] = k /\ handlers'[p] = handlers[p] \cup {k, d}
             /\ initialized'[p] /\ ready'[p]
  BY <1>1, <1>2, <1>3, <1>7 DEF TypeOK
<1>8. ~initialized[p] /\ ~hot[p]
  BY <1>1, <1>3 DEF ProcsOK, ProcOK
<1>9. ProcsOK'
  BY <1>1, <1>3, <1>5, <1>7 DEF ProcsOK, ProcOK
<1>10. ASSUME NEW q \in Procs, NEW i \in Created'
       PROVE  /\ Owns(p, i)' <=> i = k
              /\ q # p => (Owns(q, i)' <=> i \in Created /\ Owns(q, i))
  BY <1>1, <1>5, <1>7, <1>8 DEF Owns, ProcsOK, ProcOK
<1>11. OneOwner'
  <2> SUFFICES ASSUME NEW r \in Procs, NEW q \in Procs, NEW i \in Created',
                      Owns(r, i)', i \in handlers'[q] \/ Owns(q, i)'
               PROVE  q = r
    BY DEF OneOwner
  <2>1. CASE r = p
    BY <1>1, <1>5, <1>7, <1>10, <2>1 DEF ProcsOK, ProcOK
  <2>2. CASE r # p
    BY <1>1, <1>5, <1>7, <1>8, <1>10, <2>2 DEF OneOwner
  <2> QED
    BY <2>1, <2>2
<1>12. BytesOwned'
  <2> SUFFICES ASSUME NEW i \in Created', bytes'[i] # 0
               PROVE  \E q \in Procs : Owns(q, i)'
    BY DEF BytesOwned
  <2>1. i \in Created /\ bytes[i] # 0
    BY <1>4, <1>5
  <2>2. PICK q \in Procs : Owns(q, i)
    BY <1>1, <2>1 DEF BytesOwned
  <2>3. q # p
    BY <1>8, <2>2 DEF Owns
  <2> QED
    BY <1>10, <2>1, <2>2, <2>3
<1>13. HotTells'
  <2> SUFFICES ASSUME NEW q \in Procs, NEW i \in Created', Owns(q, i)'
               PROVE  bytes'[i] = IF hot'[q] THEN 1 ELSE 0
    BY DEF HotTells
  <2>1. CASE q = p
    BY <1>3, <1>5, <1>8, <1>10, <2>1
  <2>2. CASE q # p
    BY <1>1, <1>3, <1>4, <1>10, <2>2 DEF HotTells
  <2> QED
    BY <2>1, <2>2
<1> QED
  BY <1>6, <1>9, <1>11, <1>12, <1>13 DEF SetupInv

\* The steps that leave pipes and their owners alone.
LEMMA PipesUntouched ==
    ASSUME SetupInv, UNCHANGED <<alive, setupVars, hot, bytes>>,
           TypeOK',
           \A p \in Procs : ~ready[p] => timer'[p] = timer[p] /\ calls'[p] = calls[p]
    PROVE  SetupInv'
<1>1. ProcsOK /\ OneOwner /\ BytesOwned /\ HotTells
  BY DEF SetupInv
<1>2. Created' = Created
  BY DEF Created
<1>3. ProcsOK'
  BY <1>1, <1>2 DEF ProcsOK, ProcOK, setupVars
<1>4. \A p \in Procs : \A k : Owns(p, k)' <=> Owns(p, k)
  BY DEF Owns, setupVars
<1>5. OneOwner' /\ BytesOwned' /\ HotTells'
  BY <1>1, <1>2, <1>4 DEF OneOwner, BytesOwned, HotTells, setupVars
<1> QED
  BY <1>3, <1>5 DEF SetupInv

LEMMA LaterKeeps ==
    ASSUME SetupInv, NEW p \in alive, Later(p)
    PROVE  SetupInv'
<1>1. TypeOK /\ p \in Procs
  BY DEF SetupInv, TypeOK
<1>2. queue[p] + 1 \in 0 .. MaxQueue
  BY <1>1, SetupAssumption DEF Later, TypeOK
<1>3. TypeOK'
  BY <1>1, <1>2 DEF Later, TypeOK, setupVars
<1>4. \A q \in Procs : ~ready[q] => timer'[q] = timer[q] /\ calls'[q] = calls[q]
  BY <1>1 DEF Later, TypeOK
<1> QED
  BY <1>3, <1>4, PipesUntouched DEF Later

\* A timer is set only by a process that is ready.
LEMMA TimerSetKeeps ==
    ASSUME SetupInv, NEW p \in alive, TimerSet(p)
    PROVE  SetupInv'
<1>1. TypeOK /\ ProcsOK /\ p \in Procs
  BY DEF SetupInv, TypeOK
<1>2. TypeOK'
  BY <1>1 DEF TimerSet, TypeOK, Timers, setupVars
<1>3. ready[p]
  BY <1>1 DEF TimerSet, ProcsOK, ProcOK
<1>4. \A q \in Procs : ~ready[q] => timer'[q] = timer[q] /\ calls'[q] = calls[q]
  BY <1>1, <1>3 DEF TimerSet, TypeOK
<1> QED
  BY <1>2, <1>4, PipesUntouched DEF TimerSet

LEMMA TimerElapsesKeeps ==
    ASSUME SetupInv, NEW p \in alive, TimerElapses(p)
    PROVE  SetupInv'
<1>1. TypeOK /\ ProcsOK /\ p \in Procs
  BY DEF SetupInv, TypeOK
<1>2. TypeOK'
  BY <1>1 DEF TimerElapses, TypeOK, Timers, setupVars
<1>3. ready[p]
  BY <1>1 DEF TimerElapses, ProcsOK, ProcOK
<1>4. \A q \in Procs : ~ready[q] => timer'[q] = timer[q] /\ calls'[q] = calls[q]
  BY <1>1, <1>3 DEF TimerElapses, TypeOK
<1> QED
  BY <1>2, <1>4, PipesUntouched DEF TimerElapses

LEMMA RunNowKeeps ==
    ASSUME SetupInv, NEW p \in alive, RunNow(p)
    PROVE  SetupInv'
<1>1. TypeOK /\ p \in Procs
  BY DEF SetupInv, TypeOK
<1>2. TypeOK'
  BY <1>1, SetupAssumption DEF RunNow, TypeOK, setupVars
<1> QED
  BY <1>2, PipesUntouched DEF RunNow

\* The timer thread of p writes to the pipe of p, and to no other.
LEMMA FdOnKeeps ==
    ASSUME SetupInv, NEW p \in alive, FdOn(p)
    PROVE  SetupInv'
<1>1. /\ TypeOK /\ ProcsOK /\ OneOwner /\ BytesOwned /\ HotTells /\ p \in Procs
      /\ timer[p] = "callback"
      /\ timer' = [timer EXCEPT ![p] = "unset"]
      /\ hot' = [hot EXCEPT ![p] = TRUE]
      /\ bytes' = [k \in DOMAIN bytes |->
                     IF ~hot[p] /\ k = pipe[p] THEN bytes[k] + 1 ELSE bytes[k]]
      /\ UNCHANGED <<alive, ready, initialized, pipe, dummy, handlers, queue, calls>>
  BY DEF SetupInv, TypeOK, FdOn, setupVars
<1>2. /\ Created = DOMAIN bytes
      /\ NoPipe \notin Created
      /\ \A k \in Created : bytes[k] \in {0, 1}
  BY <1>1, CreatedIsPipes
<1>3. ready[p]
  BY <1>1 DEF ProcsOK, ProcOK
<1>4. \A k \in Created : pipe[p] = k => Owns(p, k)
  BY <1>1, <1>2, <1>3 DEF ProcsOK, ProcOK, Owns
<1>5. \A k \in Created : bytes'[k] = IF Owns(p, k) THEN 1 ELSE bytes[k]
  BY <1>1, <1>2, <1>4 DEF HotTells, Owns
<1>6. bytes' \in [DOMAIN bytes -> {0, 1}]
  BY <1>1, <1>2, <1>5
<1>7. /\ bytes' \in Seq({0, 1})
      /\ Len(bytes') = Len(bytes)
      /\ Created' = Created
  BY <1>1, <1>6, RewrittenBytes DEF Created
<1>8. hot' \in [Procs -> BOOLEAN] /\ timer' \in [Procs -> Timers]
  BY <1>1 DEF TypeOK, Timers
<1>9. TypeOK'
  BY <1>1, <1>7, <1>8 DEF TypeOK
<1>10. ProcsOK'
  BY <1>1, <1>3, <1>7 DEF TypeOK, ProcsOK, ProcOK
<1>11. \A q \in Procs : \A k : Owns(q, k)' <=> Owns(q, k)
  BY <1>1 DEF Owns
<1>12. OneOwner'
  BY <1>1, <1>7, <1>11 DEF OneOwner
<1>13. BytesOwned'
  BY <1>1, <1>5, <1>7, <1>11 DEF BytesOwned
<1>14. HotTells'
  <2> SUFFICES ASSUME NEW q \in Procs, NEW k \in Created, Owns(q, k)
               PROVE  bytes'[k] = IF hot'[q] THEN 1 ELSE 0
    BY <1>7, <1>11 DEF HotTells
  <2>1. CASE q = p
    BY <1>1, <1>5, <2>1 DEF TypeOK
  <2>2. CASE q # p
    <3>1. ~Owns(p, k)
      BY <1>1, <2>2 DEF OneOwner
    <3>2. bytes'[k] = bytes[k] /\ hot'[q] = hot[q]
      BY <1>1, <1>5, <2>2, <3>1 DEF TypeOK
    <3> QED
      BY <1>1, <3>2 DEF HotTells
  <2> QED
    BY <2>1, <2>2
<1> QED
  BY <1>9, <1>10, <1>12, <1>13, <1>14 DEF SetupInv

\* The input handler of p reads from the pipe of p, and from no other.
LEMMA AsyncInputHandlerKeeps ==
    ASSUME SetupInv, NEW p \in alive, AsyncInputHandler(p)
    PROVE  SetupInv'
<1>1. /\ TypeOK /\ ProcsOK /\ OneOwner /\ BytesOwned /\ HotTells /\ p \in Procs
      /\ bytes' = [k \in DOMAIN bytes |-> IF hot[p] /\ k = pipe[p] THEN 0 ELSE bytes[k]]
      /\ hot' = [hot EXCEPT ![p] = FALSE]
      /\ queue' = [queue EXCEPT ![p] = 0]
      /\ UNCHANGED <<alive, ready, initialized, pipe, dummy, handlers, timer, calls>>
  BY DEF SetupInv, TypeOK, AsyncInputHandler, setupVars
<1>2. /\ Created = DOMAIN bytes
      /\ NoPipe \notin Created
      /\ \A k \in Created : bytes[k] \in {0, 1}
  BY <1>1, CreatedIsPipes
<1>3. \A k \in Created : hot[p] /\ pipe[p] = k => Owns(p, k)
  BY <1>1, <1>2 DEF ProcsOK, ProcOK, Owns
<1>4. \A k \in Created : bytes'[k] = IF Owns(p, k) THEN 0 ELSE bytes[k]
  BY <1>1, <1>2, <1>3 DEF HotTells, Owns
<1>5. bytes' \in [DOMAIN bytes -> {0, 1}]
  BY <1>1, <1>2, <1>4
<1>6. /\ bytes' \in Seq({0, 1})
      /\ Len(bytes') = Len(bytes)
      /\ Created' = Created
  BY <1>1, <1>5, RewrittenBytes DEF Created
<1>7. hot' \in [Procs -> BOOLEAN] /\ queue' \in [Procs -> 0 .. MaxQueue]
  BY <1>1, SetupAssumption DEF TypeOK
<1>8. TypeOK'
  BY <1>1, <1>6, <1>7 DEF TypeOK
<1>9. ProcsOK'
  BY <1>1, <1>6 DEF TypeOK, ProcsOK, ProcOK
<1>10. \A q \in Procs : \A k : Owns(q, k)' <=> Owns(q, k)
  BY <1>1 DEF Owns
<1>11. OneOwner'
  BY <1>1, <1>6, <1>10 DEF OneOwner
<1>12. BytesOwned'
  BY <1>1, <1>4, <1>6, <1>10 DEF BytesOwned
<1>13. HotTells'
  <2> SUFFICES ASSUME NEW q \in Procs, NEW k \in Created, Owns(q, k)
               PROVE  bytes'[k] = IF hot'[q] THEN 1 ELSE 0
    BY <1>6, <1>10 DEF HotTells
  <2>1. CASE q = p
    BY <1>1, <1>4, <2>1 DEF TypeOK
  <2>2. CASE q # p
    <3>1. ~Owns(p, k)
      BY <1>1, <2>2 DEF OneOwner
    <3>2. bytes'[k] = bytes[k] /\ hot'[q] = hot[q]
      BY <1>1, <1>4, <2>2, <3>1 DEF TypeOK
    <3> QED
      BY <1>1, <3>2 DEF HotTells
  <2> QED
    BY <2>1, <2>2
<1> QED
  BY <1>8, <1>9, <1>11, <1>12, <1>13 DEF SetupInv

\* What child_proc_after_fork() leaves to the child: no pipe it could use, and no
\* handler on a pipe that somebody writes to.
LEMMA ForkKeeps ==
    ASSUME SetupInv, NEW p \in alive, NEW q \in Procs, Fork(p, q)
    PROVE  SetupInv'
<1>1. /\ TypeOK /\ ProcsOK /\ OneOwner /\ BytesOwned /\ HotTells
      /\ p \in Procs /\ q # p /\ q \notin alive /\ ~calls[p]
      /\ alive' = alive \cup {q}
      /\ ready' = [ready EXCEPT ![q] = ready[p]]
      /\ hot' = [hot EXCEPT ![q] = hot[p]]
      /\ queue' = [queue EXCEPT ![q] = queue[p]]
      /\ UNCHANGED <<calls, bytes>>
  BY DEF SetupInv, TypeOK, Fork
<1>2. PICK t \in Timers : /\ timer' = [timer EXCEPT ![q] = t]
                          /\ timer[p] = "none" => t = "none"
  <2>1. CASE timer[p] = "none"
    BY <2>1 DEF Fork, Timers
  <2>2. CASE timer[p] \in {"callback", "locked"}
    BY <2>2 DEF Fork, Timers
  <2>3. CASE timer[p] \notin {"none", "callback", "locked"}
    BY <2>3 DEF Fork, Timers
  <2> QED
    BY <2>1, <2>2, <2>3
<1>3. PICK k \in Created \cup {NoPipe}, d \in Pipes \cup {NoPipe}, H \in SUBSET Created :
         /\ pipe' = [pipe EXCEPT ![q] = k]
         /\ dummy' = [dummy EXCEPT ![q] = d]
         /\ handlers' = [handlers EXCEPT ![q] = H]
         /\ initialized' = [initialized EXCEPT ![q] = FALSE]
         /\ H \subseteq handlers[p]
         /\ initialized[p] => k = NoPipe /\ pipe[p] \notin H
         /\ ~initialized[p] => k = pipe[p]
  <2>1. ProcOK(p) /\ dummy[p] \in Pipes \cup {NoPipe}
    BY <1>1 DEF ProcsOK, TypeOK
  <2>2. CASE initialized[p]
    <3>1. handlers[p] \ {pipe[p], dummy[p]} \in SUBSET Created
      BY <2>1 DEF ProcOK
    <3> QED
      BY <2>2, <3>1 DEF Fork, ChildProcAfterFork
  <2>3. CASE ~initialized[p]
    <3>1. pipe[p] \in Created \cup {NoPipe} /\ handlers[p] \in SUBSET Created
      BY <2>1 DEF ProcOK
    <3> QED
      BY <2>1, <2>3, <3>1, Zenon DEF Fork, ChildProcAfterFork
  <2> QED
    BY <2>2, <2>3
<1>4. Created' = Created /\ Created \subseteq Pipes
  BY <1>1, CreatedIsPipes DEF Created
<1>5. ready' \in [Procs -> BOOLEAN] /\ hot' \in [Procs -> BOOLEAN]
  BY <1>1 DEF TypeOK
<1>6. initialized' \in [Procs -> BOOLEAN]
  BY <1>1, <1>3 DEF TypeOK
<1>7. TypeOK'
  BY <1>1, <1>2, <1>3, <1>4, <1>5, <1>6 DEF TypeOK
<1>8. ~ready[q] /\ ~initialized[q] /\ ~calls[q]
  BY <1>1 DEF ProcsOK, ProcOK
<1>9. ASSUME NEW r \in Procs
      PROVE  /\ r # q => /\ pipe'[r] = pipe[r]
                         /\ handlers'[r] = handlers[r]
                         /\ initialized'[r] = initialized[r]
                         /\ ready'[r] = ready[r]
                         /\ hot'[r] = hot[r]
                         /\ timer'[r] = timer[r]
             /\ pipe'[q] = k /\ handlers'[q] = H /\ ~initialized'[q]
             /\ ready'[q] = ready[p] /\ hot'[q] = hot[p] /\ timer'[q] = t
  BY <1>1, <1>2, <1>3, <1>9 DEF TypeOK
<1>10. ProcsOK'
  <2>1. ASSUME NEW r \in Procs, r # q
        PROVE  ProcOK(r)'
    BY <1>1, <1>4, <1>9, <2>1 DEF ProcsOK, ProcOK
  <2>2. ProcOK(q)'
    <3>1. ProcOK(p)
      BY <1>1 DEF ProcsOK
    <3>2. ~ready[p] => timer'[q] = "none" /\ ~hot'[q] /\ ~calls'[q]
      BY <1>1, <1>2, <1>8, <1>9, <3>1 DEF ProcOK
    <3>3. ready'[q] => pipe'[q] = NoPipe
      BY <1>3, <1>9, <3>1 DEF ProcOK
    <3> QED
      BY <1>1, <1>3, <1>4, <1>9, <3>2, <3>3 DEF ProcOK
  <2> QED
    BY <2>1, <2>2 DEF ProcsOK
<1>11. \A r \in Procs : \A i : Owns(r, i)' <=> Owns(r, i)
  BY <1>8, <1>9 DEF Owns
<1>12. OneOwner'
  <2> SUFFICES ASSUME NEW r \in Procs, NEW s \in Procs, NEW i \in Created,
                      Owns(r, i), i \in handlers'[s] \/ Owns(s, i)
               PROVE  s = r
    BY <1>4, <1>11 DEF OneOwner
  <2>1. CASE s = q
    <3>1. i \in H
      BY <1>8, <1>9, <2>1 DEF Owns
    <3>2. p = r
      BY <1>1, <1>3, <3>1 DEF OneOwner
    <3> QED
      BY <1>3, <3>1, <3>2 DEF Owns
  <2>2. CASE s # q
    BY <1>1, <1>9, <2>2 DEF OneOwner
  <2> QED
    BY <2>1, <2>2
<1>13. BytesOwned'
  BY <1>1, <1>4, <1>11 DEF BytesOwned
<1>14. HotTells'
  <2> SUFFICES ASSUME NEW r \in Procs, NEW i \in Created, Owns(r, i)
               PROVE  bytes[i] = IF hot'[r] THEN 1 ELSE 0
    BY <1>1, <1>4, <1>11 DEF HotTells
  <2>1. r # q
    BY <1>8 DEF Owns
  <2> QED
    BY <1>1, <1>9, <2>1 DEF HotTells
<1> QED
  BY <1>7, <1>10, <1>12, <1>13, <1>14 DEF SetupInv

-----------------------------------------------------------------------------
\* The invariant holds in every reachable state.
THEOREM SetupInvariant == Spec => []SetupInv
<1>1. Init => SetupInv
  BY InvInit
<1>2. ASSUME SetupInv, [Next]_vars
      PROVE  SetupInv'
  <2>1. CASE Next
    <3>1. PICK p \in alive :
             \/ EnsureInitialized(p) \/ DummyPipeFails(p) \/ Later(p) \/ TimerSet(p)
             \/ TimerElapses(p) \/ FdOn(p) \/ AsyncInputHandler(p) \/ RunNow(p)
             \/ \E q \in Procs : Fork(p, q)
      BY <2>1 DEF Next
    <3> QED
      BY <1>2, <3>1, EnsureInitializedKeeps, DummyPipeFailsKeeps, LaterKeeps, TimerSetKeeps,
         TimerElapsesKeeps, FdOnKeeps, AsyncInputHandlerKeeps, RunNowKeeps, ForkKeeps
  <2>2. CASE UNCHANGED vars
    <3>1. TypeOK'
      BY <1>2, <2>2 DEF SetupInv, TypeOK, vars, setupVars
    <3> QED
      BY <1>2, <2>2, <3>1, PipesUntouched DEF vars
  <2> QED
    BY <1>2, <2>1, <2>2
<1> QED
  BY <1>1, <1>2, PTL DEF Spec

\* The state keeps its type; in particular no pipe ever holds two bytes.
THEOREM SetupTypeOK == Spec => []TypeOK
<1>1. SetupInv => TypeOK
  BY DEF SetupInv
<1> QED
  BY <1>1, SetupInvariant, PTL

(***************************************************************************)
(* No process that was forked, at whatever time, touches the pipe of       *)
(* another one.                                                            *)
(***************************************************************************)
THEOREM SetupPipeIsPrivate == Spec => []PipeIsPrivate
<1>1. SetupInv => PipeIsPrivate
  BY DEF SetupInv, TypeOK, ProcsOK, ProcOK, HotTells, Owns, PipeIsPrivate
<1> QED
  BY <1>1, SetupInvariant, PTL

(***************************************************************************)
(* An input handler that a forked child has inherited never fires, for any *)
(* tree of processes and any failures of their set-up.                     *)
(***************************************************************************)
THEOREM SetupChildNeedsRunNow == Spec => []ChildNeedsRunNow
<1>1. ASSUME SetupInv
      PROVE  ChildNeedsRunNow
  <2> SUFFICES ASSUME NEW p \in alive, ready[p], ~initialized[p], NEW k \in handlers[p],
                      bytes[k] # 0
               PROVE  FALSE
    BY DEF ChildNeedsRunNow
  <2>1. p \in Procs /\ k \in Created
    BY <1>1 DEF SetupInv, TypeOK, ProcsOK, ProcOK
  <2>2. PICK q \in Procs : Owns(q, k)
    BY <1>1, <2>1 DEF SetupInv, BytesOwned
  <2>3. p = q
    BY <1>1, <2>1, <2>2 DEF SetupInv, OneOwner
  <2> QED
    BY <2>2, <2>3 DEF Owns
<1> QED
  BY <1>1, SetupInvariant, PTL
=============================================================================
