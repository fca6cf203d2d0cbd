--------------------------- MODULE Promise_proofs ---------------------------
(***************************************************************************)
(* Proofs about promises, for any number of promises, loops and nested     *)
(* jobs.                                                                   *)
(***************************************************************************)
EXTENDS Promise, SequenceTheorems, TLAPS

-----------------------------------------------------------------------------
(***************************************************************************)
(* The inductive invariant follows the handlers that have still to settle  *)
(* their promise.  Such a handler is in one of three places: in the list   *)
(* of a promise, in a job that waits in a loop, or in a job that runs.     *)
(* The list of a promise counts until the job that drains it begins: from  *)
(* then on its handlers are those of the job, and what is left in the list *)
(* is dead, as it is if later() fails and there is no such job.            *)
(***************************************************************************)
ListOf(p) == <<"list", p, 0>>
JobAt(l, i) == <<"job", l, i>>
FrameAt(i) == <<"frame", 0, i>>

In(s, h) == \E n \in DOMAIN s : s[n] = h

DrainWaits(p) ==
    \E l \in Loops : \E i \in DOMAIN jobs[l] :
       jobs[l][i].what = "drain" /\ jobs[l][i].of = p

Live(p) == ~Settled(p) \/ DrainWaits(p)

\* The handler h waits in the place v, outside the stack or on it.
Queued(v, h) ==
    \/ \E p \in Promises : v = ListOf(p) /\ Live(p) /\ In(handlers[p], h)
    \/ \E l \in Loops : \E i \in DOMAIN jobs[l] : v = JobAt(l, i) /\ In(jobs[l][i].todo, h)

Running(v, h) == \E i \in DOMAIN stack : v = FrameAt(i) /\ In(stack[i].job.todo, h)

Held(v, h) == Queued(v, h) \/ Running(v, h)

\* The handler h, in the job at v, has started and not ended; or later() has
\* failed in it.
BusyAt(v, h) ==
    \E i \in DOMAIN stack :
       v = FrameAt(i) /\ stack[i].pc = "busy" /\ h = Head(stack[i].job.todo)

CaughtAt(v, h) ==
    \E i \in DOMAIN stack :
       v = FrameAt(i) /\ stack[i].pc = "caught" /\ h = Head(stack[i].job.todo)

Begun(v, h) == BusyAt(v, h) \/ CaughtAt(v, h)

\* No two handlers that wait are to settle the same promise.
Unique == \A v, w, h, g : Held(v, h) /\ Held(w, g) /\ h.to = g.to => v = w /\ h = g

\* No promise that t waits for has called back.
NoChain(t) == \A g \in Handler : g.to = t /\ g.kind \in Chains => starts[g] = 0

\* The promise that a waiting handler is to settle is pending, unless later()
\* has failed; it has been "called" if the handler belongs to a chain or a call,
\* or has begun.
TokenOK(v, h) ==
    /\ h.to \in Known
    /\ Settled(h.to) => CaughtAt(v, h)
    /\ h.to \in given => h.kind \notin Kinds
    /\ called[h.to] <=> h.kind \notin Kinds \/ Begun(v, h)
    /\ h.kind = "self" => Begun(v, h)
    /\ (h.kind \in Chains /\ Begun(v, h)) \/ NoChain(h.to)

TokensOK == \A v, h : Held(v, h) => TokenOK(v, h)

DistinctTo(s) == \A m, n \in DOMAIN s : s[m].to = s[n].to => m = n

ListsOK == \A p \in Promises : DistinctTo(handlers[p])

\* A promise is drained at most once, after it is settled.
JobsOK ==
    /\ \A l \in Loops : \A i \in DOMAIN jobs[l] :
          Settled(jobs[l][i].of) /\ DistinctTo(jobs[l][i].todo)
    /\ \A l, m \in Loops : \A i \in DOMAIN jobs[l], j \in DOMAIN jobs[m] :
          /\ jobs[l][i].what = "drain"
          /\ jobs[m][j].what = "drain"
          /\ jobs[l][i].of = jobs[m][j].of
          => l = m /\ i = j

StackOK ==
    \A i \in DOMAIN stack :
       /\ stack[i].job.what \notin Calls => Settled(stack[i].job.of)
       /\ DistinctTo(stack[i].job.todo)
       /\ stack[i].pc # "next" => stack[i].job.todo # <<>>

\* Where later() has failed, nobody knows yet of the outcome.
CaughtOK ==
    \A i \in DOMAIN stack :
       stack[i].pc = "caught" =>
          /\ i = Len(stack)
          /\ stack[i].loop \in lost
          /\ Unseen(Head(stack[i].job.todo).to)

StateOK == \A p \in Promises : (Settled(p) => called[p]) /\ (called[p] => p \in Known)

StartsOK == \A h \in Handler : starts[h] <= 1 /\ (starts[h] > 0 => called[h.to])

PromiseInv ==
    /\ TypeOK
    /\ ListsOK /\ JobsOK /\ StackOK /\ CaughtOK /\ StateOK /\ StartsOK
    /\ Unique /\ TokensOK

-----------------------------------------------------------------------------
(***************************************************************************)
(* Facts about places and sequences of handlers.                           *)
(***************************************************************************)
LEMMA PlacesDiffer ==
    ASSUME NEW p, NEW q, NEW l, NEW m, NEW i, NEW j
    PROVE  /\ ListOf(p) # JobAt(l, i)
           /\ ListOf(p) # FrameAt(i)
           /\ JobAt(l, i) # FrameAt(j)
           /\ ListOf(p) = ListOf(q) => p = q
           /\ JobAt(l, i) = JobAt(m, j) => l = m /\ i = j
           /\ FrameAt(i) = FrameAt(j) => i = j
BY DEF ListOf, JobAt, FrameAt

LEMMA JobAtInjective ==
    ASSUME NEW l, NEW m, NEW i, NEW j, JobAt(l, i) = JobAt(m, j)
    PROVE  l = m /\ i = j
BY DEF JobAt

LEMMA InAppend ==
    ASSUME NEW s \in Seq(Handler), NEW h \in Handler, NEW g, In(Append(s, h), g)
    PROVE  In(s, g) \/ g = h
<1>1. /\ Len(Append(s, h)) = Len(s) + 1
      /\ Append(s, h)[Len(s) + 1] = h
      /\ \A n \in 1 .. Len(s) : Append(s, h)[n] = s[n]
      /\ Append(s, h) \in Seq(Handler)
  BY AppendProperties
<1>2. DOMAIN Append(s, h) = 1 .. Len(s) + 1 /\ DOMAIN s = 1 .. Len(s) /\ Len(s) \in Nat
  BY <1>1, LenProperties
<1> QED
  BY <1>1, <1>2 DEF In

LEMMA DistinctAppend ==
    ASSUME NEW s \in Seq(Handler), NEW h \in Handler, DistinctTo(s),
           \A g : In(s, g) => g.to # h.to
    PROVE  DistinctTo(Append(s, h))
<1>1. /\ Len(Append(s, h)) = Len(s) + 1
      /\ Append(s, h)[Len(s) + 1] = h
      /\ \A n \in 1 .. Len(s) : Append(s, h)[n] = s[n]
      /\ Append(s, h) \in Seq(Handler)
  BY AppendProperties
<1>2. DOMAIN Append(s, h) = 1 .. Len(s) + 1 /\ DOMAIN s = 1 .. Len(s) /\ Len(s) \in Nat
  BY <1>1, LenProperties
<1>3. \A n \in 1 .. Len(s) : s[n].to # h.to
  BY <1>2 DEF In
<1> QED
  BY <1>1, <1>2, <1>3 DEF DistinctTo

LEMMA InTail ==
    ASSUME NEW s \in Seq(Handler), s # <<>>, DistinctTo(s)
    PROVE  /\ Tail(s) \in Seq(Handler)
           /\ Head(s) \in Handler
           /\ In(s, Head(s))
           /\ DistinctTo(Tail(s))
           /\ \A g : In(Tail(s), g) => In(s, g) /\ g.to # Head(s).to
<1>1. /\ Len(s) \in Nat \ {0}
      /\ DOMAIN s = 1 .. Len(s)
      /\ Tail(s) \in Seq(Handler)
      /\ Head(s) \in Handler
      /\ Head(s) = s[1]
      /\ Len(Tail(s)) = Len(s) - 1
      /\ \A n \in 1 .. Len(Tail(s)) : Tail(s)[n] = s[n + 1]
  BY HeadTailProperties, LenProperties, EmptySeq
<1>2. DOMAIN Tail(s) = 1 .. Len(s) - 1
  BY <1>1, LenProperties
<1>3. \A n \in DOMAIN Tail(s) : n + 1 \in DOMAIN s /\ n + 1 # 1 /\ Tail(s)[n] = s[n + 1]
  BY <1>1, <1>2
<1>4. 1 \in DOMAIN s
  BY <1>1
<1>5. DistinctTo(Tail(s))
  <2> SUFFICES ASSUME NEW m \in DOMAIN Tail(s), NEW n \in DOMAIN Tail(s),
                      Tail(s)[m].to = Tail(s)[n].to
               PROVE  m = n
    BY DEF DistinctTo
  <2>1. m + 1 = n + 1
    BY <1>3 DEF DistinctTo
  <2> QED
    BY <1>2, <2>1
<1>6. ASSUME NEW g, In(Tail(s), g)
      PROVE  In(s, g) /\ g.to # Head(s).to
  <2>1. PICK n \in DOMAIN Tail(s) : Tail(s)[n] = g
    BY <1>6 DEF In
  <2>2. n + 1 \in DOMAIN s /\ n + 1 # 1 /\ s[n + 1] = g
    BY <1>3, <2>1
  <2> QED
    BY <1>1, <1>4, <2>2 DEF In, DistinctTo
<1> QED
  BY <1>1, <1>4, <1>5, <1>6 DEF In

LEMMA ShortLists ==
    ASSUME NEW h \in Handler, NEW g
    PROVE  /\ <<>> \in Seq(Handler)
           /\ <<h>> \in Seq(Handler)
           /\ DistinctTo(<<>>)
           /\ DistinctTo(<<h>>)
           /\ ~In(<<>>, g)
           /\ In(<<h>>, g) => g = h
<1>1. <<h>> \in Seq(Handler) /\ DOMAIN <<h>> = {1} /\ <<h>>[1] = h
  OBVIOUS
<1>2. <<>> \in Seq(Handler) /\ DOMAIN <<>> = {}
  OBVIOUS
<1> QED
  BY <1>1, <1>2 DEF DistinctTo, In

LEMMA HeldIsHandler ==
    ASSUME TypeOK, NEW v, NEW h, Held(v, h)
    PROVE  h \in Handler /\ h.to \in Promises
<1> SUFFICES h \in Handler
  BY DEF Handler
<1>1. ASSUME NEW s \in Seq(Handler), In(s, h)
      PROVE  h \in Handler
  BY <1>1, ElementOfSeq, LenProperties DEF In
<1>2. CASE \E p \in Promises : In(handlers[p], h)
  BY <1>1, <1>2 DEF TypeOK
<1>3. CASE \E l \in Loops : \E i \in DOMAIN jobs[l] : In(jobs[l][i].todo, h)
  <2>1. PICK l \in Loops : \E i \in DOMAIN jobs[l] : In(jobs[l][i].todo, h)
    BY <1>3
  <2>2. PICK i \in DOMAIN jobs[l] : In(jobs[l][i].todo, h)
    BY <2>1
  <2>3. jobs[l] \in Seq(Job)
    BY DEF TypeOK
  <2>4. jobs[l][i] \in Job
    BY <2>3, ElementOfSeq, LenProperties
  <2> QED
    BY <1>1, <2>2, <2>4 DEF Job
<1>4. CASE \E i \in DOMAIN stack : In(stack[i].job.todo, h)
  <2>1. PICK i \in DOMAIN stack : In(stack[i].job.todo, h)
    BY <1>4
  <2>2. stack[i] \in Frame
    BY ElementOfSeq, LenProperties DEF TypeOK
  <2> QED
    BY <1>1, <2>1, <2>2 DEF Frame, Job
<1> QED
  BY <1>2, <1>3, <1>4 DEF Held, Queued, Running

\* An index of a sequence, and what is found there.
LEMMA JobIsJob ==
    ASSUME TypeOK, NEW l \in Loops
    PROVE  /\ jobs[l] \in Seq(Job)
           /\ Len(jobs[l]) \in Nat
           /\ DOMAIN jobs[l] = 1 .. Len(jobs[l])
           /\ \A i \in DOMAIN jobs[l] :
                 /\ jobs[l][i] \in Job
                 /\ jobs[l][i].of \in Promises
                 /\ jobs[l][i].todo \in Seq(Handler)
<1>1. /\ jobs[l] \in Seq(Job)
      /\ Len(jobs[l]) \in Nat
      /\ DOMAIN jobs[l] = 1 .. Len(jobs[l])
  BY LenProperties DEF TypeOK
<1>2. \A i \in DOMAIN jobs[l] : jobs[l][i] \in Job
  BY <1>1, ElementOfSeq
<1> QED
  BY <1>1, <1>2 DEF Job

LEMMA FrameIsFrame ==
    ASSUME TypeOK
    PROVE  /\ Len(stack) \in Nat
           /\ DOMAIN stack = 1 .. Len(stack)
           /\ stack # <<>> => Len(stack) \in DOMAIN stack
           /\ \A i \in DOMAIN stack :
                 /\ stack[i] \in Frame
                 /\ stack[i].job \in Job
                 /\ stack[i].job.of \in Promises
                 /\ stack[i].job.todo \in Seq(Handler)
                 /\ stack[i].loop \in Loops
                 /\ stack[i].pc \in {"next", "busy", "caught"}
<1>1. /\ Len(stack) \in Nat
      /\ DOMAIN stack = 1 .. Len(stack)
      /\ stack # <<>> => Len(stack) \in DOMAIN stack
  BY LenProperties, EmptySeq DEF TypeOK
<1>2. \A i \in DOMAIN stack : stack[i] \in Frame
  BY <1>1, ElementOfSeq DEF TypeOK
<1> QED
  BY <1>1, <1>2 DEF Frame, Job

-----------------------------------------------------------------------------
(***************************************************************************)
(* What a step does to the queued handlers.                                *)
(***************************************************************************)
\* later() adds a job at the end of loop l.
Added(l, what, p, todo) ==
    /\ jobs' \in [Loops -> Seq(Job)]
    /\ \A m \in Loops : \A i \in DOMAIN jobs[m] :
          i \in DOMAIN jobs'[m] /\ jobs'[m][i] = jobs[m][i]
    /\ \A m \in Loops : \A i \in DOMAIN jobs'[m] :
          \/ i \in DOMAIN jobs[m]
          \/ /\ m = l /\ i = Len(jobs[l]) + 1
             /\ jobs'[m][i].what = what
             /\ jobs'[m][i].of = p
             /\ jobs'[m][i].todo = todo

LEMMA Scheduled ==
    ASSUME TypeOK, NEW l \in Loops, NEW what \in {"drain", "call", "report"},
           NEW p \in Promises, NEW todo \in Seq(Handler), Schedule(l, what, p, todo)
    PROVE  Added(l, what, p, todo)
<1> DEFINE j == [what |-> what, of |-> p, todo |-> todo]
<1>1. j \in Job /\ j.what = what /\ j.of = p /\ j.todo = todo
  BY DEF Job
<1>2. jobs' = [jobs EXCEPT ![l] = Append(jobs[l], j)]
  BY DEF Schedule
<1> HIDE DEF j
<1>3. /\ Append(jobs[l], j) \in Seq(Job)
      /\ Len(Append(jobs[l], j)) = Len(jobs[l]) + 1
      /\ Append(jobs[l], j)[Len(jobs[l]) + 1] = j
      /\ \A i \in 1 .. Len(jobs[l]) : Append(jobs[l], j)[i] = jobs[l][i]
  BY <1>1, JobIsJob, AppendProperties
<1>4. DOMAIN Append(jobs[l], j) = 1 .. Len(jobs[l]) + 1
  BY <1>3, LenProperties
<1>5. jobs' \in [Loops -> Seq(Job)]
  BY <1>2, <1>3 DEF TypeOK
<1>6. /\ jobs'[l] = Append(jobs[l], j)
      /\ \A m \in Loops : m # l => jobs'[m] = jobs[m]
  BY <1>2 DEF TypeOK
<1>7. Len(jobs[l]) \in Nat /\ DOMAIN jobs[l] = 1 .. Len(jobs[l])
  BY JobIsJob
<1>8. ASSUME NEW m \in Loops, NEW i \in DOMAIN jobs[m]
      PROVE  i \in DOMAIN jobs'[m] /\ jobs'[m][i] = jobs[m][i]
  <2>1. CASE m = l
    BY <1>3, <1>4, <1>6, <1>7, <2>1
  <2>2. CASE m # l
    BY <1>6, <2>2
  <2> QED
    BY <2>1, <2>2
<1>9. ASSUME NEW m \in Loops, NEW i \in DOMAIN jobs'[m], i \notin DOMAIN jobs[m]
      PROVE  m = l /\ i = Len(jobs[l]) + 1 /\ jobs'[m][i] = j
  <2>1. m = l
    BY <1>6, <1>9
  <2>2. i \in 1 .. Len(jobs[l]) + 1 /\ i \notin 1 .. Len(jobs[l])
    BY <1>4, <1>6, <1>7, <1>9, <2>1
  <2>3. i = Len(jobs[l]) + 1
    BY <1>7, <2>2
  <2> QED
    BY <1>3, <1>6, <2>1, <2>3
<1> QED
  BY <1>1, <1>5, <1>8, <1>9 DEF Added

\* A pending promise is settled: its list stays live, as the drain is scheduled.
LEMMA SettleQueued ==
    ASSUME TypeOK, ListsOK, JobsOK, NEW p \in Promises, NEW l \in Loops,
           NEW s \in {"fulfilled", "rejected"}, ~Settled(p), Settle(p, s, l)
    PROVE  /\ jobs' \in [Loops -> Seq(Job)]
           /\ handlers' \in [Promises -> Seq(Handler)]
           /\ state' \in [Promises -> {"pending", "fulfilled", "rejected"}]
           /\ Settled(p)'
           /\ \A q \in Promises : q # p => state'[q] = state[q]
           /\ \A v, h : Queued(v, h)' => Queued(v, h)
           /\ ListsOK' /\ JobsOK'
<1>1. /\ <<>> \in Seq(Handler)
      /\ DistinctTo(<<>>)
      /\ \A g : ~In(<<>>, g)
  BY DEF DistinctTo, In
<1>2. /\ state' = [state EXCEPT ![p] = s]
      /\ Schedule(l, "drain", p, <<>>)
      /\ handlers' = handlers
  BY DEF Settle, SetState
<1>3. Added(l, "drain", p, <<>>)
  BY <1>1, <1>2, Scheduled
<1>4. /\ state' \in [Promises -> {"pending", "fulfilled", "rejected"}]
      /\ state'[p] = s
      /\ \A q \in Promises : q # p => state'[q] = state[q]
  BY <1>2 DEF TypeOK
<1>5. Settled(p)' /\ \A q \in Promises : Settled(q) => state'[q] # "pending"
  BY <1>4 DEF Settled
<1>6. ASSUME NEW q \in Promises, Live(q)'
      PROVE  Live(q)
  <2>1. CASE q = p
    BY <2>1 DEF Live
  <2>2. CASE q # p
    <3>1. Settled(q)' <=> Settled(q)
      BY <1>4, <2>2 DEF Settled
    <3>2. DrainWaits(q)' => DrainWaits(q)
      BY <1>3, <2>2 DEF DrainWaits, Added
    <3> QED
      BY <1>6, <3>1, <3>2 DEF Live
  <2> QED
    BY <2>1, <2>2
<1>7. ASSUME NEW v, NEW h, Queued(v, h)'
      PROVE  Queued(v, h)
  <2>1. CASE \E q \in Promises : v = ListOf(q) /\ Live(q)' /\ In(handlers'[q], h)
    BY <1>2, <1>6, <2>1 DEF Queued
  <2>2. CASE \E m \in Loops : \E i \in DOMAIN jobs'[m] :
               v = JobAt(m, i) /\ In(jobs'[m][i].todo, h)
    BY <1>1, <1>3, <2>2 DEF Queued, Added
  <2> QED
    BY <1>7, <2>1, <2>2 DEF Queued
<1>8. JobsOK'
  <2>1. ASSUME NEW m \in Loops, NEW i \in DOMAIN jobs'[m]
        PROVE  state'[jobs'[m][i].of] # "pending" /\ DistinctTo(jobs'[m][i].todo)
    <3>1. CASE i \in DOMAIN jobs[m]
      <4>1. jobs'[m][i] = jobs[m][i] /\ jobs[m][i].of \in Promises
        BY <1>3, <3>1, JobIsJob DEF Added
      <4>2. Settled(jobs[m][i].of) /\ DistinctTo(jobs[m][i].todo)
        BY <3>1 DEF JobsOK
      <4> QED
        BY <1>5, <4>1, <4>2
    <3>2. CASE i \notin DOMAIN jobs[m]
      BY <1>1, <1>3, <1>4, <3>2 DEF Added
    <3> QED
      BY <3>1, <3>2
  <2>2. ASSUME NEW m \in Loops, NEW i \in DOMAIN jobs[m]
        PROVE  jobs'[m][i] = jobs[m][i] /\ jobs[m][i].of # p
    BY <1>3 DEF JobsOK, Added
  <2>3. ASSUME NEW m \in Loops, NEW n \in Loops,
               NEW i \in DOMAIN jobs'[m], NEW j \in DOMAIN jobs'[n],
               jobs'[m][i].what = "drain", jobs'[n][j].what = "drain",
               jobs'[m][i].of = jobs'[n][j].of
        PROVE  m = n /\ i = j
    <3>1. CASE i \in DOMAIN jobs[m] /\ j \in DOMAIN jobs[n]
      BY <2>2, <2>3, <3>1 DEF JobsOK
    <3>2. CASE i \notin DOMAIN jobs[m] \/ j \notin DOMAIN jobs[n]
      BY <1>3, <2>2, <2>3, <3>2 DEF Added
    <3> QED
      BY <3>1, <3>2
  <2>4. \A m \in Loops : \A i \in DOMAIN jobs'[m] :
           state'[jobs'[m][i].of] # "pending" /\ DistinctTo(jobs'[m][i].todo)
    BY <2>1
  <2> QED
    BY <2>3, <2>4 DEF JobsOK, Settled
<1>9. ListsOK' /\ handlers' \in [Promises -> Seq(Handler)]
  BY <1>2 DEF ListsOK, TypeOK
<1> QED
  BY <1>3, <1>4, <1>5, <1>7, <1>8, <1>9 DEF Added

\* The handler h0 joins those that wait, off the stack.
Joins(h0) ==
    /\ jobs' \in [Loops -> Seq(Job)]
    /\ handlers' \in [Promises -> Seq(Handler)]
    /\ \E v0 : /\ \A i : v0 # FrameAt(i)
              /\ \A v, h : Queued(v, h)' => Queued(v, h) \/ (v = v0 /\ h = h0)

\* A handler joins the list of a pending promise, or gets a job of its own.
LEMMA AttachQueued ==
    ASSUME TypeOK, ListsOK, JobsOK, NEW p \in Promises, NEW h0 \in Handler, NEW l \in Loops,
           \A v, h : Queued(v, h) => h.to # h0.to,
           Attach(p, h0, l), UNCHANGED state
    PROVE  Joins(h0) /\ ListsOK' /\ JobsOK'
<1>0. state' = state /\ \A q : Settled(q)' <=> Settled(q)
  BY DEF Settled
<1>1. CASE Settled(p)
  <2>1. /\ <<h0>> \in Seq(Handler)
        /\ DistinctTo(<<h0>>)
        /\ \A g : In(<<h0>>, g) => g = h0
    BY ShortLists
  <2>2. Schedule(l, "call", p, <<h0>>) /\ handlers' = handlers
    BY <1>1 DEF Attach
  <2>3. Added(l, "call", p, <<h0>>)
    BY <2>1, <2>2, Scheduled
  <2>4. PICK new : new = Len(jobs[l]) + 1
    OBVIOUS
  <2>5. \A q : DrainWaits(q)' => DrainWaits(q)
    BY <2>3 DEF DrainWaits, Added
  <2>6. ASSUME NEW v, NEW h, Queued(v, h)'
        PROVE  Queued(v, h) \/ (v = JobAt(l, new) /\ h = h0)
    <3>1. CASE \E q \in Promises : v = ListOf(q) /\ Live(q)' /\ In(handlers'[q], h)
      BY <1>0, <2>2, <2>5, <3>1 DEF Queued, Live
    <3>2. CASE \E m \in Loops : \E i \in DOMAIN jobs'[m] :
                 v = JobAt(m, i) /\ In(jobs'[m][i].todo, h)
      BY <2>1, <2>3, <2>4, <3>2 DEF Queued, Added
    <3> QED
      BY <2>6, <3>1, <3>2 DEF Queued
  <2>7. JobsOK'
    <3>1. ASSUME NEW m \in Loops, NEW i \in DOMAIN jobs'[m]
          PROVE  state[jobs'[m][i].of] # "pending" /\ DistinctTo(jobs'[m][i].todo)
      <4>1. CASE i \in DOMAIN jobs[m]
        <5>1. jobs'[m][i] = jobs[m][i]
          BY <2>3, <4>1 DEF Added
        <5> QED
          BY <4>1, <5>1 DEF JobsOK, Settled
      <4>2. CASE i \notin DOMAIN jobs[m]
        <5>1. jobs'[m][i].of = p /\ jobs'[m][i].todo = <<h0>>
          BY <2>3, <4>2 DEF Added
        <5> QED
          BY <1>1, <2>1, <5>1 DEF Settled
      <4> QED
        BY <4>1, <4>2
    <3>2. ASSUME NEW m \in Loops, NEW n \in Loops,
                 NEW i \in DOMAIN jobs'[m], NEW j \in DOMAIN jobs'[n],
                 jobs'[m][i].what = "drain", jobs'[n][j].what = "drain",
                 jobs'[m][i].of = jobs'[n][j].of
          PROVE  m = n /\ i = j
      BY <2>3, <3>2 DEF JobsOK, Added
    <3> QED
      BY <1>0, <3>1, <3>2 DEF JobsOK, Settled
  <2>8. ListsOK' /\ handlers' \in [Promises -> Seq(Handler)]
    BY <2>2 DEF ListsOK, TypeOK
  <2>9. \A i : JobAt(l, new) # FrameAt(i)
    BY PlacesDiffer
  <2>10. \E v0 : /\ \A i : v0 # FrameAt(i)
                /\ \A v, h : Queued(v, h)' => Queued(v, h) \/ (v = v0 /\ h = h0)
    BY <2>6, <2>9
  <2>11. jobs' \in [Loops -> Seq(Job)]
    BY <2>3 DEF Added
  <2> QED
    BY <2>7, <2>8, <2>10, <2>11 DEF Joins
<1>2. CASE ~Settled(p)
  <2>1. handlers' = [handlers EXCEPT ![p] = Append(handlers[p], h0)] /\ jobs' = jobs
    BY <1>2 DEF Attach
  <2>2. handlers[p] \in Seq(Handler) /\ Append(handlers[p], h0) \in Seq(Handler)
    BY AppendProperties DEF TypeOK
  <2>3. /\ handlers' \in [Promises -> Seq(Handler)]
        /\ handlers'[p] = Append(handlers[p], h0)
        /\ \A q \in Promises : q # p => handlers'[q] = handlers[q]
    BY <2>1, <2>2 DEF TypeOK
  <2>4. \A g : In(handlers[p], g) => g.to # h0.to
    BY <1>2 DEF Queued, Live
  <2>5. DistinctTo(handlers'[p])
    BY <2>2, <2>3, <2>4, DistinctAppend DEF ListsOK
  <2>6. ListsOK'
    BY <2>3, <2>5 DEF ListsOK
  <2>7. \A q : Live(q)' <=> Live(q)
    BY <1>0, <2>1 DEF Live, DrainWaits
  <2>8. ASSUME NEW v, NEW h, Queued(v, h)'
        PROVE  Queued(v, h) \/ (v = ListOf(p) /\ h = h0)
    <3>1. CASE \E q \in Promises : v = ListOf(q) /\ Live(q)' /\ In(handlers'[q], h)
      <4>1. PICK q \in Promises : v = ListOf(q) /\ Live(q) /\ In(handlers'[q], h)
        BY <2>7, <3>1
      <4>2. In(handlers[q], h) \/ (q = p /\ h = h0)
        BY <2>2, <2>3, <4>1, InAppend
      <4> QED
        BY <4>1, <4>2 DEF Queued
    <3>2. CASE \E m \in Loops : \E i \in DOMAIN jobs'[m] :
                 v = JobAt(m, i) /\ In(jobs'[m][i].todo, h)
      BY <2>1, <3>2 DEF Queued
    <3> QED
      BY <2>8, <3>1, <3>2 DEF Queued
  <2>9. JobsOK' /\ jobs' \in [Loops -> Seq(Job)]
    BY <1>0, <2>1 DEF JobsOK, TypeOK
  <2>10. \A i : ListOf(p) # FrameAt(i)
    BY PlacesDiffer
  <2> QED
    BY <2>3, <2>6, <2>8, <2>9, <2>10 DEF Joins
<1> QED
  BY <1>1, <1>2

-----------------------------------------------------------------------------
(***************************************************************************)
(* What a step does to the frames.                                         *)
(***************************************************************************)
\* The top frame becomes f, the others stay.
Retopped(f) ==
    /\ stack' \in Seq(Frame)
    /\ DOMAIN stack' = DOMAIN stack
    /\ Len(stack') = Len(stack)
    /\ stack'[Len(stack)] = f
    /\ \A i \in DOMAIN stack : i # Len(stack) => stack'[i] = stack[i]

LEMMA RetoppedStack ==
    ASSUME TypeOK, stack # <<>>, NEW f \in Frame,
           stack' = [stack EXCEPT ![Len(stack)] = f]
    PROVE  Retopped(f)
<1>1. Len(stack) \in 1 .. Len(stack) /\ DOMAIN stack = 1 .. Len(stack)
  BY FrameIsFrame
<1>2. /\ stack' \in Seq(Frame)
      /\ Len(stack') = Len(stack)
      /\ \A i \in 1 .. Len(stack) : stack'[i] = IF i = Len(stack) THEN f ELSE stack[i]
  BY <1>1, ExceptSeq DEF TypeOK
<1>3. DOMAIN stack' = 1 .. Len(stack)
  BY <1>2, LenProperties
<1> QED
  BY <1>1, <1>2, <1>3 DEF Retopped

\* A handler in place v is as far as it was.
SamePc(v, h) == (BusyAt(v, h)' <=> BusyAt(v, h)) /\ (CaughtAt(v, h)' <=> CaughtAt(v, h))

\* The next handler of the top frame.
LEMMA TopHandler ==
    ASSUME TypeOK, StackOK, stack # <<>>, Top.job.todo # <<>>
    PROVE  /\ Len(stack) \in DOMAIN stack
           /\ Top \in Frame /\ Top = stack[Len(stack)]
           /\ Top.job \in Job
           /\ Top.loop \in Loops
           /\ Of \in Promises /\ Of = Top.job.of
           /\ Top.job.todo \in Seq(Handler)
           /\ Tail(Top.job.todo) \in Seq(Handler)
           /\ NextHandler = Head(Top.job.todo)
           /\ NextHandler \in Handler
           /\ NextHandler.to \in Promises
           /\ In(Top.job.todo, NextHandler)
           /\ DistinctTo(Tail(Top.job.todo))
           /\ \A g : In(Tail(Top.job.todo), g) => In(Top.job.todo, g) /\ g.to # NextHandler.to
           /\ Running(FrameAt(Len(stack)), NextHandler)
           /\ BusyAt(FrameAt(Len(stack)), NextHandler) <=> Top.pc = "busy"
           /\ CaughtAt(FrameAt(Len(stack)), NextHandler) <=> Top.pc = "caught"
<1>1. /\ Len(stack) \in DOMAIN stack
      /\ Top \in Frame /\ Top = stack[Len(stack)]
      /\ Top.job \in Job
      /\ Top.loop \in Loops
      /\ Of \in Promises /\ Of = Top.job.of
      /\ Top.job.todo \in Seq(Handler)
      /\ DistinctTo(Top.job.todo)
      /\ NextHandler = Head(Top.job.todo)
  BY FrameIsFrame DEF Top, Of, NextHandler, StackOK
<1>2. /\ Tail(Top.job.todo) \in Seq(Handler)
      /\ NextHandler \in Handler
      /\ In(Top.job.todo, NextHandler)
      /\ DistinctTo(Tail(Top.job.todo))
      /\ \A g : In(Tail(Top.job.todo), g) => In(Top.job.todo, g) /\ g.to # NextHandler.to
  BY <1>1, InTail
<1>3. NextHandler.to \in Promises
  BY <1>2 DEF Handler
<1>4. Running(FrameAt(Len(stack)), NextHandler)
  BY <1>1, <1>2 DEF Running
<1>5. \A i \in DOMAIN stack : FrameAt(Len(stack)) = FrameAt(i) => i = Len(stack)
  BY PlacesDiffer
<1>6. /\ BusyAt(FrameAt(Len(stack)), NextHandler) <=> Top.pc = "busy"
      /\ CaughtAt(FrameAt(Len(stack)), NextHandler) <=> Top.pc = "caught"
  BY <1>1, <1>5 DEF BusyAt, CaughtAt
<1> QED
  BY <1>1, <1>2, <1>3, <1>4, <1>6

\* Frames that stay settled keep StackOK.
StaysSettled == \A p \in Promises : Settled(p) => state'[p] # "pending"

\* The job goes on behind its first handler.
LEMMA DoneStack ==
    ASSUME TypeOK, stack # <<>>, StackOK, Top.job.todo # <<>>, StaysSettled,
           stack' = [stack EXCEPT ![Len(stack)].job.todo = Tail(@),
                                  ![Len(stack)].pc = "next"]
    PROVE  /\ stack' \in Seq(Frame)
           /\ \A v, h : Running(v, h)' =>
                 /\ Running(v, h)
                 /\ v = FrameAt(Len(stack)) => h.to # NextHandler.to
                 /\ SamePc(v, h)
           /\ \A i \in DOMAIN stack' : /\ i \in DOMAIN stack
                                       /\ stack'[i].pc # "next" => stack'[i] = stack[i]
           /\ StackOK'
<1> DEFINE j == [Top.job EXCEPT !.todo = Tail(Top.job.todo)]
           f == [Top EXCEPT !.job = j, !.pc = "next"]
<1>1. /\ Len(stack) \in DOMAIN stack
      /\ Top \in Frame /\ Top = stack[Len(stack)]
      /\ Top.job \in Job
      /\ Top.job.of \in Promises
      /\ Tail(Top.job.todo) \in Seq(Handler)
      /\ DistinctTo(Tail(Top.job.todo))
      /\ NextHandler = Head(Top.job.todo)
      /\ \A g : In(Tail(Top.job.todo), g) => In(Top.job.todo, g) /\ g.to # NextHandler.to
  BY TopHandler
<1>2. j \in Job /\ j.todo = Tail(Top.job.todo) /\ j.of = Top.job.of /\ j.what = Top.job.what
  BY <1>1 DEF Job
<1>3. f \in Frame /\ f.job = j /\ f.pc = "next"
  <2> HIDE DEF j
  <2> QED
    BY <1>1, <1>2 DEF Frame
<1>4. stack' = [stack EXCEPT ![Len(stack)] = f]
  BY <1>1 DEF Top
<1> HIDE DEF f, j
<1>5. Retopped(f)
  BY <1>3, <1>4, RetoppedStack
<1>6. ASSUME NEW v, NEW h, Running(v, h)'
      PROVE  /\ Running(v, h)
             /\ v = FrameAt(Len(stack)) => h.to # NextHandler.to
             /\ SamePc(v, h)
  <2>1. PICK i \in DOMAIN stack : v = FrameAt(i) /\ In(stack'[i].job.todo, h)
    BY <1>5, <1>6 DEF Running, Retopped
  <2>2. /\ \A k \in DOMAIN stack : v = FrameAt(k) => k = i
        /\ DOMAIN stack' = DOMAIN stack
    BY <1>5, <2>1, PlacesDiffer DEF Retopped
  <2>3. CASE i = Len(stack)
    <3>1. In(Top.job.todo, h) /\ h.to # NextHandler.to
      BY <1>1, <1>2, <1>3, <1>5, <2>1, <2>3 DEF Retopped
    <3>2. Running(v, h)
      BY <1>1, <2>1, <2>3, <3>1 DEF Running
    <3>3. stack'[i].pc = "next" /\ h # Head(stack[i].job.todo)
      BY <1>1, <1>3, <1>5, <2>3, <3>1 DEF Retopped
    <3>4. SamePc(v, h)
      BY <2>2, <3>3 DEF SamePc, BusyAt, CaughtAt
    <3> QED
      BY <3>1, <3>2, <3>4
  <2>4. CASE i # Len(stack)
    <3>1. stack'[i] = stack[i]
      BY <1>5, <2>4 DEF Retopped
    <3>2. Running(v, h)
      BY <2>1, <3>1 DEF Running
    <3>3. SamePc(v, h)
      BY <2>1, <2>2, <3>1 DEF SamePc, BusyAt, CaughtAt
    <3> QED
      BY <1>1, <2>2, <2>4, <3>2, <3>3
  <2> QED
    BY <2>3, <2>4
<1>7. \A i \in DOMAIN stack' : /\ i \in DOMAIN stack
                               /\ stack'[i].pc # "next" => stack'[i] = stack[i]
  BY <1>3, <1>5 DEF Retopped
<1>8. StackOK'
  <2> SUFFICES ASSUME NEW i \in DOMAIN stack
               PROVE  /\ stack'[i].job.what \notin Calls => state'[stack'[i].job.of] # "pending"
                      /\ DistinctTo(stack'[i].job.todo)
                      /\ stack'[i].pc # "next" => stack'[i].job.todo # <<>>
    BY <1>5 DEF StackOK, Retopped, Settled
  <2>1. CASE i = Len(stack)
    BY <1>1, <1>2, <1>3, <1>5, <2>1 DEF Retopped, StackOK, StaysSettled
  <2>2. CASE i # Len(stack)
    <3>1. stack'[i] = stack[i] /\ stack[i].job.of \in Promises
      BY <1>5, <2>2, FrameIsFrame DEF Retopped
    <3> QED
      BY <3>1 DEF StackOK, StaysSettled
  <2> QED
    BY <2>1, <2>2
<1> QED
  BY <1>5, <1>6, <1>7, <1>8 DEF Retopped

\* The first handler of the top frame starts, or fails.
LEMMA PcStack ==
    ASSUME TypeOK, stack # <<>>, StackOK, Top.job.todo # <<>>, StaysSettled,
           NEW c \in {"busy", "caught"}, NEW w, w = FrameAt(Len(stack)),
           NEW g, g = NextHandler,
           stack' = [stack EXCEPT ![Len(stack)].pc = c]
    PROVE  /\ stack' \in Seq(Frame)
           /\ DOMAIN stack' = DOMAIN stack
           /\ Len(stack') = Len(stack)
           /\ \A i \in DOMAIN stack : /\ stack'[i].job = stack[i].job
                                      /\ stack'[i].loop = stack[i].loop
                                      /\ stack'[i].pc = IF i = Len(stack) THEN c ELSE stack[i].pc
           /\ \A v, h : Running(v, h)' => Running(v, h)
           /\ \A v, h : h # g => SamePc(v, h)
           /\ BusyAt(w, g)' <=> c = "busy"
           /\ CaughtAt(w, g)' <=> c = "caught"
           /\ StackOK'
<1> DEFINE f == [Top EXCEPT !.pc = c]
<1>1. /\ Len(stack) \in DOMAIN stack
      /\ Top \in Frame /\ Top = stack[Len(stack)]
      /\ NextHandler = Head(Top.job.todo)
  BY TopHandler
<1>2. f \in Frame /\ f.job = Top.job /\ f.loop = Top.loop /\ f.pc = c
  BY <1>1 DEF Frame
<1>3. stack' = [stack EXCEPT ![Len(stack)] = f]
  BY <1>1 DEF Top
<1> HIDE DEF f
<1>4. Retopped(f)
  BY <1>2, <1>3, RetoppedStack
<1>5. \A i \in DOMAIN stack : /\ stack'[i].job = stack[i].job
                              /\ stack'[i].loop = stack[i].loop
                              /\ stack'[i].pc = IF i = Len(stack) THEN c ELSE stack[i].pc
  BY <1>1, <1>2, <1>4 DEF Retopped
<1>6. DOMAIN stack' = DOMAIN stack /\ Len(stack') = Len(stack) /\ stack' \in Seq(Frame)
  BY <1>4 DEF Retopped
<1>7. \A v, h : Running(v, h)' => Running(v, h)
  BY <1>5, <1>6 DEF Running
<1>8. ASSUME NEW v, NEW h, h # g
      PROVE  SamePc(v, h)
  <2>1. BusyAt(v, h)' <=> BusyAt(v, h)
    BY <1>1, <1>5, <1>6, <1>8 DEF BusyAt
  <2>2. CaughtAt(v, h)' <=> CaughtAt(v, h)
    BY <1>1, <1>5, <1>6, <1>8 DEF CaughtAt
  <2> QED
    BY <2>1, <2>2 DEF SamePc
<1>9. /\ BusyAt(w, g)' <=> c = "busy"
      /\ CaughtAt(w, g)' <=> c = "caught"
  <2>1. PICK n : n = Len(stack)
    OBVIOUS
  <2>2. /\ n \in DOMAIN stack' /\ stack'[n].pc = c /\ g = Head(stack'[n].job.todo)
        /\ w = FrameAt(n)
        /\ \A i \in DOMAIN stack' : w = FrameAt(i) => i = n
    BY <1>1, <1>5, <1>6, <2>1, PlacesDiffer
  <2> QED
    BY <2>2 DEF BusyAt, CaughtAt
<1>10. StackOK'
  <2> SUFFICES ASSUME NEW i \in DOMAIN stack
               PROVE  /\ stack'[i].job.what \notin Calls => state'[stack'[i].job.of] # "pending"
                      /\ DistinctTo(stack'[i].job.todo)
                      /\ stack'[i].pc # "next" => stack'[i].job.todo # <<>>
    BY <1>6 DEF StackOK, Settled
  <2>1. stack[i].job.of \in Promises
    BY FrameIsFrame
  <2> QED
    BY <1>1, <1>5, <2>1 DEF StackOK, StaysSettled
<1> QED
  BY <1>5, <1>6, <1>7, <1>8, <1>9, <1>10

\* Frames are dropped from the top.
LEMMA CutStack ==
    ASSUME TypeOK, StackOK, StaysSettled, NEW k \in 0 .. Len(stack) - 1,
           stack' = SubSeq(stack, 1, k)
    PROVE  /\ stack' \in Seq(Frame)
           /\ \A v, h : Running(v, h)' =>
                 Running(v, h) /\ v # FrameAt(Len(stack)) /\ SamePc(v, h)
           /\ \A i \in DOMAIN stack' :
                 i \in DOMAIN stack /\ i # Len(stack) /\ stack'[i] = stack[i]
           /\ StackOK'
<1>1. Len(stack) \in Nat /\ DOMAIN stack = 1 .. Len(stack)
  BY FrameIsFrame
<1>2. /\ stack' \in Seq(Frame)
      /\ Len(stack') = k
      /\ \A i \in 1 .. k : stack'[i] = stack[i]
  BY <1>1, SubSeqProperties DEF TypeOK
<1>3. DOMAIN stack' = 1 .. k
  BY <1>2, LenProperties
<1>4. \A i \in DOMAIN stack' : i \in DOMAIN stack /\ i # Len(stack) /\ stack'[i] = stack[i]
  BY <1>1, <1>2, <1>3
<1>5. ASSUME NEW v, NEW h, Running(v, h)'
      PROVE  Running(v, h) /\ v # FrameAt(Len(stack)) /\ SamePc(v, h)
  <2>1. PICK i \in DOMAIN stack' : v = FrameAt(i) /\ In(stack'[i].job.todo, h)
    BY <1>5 DEF Running
  <2>2. i \in DOMAIN stack /\ i # Len(stack) /\ stack'[i] = stack[i]
    BY <1>4
  <2>3. \A n : v = FrameAt(n) => n = i
    BY <2>1, PlacesDiffer
  <2>4. SamePc(v, h)
    BY <2>1, <2>2, <2>3 DEF SamePc, BusyAt, CaughtAt
  <2> QED
    BY <2>1, <2>2, <2>3, <2>4 DEF Running
<1>6. StackOK'
  <2> SUFFICES ASSUME NEW i \in DOMAIN stack'
               PROVE  /\ stack'[i].job.what \notin Calls => state'[stack'[i].job.of] # "pending"
                      /\ DistinctTo(stack'[i].job.todo)
                      /\ stack'[i].pc # "next" => stack'[i].job.todo # <<>>
    BY DEF StackOK, Settled
  <2>1. i \in DOMAIN stack /\ stack'[i] = stack[i] /\ stack[i].job.of \in Promises
    BY <1>4, FrameIsFrame
  <2> QED
    BY <2>1 DEF StackOK, StaysSettled
<1> QED
  BY <1>2, <1>4, <1>5, <1>6

\* The frame f is put on top.
LEMMA PushStack ==
    ASSUME TypeOK, StackOK, UNCHANGED state, NEW f \in Frame,
           NEW n, n = Len(stack) + 1, stack' = Append(stack, f),
           f.job.what \notin Calls => Settled(f.job.of),
           DistinctTo(f.job.todo),
           f.pc # "next" => f.job.todo # <<>>
    PROVE  /\ Len(stack) \in Nat
           /\ DOMAIN stack = 1 .. Len(stack)
           /\ stack' \in Seq(Frame)
           /\ DOMAIN stack' = 1 .. Len(stack) + 1
           /\ stack'[n] = f
           /\ \A i \in DOMAIN stack : i \in DOMAIN stack' /\ stack'[i] = stack[i]
           /\ \A v, h : Running(v, h)' =>
                 \/ Running(v, h) /\ v # FrameAt(n) /\ SamePc(v, h)
                 \/ v = FrameAt(n) /\ In(f.job.todo, h)
           /\ \A h : BusyAt(FrameAt(n), h)' <=> (f.pc = "busy" /\ h = Head(f.job.todo))
           /\ \A h : CaughtAt(FrameAt(n), h)' <=> (f.pc = "caught" /\ h = Head(f.job.todo))
           /\ StackOK'
<1>1. Len(stack) \in Nat /\ DOMAIN stack = 1 .. Len(stack)
  BY FrameIsFrame
<1>2. /\ stack' \in Seq(Frame)
      /\ Len(stack') = Len(stack) + 1
      /\ stack'[Len(stack) + 1] = f
      /\ \A i \in 1 .. Len(stack) : stack'[i] = stack[i]
  BY AppendProperties DEF TypeOK
<1>3. DOMAIN stack' = 1 .. Len(stack) + 1
  BY <1>2, LenProperties
<1>4. \A i \in DOMAIN stack : i \in DOMAIN stack' /\ stack'[i] = stack[i]
  BY <1>1, <1>2, <1>3
<1>5. /\ n \in DOMAIN stack' /\ n \notin DOMAIN stack /\ stack'[n] = f
      /\ \A i \in DOMAIN stack' : i \in DOMAIN stack \/ i = n
  BY <1>1, <1>2, <1>3
<1>6. ASSUME NEW v, NEW h, Running(v, h)'
      PROVE  \/ Running(v, h) /\ v # FrameAt(n) /\ SamePc(v, h)
             \/ v = FrameAt(n) /\ In(f.job.todo, h)
  <2>1. PICK i \in DOMAIN stack' : v = FrameAt(i) /\ In(stack'[i].job.todo, h)
    BY <1>6 DEF Running
  <2>2. \A k : v = FrameAt(k) => k = i
    BY <2>1, PlacesDiffer
  <2>3. CASE i = n
    BY <1>5, <2>1, <2>3
  <2>4. CASE i \in DOMAIN stack
    <3>1. stack'[i] = stack[i]
      BY <1>4, <2>4
    <3>2. SamePc(v, h)
      BY <2>1, <2>2, <2>4, <3>1 DEF SamePc, BusyAt, CaughtAt
    <3> QED
      BY <1>5, <2>1, <2>2, <2>4, <3>1, <3>2 DEF Running
  <2> QED
    BY <1>5, <2>3, <2>4
<1>7. ASSUME NEW h
      PROVE  /\ BusyAt(FrameAt(n), h)' <=> (f.pc = "busy" /\ h = Head(f.job.todo))
             /\ CaughtAt(FrameAt(n), h)' <=> (f.pc = "caught" /\ h = Head(f.job.todo))
  <2>1. \A i \in DOMAIN stack' : FrameAt(n) = FrameAt(i) => i = n
    BY PlacesDiffer
  <2> QED
    BY <1>5, <2>1 DEF BusyAt, CaughtAt
<1>8. StackOK'
  <2> SUFFICES ASSUME NEW i \in DOMAIN stack'
               PROVE  /\ stack'[i].job.what \notin Calls => state[stack'[i].job.of] # "pending"
                      /\ DistinctTo(stack'[i].job.todo)
                      /\ stack'[i].pc # "next" => stack'[i].job.todo # <<>>
    BY DEF StackOK, Settled
  <2>1. CASE i \in DOMAIN stack
    BY <1>4, <2>1 DEF StackOK, Settled
  <2>2. CASE i = n
    BY <1>5, <2>2 DEF Settled
  <2> QED
    BY <1>5, <2>1, <2>2
<1> QED
  BY <1>1, <1>2, <1>3, <1>4, <1>5, <1>6, <1>7, <1>8

-----------------------------------------------------------------------------
(***************************************************************************)
(* What follows for the handlers that wait.                                *)
(***************************************************************************)
\* Nothing changes but for the promise t.
OthersSame(t) ==
    /\ \A q \in Promises : q # t => state'[q] = state[q] /\ called'[q] = called[q]
    /\ \A g \in Handler : g.to # t => starts'[g] = starts[g]
    /\ Known \subseteq Known'
    /\ \A q \in Known : q \in given' => q \in given

LEMMA OtherToken ==
    ASSUME NEW t, OthersSame(t), NEW v, NEW w, NEW h, TokenOK(w, h),
           h.to \in Promises, h.to # t,
           BusyAt(v, h)' <=> BusyAt(w, h),
           CaughtAt(v, h)' <=> CaughtAt(w, h)
    PROVE  TokenOK(v, h)'
<1>1. Begun(v, h)' <=> Begun(w, h)
  BY DEF Begun
<1>2. NoChain(h.to) => NoChain(h.to)'
  BY DEF OthersSame, NoChain
<1>3. state'[h.to] = state[h.to] /\ called'[h.to] = called[h.to]
  BY DEF OthersSame
<1>4. h.to \in Known /\ h.to \in Known' /\ (h.to \in given' => h.to \in given)
  BY DEF OthersSame, TokenOK
<1> QED
  BY <1>1, <1>2, <1>3, <1>4 DEF TokenOK, Settled

\* The handler h0 comes to v0, or is there and begins, and the flags of its
\* promise change; the others stay where they are.
LEMMA OneTokenChanges ==
    ASSUME TypeOK, Unique, TokensOK, NEW v0, NEW h0, NEW t,
           \A v, h : Held(v, h)' => (Held(v, h) /\ h.to # t) \/ (v = v0 /\ h = h0),
           h0.to = t,
           TokenOK(v0, h0)',
           \A v, h : Held(v, h)' /\ h.to # t => SamePc(v, h),
           OthersSame(t)
    PROVE  Unique' /\ TokensOK'
<1>1. Unique'
  BY DEF Unique
<1>2. ASSUME NEW v, NEW h, Held(v, h)', h.to # t
      PROVE  TokenOK(v, h)'
  <2>1. Held(v, h) /\ h.to \in Promises /\ TokenOK(v, h)
    BY <1>2, HeldIsHandler DEF TokensOK
  <2> QED
    BY <1>2, <2>1, OtherToken DEF SamePc
<1>3. TokensOK'
  BY <1>2 DEF TokensOK
<1> QED
  BY <1>1, <1>3

\* No handler comes; those of the promise t are gone.
LEMMA OneTokenGoes ==
    ASSUME TypeOK, Unique, TokensOK, NEW t,
           \A v, h : Held(v, h)' => Held(v, h) /\ h.to # t /\ SamePc(v, h),
           OthersSame(t)
    PROVE  Unique' /\ TokensOK'
<1>1. Unique'
  BY DEF Unique
<1>2. ASSUME NEW v, NEW h, Held(v, h)'
      PROVE  TokenOK(v, h)'
  <2>1. Held(v, h) /\ h.to \in Promises /\ TokenOK(v, h) /\ h.to # t
    BY <1>2, HeldIsHandler DEF TokensOK
  <2> QED
    BY <1>2, <2>1, OtherToken DEF SamePc
<1> QED
  BY <1>1, <1>2 DEF TokensOK

LEMMA QueuedOffStack ==
    ASSUME NEW v, NEW h, Queued(v, h)
    PROVE  /\ \A i : v # FrameAt(i)
           /\ ~BusyAt(v, h) /\ ~CaughtAt(v, h)
BY PlacesDiffer DEF Queued, BusyAt, CaughtAt

LEMMA QueuedOffStackNext ==
    ASSUME NEW v, NEW h, Queued(v, h)'
    PROVE  /\ \A i : v # FrameAt(i)
           /\ ~BusyAt(v, h)' /\ ~CaughtAt(v, h)'
           /\ SamePc(v, h)
BY PlacesDiffer DEF Queued, SamePc, BusyAt, CaughtAt

LEMMA KnownPromises ==
    ASSUME TypeOK
    PROVE  count \in Nat /\ Known \subseteq Promises /\ given \subseteq Known /\ 0 \notin Promises
BY PromiseAssumption DEF TypeOK, Known, Promises

\* A pending promise p, for which no handler waits any more, is resolved: it is
\* settled, or a chain will settle it.
LEMMA ResolvedTokens ==
    ASSUME TypeOK, ListsOK, JobsOK, StateOK, Unique, TokensOK,
           NEW p \in Known, NEW l \in Loops, ~Settled(p), called[p],
           \A v, h : Queued(v, h) => h.to # p,
           \A v, h : Running(v, h)' => Running(v, h) /\ h.to # p /\ SamePc(v, h),
           UNCHANGED <<count, given, called, starts>>,
           \/ \E s \in {"fulfilled", "rejected"} : Settle(p, s, l)
           \/ /\ NoChain(p)
              /\ \E r \in Promises, kind \in Chains :
                    Attach(r, [to |-> p, kind |-> kind], l) /\ UNCHANGED state
    PROVE  /\ jobs' \in [Loops -> Seq(Job)]
           /\ handlers' \in [Promises -> Seq(Handler)]
           /\ state' \in [Promises -> {"pending", "fulfilled", "rejected"}]
           /\ \A q \in Promises : Settled(q) => state'[q] = state[q]
           /\ ListsOK' /\ JobsOK' /\ StateOK' /\ Unique' /\ TokensOK'
<1>1. p \in Promises /\ Known \subseteq Promises /\ Known' = Known
  BY KnownPromises DEF Known
<1>2. CASE \E s \in {"fulfilled", "rejected"} : Settle(p, s, l)
  <2>1. PICK s \in {"fulfilled", "rejected"} : Settle(p, s, l)
    BY <1>2
  <2>2. /\ jobs' \in [Loops -> Seq(Job)]
        /\ handlers' \in [Promises -> Seq(Handler)]
        /\ state' \in [Promises -> {"pending", "fulfilled", "rejected"}]
        /\ \A q \in Promises : q # p => state'[q] = state[q]
        /\ \A v, h : Queued(v, h)' => Queued(v, h)
        /\ ListsOK' /\ JobsOK'
    BY <1>1, <2>1, SettleQueued
  <2>3. \A q \in Promises : Settled(q) => state'[q] = state[q]
    BY <2>2
  <2>4. StateOK'
    BY <1>1, <2>2 DEF StateOK, Settled
  <2>5. \A v, h : Held(v, h)' => Held(v, h) /\ h.to # p /\ SamePc(v, h)
    BY <2>2, QueuedOffStackNext DEF Held
  <2>6. OthersSame(p)
    BY <1>1, <2>2 DEF OthersSame
  <2>7. Unique' /\ TokensOK'
    BY <2>5, <2>6, OneTokenGoes
  <2> QED
    BY <2>2, <2>3, <2>4, <2>7
<1>3. CASE /\ NoChain(p)
           /\ \E r \in Promises, kind \in Chains :
                 Attach(r, [to |-> p, kind |-> kind], l) /\ UNCHANGED state
  <2>1. PICK r \in Promises, kind \in Chains :
                 Attach(r, [to |-> p, kind |-> kind], l) /\ UNCHANGED state
    BY <1>3
  <2> DEFINE h0 == [to |-> p, kind |-> kind]
  <2>2. h0 \in Handler /\ h0.to = p /\ h0.kind \in Chains
    BY <1>1 DEF Handler
  <2>3. Attach(r, h0, l) /\ UNCHANGED state
    BY <2>1
  <2> HIDE DEF h0
  <2>4. Joins(h0) /\ ListsOK' /\ JobsOK'
    BY <2>2, <2>3, AttachQueued
  <2>5. PICK v0 : /\ \A i : v0 # FrameAt(i)
                  /\ \A v, h : Queued(v, h)' => Queued(v, h) \/ (v = v0 /\ h = h0)
    BY <2>4 DEF Joins
  <2>6. state' = state /\ state \in [Promises -> {"pending", "fulfilled", "rejected"}]
    BY <2>3 DEF TypeOK
  <2>7. StateOK'
    BY <1>1, <2>6 DEF StateOK, Settled
  <2>8. \A v, h : Held(v, h)' => (Held(v, h) /\ h.to # p) \/ (v = v0 /\ h = h0)
    BY <2>5 DEF Held
  <2>9. \A v, h : Held(v, h)' => SamePc(v, h)
    BY QueuedOffStackNext DEF Held
  <2>10. ~Begun(v0, h0)'
    BY <2>5 DEF Begun, BusyAt, CaughtAt
  <2>11. NoChain(p)'
    BY <1>3 DEF NoChain
  <2>12. h0.kind \notin Kinds /\ h0.kind # "self"
    BY <2>2 DEF Chains, Kinds
  <2>13. TokenOK(v0, h0)'
    BY <1>1, <2>2, <2>6, <2>10, <2>11, <2>12 DEF TokenOK, Settled
  <2>14. OthersSame(p)
    BY <1>1, <2>6 DEF OthersSame
  <2>15. Unique' /\ TokensOK'
    BY <2>2, <2>8, <2>9, <2>13, <2>14, OneTokenChanges
  <2> QED
    BY <2>4, <2>6, <2>7, <2>15 DEF Joins
<1> QED
  BY <1>2, <1>3

\* The flags of a handler that has been called stay.
LEMMA StartsKept ==
    ASSUME TypeOK, StartsOK, UNCHANGED starts, \A q \in Promises : called[q] => called'[q]
    PROVE  StartsOK'
<1>1. \A h \in Handler : h.to \in Promises
  BY DEF Handler
<1> QED
  BY <1>1 DEF StartsOK

LEMMA StackSame ==
    ASSUME UNCHANGED stack
    PROVE  /\ \A v, h : Running(v, h)' <=> Running(v, h)
           /\ \A v, h : SamePc(v, h)
BY DEF Running, SamePc, BusyAt, CaughtAt

LEMMA StackStays ==
    ASSUME TypeOK, StackOK, UNCHANGED stack, StaysSettled
    PROVE  StackOK'
<1>1. \A i \in DOMAIN stack : stack[i].job.of \in Promises
  BY FrameIsFrame
<1> QED
  BY <1>1 DEF StackOK, StaysSettled, Settled

\* The frames in which later() has failed: none, if R code runs.
NoneCaught == \A i \in DOMAIN stack : stack[i].pc # "caught"

LEMMA NobodyCaught ==
    ASSUME TypeOK, CaughtOK, UserCode \/ OnTop("next") \/ OnTop("busy")
    PROVE  NoneCaught
<1>1. stack = <<>> \/ (stack # <<>> /\ Top.pc # "caught")
  BY DEF UserCode, OnTop
<1>2. DOMAIN stack = 1 .. Len(stack) /\ (stack = <<>> => DOMAIN stack = {})
  BY FrameIsFrame
<1> QED
  BY <1>1, <1>2 DEF NoneCaught, CaughtOK, Top

LEMMA StaysUncaught ==
    ASSUME NoneCaught,
           \A i \in DOMAIN stack' :
              stack'[i].pc # "caught" \/ (i \in DOMAIN stack /\ stack'[i].pc = stack[i].pc)
    PROVE  CaughtOK'
BY DEF NoneCaught, CaughtOK

-----------------------------------------------------------------------------
(***************************************************************************)
(* Each step keeps the invariant, and all but one settle pending promises  *)
(* only.                                                                   *)
(***************************************************************************)
OnlyPendingSettle == \A p \in Promises : Settled(p) => state'[p] = state[p]

LEMMA PendingSettle ==
    ASSUME TypeOK, OnlyPendingSettle
    PROVE  StaysSettled
BY DEF OnlyPendingSettle, StaysSettled, Settled

LEMMA InvInit == Init => PromiseInv
<1> SUFFICES ASSUME Init PROVE PromiseInv
  OBVIOUS
<1>1. stack \in Seq(Frame) /\ Len(stack) = 0 /\ DOMAIN stack = {}
  BY DEF Init
<1>2. <<>> \in Seq(Job) /\ <<>> \in Seq(Handler) /\ DOMAIN <<>> = {}
  OBVIOUS
<1>3. TypeOK
  BY <1>1, <1>2, PromiseAssumption DEF Init, TypeOK
<1>4. \A l \in Loops : DOMAIN jobs[l] = {}
  BY <1>2 DEF Init
<1>5. \A p \in Promises : DOMAIN handlers[p] = {}
  BY <1>2 DEF Init
<1>6. ~\E v, h : Held(v, h)
  BY <1>1, <1>4, <1>5 DEF Held, Queued, Running, In
<1>7. Unique /\ TokensOK
  BY <1>6 DEF Unique, TokensOK
<1>8. ListsOK /\ JobsOK /\ StackOK /\ CaughtOK
  BY <1>1, <1>4, <1>5 DEF ListsOK, JobsOK, StackOK, CaughtOK, DistinctTo
<1>9. StateOK
  BY DEF Init, StateOK, Settled
<1>10. StartsOK
  BY DEF Init, StartsOK
<1> QED
  BY <1>3, <1>7, <1>8, <1>9, <1>10 DEF PromiseInv

LEMMA NewPromiseKeeps ==
    ASSUME PromiseInv, NewPromise
    PROVE  PromiseInv' /\ OnlyPendingSettle
<1>1. /\ TypeOK /\ ListsOK /\ JobsOK /\ StackOK /\ StateOK /\ StartsOK /\ Unique /\ TokensOK
      /\ CaughtOK /\ UserCode
      /\ UNCHANGED <<state, called, handlers, handled, jobs, lost, stack, starts, dropped, cut,
                     reported>>
      /\ count' = count + 1
      /\ given' = given \cup {count + 1}
  BY DEF PromiseInv, NewPromise, ghostVars
<1>2. /\ count \in Nat
      /\ count' \in 0 .. MaxPromise
      /\ Known \subseteq Known'
      /\ \A q \in Known : q \in given' => q \in given
      /\ given' \subseteq Known'
  BY <1>1, PromiseAssumption DEF NewPromise, TypeOK, Known
<1>3. TypeOK'
  BY <1>1, <1>2 DEF TypeOK, Known
<1>4. \A v, h : Held(v, h)' <=> Held(v, h)
  BY <1>1 DEF Held, Queued, Running, Live, DrainWaits, Settled
<1>5. \A v, h : SamePc(v, h)
  BY <1>1, StackSame
<1>6. \A v, h : Held(v, h) => h.to # 0
  BY <1>1, HeldIsHandler, KnownPromises
<1>7. OthersSame(0)
  BY <1>1, <1>2 DEF OthersSame
<1>8. Unique' /\ TokensOK'
  BY <1>1, <1>4, <1>5, <1>6, <1>7, OneTokenGoes
<1>9. ListsOK' /\ JobsOK' /\ StackOK' /\ StartsOK'
  BY <1>1 DEF ListsOK, JobsOK, StackOK, StartsOK, Settled
<1>10. CaughtOK'
  BY <1>1, NobodyCaught, StaysUncaught
<1>11. StateOK'
  BY <1>1, <1>2 DEF StateOK, Settled
<1> QED
  BY <1>1, <1>3, <1>8, <1>9, <1>10, <1>11 DEF PromiseInv, OnlyPendingSettle

LEMMA ThenKeeps ==
    ASSUME PromiseInv, NEW p \in Known, NEW kind \in Kinds, NEW l \in Loops, Then(p, kind, l)
    PROVE  PromiseInv' /\ OnlyPendingSettle
<1> DEFINE h0 == [to |-> count + 1, kind |-> kind]
<1>1. /\ TypeOK /\ ListsOK /\ JobsOK /\ StackOK /\ StateOK /\ StartsOK /\ Unique /\ TokensOK
      /\ CaughtOK /\ UserCode
      /\ UNCHANGED <<given, state, called, handled, lost, stack, starts, dropped, cut, reported>>
      /\ count' = count + 1
      /\ Attach(p, h0, l)
  BY DEF PromiseInv, Then, ghostVars
<1>2. /\ count \in Nat
      /\ count' \in 0 .. MaxPromise
      /\ p \in Promises
      /\ count + 1 \in Promises /\ count + 1 \notin Known /\ count + 1 \in Known'
      /\ Known \subseteq Known'
      /\ given \subseteq Known
  BY <1>1, PromiseAssumption DEF Then, TypeOK, Known, Promises
<1>3. PICK t : t = count + 1
  OBVIOUS
<1>4. h0 \in Handler /\ h0.to = t /\ h0.kind = kind
  BY <1>2, <1>3 DEF Handler
<1>5. PICK g : g = h0
  OBVIOUS
<1> HIDE DEF h0
<1>6. \A v, h : Held(v, h) => h.to # t
  BY <1>1, <1>2, <1>3 DEF TokensOK, TokenOK
<1>7. Joins(g) /\ ListsOK' /\ JobsOK'
  BY <1>1, <1>2, <1>4, <1>5, <1>6, AttachQueued DEF Held
<1>8. PICK v0 : /\ \A i : v0 # FrameAt(i)
                /\ \A v, h : Queued(v, h)' => Queued(v, h) \/ (v = v0 /\ h = g)
  BY <1>7 DEF Joins
<1>9. /\ \A v, h : Running(v, h)' <=> Running(v, h)
      /\ \A v, h : SamePc(v, h)
  BY <1>1, StackSame
<1>10. \A v, h : Held(v, h)' => (Held(v, h) /\ h.to # t) \/ (v = v0 /\ h = g)
  BY <1>6, <1>8, <1>9 DEF Held
<1>11. TokenOK(v0, g)'
  <2>1. ~called[t] /\ ~Settled(t)
    BY <1>1, <1>2, <1>3 DEF StateOK
  <2>2. ~Begun(v0, g)'
    BY <1>8 DEF Begun, BusyAt, CaughtAt
  <2>3. NoChain(t)'
    <3>1. \A h \in Handler : h.to = t => starts[h] \in Nat /\ ~(starts[h] > 0)
      BY <1>1, <2>1 DEF StartsOK, TypeOK
    <3> QED
      BY <1>1, <3>1 DEF NoChain
  <2>4. kind # "self"
    BY DEF Kinds
  <2> QED
    BY <1>1, <1>2, <1>3, <1>4, <1>5, <2>1, <2>2, <2>3, <2>4 DEF TokenOK, Settled
<1>12. OthersSame(t)
  BY <1>1, <1>2 DEF OthersSame
<1>13. Unique' /\ TokensOK'
  BY <1>1, <1>4, <1>5, <1>9, <1>10, <1>11, <1>12, OneTokenChanges
<1>14. OnlyPendingSettle
  BY <1>1 DEF OnlyPendingSettle
<1>15. StackOK' /\ StartsOK'
  BY <1>1, <1>14, PendingSettle, StackStays, StartsKept
<1>16. CaughtOK'
  BY <1>1, NobodyCaught, StaysUncaught
<1>17. StateOK'
  BY <1>1, <1>2 DEF StateOK, Settled
<1>18. TypeOK'
  BY <1>1, <1>2, <1>7 DEF TypeOK, Known, Joins
<1> QED
  BY <1>7, <1>13, <1>14, <1>15, <1>16, <1>17, <1>18 DEF PromiseInv

LEMMA CalledNext ==
    ASSUME TypeOK, NEW t \in Promises, called' = [called EXCEPT ![t] = TRUE]
    PROVE  /\ called' \in [Promises -> BOOLEAN]
           /\ called'[t]
           /\ \A q \in Promises : q # t => called'[q] = called[q]
           /\ \A q \in Promises : called[q] => called'[q]
BY DEF TypeOK

\* The call of resolve() or reject() begins, for a promise that nobody else is
\* to settle.
LEMMA ResolveKeeps ==
    ASSUME PromiseInv, NEW p \in given, NEW what \in Calls, NEW l \in Loops,
           Resolve(p, what, l)
    PROVE  PromiseInv' /\ OnlyPendingSettle
<1> DEFINE h0 == [to |-> p, kind |-> "self"]
           j == [what |-> what, of |-> p, todo |-> <<h0>>]
           f == [job |-> j, loop |-> l, pc |-> "busy"]
<1>1. /\ TypeOK /\ ListsOK /\ JobsOK /\ StackOK /\ StateOK /\ StartsOK /\ Unique /\ TokensOK
      /\ CaughtOK /\ UserCode
      /\ UNCHANGED <<count, given, handled, state, handlers, jobs, lost, starts, dropped, cut,
                     reported>>
      /\ ~called[p]
      /\ called' = [called EXCEPT ![p] = TRUE]
      /\ stack' = Append(stack, f)
  BY DEF PromiseInv, Resolve, Push, ghostVars
<1>2. p \in Known /\ p \in Promises
  BY <1>1, KnownPromises
<1>3. /\ called' \in [Promises -> BOOLEAN]
      /\ called'[p]
      /\ \A q \in Promises : q # p => called'[q] = called[q]
      /\ \A q \in Promises : called[q] => called'[q]
  BY <1>1, <1>2, CalledNext
<1>4. h0 \in Handler /\ h0.to = p /\ h0.kind = "self"
  BY <1>2 DEF Handler
<1>5. PICK g : g = h0
  OBVIOUS
<1> HIDE DEF h0
<1>6. /\ <<h0>> \in Seq(Handler) /\ DistinctTo(<<h0>>) /\ \A h : In(<<h0>>, h) => h = h0
      /\ Head(<<h0>>) = h0 /\ <<h0>> # <<>>
  BY <1>4, ShortLists
<1>7. j \in Job /\ j.what = what /\ j.todo = <<h0>>
  BY <1>2, <1>6 DEF Job
<1> HIDE DEF j
<1>8. f \in Frame /\ f.job = j /\ f.pc = "busy"
  BY <1>7 DEF Frame
<1> HIDE DEF f
<1>9. PICK n : n = Len(stack) + 1
  OBVIOUS
<1>10. PICK v0 : v0 = FrameAt(n)
  OBVIOUS
<1>11. /\ f.job.what \in Calls
       /\ DistinctTo(f.job.todo)
       /\ f.job.todo # <<>>
  BY <1>6, <1>7, <1>8
<1>12. /\ stack' \in Seq(Frame)
       /\ DOMAIN stack = 1 .. Len(stack)
       /\ Len(stack) \in Nat
       /\ DOMAIN stack' = 1 .. Len(stack) + 1
       /\ stack'[n] = f
       /\ \A i \in DOMAIN stack : stack'[i] = stack[i]
       /\ \A v, h : Running(v, h)' =>
             \/ Running(v, h) /\ SamePc(v, h)
             \/ v = FrameAt(n) /\ In(f.job.todo, h)
       /\ \A h : BusyAt(FrameAt(n), h)' <=> (f.pc = "busy" /\ h = Head(f.job.todo))
       /\ \A h : CaughtAt(FrameAt(n), h)' <=> (f.pc = "caught" /\ h = Head(f.job.todo))
       /\ StackOK'
  BY <1>1, <1>8, <1>9, <1>11, PushStack
<1>13. \A v, h : Held(v, h) => h.to # p
  BY <1>1 DEF TokensOK, TokenOK
<1>14. \A v, h : Queued(v, h)' <=> Queued(v, h)
  BY <1>1 DEF Queued, Live, DrainWaits, Settled
<1>15. \A v, h : Held(v, h)' => (Held(v, h) /\ h.to # p) \/ (v = v0 /\ h = g)
  BY <1>5, <1>6, <1>7, <1>8, <1>10, <1>12, <1>13, <1>14 DEF Held
<1>16. \A v, h : Held(v, h)' /\ h.to # p => SamePc(v, h)
  BY <1>4, <1>6, <1>7, <1>8, <1>12, QueuedOffStackNext DEF Held
<1>17. TokenOK(v0, g)'
  <2>1. ~Settled(p)
    BY <1>1, <1>2 DEF StateOK
  <2>2. Begun(v0, g)'
    BY <1>5, <1>6, <1>7, <1>8, <1>10, <1>12 DEF Begun
  <2>3. NoChain(p)'
    <3>1. \A h \in Handler : h.to = p => starts[h] \in Nat /\ ~(starts[h] > 0)
      BY <1>1 DEF StartsOK, TypeOK
    <3> QED
      BY <1>1, <3>1 DEF NoChain
  <2>4. "self" \notin Kinds /\ p \in Known'
    BY <1>1, <1>2 DEF Kinds, Known
  <2> QED
    BY <1>1, <1>3, <1>4, <1>5, <2>1, <2>2, <2>3, <2>4 DEF TokenOK, Settled
<1>18. OthersSame(p)
  BY <1>1, <1>3 DEF OthersSame, Known
<1>19. g.to = p
  BY <1>4, <1>5
<1>20. Unique' /\ TokensOK'
  BY <1>1, <1>15, <1>16, <1>17, <1>18, <1>19, OneTokenChanges
<1>21. ListsOK' /\ JobsOK'
  BY <1>1 DEF ListsOK, JobsOK, Settled
<1>22. StartsOK'
  BY <1>1, <1>3, StartsKept
<1>23. StateOK'
  BY <1>1, <1>2, <1>3 DEF StateOK, Settled, Known
<1>24. CaughtOK'
  <2>1. \A i \in DOMAIN stack' :
           stack'[i].pc # "caught" \/ (i \in DOMAIN stack /\ stack'[i].pc = stack[i].pc)
    BY <1>8, <1>9, <1>12
  <2> QED
    BY <1>1, <2>1, NobodyCaught, StaysUncaught
<1>25. TypeOK'
  BY <1>1, <1>3, <1>12 DEF TypeOK
<1> QED
  BY <1>1, <1>12, <1>20, <1>21, <1>22, <1>23, <1>24, <1>25 DEF PromiseInv, OnlyPendingSettle

\* The first handler of the top frame, and what is known of its promise.
LEMMA NextToken ==
    ASSUME PromiseInv, stack # <<>>, Top.job.todo # <<>>
    PROVE  /\ NextHandler \in Handler
           /\ NextHandler.to \in Promises /\ NextHandler.to \in Known
           /\ Of \in Promises
           /\ Top.loop \in Loops
           /\ Held(FrameAt(Len(stack)), NextHandler)
           /\ TokenOK(FrameAt(Len(stack)), NextHandler)
           /\ BusyAt(FrameAt(Len(stack)), NextHandler) <=> Top.pc = "busy"
           /\ CaughtAt(FrameAt(Len(stack)), NextHandler) <=> Top.pc = "caught"
           /\ \A v, h : Queued(v, h) => h.to # NextHandler.to
           /\ \A v, h : Running(v, h) /\ h.to = NextHandler.to =>
                 v = FrameAt(Len(stack)) /\ h = NextHandler
<1>1. TypeOK /\ StackOK /\ Unique /\ TokensOK
  BY DEF PromiseInv
<1>2. /\ NextHandler \in Handler
      /\ NextHandler.to \in Promises
      /\ Of \in Promises
      /\ Top.loop \in Loops
      /\ Running(FrameAt(Len(stack)), NextHandler)
      /\ BusyAt(FrameAt(Len(stack)), NextHandler) <=> Top.pc = "busy"
      /\ CaughtAt(FrameAt(Len(stack)), NextHandler) <=> Top.pc = "caught"
  BY <1>1, TopHandler
<1>3. Held(FrameAt(Len(stack)), NextHandler)
  BY <1>2 DEF Held
<1>4. ASSUME NEW v, NEW h, Held(v, h), h.to = NextHandler.to
      PROVE  v = FrameAt(Len(stack)) /\ h = NextHandler
  BY <1>1, <1>3, <1>4 DEF Unique
<1>5. \A v, h : Queued(v, h) => h.to # NextHandler.to
  BY <1>4, QueuedOffStack DEF Held
<1>6. \A v, h : Running(v, h) /\ h.to = NextHandler.to =>
         v = FrameAt(Len(stack)) /\ h = NextHandler
  BY <1>4 DEF Held
<1>7. TokenOK(FrameAt(Len(stack)), NextHandler)
  BY <1>1, <1>3 DEF TokensOK
<1> QED
  BY <1>2, <1>3, <1>5, <1>6, <1>7 DEF TokenOK

\* A handler that runs has a promise that is pending and has been called.
LEMMA BusyToken ==
    ASSUME PromiseInv, OnTop("busy")
    PROVE  /\ stack # <<>> /\ Top.job.todo # <<>>
           /\ ~Settled(NextHandler.to)
           /\ called[NextHandler.to]
           /\ NextHandler.kind \notin Chains => NoChain(NextHandler.to)
<1>1. stack # <<>> /\ Top.pc = "busy" /\ TypeOK /\ StackOK
  BY DEF OnTop, PromiseInv
<1>2. Top.job.todo # <<>>
  BY <1>1, FrameIsFrame DEF StackOK, Top
<1> QED
  BY <1>1, <1>2, NextToken DEF TokenOK, Begun

\* The handler that is next has not been called before.
LEMMA NotStarted ==
    ASSUME PromiseInv, HandlerStarts
    PROVE  /\ starts' \in [Handler -> Nat]
           /\ handled' \in [Promises -> BOOLEAN]
           /\ starts'[NextHandler] = 1
           /\ \A h \in Handler : h # NextHandler => starts'[h] = starts[h]
<1>1. /\ NextHandler \in Handler
      /\ NextHandler.to \in Promises
      /\ Of \in Promises
      /\ ~Begun(FrameAt(Len(stack)), NextHandler)
      /\ TokenOK(FrameAt(Len(stack)), NextHandler)
  BY NextToken DEF HandlerStarts, OnTop, Begun
<1>2. starts[NextHandler] \in Nat /\ starts \in [Handler -> Nat]
  BY <1>1 DEF PromiseInv, TypeOK
<1>3. starts[NextHandler] = 0
  <2>1. CASE NextHandler.kind \in Kinds
    BY <1>1, <1>2, <2>1 DEF PromiseInv, StartsOK, TokenOK
  <2>2. CASE NextHandler.kind \in Chains
    BY <1>1, <2>2 DEF TokenOK, NoChain
  <2>3. CASE NextHandler.kind = "self"
    BY <1>1, <2>3 DEF TokenOK
  <2> QED
    BY <1>1, <2>1, <2>2, <2>3 DEF Handler
<1>4. starts' = [starts EXCEPT ![NextHandler] = starts[NextHandler] + 1]
  BY DEF HandlerStarts
<1>5. handled' = [handled EXCEPT ![Of] = handled[Of] \/ state[Of] = "rejected"]
  BY DEF HandlerStarts, SeesRejection
<1>6. (handled[Of] \/ state[Of] = "rejected") \in BOOLEAN
  BY Zenon
<1>7. handled' \in [Promises -> BOOLEAN]
  <2> DEFINE b == handled[Of] \/ state[Of] = "rejected"
  <2>1. b \in BOOLEAN /\ handled' = [handled EXCEPT ![Of] = b]
    BY <1>5, <1>6
  <2> HIDE DEF b
  <2> QED
    BY <1>1, <2>1 DEF PromiseInv, TypeOK
<1> QED
  BY <1>1, <1>2, <1>3, <1>4, <1>7

LEMMA HandlerStartsKeeps ==
    ASSUME PromiseInv, HandlerStarts
    PROVE  PromiseInv' /\ OnlyPendingSettle
<1>1. /\ TypeOK /\ ListsOK /\ JobsOK /\ StackOK /\ StateOK /\ StartsOK /\ Unique /\ TokensOK
      /\ CaughtOK /\ OnTop("next")
      /\ stack # <<>> /\ Top.pc = "next" /\ Top.job.todo # <<>>
      /\ called' = [called EXCEPT ![NextHandler.to] = TRUE]
      /\ stack' = [stack EXCEPT ![Len(stack)].pc = "busy"]
      /\ UNCHANGED <<count, given, state, handlers, jobs, lost, dropped, cut, reported>>
  BY DEF PromiseInv, HandlerStarts, OnTop, ghostVars
<1>2. PICK w, g, t : w = FrameAt(Len(stack)) /\ g = NextHandler /\ t = NextHandler.to
  OBVIOUS
<1>3. /\ g \in Handler /\ g.to = t
      /\ t \in Promises /\ t \in Known
      /\ Held(w, g)
      /\ TokenOK(w, g)
      /\ ~CaughtAt(w, g)
      /\ ~BusyAt(w, g)
      /\ \A v, h : Queued(v, h) => h.to # t
      /\ \A v, h : Running(v, h) /\ h.to = t => v = w /\ h = g
  BY <1>1, <1>2, NextToken
<1>4. /\ starts' \in [Handler -> Nat]
      /\ handled' \in [Promises -> BOOLEAN]
      /\ starts'[g] = 1
      /\ \A h \in Handler : h # g => starts'[h] = starts[h]
  BY <1>2, NotStarted
<1>5. /\ called' \in [Promises -> BOOLEAN]
      /\ called'[t]
      /\ \A q \in Promises : q # t => called'[q] = called[q]
      /\ \A q \in Promises : called[q] => called'[q]
  BY <1>1, <1>2, <1>3, CalledNext
<1>6. OnlyPendingSettle /\ StaysSettled
  BY <1>1, PendingSettle DEF OnlyPendingSettle
<1>7. /\ stack' \in Seq(Frame)
      /\ DOMAIN stack' = DOMAIN stack
      /\ \A i \in DOMAIN stack : stack'[i].pc = IF i = Len(stack) THEN "busy" ELSE stack[i].pc
      /\ \A v, h : Running(v, h)' => Running(v, h)
      /\ \A v, h : h # g => SamePc(v, h)
      /\ BusyAt(w, g)'
      /\ ~CaughtAt(w, g)'
      /\ StackOK'
  BY <1>1, <1>2, <1>6, PcStack
<1>8. \A v, h : Queued(v, h)' <=> Queued(v, h)
  BY <1>1 DEF Queued, Live, DrainWaits, Settled
<1>9. \A v, h : Held(v, h)' => (Held(v, h) /\ h.to # t) \/ (v = w /\ h = g)
  BY <1>3, <1>7, <1>8 DEF Held
<1>10. \A v, h : Held(v, h)' /\ h.to # t => SamePc(v, h)
  BY <1>3, <1>7
<1>11. TokenOK(w, g)'
  <2>1. Begun(w, g)' /\ ~Begun(w, g)
    BY <1>3, <1>7 DEF Begun
  <2>2. ~Settled(t) /\ g.kind # "self" /\ NoChain(t) /\ (t \in given => g.kind \notin Kinds)
    BY <1>3, <2>1 DEF TokenOK
  <2>3. g.kind \in Chains \/ NoChain(t)'
    BY <1>3, <1>4, <2>2 DEF NoChain
  <2>4. t \in Known' /\ state' = state /\ given' = given
    BY <1>1, <1>3 DEF Known
  <2> QED
    BY <1>3, <1>5, <2>1, <2>2, <2>3, <2>4 DEF TokenOK, Settled
<1>12. OthersSame(t)
  BY <1>1, <1>3, <1>4, <1>5 DEF OthersSame, Known
<1>13. Unique' /\ TokensOK'
  BY <1>1, <1>3, <1>9, <1>10, <1>11, <1>12, OneTokenChanges
<1>14. ListsOK' /\ JobsOK'
  BY <1>1 DEF ListsOK, JobsOK, Settled
<1>15. StateOK'
  BY <1>1, <1>3, <1>5 DEF StateOK, Settled, Known
<1>16. StartsOK'
  <2> SUFFICES ASSUME NEW h \in Handler
               PROVE  starts'[h] <= 1 /\ (starts'[h] > 0 => called'[h.to])
    BY DEF StartsOK
  <2>1. CASE h = g
    BY <1>3, <1>4, <1>5, <2>1
  <2>2. CASE h # g
    <3>1. h.to \in Promises
      BY DEF Handler
    <3> QED
      BY <1>1, <1>4, <1>5, <2>2, <3>1 DEF StartsOK
  <2> QED
    BY <2>1, <2>2
<1>17. CaughtOK'
  BY <1>1, <1>7, NobodyCaught, StaysUncaught
<1>18. TypeOK'
  BY <1>1, <1>4, <1>5, <1>7 DEF TypeOK
<1> QED
  BY <1>6, <1>7, <1>13, <1>14, <1>15, <1>16, <1>17, <1>18 DEF PromiseInv

\* What a handler comes to, in terms of its promise: a chain never comes to a
\* promise, so a promise waits at most once in a chain.
LEMMA EndsSplit ==
    ASSUME TypeOK, NEW r \in Results, HandlerEnds(r), NextHandler.to \in Known
    PROVE  \/ \E s \in {"fulfilled", "rejected"} : Settle(NextHandler.to, s, Top.loop)
           \/ /\ NextHandler.kind \notin Chains
              /\ \E q \in Promises, kind \in Chains :
                    /\ Attach(q, [to |-> NextHandler.to, kind |-> kind], Top.loop)
                    /\ UNCHANGED state
<1>1. Known \subseteq Promises /\ Value \notin Known /\ Error \notin Known
  BY KnownPromises DEF Known, Value, Error
<1>2. CASE r \in Known /\ NextHandler.kind \in Chains
  <2>1. ~CallsUser
    BY <1>2 DEF CallsUser, Chains
  <2> QED
    BY <1>1, <1>2, <2>1 DEF HandlerEnds, Returns
<1>3. CASE ~(r \in Known /\ NextHandler.kind \in Chains)
  BY <1>1, <1>3 DEF HandlerEnds, DoResolve, DoReject, Chains
<1> QED
  BY <1>2, <1>3

LEMMA HandlerEndsKeeps ==
    ASSUME PromiseInv, NEW r \in Results, HandlerEnds(r)
    PROVE  PromiseInv' /\ OnlyPendingSettle
<1>1. /\ TypeOK /\ ListsOK /\ JobsOK /\ StackOK /\ StateOK /\ StartsOK /\ Unique /\ TokensOK
      /\ CaughtOK /\ OnTop("busy")
      /\ stack' = [stack EXCEPT ![Len(stack)].job.todo = Tail(@), ![Len(stack)].pc = "next"]
      /\ UNCHANGED <<count, given, called, handled, lost, starts, dropped, cut, reported>>
  BY DEF PromiseInv, HandlerEnds, Returns, promiseVars, ghostVars
<1>2. PICK t : t = NextHandler.to
  OBVIOUS
<1>3. /\ stack # <<>> /\ Top.job.todo # <<>>
      /\ ~Settled(t)
      /\ called[t]
      /\ NextHandler.kind \notin Chains => NoChain(t)
  BY <1>1, <1>2, BusyToken
<1>4. /\ t \in Known /\ t \in Promises
      /\ Top.loop \in Loops
      /\ \A v, h : Queued(v, h) => h.to # t
      /\ \A v, h : Running(v, h) /\ h.to = t => v = FrameAt(Len(stack))
  BY <1>2, <1>3, NextToken
<1>5. PICK l \in Loops : l = Top.loop
  BY <1>4
<1>6. \/ \E s \in {"fulfilled", "rejected"} : Settle(t, s, l)
      \/ /\ NoChain(t)
         /\ \E q \in Promises, kind \in Chains :
               Attach(q, [to |-> t, kind |-> kind], l) /\ UNCHANGED state
  BY <1>1, <1>2, <1>3, <1>4, <1>5, EndsSplit
<1>7. StaysSettled
  BY <1>1, <1>3, <1>4, <1>6 DEF StaysSettled, Settled, Settle, SetState, TypeOK
<1>8. /\ stack' \in Seq(Frame)
      /\ \A v, h : Running(v, h)' =>
            Running(v, h) /\ (v = FrameAt(Len(stack)) => h.to # t) /\ SamePc(v, h)
      /\ \A i \in DOMAIN stack' : /\ i \in DOMAIN stack
                                  /\ stack'[i].pc # "next" => stack'[i] = stack[i]
      /\ StackOK'
  BY <1>1, <1>2, <1>3, <1>7, DoneStack
<1>9. \A v, h : Running(v, h)' => Running(v, h) /\ h.to # t /\ SamePc(v, h)
  BY <1>4, <1>8
<1>10. UNCHANGED <<count, given, called, starts>>
  BY <1>1
<1>11. /\ jobs' \in [Loops -> Seq(Job)]
       /\ handlers' \in [Promises -> Seq(Handler)]
       /\ state' \in [Promises -> {"pending", "fulfilled", "rejected"}]
       /\ \A q \in Promises : Settled(q) => state'[q] = state[q]
       /\ ListsOK' /\ JobsOK' /\ StateOK' /\ Unique' /\ TokensOK'
  BY <1>1, <1>3, <1>4, <1>6, <1>9, <1>10, ResolvedTokens
<1>12. StartsOK'
  BY <1>1, StartsKept
<1>13. CaughtOK'
  <2>1. \A i \in DOMAIN stack' :
           stack'[i].pc # "caught" \/ (i \in DOMAIN stack /\ stack'[i].pc = stack[i].pc)
    BY <1>8
  <2> QED
    BY <1>1, <2>1, NobodyCaught, StaysUncaught
<1>14. TypeOK'
  BY <1>1, <1>8, <1>11 DEF TypeOK
<1> QED
  BY <1>8, <1>11, <1>12, <1>13, <1>14 DEF PromiseInv, OnlyPendingSettle

-----------------------------------------------------------------------------
(***************************************************************************)
(* The steps in which something is cut off.                                *)
(***************************************************************************)
\* The state of the promise t is set, and nothing is scheduled: the list of t is
\* dead from now on, if it was not before.
LEMMA SetQueued ==
    ASSUME TypeOK, JobsOK, NEW t \in Promises, NEW s \in {"fulfilled", "rejected"},
           UNCHANGED <<handlers, jobs>>,
           UNCHANGED state \/ SetState(t, s)
    PROVE  /\ state' \in [Promises -> {"pending", "fulfilled", "rejected"}]
           /\ \A q \in Promises : q # t => state'[q] = state[q]
           /\ StaysSettled
           /\ \A v, h : Queued(v, h)' => Queued(v, h)
           /\ JobsOK'
<1>1. /\ state' \in [Promises -> {"pending", "fulfilled", "rejected"}]
      /\ \A q \in Promises : q # t => state'[q] = state[q]
      /\ StaysSettled
  BY DEF TypeOK, SetState, StaysSettled, Settled
<1>2. \A q \in Promises : Live(q)' => Live(q)
  BY <1>1 DEF Live, DrainWaits, StaysSettled, Settled
<1>3. \A v, h : Queued(v, h)' => Queued(v, h)
  BY <1>2 DEF Queued
<1>4. \A l \in Loops : \A i \in DOMAIN jobs[l] : jobs[l][i].of \in Promises
  BY JobIsJob
<1>5. JobsOK'
  BY <1>1, <1>4 DEF JobsOK, StaysSettled, Settled
<1> QED
  BY <1>1, <1>3, <1>5

\* Frames end, and with them the handler that may have set the state of its
\* promise.
LEMMA CutKeeps ==
    ASSUME PromiseInv, NEW k \in 0 .. Len(stack) - 1, stack' = SubSeq(stack, 1, k),
           UNCHANGED <<count, given, called, handlers, jobs, lost, starts>>,
           \/ UNCHANGED state
           \/ /\ stack # <<>> /\ Top.pc # "next"
              /\ \E s \in {"fulfilled", "rejected"} : SetState(NextHandler.to, s)
    PROVE  /\ stack' \in Seq(Frame)
           /\ state' \in [Promises -> {"pending", "fulfilled", "rejected"}]
           /\ ListsOK' /\ JobsOK' /\ StackOK' /\ CaughtOK' /\ StateOK' /\ StartsOK'
           /\ Unique' /\ TokensOK'
<1>1. TypeOK /\ ListsOK /\ JobsOK /\ StackOK /\ StateOK /\ StartsOK /\ Unique /\ TokensOK
  BY DEF PromiseInv
<1>2. /\ Known \subseteq Promises /\ 0 \notin Promises /\ Known' = Known
  BY <1>1, KnownPromises DEF Known
<1>3. CASE UNCHANGED state
  <2>1. StaysSettled
    BY <1>1, <1>3 DEF StaysSettled, Settled
  <2>2. /\ stack' \in Seq(Frame)
        /\ \A v, h : Running(v, h)' => Running(v, h) /\ SamePc(v, h)
        /\ \A i \in DOMAIN stack' :
              i \in DOMAIN stack /\ i # Len(stack) /\ stack'[i] = stack[i]
        /\ StackOK'
    BY <1>1, <2>1, CutStack
  <2>3. \A v, h : Queued(v, h)' => Queued(v, h)
    BY <1>3 DEF Queued, Live, DrainWaits, Settled
  <2>4. \A v, h : Held(v, h)' => Held(v, h) /\ h.to # 0 /\ SamePc(v, h)
    BY <1>1, <1>2, <2>2, <2>3, HeldIsHandler, QueuedOffStackNext DEF Held
  <2>5. OthersSame(0)
    BY <1>2, <1>3 DEF OthersSame
  <2>6. Unique' /\ TokensOK'
    BY <1>1, <2>4, <2>5, OneTokenGoes
  <2>7. ListsOK' /\ JobsOK' /\ StateOK' /\ StartsOK'
    BY <1>1, <1>2, <1>3 DEF ListsOK, JobsOK, StateOK, StartsOK, Settled
  <2>8. CaughtOK'
    BY <2>2 DEF PromiseInv, CaughtOK
  <2> QED
    BY <1>1, <1>3, <2>2, <2>6, <2>7, <2>8 DEF TypeOK
<1>4. CASE /\ stack # <<>> /\ Top.pc # "next"
           /\ \E s \in {"fulfilled", "rejected"} : SetState(NextHandler.to, s)
  <2>1. PICK s \in {"fulfilled", "rejected"} : SetState(NextHandler.to, s)
    BY <1>4
  <2>2. Top.job.todo # <<>>
    BY <1>1, <1>4, FrameIsFrame DEF StackOK, Top
  <2>3. PICK t : t = NextHandler.to
    OBVIOUS
  <2>4. /\ t \in Promises /\ t \in Known
        /\ called[t]
        /\ \A v, h : Queued(v, h) => h.to # t
        /\ \A v, h : Running(v, h) /\ h.to = t => v = FrameAt(Len(stack))
    <3>1. Top.pc \in {"busy", "caught"}
      BY <1>1, <1>4, FrameIsFrame DEF Top
    <3> QED
      BY <1>4, <2>2, <2>3, <3>1, NextToken DEF TokenOK, Begun
  <2>5. /\ state' \in [Promises -> {"pending", "fulfilled", "rejected"}]
        /\ \A q \in Promises : q # t => state'[q] = state[q]
        /\ StaysSettled
        /\ \A v, h : Queued(v, h)' => Queued(v, h)
        /\ JobsOK'
    BY <1>1, <2>1, <2>3, <2>4, SetQueued
  <2>6. /\ stack' \in Seq(Frame)
        /\ \A v, h : Running(v, h)' =>
              Running(v, h) /\ v # FrameAt(Len(stack)) /\ SamePc(v, h)
        /\ \A i \in DOMAIN stack' :
              i \in DOMAIN stack /\ i # Len(stack) /\ stack'[i] = stack[i]
        /\ StackOK'
    BY <1>1, <2>5, CutStack
  <2>7. \A v, h : Held(v, h)' => Held(v, h) /\ h.to # t /\ SamePc(v, h)
    BY <2>4, <2>5, <2>6, QueuedOffStackNext DEF Held
  <2>8. OthersSame(t)
    BY <1>2, <2>5 DEF OthersSame
  <2>9. Unique' /\ TokensOK'
    BY <1>1, <2>7, <2>8, OneTokenGoes
  <2>10. ListsOK' /\ StartsOK'
    BY <1>1 DEF ListsOK, StartsOK
  <2>11. StateOK'
    BY <1>1, <1>2, <2>4, <2>5 DEF StateOK, Settled
  <2>12. CaughtOK'
    BY <2>6 DEF PromiseInv, CaughtOK
  <2> QED
    BY <2>5, <2>6, <2>9, <2>10, <2>11, <2>12
<1> QED
  BY <1>3, <1>4

LEMMA MembersTyped ==
    ASSUME NEW s \in Seq(Handler)
    PROVE  Members(s) \subseteq Handler
BY ElementOfSeq, LenProperties DEF Members

\* A settled promise changes only as SettlesOnceUnlessLaterFails allows.
SettleStep ==
    \A p \in Promises :
       Settled(p) =>
          \/ state'[p] = state[p]
          \/ /\ state[p] = "fulfilled" /\ state'[p] = "rejected"
             /\ Top.loop \in lost
             /\ Unseen(p)

LEMMA InterruptedKeeps ==
    ASSUME PromiseInv, NEW k, Interrupted(k)
    PROVE  PromiseInv' /\ OnlyPendingSettle
<1> DEFINE To == IF OnTop("busy") \/ OnTop("caught") THEN {NextHandler.to} ELSE {}
           Gone == {stack[i].job : i \in k + 1 .. Len(stack)}
<1>1. /\ TypeOK /\ StackOK
      /\ k \in 0 .. Len(stack) - 1
      /\ stack' = SubSeq(stack, 1, k)
      /\ UNCHANGED <<count, given, called, handlers, jobs, lost, starts, reported>>
      /\ dropped' = dropped \cup UNION ({Members(j.todo) : j \in Gone}
                                           \cup {Members(handlers[p]) : p \in To})
      /\ cut' = cut \cup Followed(Gone) \cup To
  BY DEF PromiseInv, Interrupted
<1>2. /\ Len(stack) \in Nat /\ DOMAIN stack = 1 .. Len(stack)
      /\ stack # <<>>
      /\ Len(stack) \in DOMAIN stack
      /\ Of \in Promises
  BY <1>1, FrameIsFrame DEF Of, Top
<1>3. \/ UNCHANGED state
      \/ /\ OnTop("busy")
         /\ \E s \in {"fulfilled", "rejected"} : SetState(NextHandler.to, s)
  BY DEF Interrupted, Returns
<1>4. \/ UNCHANGED state
      \/ /\ stack # <<>> /\ Top.pc # "next"
         /\ \E s \in {"fulfilled", "rejected"} : SetState(NextHandler.to, s)
  BY <1>3 DEF OnTop
<1>5. /\ stack' \in Seq(Frame)
      /\ state' \in [Promises -> {"pending", "fulfilled", "rejected"}]
      /\ ListsOK' /\ JobsOK' /\ StackOK' /\ CaughtOK' /\ StateOK' /\ StartsOK'
      /\ Unique' /\ TokensOK'
  BY <1>1, <1>4, CutKeeps
<1>6. OnlyPendingSettle
  <2>1. CASE UNCHANGED state
    BY <2>1 DEF OnlyPendingSettle
  <2>2. CASE /\ OnTop("busy")
             /\ \E s \in {"fulfilled", "rejected"} : SetState(NextHandler.to, s)
    BY <1>1, <2>2, BusyToken DEF OnlyPendingSettle, SetState, TypeOK
  <2> QED
    BY <1>3, <2>1, <2>2
<1>7. To \subseteq Promises
  <2>1. CASE ~(OnTop("busy") \/ OnTop("caught"))
    BY <2>1
  <2>2. CASE OnTop("busy") \/ OnTop("caught")
    <3>1. Top.job.todo # <<>>
      BY <1>1, <1>2, <2>2 DEF OnTop, StackOK, Top
    <3> QED
      BY <1>1, <1>2, <3>1, TopHandler
  <2> QED
    BY <2>1, <2>2
<1>8. \A j \in Gone : Members(j.todo) \subseteq Handler
  BY <1>1, <1>2, FrameIsFrame, MembersTyped
<1>9. \A p \in Promises : Members(handlers[p]) \subseteq Handler
  BY <1>1, MembersTyped DEF TypeOK
<1> HIDE DEF To, Gone
<1>10. dropped' \subseteq Handler
  <2>1. UNION ({Members(j.todo) : j \in Gone} \cup {Members(handlers[p]) : p \in To})
           \subseteq Handler
    BY <1>7, <1>8, <1>9
  <2> QED
    BY <1>1, <2>1 DEF TypeOK
<1>11. cut' \subseteq Promises
  BY <1>1, <1>7 DEF TypeOK, Followed
<1>12. handled' \in [Promises -> BOOLEAN]
  <2>1. CASE UNCHANGED handled
    BY <1>1, <2>1 DEF TypeOK
  <2>2. CASE handled' = SeesRejection
    <3> DEFINE b == handled[Of] \/ state[Of] = "rejected"
    <3>1. b \in BOOLEAN
      BY Zenon
    <3>2. handled' = [handled EXCEPT ![Of] = b]
      BY <2>2 DEF SeesRejection
    <3> HIDE DEF b
    <3> QED
      BY <1>1, <1>2, <3>1, <3>2 DEF TypeOK
  <2> QED
    BY <2>1, <2>2 DEF Interrupted
<1>13. TypeOK'
  BY <1>1, <1>5, <1>10, <1>11, <1>12 DEF TypeOK
<1> QED
  BY <1>5, <1>6, <1>13 DEF PromiseInv

\* An error of later() leaves the top frame, after it set the state.
LEMMA EscapeKeeps ==
    ASSUME PromiseInv, stack # <<>>, Top.pc # "next", Escape,
           \/ UNCHANGED state
           \/ \E s \in {"fulfilled", "rejected"} : SetState(NextHandler.to, s),
           UNCHANGED <<promiseVars, handlers, jobs, lost, starts, reported>>
    PROVE  PromiseInv'
<1>1. /\ TypeOK /\ StackOK
      /\ stack' = SubSeq(stack, 1, Len(stack) - 1)
      /\ UNCHANGED <<count, given, called, handled, handlers, jobs, lost, starts, reported>>
  BY DEF PromiseInv, Escape, Pop, promiseVars
<1>2. Len(stack) \in Nat /\ DOMAIN stack = 1 .. Len(stack) /\ Len(stack) \in DOMAIN stack
  BY <1>1, FrameIsFrame
<1>3. PICK k : k = Len(stack) - 1
  OBVIOUS
<1>4. k \in 0 .. Len(stack) - 1 /\ stack' = SubSeq(stack, 1, k)
  BY <1>1, <1>2, <1>3
<1>5. /\ stack' \in Seq(Frame)
      /\ state' \in [Promises -> {"pending", "fulfilled", "rejected"}]
      /\ ListsOK' /\ JobsOK' /\ StackOK' /\ CaughtOK' /\ StateOK' /\ StartsOK'
      /\ Unique' /\ TokensOK'
  BY <1>1, <1>4, CutKeeps
<1>6. Top.job.todo # <<>>
  BY <1>1, <1>2 DEF StackOK, Top
<1>7. NextHandler.to \in Promises /\ Top.job.todo \in Seq(Handler)
  BY <1>1, <1>6, TopHandler
<1>8. /\ Members(Top.job.todo) \subseteq Handler
      /\ Members(handlers[NextHandler.to]) \subseteq Handler
  BY <1>1, <1>7, MembersTyped DEF TypeOK
<1>9. dropped' \subseteq Handler /\ cut' \subseteq Promises
  BY <1>1, <1>7, <1>8 DEF Escape, TypeOK, Followed
<1>10. TypeOK'
  BY <1>1, <1>5, <1>9 DEF TypeOK
<1> QED
  BY <1>5, <1>10 DEF PromiseInv

\* Only here a settled promise changes.
LEMMA ErrorCaughtKeeps ==
    ASSUME PromiseInv, ErrorCaught
    PROVE  PromiseInv' /\ SettleStep
<1>1. /\ TypeOK /\ CaughtOK /\ StackOK
      /\ stack # <<>> /\ Top.pc = "caught"
      /\ SetState(NextHandler.to, "rejected")
      /\ Escape
      /\ UNCHANGED <<promiseVars, handlers, jobs, lost, starts, reported>>
  BY DEF PromiseInv, ErrorCaught, OnTop
<1>2. PromiseInv'
  BY <1>1, EscapeKeeps
<1>3. Len(stack) \in DOMAIN stack
  BY <1>1, FrameIsFrame
<1>4. Top.loop \in lost /\ Unseen(NextHandler.to)
  BY <1>1, <1>3 DEF CaughtOK, Top, NextHandler
<1>5. SettleStep
  <2> SUFFICES ASSUME NEW p \in Promises, Settled(p)
               PROVE  \/ state'[p] = state[p]
                      \/ /\ state[p] = "fulfilled" /\ state'[p] = "rejected"
                         /\ Top.loop \in lost
                         /\ Unseen(p)
    BY DEF SettleStep
  <2>1. CASE p = NextHandler.to
    <3>1. state[p] \in {"fulfilled", "rejected"} /\ state'[p] = "rejected"
      BY <1>1, <2>1 DEF TypeOK, Settled, SetState
    <3> QED
      BY <1>4, <2>1, <3>1
  <2>2. CASE p # NextHandler.to
    BY <1>1, <2>2 DEF TypeOK, SetState
  <2> QED
    BY <2>1, <2>2
<1> QED
  BY <1>2, <1>5

LEMMA LaterFailsKeeps ==
    ASSUME PromiseInv, NEW r \in Results, LaterFails(r)
    PROVE  PromiseInv' /\ OnlyPendingSettle
<1>1. /\ TypeOK /\ ListsOK /\ JobsOK /\ StackOK /\ StateOK /\ StartsOK /\ Unique /\ TokensOK
      /\ CaughtOK
      /\ OnTop("busy") /\ stack # <<>> /\ Top.pc = "busy"
      /\ Top.loop \in lost
      /\ UNCHANGED <<promiseVars, handlers, jobs, lost, starts, reported>>
      /\ UNCHANGED <<count, given, called, handled>>
  BY DEF PromiseInv, LaterFails, Returns, OnTop, promiseVars
<1>2. PICK w, g, t : w = FrameAt(Len(stack)) /\ g = NextHandler /\ t = NextHandler.to
  OBVIOUS
<1>3. /\ Top.job.todo # <<>>
      /\ ~Settled(t)
      /\ called[t]
      /\ g.kind \notin Chains => NoChain(t)
  BY <1>1, <1>2, BusyToken
<1>4. /\ g \in Handler /\ g.to = t
      /\ t \in Promises /\ t \in Known
      /\ TokenOK(w, g)
      /\ \A v, h : Queued(v, h) => h.to # t
      /\ \A v, h : Running(v, h) /\ h.to = t => v = w /\ h = g
  BY <1>1, <1>2, <1>3, NextToken
<1>5. UNCHANGED state \/ \E s \in {"fulfilled", "rejected"} : SetState(t, s)
  BY <1>2 DEF LaterFails
<1>6. PICK s \in {"fulfilled", "rejected"} : UNCHANGED state \/ SetState(t, s)
  BY <1>5
<1>7. /\ state' \in [Promises -> {"pending", "fulfilled", "rejected"}]
      /\ \A q \in Promises : q # t => state'[q] = state[q]
      /\ StaysSettled
      /\ \A v, h : Queued(v, h)' => Queued(v, h)
      /\ JobsOK'
  BY <1>1, <1>4, <1>6, SetQueued
<1>8. OnlyPendingSettle
  BY <1>3, <1>7 DEF OnlyPendingSettle
<1>9. CASE NextHandler.kind \in Chains
  <2>1. Escape
    BY <1>9 DEF LaterFails
  <2> QED
    BY <1>1, <1>2, <1>5, <1>8, <2>1, EscapeKeeps
<1>10. CASE NextHandler.kind \notin Chains
  <2>1. stack' = [stack EXCEPT ![Len(stack)].pc = "caught"] /\ UNCHANGED <<dropped, cut>>
    BY <1>10 DEF LaterFails, ghostVars
  <2>2. /\ stack' \in Seq(Frame)
        /\ DOMAIN stack' = DOMAIN stack
        /\ Len(stack') = Len(stack)
        /\ \A i \in DOMAIN stack :
              /\ stack'[i].job = stack[i].job
              /\ stack'[i].loop = stack[i].loop
              /\ stack'[i].pc = IF i = Len(stack) THEN "caught" ELSE stack[i].pc
        /\ \A v, h : Running(v, h)' => Running(v, h)
        /\ \A v, h : h # g => SamePc(v, h)
        /\ CaughtAt(w, g)'
        /\ StackOK'
    BY <1>1, <1>2, <1>3, <1>7, <2>1, PcStack
  <2>3. \A v, h : Held(v, h)' => (Held(v, h) /\ h.to # t) \/ (v = w /\ h = g)
    BY <1>4, <1>7, <2>2 DEF Held
  <2>4. \A v, h : Held(v, h)' /\ h.to # t => SamePc(v, h)
    BY <1>4, <2>2
  <2>5. TokenOK(w, g)'
    <3>1. Begun(w, g)'
      BY <2>2 DEF Begun
    <3>2. NoChain(t)'
      BY <1>1, <1>2, <1>3, <1>10 DEF NoChain
    <3>3. t \in Known' /\ (t \in given' => g.kind \notin Kinds)
      BY <1>1, <1>4 DEF TokenOK, Known
    <3> QED
      BY <1>1, <1>3, <1>4, <2>2, <3>1, <3>2, <3>3 DEF TokenOK
  <2>6. OthersSame(t)
    BY <1>1, <1>7 DEF OthersSame, Known
  <2>7. Unique' /\ TokensOK'
    BY <1>1, <1>4, <2>3, <2>4, <2>5, <2>6, OneTokenChanges
  <2>8. ListsOK' /\ StartsOK'
    BY <1>1 DEF ListsOK, StartsOK
  <2>9. StateOK'
    BY <1>1, <1>3, <1>4, <1>7 DEF StateOK, Settled, Known
  <2>10. CaughtOK'
    <3>1. NoneCaught
      BY <1>1, NobodyCaught
    <3>2. \A l \in Loops : \A n \in DOMAIN jobs'[l] : jobs'[l][n].of # t
      BY <1>1, <1>3 DEF JobsOK
    <3>3. \A n \in DOMAIN stack' : stack'[n].job.what \in Calls \/ stack'[n].job.of # t
      BY <1>1, <1>3, <2>2 DEF StackOK
    <3>4. ASSUME NEW i \in DOMAIN stack', stack'[i].pc = "caught"
          PROVE  /\ i = Len(stack')
                 /\ stack'[i].loop \in lost'
                 /\ Head(stack'[i].job.todo).to = t
      <4>1. i = Len(stack)
        BY <2>2, <3>1, <3>4 DEF NoneCaught
      <4> QED
        BY <1>1, <1>2, <2>2, <4>1 DEF Top, NextHandler
    <3> QED
      BY <3>2, <3>3, <3>4 DEF CaughtOK, Unseen
  <2>11. TypeOK'
    BY <1>1, <1>7, <2>1, <2>2 DEF TypeOK
  <2> QED
    BY <1>7, <1>8, <2>2, <2>7, <2>8, <2>9, <2>10, <2>11 DEF PromiseInv
<1> QED
  BY <1>9, <1>10

\* The steps that resolve nothing: handlers that wait are dropped, at most.
LEMMA TokensDropped ==
    ASSUME TypeOK, Unique, TokensOK, UNCHANGED <<count, given, state, called, starts>>,
           \A v, h : Queued(v, h)' => Queued(v, h),
           \A v, h : Running(v, h)' => Running(v, h) /\ SamePc(v, h)
    PROVE  Unique' /\ TokensOK'
<1>1. \A v, h : Held(v, h)' => Held(v, h) /\ h.to # 0 /\ SamePc(v, h)
  BY HeldIsHandler, KnownPromises, QueuedOffStackNext DEF Held
<1>2. OthersSame(0)
  BY DEF OthersSame, Known
<1> QED
  BY <1>1, <1>2, OneTokenGoes

LEMMA LoseKeeps ==
    ASSUME PromiseInv, NEW l \in Loops, Lose(l)
    PROVE  PromiseInv' /\ OnlyPendingSettle
<1>1. /\ TypeOK /\ ListsOK /\ JobsOK /\ StackOK /\ StateOK /\ StartsOK /\ Unique /\ TokensOK
      /\ CaughtOK
      /\ l # GLOBAL_LOOP
      /\ lost' = lost \cup {l}
      /\ UNCHANGED <<count, given, called, handled, state, handlers, jobs, stack, starts, dropped,
                     cut, reported>>
  BY DEF PromiseInv, Lose, promiseVars, ghostVars
<1>2. /\ \A v, h : Running(v, h)' <=> Running(v, h)
      /\ \A v, h : SamePc(v, h)
  BY <1>1, StackSame
<1>3. \A v, h : Queued(v, h)' => Queued(v, h)
  BY <1>1 DEF Queued, Live, DrainWaits, Settled
<1>4. Unique' /\ TokensOK'
  BY <1>1, <1>2, <1>3, TokensDropped
<1>5. CaughtOK'
  BY <1>1 DEF CaughtOK, Unseen
<1>6. ListsOK' /\ JobsOK' /\ StackOK' /\ StateOK' /\ StartsOK'
  BY <1>1 DEF ListsOK, JobsOK, StackOK, StateOK, StartsOK, Settled, Known
<1>7. TypeOK'
  BY <1>1 DEF TypeOK
<1> QED
  BY <1>1, <1>4, <1>5, <1>6, <1>7 DEF PromiseInv, OnlyPendingSettle

LEMMA DiscardKeeps ==
    ASSUME PromiseInv, NEW l \in Loops, Discard(l)
    PROVE  PromiseInv' /\ OnlyPendingSettle
<1>1. /\ TypeOK /\ ListsOK /\ JobsOK /\ StackOK /\ StateOK /\ StartsOK /\ Unique /\ TokensOK
      /\ CaughtOK
      /\ jobs' = [jobs EXCEPT ![l] = <<>>]
      /\ UNCHANGED <<count, given, called, handled, state, handlers, lost, stack, starts,
                     reported>>
  BY DEF PromiseInv, Discard, promiseVars
<1>2. <<>> \in Seq(Job) /\ DOMAIN <<>> = {}
  OBVIOUS
<1>3. jobs' \in [Loops -> Seq(Job)]
  BY <1>1, <1>2 DEF TypeOK
<1>4. \A m \in Loops : \A i \in DOMAIN jobs'[m] : i \in DOMAIN jobs[m] /\ jobs'[m] = jobs[m]
  BY <1>1, <1>2 DEF TypeOK
<1>5. /\ \A v, h : Running(v, h)' <=> Running(v, h)
      /\ \A v, h : SamePc(v, h)
  BY <1>1, StackSame
<1>6. \A q : Live(q)' => Live(q)
  BY <1>1, <1>4 DEF Live, DrainWaits, Settled
<1>7. \A v, h : Queued(v, h)' => Queued(v, h)
  BY <1>1, <1>4, <1>6 DEF Queued
<1>8. Unique' /\ TokensOK'
  BY <1>1, <1>5, <1>7, TokensDropped
<1>9. JobsOK'
  BY <1>1, <1>4 DEF JobsOK, Settled
<1>10. CaughtOK'
  <2>1. \A q : Unseen(q) => Unseen(q)'
    BY <1>1, <1>4 DEF Unseen
  <2> QED
    BY <1>1, <2>1 DEF CaughtOK
<1>11. ListsOK' /\ StackOK' /\ StateOK' /\ StartsOK'
  BY <1>1 DEF ListsOK, StackOK, StateOK, StartsOK, Settled, Known
<1>12. \A j \in Members(jobs[l]) :
          Members(j.todo) \subseteq Handler /\ Members(handlers[j.of]) \subseteq Handler
  <2>1. \A j \in Members(jobs[l]) : j.of \in Promises /\ j.todo \in Seq(Handler)
    BY <1>1, JobIsJob DEF Members
  <2>2. \A p \in Promises : handlers[p] \in Seq(Handler)
    BY <1>1 DEF TypeOK
  <2> QED
    BY <2>1, <2>2, MembersTyped
<1>13. dropped' \subseteq Handler
  BY <1>1, <1>12 DEF Discard, TypeOK
<1>14. cut' \subseteq Promises
  BY <1>1 DEF Discard, TypeOK, Followed
<1>15. TypeOK'
  BY <1>1, <1>3, <1>13, <1>14 DEF TypeOK
<1> QED
  BY <1>1, <1>8, <1>9, <1>10, <1>11, <1>15 DEF PromiseInv, OnlyPendingSettle

-----------------------------------------------------------------------------
(***************************************************************************)
(* A job leaves the front of its loop: the places of those behind it       *)
(* shift, and if it runs, its handlers are found on the stack.             *)
(***************************************************************************)
Shift(l, m, i) == IF m = l THEN i + 1 ELSE i

\* The front job of loop l is gone, the others stay in order.
Fronted(l) ==
    /\ jobs' \in [Loops -> Seq(Job)]
    /\ \A m \in Loops : \A i \in DOMAIN jobs'[m] :
          /\ Shift(l, m, i) \in DOMAIN jobs[m]
          /\ m = l => Shift(l, m, i) # 1
          /\ jobs'[m][i] = jobs[m][Shift(l, m, i)]
    /\ \A m \in Loops : \A i, j \in DOMAIN jobs'[m] :
          Shift(l, m, i) = Shift(l, m, j) => i = j

LEMMA FrontTaken ==
    ASSUME TypeOK, NEW l \in Loops, jobs[l] # <<>>, jobs' = [jobs EXCEPT ![l] = Tail(@)]
    PROVE  Fronted(l) /\ 1 \in DOMAIN jobs[l] /\ Head(jobs[l]) = jobs[l][1]
<1>1. /\ jobs[l] \in Seq(Job)
      /\ Len(jobs[l]) \in Nat \ {0}
      /\ DOMAIN jobs[l] = 1 .. Len(jobs[l])
      /\ Tail(jobs[l]) \in Seq(Job)
      /\ Head(jobs[l]) = jobs[l][1]
      /\ Len(Tail(jobs[l])) = Len(jobs[l]) - 1
      /\ \A i \in 1 .. Len(Tail(jobs[l])) : Tail(jobs[l])[i] = jobs[l][i + 1]
  BY JobIsJob, HeadTailProperties, EmptySeq
<1>2. DOMAIN Tail(jobs[l]) = 1 .. Len(jobs[l]) - 1
  BY <1>1, LenProperties
<1>3. /\ jobs' \in [Loops -> Seq(Job)]
      /\ jobs'[l] = Tail(jobs[l])
      /\ \A m \in Loops : m # l => jobs'[m] = jobs[m]
  BY <1>1 DEF TypeOK
<1>4. ASSUME NEW m \in Loops, NEW i \in DOMAIN jobs'[m]
      PROVE  /\ Shift(l, m, i) \in DOMAIN jobs[m]
             /\ m = l => Shift(l, m, i) # 1
             /\ jobs'[m][i] = jobs[m][Shift(l, m, i)]
  <2>1. CASE m = l
    BY <1>1, <1>2, <1>3, <2>1 DEF Shift
  <2>2. CASE m # l
    BY <1>3, <2>2 DEF Shift
  <2> QED
    BY <2>1, <2>2
<1>5. ASSUME NEW m \in Loops, NEW i \in DOMAIN jobs'[m], NEW j \in DOMAIN jobs'[m],
             Shift(l, m, i) = Shift(l, m, j)
      PROVE  i = j
  <2>1. CASE m = l
    <3>1. i \in Int /\ j \in Int /\ i + 1 = j + 1
      BY <1>2, <1>3, <1>5, <2>1 DEF Shift
    <3> QED
      BY <3>1
  <2>2. CASE m # l
    BY <1>5, <2>2 DEF Shift
  <2> QED
    BY <2>1, <2>2
<1> QED
  BY <1>1, <1>3, <1>4, <1>5 DEF Fronted

LEMMA FrontedJobs ==
    ASSUME TypeOK, JobsOK, UNCHANGED <<state, handlers>>, NEW l \in Loops, Fronted(l),
           1 \in DOMAIN jobs[l]
    PROVE  /\ JobsOK'
           /\ \A q : Live(q)' =>
                 Live(q) /\ ~(jobs[l][1].what = "drain" /\ jobs[l][1].of = q)
           /\ jobs[l][1].what = "drain" => Live(jobs[l][1].of)
           /\ Settled(jobs[l][1].of)
<1>1. ASSUME NEW m \in Loops, NEW i \in DOMAIN jobs'[m]
      PROVE  state[jobs'[m][i].of] # "pending" /\ DistinctTo(jobs'[m][i].todo)
  BY DEF JobsOK, Fronted, Settled
<1>2. ASSUME NEW m \in Loops, NEW n \in Loops,
             NEW i \in DOMAIN jobs'[m], NEW j \in DOMAIN jobs'[n],
             jobs'[m][i].what = "drain", jobs'[n][j].what = "drain",
             jobs'[m][i].of = jobs'[n][j].of
      PROVE  m = n /\ i = j
  <2>1. /\ Shift(l, m, i) \in DOMAIN jobs[m] /\ jobs'[m][i] = jobs[m][Shift(l, m, i)]
        /\ Shift(l, n, j) \in DOMAIN jobs[n] /\ jobs'[n][j] = jobs[n][Shift(l, n, j)]
    BY DEF Fronted
  <2>2. m = n /\ Shift(l, m, i) = Shift(l, n, j)
    BY <1>2, <2>1 DEF JobsOK
  <2> QED
    BY <2>2 DEF Fronted
<1>3. JobsOK'
  BY <1>1, <1>2 DEF JobsOK, Settled
<1>4. ASSUME NEW q, DrainWaits(q)'
      PROVE  DrainWaits(q) /\ ~(jobs[l][1].what = "drain" /\ jobs[l][1].of = q)
  <2>1. PICK m \in Loops : \E i \in DOMAIN jobs'[m] :
                              jobs'[m][i].what = "drain" /\ jobs'[m][i].of = q
    BY <1>4 DEF DrainWaits
  <2>2. PICK i \in DOMAIN jobs'[m] : jobs'[m][i].what = "drain" /\ jobs'[m][i].of = q
    BY <2>1
  <2>3. /\ Shift(l, m, i) \in DOMAIN jobs[m]
        /\ jobs'[m][i] = jobs[m][Shift(l, m, i)]
        /\ m = l => Shift(l, m, i) # 1
    BY DEF Fronted
  <2> QED
    BY <2>2, <2>3 DEF DrainWaits, JobsOK
<1>5. Settled(jobs[l][1].of)
  BY DEF JobsOK
<1>6. ASSUME NEW q, Live(q)'
      PROVE  Live(q) /\ ~(jobs[l][1].what = "drain" /\ jobs[l][1].of = q)
  BY <1>4, <1>5, <1>6 DEF Live, Settled
<1>7. jobs[l][1].what = "drain" => Live(jobs[l][1].of)
  BY DEF Live, DrainWaits
<1> QED
  BY <1>3, <1>5, <1>6, <1>7

\* The handlers in place v were in place w before.
Source(l, v, w) ==
    \/ \E q \in Promises :
          /\ v = ListOf(q) /\ w = ListOf(q)
          /\ ~(jobs[l][1].what = "drain" /\ jobs[l][1].of = q)
    \/ \E m \in Loops : \E i \in DOMAIN jobs'[m] :
          v = JobAt(m, i) /\ w = JobAt(m, Shift(l, m, i))
    \/ \E i \in DOMAIN stack : v = FrameAt(i) /\ w = FrameAt(i)
    \/ /\ v = FrameAt(Len(stack) + 1)
       /\ w = IF jobs[l][1].what = "drain" THEN ListOf(jobs[l][1].of) ELSE JobAt(l, 1)

LEMMA SourceInjective ==
    ASSUME TypeOK, NEW l \in Loops, Fronted(l), NEW v, NEW u, NEW w,
           Source(l, v, w), Source(l, u, w)
    PROVE  v = u
<1> DEFINE FromList(x) == \E q \in Promises :
                             /\ x = ListOf(q) /\ w = ListOf(q)
                             /\ ~(jobs[l][1].what = "drain" /\ jobs[l][1].of = q)
           FromJob(x) == \E m \in Loops : \E i \in DOMAIN jobs'[m] :
                            x = JobAt(m, i) /\ w = JobAt(m, Shift(l, m, i))
           FromFrame(x) == \E i \in DOMAIN stack : x = FrameAt(i) /\ w = FrameAt(i)
           FromFront(x) == /\ x = FrameAt(Len(stack) + 1)
                           /\ w = IF jobs[l][1].what = "drain" THEN ListOf(jobs[l][1].of)
                                  ELSE JobAt(l, 1)
<1>1. /\ FromList(v) \/ FromJob(v) \/ FromFrame(v) \/ FromFront(v)
      /\ FromList(u) \/ FromJob(u) \/ FromFrame(u) \/ FromFront(u)
  BY DEF Source
<1>2. ASSUME NEW x, NEW y, FromList(x), FromList(y)
      PROVE  x = y
  BY <1>2, PlacesDiffer
<1>3. ASSUME NEW x, NEW y, FromJob(x), FromJob(y)
      PROVE  x = y
  <2>1. PICK m \in Loops : \E i \in DOMAIN jobs'[m] :
               x = JobAt(m, i) /\ w = JobAt(m, Shift(l, m, i))
    BY <1>3
  <2>2. PICK i \in DOMAIN jobs'[m] : x = JobAt(m, i) /\ w = JobAt(m, Shift(l, m, i))
    BY <2>1
  <2>3. PICK n \in Loops : \E j \in DOMAIN jobs'[n] :
               y = JobAt(n, j) /\ w = JobAt(n, Shift(l, n, j))
    BY <1>3
  <2>4. PICK j \in DOMAIN jobs'[n] : y = JobAt(n, j) /\ w = JobAt(n, Shift(l, n, j))
    BY <2>3
  <2>5. m = n /\ Shift(l, m, i) = Shift(l, n, j)
    <3>1. PICK a, b : a = Shift(l, m, i) /\ b = Shift(l, n, j)
      OBVIOUS
    <3>2. JobAt(m, a) = JobAt(n, b)
      BY <2>2, <2>4, <3>1
    <3> QED
      BY <3>1, <3>2, JobAtInjective
  <2>6. i = j
    BY <2>5 DEF Fronted
  <2> QED
    BY <2>2, <2>4, <2>5, <2>6
<1>4. ASSUME NEW x, NEW y, FromFrame(x), FromFrame(y)
      PROVE  x = y
  BY <1>4
<1>5. ASSUME NEW x, NEW y, FromFront(x), FromFront(y)
      PROVE  x = y
  BY <1>5
<1>6. ASSUME NEW x, NEW y, FromList(x), FromJob(y) \/ FromFrame(y) \/ FromFront(y)
      PROVE  FALSE
  BY <1>6, PlacesDiffer
<1>7. ASSUME NEW x, NEW y, FromJob(x), FromFrame(y) \/ FromFront(y)
      PROVE  FALSE
  <2>1. PICK m \in Loops : \E i \in DOMAIN jobs'[m] :
               x = JobAt(m, i) /\ w = JobAt(m, Shift(l, m, i))
    BY <1>7
  <2>2. PICK i \in DOMAIN jobs'[m] : x = JobAt(m, i) /\ w = JobAt(m, Shift(l, m, i))
    BY <2>1
  <2>3. w = JobAt(l, 1)
    BY <1>7, <2>2, PlacesDiffer
  <2>4. m = l /\ Shift(l, m, i) = 1
    <3>1. PICK a, b : a = Shift(l, m, i) /\ b = 1
      OBVIOUS
    <3>2. JobAt(m, a) = JobAt(l, b)
      BY <2>2, <2>3, <3>1
    <3> QED
      BY <3>1, <3>2, JobAtInjective
  <2> QED
    BY <2>4 DEF Fronted
<1>8. ASSUME NEW x, NEW y, FromFrame(x), FromFront(y)
      PROVE  FALSE
  <2>1. PICK i \in DOMAIN stack : w = FrameAt(i)
    BY <1>8
  <2>2. w = ListOf(jobs[l][1].of) \/ w = JobAt(l, 1)
    BY <1>8
  <2> QED
    BY <2>1, <2>2, PlacesDiffer
<1> HIDE DEF FromList, FromJob, FromFrame, FromFront
<1> QED
  BY <1>1, <1>2, <1>3, <1>4, <1>5, <1>6, <1>7, <1>8

\* And they are as far as they were there.
AsFar(v, w, h) ==
    (BusyAt(v, h)' <=> BusyAt(w, h)) /\ (CaughtAt(v, h)' <=> CaughtAt(w, h))

LEMMA TokensShift ==
    ASSUME TypeOK, Unique, TokensOK, UNCHANGED <<count, given, state, called, starts>>,
           NEW l \in Loops, Fronted(l),
           \A v, h : Held(v, h)' => \E w : /\ Source(l, v, w)
                                           /\ Held(w, h)
                                           /\ AsFar(v, w, h)
    PROVE  Unique' /\ TokensOK'
<1>1. Unique'
  <2> SUFFICES ASSUME NEW v, NEW u, NEW h, NEW g, Held(v, h)', Held(u, g)', h.to = g.to
               PROVE  v = u /\ h = g
    BY DEF Unique
  <2>1. PICK w : Source(l, v, w) /\ Held(w, h)
    OBVIOUS
  <2>2. PICK x : Source(l, u, x) /\ Held(x, g)
    OBVIOUS
  <2>3. w = x /\ h = g
    BY <2>1, <2>2 DEF Unique
  <2> QED
    BY <2>1, <2>2, <2>3, SourceInjective
<1>2. ASSUME NEW v, NEW h, Held(v, h)'
      PROVE  TokenOK(v, h)'
  <2>1. PICK w : Held(w, h) /\ AsFar(v, w, h)
    BY <1>2
  <2>2. TokenOK(w, h) /\ h.to \in Promises /\ h.to # 0
    BY <2>1, HeldIsHandler, KnownPromises DEF TokensOK
  <2>3. OthersSame(0)
    BY DEF OthersSame, Known
  <2> QED
    BY <2>1, <2>2, <2>3, OtherToken DEF AsFar
<1> QED
  BY <1>1, <1>2 DEF TokensOK

\* The handlers off the stack, when a job leaves the front of its loop.
LEMMA QueuedShift ==
    ASSUME TypeOK, JobsOK, UNCHANGED <<state, handlers>>, NEW l \in Loops, Fronted(l),
           1 \in DOMAIN jobs[l], NEW v, NEW h, Queued(v, h)'
    PROVE  \E w : /\ Source(l, v, w)
                  /\ Held(w, h)
                  /\ AsFar(v, w, h)
<1>1. \E w : Source(l, v, w) /\ Queued(w, h)
  <2>1. CASE \E q \in Promises : v = ListOf(q) /\ Live(q)' /\ In(handlers'[q], h)
    <3>1. PICK q \in Promises : v = ListOf(q) /\ Live(q)' /\ In(handlers[q], h)
      BY <2>1
    <3>2. Live(q) /\ ~(jobs[l][1].what = "drain" /\ jobs[l][1].of = q)
      BY <3>1, FrontedJobs
    <3>3. Source(l, v, v) /\ Queued(v, h)
      BY <3>1, <3>2 DEF Source, Queued
    <3> QED
      BY <3>3
  <2>2. CASE \E m \in Loops : \E i \in DOMAIN jobs'[m] :
               v = JobAt(m, i) /\ In(jobs'[m][i].todo, h)
    <3>1. PICK m \in Loops : \E i \in DOMAIN jobs'[m] :
                 v = JobAt(m, i) /\ In(jobs'[m][i].todo, h)
      BY <2>2
    <3>2. PICK i \in DOMAIN jobs'[m] : v = JobAt(m, i) /\ In(jobs'[m][i].todo, h)
      BY <3>1
    <3>3. Shift(l, m, i) \in DOMAIN jobs[m] /\ In(jobs[m][Shift(l, m, i)].todo, h)
      BY <3>2 DEF Fronted
    <3>4. PICK w : w = JobAt(m, Shift(l, m, i))
      OBVIOUS
    <3>5. Source(l, v, w) /\ Queued(w, h)
      BY <3>2, <3>3, <3>4 DEF Source, Queued
    <3> QED
      BY <3>5
  <2> QED
    BY <2>1, <2>2 DEF Queued
<1>2. PICK w : Source(l, v, w) /\ Queued(w, h)
  BY <1>1
<1>3. AsFar(v, w, h)
  BY <1>2, QueuedOffStack, QueuedOffStackNext DEF AsFar
<1> QED
  BY <1>2, <1>3 DEF Held

\* The handlers of the job that begins: its own, or those of the list it drains.
LEMMA RunJobKeeps ==
    ASSUME PromiseInv, NEW l \in Loops, RunJob(l)
    PROVE  PromiseInv' /\ OnlyPendingSettle
<1> DEFINE j == jobs[l][1]
           jj == IF j.what = "drain" THEN [j EXCEPT !.todo = handlers[j.of]] ELSE j
           f == [job |-> jj, loop |-> l, pc |-> "next"]
<1>1. /\ TypeOK /\ ListsOK /\ JobsOK /\ StackOK /\ StateOK /\ StartsOK /\ Unique /\ TokensOK
      /\ CaughtOK /\ UserCode
      /\ jobs[l] # <<>>
      /\ jobs' = [jobs EXCEPT ![l] = Tail(@)]
      /\ UNCHANGED <<count, given, state, called, handlers, handled, lost, starts, dropped, cut,
                     reported>>
  BY DEF PromiseInv, RunJob, promiseVars, ghostVars
<1>2. Fronted(l) /\ 1 \in DOMAIN jobs[l] /\ Head(jobs[l]) = j
  BY <1>1, FrontTaken
<1>3. stack' = Append(stack, f)
  BY <1>2 DEF RunJob, Push
<1>4. /\ JobsOK'
      /\ j.what = "drain" => Live(j.of)
      /\ Settled(j.of)
  BY <1>1, <1>2, FrontedJobs
<1>5. j \in Job /\ j.of \in Promises /\ j.todo \in Seq(Handler) /\ DistinctTo(j.todo)
  BY <1>1, <1>2, JobIsJob DEF JobsOK
<1>6. handlers[j.of] \in Seq(Handler) /\ DistinctTo(handlers[j.of])
  BY <1>1, <1>5 DEF TypeOK, ListsOK
<1> HIDE DEF j
<1>7. /\ jj \in Job /\ jj.of = j.of
      /\ jj.todo = IF j.what = "drain" THEN handlers[j.of] ELSE j.todo
  BY <1>5, <1>6 DEF Job
<1>8. DistinctTo(jj.todo)
  BY <1>5, <1>6, <1>7
<1> HIDE DEF jj
<1>9. f \in Frame /\ f.job = jj /\ f.pc = "next"
  BY <1>7 DEF Frame
<1> HIDE DEF f
<1>10. PICK n : n = Len(stack) + 1
  OBVIOUS
<1>11. /\ f.job.what \notin Calls => Settled(f.job.of)
       /\ DistinctTo(f.job.todo)
  BY <1>4, <1>7, <1>8, <1>9
<1>12. /\ Len(stack) \in Nat
       /\ DOMAIN stack = 1 .. Len(stack)
       /\ stack' \in Seq(Frame)
       /\ DOMAIN stack' = 1 .. Len(stack) + 1
       /\ stack'[n] = f
       /\ \A i \in DOMAIN stack : i \in DOMAIN stack' /\ stack'[i] = stack[i]
       /\ \A v, h : Running(v, h)' =>
             \/ Running(v, h) /\ v # FrameAt(n) /\ SamePc(v, h)
             \/ v = FrameAt(n) /\ In(f.job.todo, h)
       /\ \A h : BusyAt(FrameAt(n), h)' <=> (f.pc = "busy" /\ h = Head(f.job.todo))
       /\ \A h : CaughtAt(FrameAt(n), h)' <=> (f.pc = "caught" /\ h = Head(f.job.todo))
       /\ StackOK'
  BY <1>1, <1>3, <1>9, <1>10, <1>11, PushStack
<1>13. ASSUME NEW v, NEW h, Held(v, h)'
       PROVE  \E w : Source(l, v, w) /\ Held(w, h) /\ AsFar(v, w, h)
  <2>1. CASE Queued(v, h)'
    BY <1>1, <1>2, <2>1, QueuedShift
  <2>2. CASE Running(v, h) /\ SamePc(v, h)
    <3>1. Source(l, v, v)
      BY <2>2 DEF Running, Source
    <3> QED
      BY <2>2, <3>1 DEF Held, AsFar, SamePc
  <2>3. CASE v = FrameAt(n) /\ In(f.job.todo, h)
    <3>1. PICK w : w = IF j.what = "drain" THEN ListOf(j.of) ELSE JobAt(l, 1)
      OBVIOUS
    <3>2. Source(l, v, w)
      BY <1>10, <2>3, <3>1 DEF Source, j
    <3>3. Queued(w, h)
      <4>1. CASE j.what = "drain"
        BY <1>4, <1>5, <1>7, <1>9, <2>3, <3>1, <4>1 DEF Queued
      <4>2. CASE j.what # "drain"
        BY <1>2, <1>7, <1>9, <2>3, <3>1, <4>2 DEF Queued, j
      <4> QED
        BY <4>1, <4>2
    <3>4. AsFar(v, w, h)
      BY <1>9, <1>12, <2>3, <3>3, QueuedOffStack DEF AsFar
    <3> QED
      BY <3>2, <3>3, <3>4 DEF Held
  <2> QED
    BY <1>12, <1>13, <2>1, <2>2, <2>3 DEF Held
<1>14. Unique' /\ TokensOK'
  BY <1>1, <1>2, <1>13, TokensShift
<1>15. CaughtOK'
  <2>1. \A i \in DOMAIN stack' :
           stack'[i].pc # "caught" \/ (i \in DOMAIN stack /\ stack'[i].pc = stack[i].pc)
    BY <1>9, <1>10, <1>12
  <2> QED
    BY <1>1, <2>1, NobodyCaught, StaysUncaught
<1>16. TypeOK'
  BY <1>1, <1>2, <1>12 DEF TypeOK, Fronted
<1>17. ListsOK' /\ StateOK' /\ StartsOK'
  BY <1>1 DEF ListsOK, StateOK, StartsOK, Settled, Known
<1> QED
  BY <1>1, <1>4, <1>12, <1>14, <1>15, <1>16, <1>17 DEF PromiseInv, OnlyPendingSettle

LEMMA JobEndsKeeps ==
    ASSUME PromiseInv, JobEnds
    PROVE  PromiseInv' /\ OnlyPendingSettle
<1>1. /\ TypeOK /\ ListsOK /\ JobsOK /\ StackOK /\ StateOK /\ StartsOK /\ Unique /\ TokensOK
      /\ CaughtOK /\ OnTop("next") /\ stack # <<>>
      /\ stack' = SubSeq(stack, 1, Len(stack) - 1)
      /\ UNCHANGED <<count, given, state, called, handled, lost, starts, dropped>>
  BY DEF PromiseInv, JobEnds, Pop, OnTop, promiseVars
<1>2. PICK k : k = Len(stack) - 1
  OBVIOUS
<1>3. /\ k \in 0 .. Len(stack) - 1
      /\ stack' = SubSeq(stack, 1, k)
      /\ Of \in Promises
      /\ Top.job.what \notin Calls => Settled(Of)
      /\ Top.loop \in Loops
      /\ StaysSettled
  BY <1>1, <1>2, FrameIsFrame DEF Of, Top, StackOK, StaysSettled, Settled
<1>4. /\ stack' \in Seq(Frame)
      /\ \A v, h : Running(v, h)' => Running(v, h) /\ SamePc(v, h)
      /\ \A i \in DOMAIN stack' : i \in DOMAIN stack /\ stack'[i] = stack[i]
      /\ StackOK'
  BY <1>1, <1>3, CutStack
<1>5. <<>> \in Seq(Handler) /\ DistinctTo(<<>>) /\ \A g : ~In(<<>>, g)
  BY DEF DistinctTo, In
<1>6. /\ handlers' \in [Promises -> Seq(Handler)]
      /\ \A q \in Promises : handlers'[q] = handlers[q] \/ handlers'[q] = <<>>
  <2>1. handlers' = handlers \/ handlers' = [handlers EXCEPT ![Of] = <<>>]
    BY DEF JobEnds
  <2> QED
    BY <1>1, <1>3, <1>5, <2>1 DEF TypeOK
<1>7. ListsOK'
  BY <1>1, <1>5, <1>6 DEF ListsOK
<1>8. PICK l \in Loops, p \in Promises : l = Top.loop /\ p = Of
  BY <1>3
<1>9. UNCHANGED jobs \/ (Settled(p) /\ Added(l, "report", p, <<>>))
  <2>1. UNCHANGED jobs \/ (Settled(p) /\ Schedule(l, "report", p, <<>>))
    BY <1>8 DEF JobEnds, Settled
  <2> QED
    BY <1>1, <1>5, <2>1, Scheduled
<1>10. jobs' \in [Loops -> Seq(Job)]
  BY <1>1, <1>9 DEF TypeOK, Added
<1>11. ASSUME NEW m \in Loops, NEW i \in DOMAIN jobs'[m]
       PROVE  \/ i \in DOMAIN jobs[m] /\ jobs'[m][i] = jobs[m][i]
              \/ /\ Settled(p)
                 /\ jobs'[m][i].what = "report"
                 /\ jobs'[m][i].of = p
                 /\ jobs'[m][i].todo = <<>>
  BY <1>9 DEF Added
<1>12. \A q : Live(q)' => Live(q)
  <2>1. \A q : DrainWaits(q)' => DrainWaits(q)
    BY <1>11 DEF DrainWaits
  <2> QED
    BY <1>1, <2>1 DEF Live, Settled
<1>13. ASSUME NEW v, NEW h, Queued(v, h)'
       PROVE  Queued(v, h)
  <2>1. CASE \E q \in Promises : v = ListOf(q) /\ Live(q)' /\ In(handlers'[q], h)
    BY <1>5, <1>6, <1>12, <2>1 DEF Queued
  <2>2. CASE \E m \in Loops : \E i \in DOMAIN jobs'[m] :
               v = JobAt(m, i) /\ In(jobs'[m][i].todo, h)
    BY <1>5, <1>11, <2>2 DEF Queued
  <2> QED
    BY <1>13, <2>1, <2>2 DEF Queued
<1>14. Unique' /\ TokensOK'
  BY <1>1, <1>4, <1>13, TokensDropped
<1>15. JobsOK'
  <2>1. ASSUME NEW m \in Loops, NEW i \in DOMAIN jobs'[m]
        PROVE  state[jobs'[m][i].of] # "pending" /\ DistinctTo(jobs'[m][i].todo)
    <3>1. CASE i \in DOMAIN jobs[m] /\ jobs'[m][i] = jobs[m][i]
      BY <1>1, <3>1 DEF JobsOK, Settled
    <3>2. CASE Settled(p) /\ jobs'[m][i].of = p /\ jobs'[m][i].todo = <<>>
      BY <1>5, <3>2 DEF Settled
    <3> QED
      BY <1>11, <3>1, <3>2
  <2>2. ASSUME NEW m \in Loops, NEW n \in Loops,
               NEW i \in DOMAIN jobs'[m], NEW j \in DOMAIN jobs'[n],
               jobs'[m][i].what = "drain", jobs'[n][j].what = "drain",
               jobs'[m][i].of = jobs'[n][j].of
        PROVE  m = n /\ i = j
    <3>1. /\ i \in DOMAIN jobs[m] /\ jobs'[m][i] = jobs[m][i]
          /\ j \in DOMAIN jobs[n] /\ jobs'[n][j] = jobs[n][j]
      BY <1>11, <2>2
    <3> QED
      BY <1>1, <2>2, <3>1 DEF JobsOK
  <2> QED
    BY <1>1, <2>1, <2>2 DEF JobsOK, Settled
<1>16. StateOK' /\ StartsOK'
  BY <1>1 DEF StateOK, StartsOK, Settled, Known
<1>17. CaughtOK'
  BY <1>1, <1>4, NobodyCaught, StaysUncaught
<1>18. cut' \subseteq Promises /\ reported' \subseteq Promises
  BY <1>1, <1>3 DEF JobEnds, TypeOK
<1>19. TypeOK'
  BY <1>1, <1>4, <1>6, <1>10, <1>18 DEF TypeOK
<1> QED
  BY <1>1, <1>4, <1>7, <1>14, <1>15, <1>16, <1>17, <1>19 DEF PromiseInv, OnlyPendingSettle

-----------------------------------------------------------------------------
LEMMA StepKeeps ==
    ASSUME PromiseInv, Next
    PROVE  PromiseInv' /\ SettleStep
<1>0. OnlyPendingSettle => SettleStep
  BY DEF OnlyPendingSettle, SettleStep
<1>1. CASE JobStep
  BY <1>0, <1>1, HandlerStartsKeeps, ErrorCaughtKeeps, JobEndsKeeps DEF JobStep
<1>2. CASE HandlerReturns
  BY <1>0, <1>2, HandlerEndsKeeps, LaterFailsKeeps DEF HandlerReturns
<1>3. CASE NewPromise
  BY <1>0, <1>3, NewPromiseKeeps
<1>4. CASE \E k \in 0 .. Len(stack) : Interrupted(k)
  BY <1>0, <1>4, InterruptedKeeps
<1>5. CASE \E l \in Loops : RunJob(l) \/ Lose(l) \/ Discard(l)
  BY <1>0, <1>5, RunJobKeeps, LoseKeeps, DiscardKeeps
<1>6. CASE \E p \in given, what \in Calls, l \in Loops : Resolve(p, what, l)
  BY <1>0, <1>6, ResolveKeeps
<1>7. CASE \E p \in Known, kind \in Functions, l \in Loops : Then(p, kind, l)
  BY <1>0, <1>7, ThenKeeps, PromiseAssumption
<1> QED
  BY <1>1, <1>2, <1>3, <1>4, <1>5, <1>6, <1>7 DEF Next

LEMMA StutterKeeps ==
    ASSUME PromiseInv, UNCHANGED vars
    PROVE  PromiseInv'
<1>1. UNCHANGED <<count, given, state, called, handlers, handled, jobs, lost, stack, starts,
                  dropped, cut, reported>>
  BY DEF vars, promiseVars, ghostVars
<1>2. /\ \A v, h : Queued(v, h)' => Queued(v, h)
      /\ \A v, h : Running(v, h)' => Running(v, h) /\ SamePc(v, h)
  BY <1>1, StackSame DEF Queued, Live, DrainWaits, Settled
<1>3. Unique' /\ TokensOK'
  BY <1>1, <1>2, TokensDropped DEF PromiseInv
<1>4. TypeOK'
  BY <1>1 DEF PromiseInv, TypeOK
<1>5. ListsOK' /\ JobsOK' /\ StackOK' /\ StateOK' /\ StartsOK'
  BY <1>1 DEF PromiseInv, ListsOK, JobsOK, StackOK, StateOK, StartsOK, Settled, Known
<1>6. CaughtOK'
  BY <1>1 DEF PromiseInv, CaughtOK, Unseen
<1> QED
  BY <1>3, <1>4, <1>5, <1>6 DEF PromiseInv

\* The invariant holds in every reachable state.
THEOREM PromiseInvariant == Spec => []PromiseInv
<1>1. Init => PromiseInv
  BY InvInit
<1>2. PromiseInv /\ [Next]_vars => PromiseInv'
  BY StepKeeps, StutterKeeps
<1> QED
  BY <1>1, <1>2, PTL DEF Spec

\* The fields of the promises, the jobs and the frames keep their types.
THEOREM PromiseTypeOK == Spec => []TypeOK
<1>1. PromiseInv => TypeOK
  BY DEF PromiseInv
<1> QED
  BY <1>1, PromiseInvariant, PTL

(***************************************************************************)
(* No handler is called twice, nor before its promise is settled, in any   *)
(* order of then(), resolve(), run_now(), errors of later() and            *)
(* interrupts.                                                             *)
(***************************************************************************)
THEOREM PromiseCalledOnce == Spec => []CalledOnce
<1>1. PromiseInv => CalledOnce
  BY DEF PromiseInv, StartsOK, StackOK, CalledOnce
<1> QED
  BY <1>1, PromiseInvariant, PTL

(***************************************************************************)
(* A promise settles once, whoever tries to settle it: the user's code, a  *)
(* handler or the promise it was resolved with.  Only when later() fails   *)
(* in resolve() or reject() a fulfilled promise may become rejected, and   *)
(* then nobody has seen it fulfilled from the event loop.                  *)
(***************************************************************************)
THEOREM PromiseSettlesOnce == Spec => SettlesOnceUnlessLaterFails
<1>1. PromiseInv /\ [Next]_vars => [SettleStep]_vars
  BY StepKeeps
<1>2. [SettleStep]_vars =>
         [\A p \in Promises :
             Settled(p) =>
                \/ state'[p] = state[p]
                \/ /\ state[p] = "fulfilled" /\ state'[p] = "rejected"
                   /\ Top.loop \in lost
                   /\ Unseen(p)]_vars
  BY DEF SettleStep
<1> QED
  BY <1>1, <1>2, PromiseInvariant, PTL DEF Spec, SettlesOnceUnlessLaterFails
=============================================================================
