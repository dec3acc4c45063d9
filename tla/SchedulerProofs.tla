---- MODULE SchedulerProofs ----
(***************************************************************************)
(* The tasks of the previous runtime's scheduler: whatever is called, from *)
(* wherever, no queue, promise, callback or thread of the pool points to a *)
(* task that was freed, and no task that is to be run is forgotten.        *)
(***************************************************************************)
EXTENDS Scheduler, SequenceTheorems, FiniteSetTheorems, WellFoundedInduction, TLAPS

(***************************************************************************)
(* A heap h is looked at while some tasks are held by callbacks and drains *)
(* under way (K), some are in the pool (P), and timers below n are given.  *)
(***************************************************************************)
QueueName == {"callbacks", "timers", "io", "done"}
StatusName == {"absent", "pending", "fulfilled", "rejected"}
Reactions == {"then", "finally"}
Sources == {"timer", "sleep", "io"}

HeapType ==
  [status : [Promise -> StatusName], dependents : [Promise -> Seq(Task)],
   task : [Task -> TaskType], queues : [QueueName -> Seq(Task)]]

(* Where promises point to t, counted from the end: new ones come in front.*)
WaitsAt(d, t) ==
  {w \in Promise \X Nat : w[2] < Len(d[w[1]]) /\ d[w[1]][Len(d[w[1]]) - w[2]] = t}

(* A task is in the queue of its kind, or an operation in done, once.      *)
PlacedInv(h) ==
  \A q \in QueueName : \A i \in 1..Len(h.queues[q]) :
    /\ h.task[h.queues[q][i]].queued
    /\ \/ q = QueueOf(h.task[h.queues[q][i]].kind)
       \/ q = "done" /\ h.task[h.queues[q][i]].kind = "io"
OncePlacedInv(h) ==
  \A q, r \in QueueName : \A i \in 1..Len(h.queues[q]), j \in 1..Len(h.queues[r]) :
    h.queues[q][i] = h.queues[r][j] => q = r /\ i = j
QueuedInv(h) ==
  \A t \in Task : h.task[t].queued =>
    \E q \in QueueName : \E i \in 1..Len(h.queues[q]) : h.queues[q][i] = t
QueuesInv(h) == PlacedInv(h) /\ OncePlacedInv(h) /\ QueuedInv(h)

(* What is in the pool is not completed, and the scheduler waits for it.   *)
PooledInv(h, P) ==
  \A t \in P :
    /\ h.task[t].kind = "io" /\ ~h.task[t].completed
    /\ \E i \in 1..Len(h.queues["io"]) : h.queues["io"][i] = t

(* The counter of a task is right.                                         *)
DepsInv(h, t) == h.task[t].deps = Cardinality(WaitsAt(h.dependents, t))

(* What a task is held by, as it is free, finished or neither.             *)
FreeInv(h, t, K) ==
  h.task[t].kind = "free" =>
    ~h.task[t].queued /\ ~h.task[t].finished /\ h.task[t].deps = 0 /\ t \notin K
FinishedInv(h, t, K) ==
  h.task[t].finished => h.task[t].deps > 0 /\ ~h.task[t].queued /\ t \notin K
HeldInv(h, t, K) ==
  /\ h.task[t].kind # "free" /\ ~h.task[t].finished =>
       h.task[t].queued \/ h.task[t].deps > 0 \/ t \in K
  /\ t \in K => ~h.task[t].queued

(* Only combinators wait while they are queued or run, or after it: for    *)
(* inputs, which their own promise is not one of.                          *)
WaitingInv(h, t, K) ==
  /\ h.task[t].kind \in Sources => h.task[t].deps = 0
  /\ h.task[t].kind \in Reactions => h.task[t].deps <= 1 /\ Len(h.task[t].items) = 1
  /\ h.task[t].kind \notin Combinators /\ (h.task[t].queued \/ t \in K) => h.task[t].deps = 0
InputInv(h, t) ==
  h.task[t].kind \in Combinators =>
    /\ \A w \in WaitsAt(h.dependents, t) :
         \E i \in 1..Len(h.task[t].items) : h.task[t].items[i] = w[1]
    /\ \A i \in 1..Len(h.task[t].items) : h.task[t].items[i] # h.task[t].result

(* The promises of a task were created, and two tasks have not the same    *)
(* promise or the same number.                                             *)
KeyOf(k) == IF k.kind = "timer" THEN MaxPromises + k.id ELSE k.result
CreatedInv(h, t) ==
  h.task[t].kind # "free" =>
    \A i \in 1..Len(h.task[t].items) : StatusIn(h, h.task[t].items[i]) # "absent"
KeyInv(h, t, n) ==
  /\ h.task[t].kind \notin {"free", "timer"} =>
       h.task[t].result \in Promise /\ h.status[h.task[t].result] # "absent"
  /\ h.task[t].kind = "timer" => h.task[t].id \in 1..(n - 1)
  /\ \A u \in Task \ {t} :
       h.task[t].kind # "free" /\ h.task[u].kind # "free" =>
         KeyOf(h.task[t]) # KeyOf(h.task[u])

TaskInv(h, t, K, n) ==
  /\ DepsInv(h, t)
  /\ FreeInv(h, t, K) /\ FinishedInv(h, t, K) /\ HeldInv(h, t, K)
  /\ WaitingInv(h, t, K) /\ InputInv(h, t)
  /\ CreatedInv(h, t) /\ KeyInv(h, t, n)

(* What holds of the heap but for the record of t.                         *)
AllBut(h, t, K, P, n) ==
  /\ h \in HeapType
  /\ QueuesInv(h)
  /\ \A u \in Task \ {t} : TaskInv(h, u, K, n)
  /\ PooledInv(h, P)

HeapInv(h, K, P, n) ==
  /\ h \in HeapType
  /\ QueuesInv(h)
  /\ \A t \in Task : TaskInv(h, t, K, n)
  /\ PooledInv(h, P)

(* The tasks of callbacks and drains under way.                            *)
HeldIn(s) == {s[i].task : i \in 1..Len(s)} \ {NoTask}
Held == HeldIn(stack)
InHands == {hand[w] : w \in IoThread} \ {Idle, Absent}
Pooled == ToSet(pool.queue) \cup InHands

FrameType == [kind : {"await", "exit", "then", "finally", "callback"},
              on : Promise \cup {Plain}, task : Task \cup {NoTask}, turns : Nat]

(* A frame f fits a heap h.                                                *)
Fits(f, h) ==
  /\ f \in FrameType
  /\ f.kind \in {"await", "exit"} <=> f.task = NoTask
  /\ f.kind \in {"await", "then", "finally"} => f.on \in Promise /\ h.status[f.on] # "absent"
  /\ f.kind \in {"exit", "callback"} => f.on = Plain
  /\ f.kind \in Reactions => h.task[f.task].kind = f.kind
  /\ f.kind = "callback" => h.task[f.task].kind \in {"timer", "then", "finally"}

FramesOf(s, h) ==
  /\ s \in Seq(FrameType)
  /\ \A i \in 1..Len(s) : Fits(s[i], h)
  /\ \A i, j \in 1..Len(s) : s[i].task = s[j].task /\ s[i].task # NoTask => i = j
FramesInv == FramesOf(stack, Heap)

PoolOnceInv ==
  /\ pool \in [started : BOOLEAN, stopping : BOOLEAN, queue : Seq(Task)]
  /\ hand \in [IoThread -> Task \union {Idle, Absent}]
  /\ \A i, j \in 1..Len(pool.queue) : pool.queue[i] = pool.queue[j] => i = j
  /\ \A v, w \in IoThread : hand[v] = hand[w] /\ hand[v] \in Task => v = w
  /\ \A w \in IoThread : hand[w] \notin ToSet(pool.queue)

ClockInv ==
  /\ now \in 0..MaxNow /\ nextTimer \in 1..(MaxTimers + 1)
  /\ exception \in BOOLEAN
  /\ phase \in {"main", "draining", "stopping", "joining", "stopped"}

SchedulerInv == HeapInv(Heap, Held, Pooled, nextTimer) /\ FramesInv /\ PoolOnceInv /\ ClockInv

----------------------------------------------------------------------------
(* Sizes, sequences and the heap as a record.                            *)
LEMMA Sizes ==
  /\ MaxPromises \in Nat /\ MaxTimers \in Nat /\ MaxNow \in Nat
  /\ Promise \subseteq Nat \ {0} /\ Task \subseteq Nat \ {0}
  /\ IsFiniteSet(Promise) /\ IsFiniteSet(Task)
  /\ Cardinality(Task) = MaxPromises + MaxTimers + 1
<1> DEFINE N == MaxPromises + MaxTimers + 1
<1>1. MaxPromises \in Nat /\ MaxTimers \in Nat /\ MaxNow \in Nat
  BY SchedulerAssumption
<1>3. IsFiniteSet(1..N) /\ Cardinality(1..N) = N
  <2>1. 1 \in Int /\ N \in Int /\ N \in Nat
    BY <1>1
  <2> HIDE DEF N
  <2>2. IsFiniteSet(1..N) /\ Cardinality(1..N) = IF 1 > N THEN 0 ELSE N - 1 + 1
    BY <2>1, FS_Interval
  <2>3. QED
    BY <2>1, <2>2
<1>4. IsFiniteSet(1..MaxPromises)
  <2>1. /\ 1..MaxPromises \in SUBSET (1..(MaxPromises + MaxTimers + 1))
        /\ IsFiniteSet(1..(MaxPromises + MaxTimers + 1))
    BY <1>1, <1>3
  <2>2. QED
    BY <2>1, FS_Subset
<1>5. QED
  BY <1>1, <1>3, <1>4 DEF Promise, Task

(* A set of numbers has a smallest one.                                    *)
LEMMA LeastIs ==
  ASSUME NEW S, S \subseteq Nat, S # {}
  PROVE  Min(S) \in S /\ \A y \in S : Min(S) <= y
<1>1. PICK x \in S : \A y \in S : ~ (<<y, x>> \in OpToRel(<, Nat))
  BY NatLessThanWellFounded, WFMin
<1>2. \A y \in S : x <= y
  <2>1. \A y \in S : ~(y < x)
    BY <1>1 DEF OpToRel
  <2>2. QED
    BY <2>1
<1>3. QED
  BY <1>2 DEF Min

(* What holds at the start and goes on from each turn of a loop to the     *)
(* next holds to its end.                                                  *)
LEMMA UpTo ==
  ASSUME NEW n \in Nat, NEW S, 0 \in S, \A i \in 1..n : i - 1 \in S => i \in S
  PROVE  0..n \subseteq S
<1> DEFINE Bad == {i \in 0..n : i \notin S}
<1>1. SUFFICES ASSUME Bad # {} PROVE FALSE
  OBVIOUS
<1>2. Bad \subseteq Nat
  OBVIOUS
<1>3. PICK i \in Bad : \A j \in Bad : i <= j
  <2> HIDE DEF Bad
  <2>1. QED
    BY <1>1, <1>2, LeastIs
<1>4. i \in 1..n /\ i - 1 \in 0..n /\ i - 1 \notin Bad
  <2>1. i \in 0..n /\ i # 0
    BY <1>3
  <2>2. i \in 1..n /\ i - 1 \in 0..n /\ ~(i <= i - 1)
    BY <2>1
  <2> HIDE DEF Bad
  <2>3. QED
    BY <2>2, <1>3
<1>5. QED
  BY <1>3, <1>4

(* A loop over steps that stay in a set D ends.                            *)
Loops(n, D, base, F) ==
  {f \in [0..n -> D] : f[0] = base /\ \A i \in 1..n : f[i] = F[<<f[i - 1], i>>]}

(* A loop over any n steps can be run: each step has the value before      *)
(* it.                                                                     *)
LEMMA LoopExists ==
  ASSUME NEW n \in Nat, NEW D, NEW base \in D, NEW F \in [D \X (1..n) -> D]
  PROVE  Loops(n, D, base, F) # {}
<1> DEFINE Loop(f, k) == f[0] = base /\ \A i \in 1..k : f[i] = F[<<f[i - 1], i>>]
           S == {k \in 0..n : \E f \in [0..k -> D] : Loop(f, k)}
<1>1. 0 \in S
  <2> DEFINE f == [i \in 0..0 |-> base]
  <2>1. f \in [0..0 -> D] /\ Loop(f, 0)
    OBVIOUS
  <2> HIDE DEF f, Loop
  <2>2. QED
    BY <2>1
<1>2. ASSUME NEW k \in 1..n, k - 1 \in S PROVE k \in S
  <2>1. k - 1 \in Nat /\ k \in Nat
    OBVIOUS
  <2>2. PICK f \in [0..(k - 1) -> D] : Loop(f, k - 1)
    BY <1>2
  <2> DEFINE g == [i \in 0..k |-> IF i = k THEN F[<<f[k - 1], k>>] ELSE f[i]]
  <2>3. g \in [0..k -> D]
    <3>1. f[k - 1] \in D
      BY <2>1
    <3>2. F[<<f[k - 1], k>>] \in D
      BY <3>1
    <3>3. \A i \in 0..k : i # k => f[i] \in D
      BY <2>1
    <3>4. QED
      BY <3>2, <3>3
  <2>4. \A i \in 0..(k - 1) : g[i] = f[i]
    BY <2>1
  <2>5. \A i \in 1..k : g[i] = F[<<g[i - 1], i>>]
    <3> TAKE i \in 1..k
    <3>1. CASE i = k
      <4>1. g[k] = F[<<f[k - 1], k>>] /\ g[k - 1] = f[k - 1]
        BY <2>1
      <4> HIDE DEF g
      <4>2. QED
        BY <3>1, <4>1
    <3>2. CASE i # k
      <4>1. i \in 1..(k - 1) /\ i \in 0..(k - 1) /\ i - 1 \in 0..(k - 1)
        BY <2>1, <3>2
      <4>2. f[i] = F[<<f[i - 1], i>>]
        BY <2>2, <4>1
      <4> HIDE DEF g
      <4>3. QED
        BY <4>1, <4>2, <2>4
    <3>3. QED
      BY <3>1, <3>2
  <2>6. Loop(g, k)
    <3>1. g[0] = base
      BY <2>1, <2>2
    <3> HIDE DEF g
    <3>2. QED
      BY <2>5, <3>1
  <2> HIDE DEF g, Loop
  <2>7. QED
    BY <2>3, <2>6
<1>3. 0..n \subseteq S
  <2> HIDE DEF S
  <2>1. QED
    BY <1>1, <1>2, UpTo
<1>4. n \in S
  BY <1>3, SMTT(30)
<1>5. QED
  BY <1>4 DEF Loops

(* A heap is the record of its four fields.                                *)
LEMMA HeapIs ==
  ASSUME NEW h \in HeapType
  PROVE  /\ h = [status |-> h.status, dependents |-> h.dependents, task |-> h.task,
                 queues |-> h.queues]
         /\ h.status \in [Promise -> StatusName] /\ h.dependents \in [Promise -> Seq(Task)]
         /\ h.task \in [Task -> TaskType] /\ h.queues \in [QueueName -> Seq(Task)]
BY DEF HeapType

(* A heap is its four fields.                                              *)
LEMMA SameHeap ==
  ASSUME NEW a \in HeapType, NEW b \in HeapType, a.status = b.status,
         a.dependents = b.dependents, a.task = b.task, a.queues = b.queues
  PROVE  a = b
<1>1. a = [status |-> a.status, dependents |-> a.dependents, task |-> a.task,
           queues |-> a.queues]
  BY HeapIs
<1>2. b = [status |-> b.status, dependents |-> b.dependents, task |-> b.task,
           queues |-> b.queues]
  BY HeapIs
<1>3. QED
  BY <1>1, <1>2

(* After Becomes(h) the program's heap is h.                               *)
LEMMA BecomesIs ==
  ASSUME NEW h \in HeapType, Becomes(h)
  PROVE  Heap' = h
BY HeapIs DEF Becomes, Heap

(* The fields of a task record.                                            *)
LEMMA TaskIs ==
  ASSUME NEW k \in TaskType
  PROVE  /\ k.kind \in {"free"} \cup Reactions \cup Sources \cup Combinators
         /\ k.items \in Seq(Promise \cup {Plain}) /\ k.result \in Promise \cup {Plain}
         /\ k.deps \in Nat /\ k.id \in 0..MaxTimers /\ k.due \in Nat
         /\ k.queued \in BOOLEAN /\ k.finished \in BOOLEAN /\ k.completed \in BOOLEAN
  BY DEF TaskType, Reactions, Sources

(* There is always a record for one more task.                             *)
LEMMA TaskIsFree ==
  ASSUME NEW h \in HeapType, NEW n \in 1..(MaxTimers + 1), \A t \in Task : KeyInv(h, t, n)
  PROVE  /\ Min({t \in Task : h.task[t].kind = "free"}) \in Task
         /\ h.task[Min({t \in Task : h.task[t].kind = "free"})].kind = "free"
<1> DEFINE F == {t \in Task : h.task[t].kind = "free"}
           U == {t \in Task : h.task[t].kind # "free"}
           key == [t \in U |-> KeyOf(h.task[t])]
           N == MaxPromises + MaxTimers
<1>1. \A t \in Task : KeyInv(h, t, n)
  OBVIOUS
<1>2. F # {}
  <2>1. SUFFICES ASSUME F = {} PROVE FALSE
    OBVIOUS
  <2>2. U = Task
    BY <2>1
  <2>3. N \in Int /\ IsFiniteSet(1..N) /\ Cardinality(1..N) = N
    <3>1. N \in Nat /\ 1 \in Int /\ N \in Int
      BY Sizes
    <3>2. IsFiniteSet(1..N) /\ Cardinality(1..N) = IF 1 > N THEN 0 ELSE N - 1 + 1
      BY <3>1, FS_Interval
    <3>3. QED
      BY <3>1, <3>2
  <2>4. \A t \in U : KeyOf(h.task[t]) \in 1..N
    <3> TAKE t \in U
    <3>1. t \in Task /\ h.task[t].kind # "free"
      OBVIOUS
    <3>2. CASE h.task[t].kind = "timer"
      <4>1. h.task[t].id \in 1..(n - 1)
        BY <1>1, <3>1, <3>2 DEF KeyInv
      <4>2. KeyOf(h.task[t]) = MaxPromises + h.task[t].id
        BY <3>2 DEF KeyOf
      <4>3. QED
        BY <4>1, <4>2, Sizes
    <3>3. CASE h.task[t].kind # "timer"
      <4>1. h.task[t].result \in Promise
        BY <1>1, <3>1, <3>3 DEF KeyInv
      <4>2. KeyOf(h.task[t]) = h.task[t].result
        BY <3>3 DEF KeyOf
      <4>3. QED
        BY <4>1, <4>2, Sizes DEF Promise
    <3>4. QED
      BY <3>2, <3>3
  <2>5. key \in [U -> 1..N]
    BY <2>4
  <2>6. Cardinality(1..N) < Cardinality(U) /\ IsFiniteSet(U)
    <3>1. Cardinality(U) = N + 1 /\ IsFiniteSet(U)
      BY <2>2, Sizes
    <3>2. QED
      BY <3>1, <2>3
  <2>7. PICK t \in U, u \in U : t # u /\ key[t] = key[u]
    <3> HIDE DEF U, key, N
    <3>1. QED
      BY <2>3, <2>5, <2>6, FS_PigeonHole
  <2>8. QED
    BY <1>1, <2>7 DEF KeyInv
<1>3. F \subseteq Nat
  BY Sizes
<1>4. Min(F) \in F
  <2> HIDE DEF F
  <2>1. QED
    BY <1>2, <1>3, LeastIs
<1>5. QED
  BY <1>4

----------------------------------------------------------------------------
(* What a function of the scheduler does to the invariant.                 *)

(* Where a task is counted.                                                *)
LEMMA WaitsFinite ==
  ASSUME NEW d \in [Promise -> Seq(Task)], NEW t
  PROVE  IsFiniteSet(WaitsAt(d, t)) /\ Cardinality(WaitsAt(d, t)) \in Nat
<1> DEFINE f == [p \in Promise |-> {p} \X (0..Len(d[p]))]
           T == {f[p] : p \in Promise}
<1>1. IsFiniteSet(T)
  <2>1. f \in Surjection(Promise, T)
    BY DEF Surjection
  <2> HIDE DEF f, T
  <2>2. QED
    BY <2>1, Sizes, FS_Surjection
<1>2. \A S \in T : IsFiniteSet(S)
  <2> TAKE S \in T
  <2>1. PICK p \in Promise : S = {p} \X (0..Len(d[p]))
    OBVIOUS
  <2>2. Len(d[p]) \in Int /\ 0 \in Int
    OBVIOUS
  <2>3. IsFiniteSet(0..Len(d[p])) /\ Cardinality(0..Len(d[p])) = IF 0 > Len(d[p]) THEN 0 ELSE Len(d[p]) - 0 + 1
    BY <2>2, FS_Interval
  <2>4. IsFiniteSet({p})
    BY FS_Singleton
  <2>5. QED
    BY <2>1, <2>3, <2>4, FS_Product
<1>3. IsFiniteSet(UNION T)
  <2> HIDE DEF T
  <2>1. QED
    BY <1>1, <1>2, FS_UNION
<1>4. WaitsAt(d, t) \in SUBSET UNION T
  <2> SUFFICES ASSUME NEW w \in WaitsAt(d, t) PROVE w \in UNION T
    OBVIOUS
  <2>1. w \in Promise \X Nat /\ w[2] < Len(d[w[1]])
    BY DEF WaitsAt
  <2>2. w[1] \in Promise /\ w[2] \in 0..Len(d[w[1]]) /\ w = <<w[1], w[2]>>
    BY <2>1
  <2>3. w \in f[w[1]]
    BY <2>2
  <2>4. QED
    BY <2>2, <2>3
<1>5. IsFiniteSet(WaitsAt(d, t))
  <2> HIDE DEF T
  <2>1. QED
    BY <1>3, <1>4, FS_Subset
<1>6. QED
  BY <1>5, FS_CardinalityType

(* The kinds that a task in use has, and where it is queued.               *)
LEMMA QueueIs ==
  ASSUME NEW k \in TaskType
  PROVE  /\ QueueOf(k.kind) \in QueueName \ {"done"}
         /\ k.kind # "free" =>
              /\ QueueOf(k.kind) = "io" <=> k.kind = "io"
              /\ QueueOf(k.kind) = "callbacks" <=> k.kind \in Reactions \cup Combinators
              /\ QueueOf(k.kind) = "timers" <=> k.kind \in {"timer", "sleep"}
BY TaskIs DEF QueueOf, QueueName, Reactions, Sources, Combinators

(* append_task adds the task at the end of its kind's queue and marks it   *)
(* as queued; the rest of the heap is as it was.                           *)
AppendedTo(h, t, q, g) ==
  /\ g \in HeapType /\ g.status = h.status /\ g.dependents = h.dependents
  /\ q \in QueueName \ {"done"}
  /\ g.queues[q] = Append(h.queues[q], t)
  /\ \A r \in QueueName \ {q} : g.queues[r] = h.queues[r]
  /\ \A u \in Task \ {t} : g.task[u] = h.task[u]
  /\ g.task[t] = [h.task[t] EXCEPT !.queued = TRUE]
LEMMA AppendIs ==
  ASSUME NEW h \in HeapType, NEW t \in Task
  PROVE  AppendedTo(h, t, QueueOf(h.task[t].kind), AppendTask(h, t))
<1>0. PICK g, q : g = AppendTask(h, t) /\ q = QueueOf(h.task[t].kind)
  OBVIOUS
<1>1. q \in QueueName \ {"done"} /\ h.task[t] \in TaskType
  BY <1>0, QueueIs, HeapIs
<1>2. g = [h EXCEPT !.queues = [h.queues EXCEPT ![q] = Append(h.queues[q], t)],
                    !.task = [h.task EXCEPT ![t] = [h.task[t] EXCEPT !.queued = TRUE]]]
  BY <1>0 DEF AppendTask
<1>3. [h.task[t] EXCEPT !.queued = TRUE] \in TaskType
  BY <1>1 DEF TaskType
<1>4. Append(h.queues[q], t) \in Seq(Task)
  BY <1>1, HeapIs
<1>5. /\ g.status = h.status /\ g.dependents = h.dependents
      /\ g.queues = [h.queues EXCEPT ![q] = Append(h.queues[q], t)]
      /\ g.task = [h.task EXCEPT ![t] = [h.task[t] EXCEPT !.queued = TRUE]]
      /\ g = [status |-> g.status, dependents |-> g.dependents, task |-> g.task,
              queues |-> g.queues]
  <2>1. h = [status |-> h.status, dependents |-> h.dependents, task |-> h.task,
             queues |-> h.queues]
    BY HeapIs
  <2>2. g = [status |-> h.status, dependents |-> h.dependents,
             task |-> [h.task EXCEPT ![t] = [h.task[t] EXCEPT !.queued = TRUE]],
             queues |-> [h.queues EXCEPT ![q] = Append(h.queues[q], t)]]
    BY <2>1, <1>2
  <2>3. QED
    BY <2>2
<1>6. /\ g.queues \in [QueueName -> Seq(Task)] /\ g.task \in [Task -> TaskType]
  BY <1>1, <1>3, <1>4, <1>5, HeapIs, SMTT(30), ZenonT(60)
<1>7. g \in HeapType
  BY <1>5, <1>6, HeapIs DEF HeapType
<1>8. g.queues[q] = Append(h.queues[q], t) /\ \A r \in QueueName \ {q} : g.queues[r] = h.queues[r]
  <2>1. h.queues \in [QueueName -> Seq(Task)] /\ q \in QueueName
    BY <1>1, HeapIs
  <2>2. g.queues = [h.queues EXCEPT ![q] = Append(h.queues[q], t)]
    BY <1>5
  <2>3. QED
    BY <2>1, <2>2
<1>9. /\ \A u \in Task \ {t} : g.task[u] = h.task[u]
      /\ g.task[t] = [h.task[t] EXCEPT !.queued = TRUE]
  <2>1. h.task \in [Task -> TaskType]
    BY HeapIs
  <2>2. g.task = [h.task EXCEPT ![t] = [h.task[t] EXCEPT !.queued = TRUE]]
    BY <1>5
  <2>3. QED
    BY <2>1, <2>2
<1>10. g.status = h.status /\ g.dependents = h.dependents
  BY <1>5
<1>11. AppendedTo(h, t, q, g)
  BY <1>1, <1>7, <1>8, <1>9, <1>10 DEF AppendedTo
<1>12. QED
  BY <1>0, <1>11

(* A step that changes the record of one task t at most, and what waits    *)
(* for what only for it: the others keep what holds of them.               *)
OnlyAt(h, g, t, K, L) ==
  \A u \in Task \ {t} :
    /\ g.task[u] = h.task[u] /\ WaitsAt(g.dependents, u) = WaitsAt(h.dependents, u)
    /\ u \in L <=> u \in K
StatusKept(h, g) == \A p \in Promise : h.status[p] # "absent" => g.status[p] # "absent"
KeyKept(h, g, t) ==
  t \in Task =>
    \/ g.task[t].kind = "free"
    \/ h.task[t].kind # "free" /\ KeyOf(g.task[t]) = KeyOf(h.task[t])
    \/ \A u \in Task \ {t} : h.task[u].kind # "free" => KeyOf(g.task[t]) # KeyOf(h.task[u])

(* A task that a step does not touch keeps its invariant, also when        *)
(* later timers have been given.                                           *)
LEMMA OthersKeep ==
  ASSUME NEW h \in HeapType, NEW g \in HeapType, NEW K, NEW L, NEW n \in Int, NEW m \in Int,
         n <= m, NEW t,
         \A u \in Task \ {t} : TaskInv(h, u, K, n),
         OnlyAt(h, g, t, K, L), StatusKept(h, g), KeyKept(h, g, t)
  PROVE  \A u \in Task \ {t} : TaskInv(g, u, L, m)
<1> TAKE u \in Task \ {t}
<1>1. /\ DepsInv(h, u) /\ FreeInv(h, u, K) /\ FinishedInv(h, u, K) /\ HeldInv(h, u, K)
      /\ WaitingInv(h, u, K) /\ InputInv(h, u) /\ CreatedInv(h, u) /\ KeyInv(h, u, n)
  BY DEF TaskInv
<1>2. /\ u \in Task /\ u # t /\ g.task[u] = h.task[u] /\ (u \in L <=> u \in K)
      /\ WaitsAt(g.dependents, u) = WaitsAt(h.dependents, u)
      /\ h.task[u] \in TaskType
  BY HeapIs DEF OnlyAt
<1>3. DepsInv(g, u) /\ FreeInv(g, u, L) /\ FinishedInv(g, u, L) /\ HeldInv(g, u, L)
  BY <1>1, <1>2 DEF DepsInv, FreeInv, FinishedInv, HeldInv
<1>4. WaitingInv(g, u, L) /\ InputInv(g, u)
  BY <1>1, <1>2 DEF WaitingInv, InputInv
<1>5. CreatedInv(g, u)
  <2> SUFFICES ASSUME h.task[u].kind # "free", NEW i \in 1..Len(h.task[u].items)
               PROVE  StatusIn(g, h.task[u].items[i]) # "absent"
    BY <1>2 DEF CreatedInv
  <2>1. StatusIn(h, h.task[u].items[i]) # "absent"
    BY <1>1 DEF CreatedInv
  <2>2. h.task[u].items[i] \in Promise \cup {Plain}
    <3>1. h.task[u].items \in Seq(Promise \cup {Plain})
      BY <1>2, TaskIs
    <3>2. QED
      BY <3>1
  <2>3. QED
    BY <2>1, <2>2 DEF StatusIn, StatusKept
<1>6. KeyInv(g, u, m)
  <2>1. ASSUME h.task[u].kind \notin {"free", "timer"}
        PROVE  h.task[u].result \in Promise /\ g.status[h.task[u].result] # "absent"
    BY <1>1, <2>1 DEF KeyInv, StatusKept
  <2>2. ASSUME h.task[u].kind = "timer" PROVE h.task[u].id \in 1..(m - 1)
    <3>1. h.task[u].id \in 1..(n - 1)
      BY <1>1, <2>2 DEF KeyInv
    <3>2. QED
      BY <3>1
  <2>3. ASSUME NEW v \in Task \ {u}, h.task[u].kind # "free", g.task[v].kind # "free"
        PROVE  KeyOf(h.task[u]) # KeyOf(g.task[v])
    <3>1. CASE v # t
      <4>1. g.task[v] = h.task[v]
        BY <3>1 DEF OnlyAt
      <4>2. QED
        BY <4>1, <1>1, <2>3 DEF KeyInv
    <3>2. CASE v = t
      <4>1. h.task[t].kind # "free" => KeyOf(h.task[u]) # KeyOf(h.task[t])
        BY <1>1, <2>3, <3>2 DEF KeyInv
      <4>2. QED
        BY <4>1, <1>2, <2>3, <3>2 DEF KeyKept
    <3>3. QED
      BY <3>1, <3>2
  <2>4. QED
    BY <1>2, <2>1, <2>2, <2>3 DEF KeyInv
<1>7. QED
  BY <1>3, <1>4, <1>5, <1>6 DEF TaskInv

(* The queues are as they were.                                            *)
LEMMA QueuesStay ==
  ASSUME NEW h \in HeapType, NEW g \in HeapType, NEW P, NEW Q, Q \subseteq P,
         QueuesInv(h), PooledInv(h, P), g.queues = h.queues,
         \A u \in Task : g.task[u].queued = h.task[u].queued,
         \A u \in Task : h.task[u].queued => g.task[u].kind = h.task[u].kind,
         \A u \in Q : u \in Task /\ h.task[u].queued => g.task[u].completed = h.task[u].completed
  PROVE  QueuesInv(g) /\ PooledInv(g, Q)
<1>1. \A q \in QueueName : \A i \in 1..Len(h.queues[q]) : h.queues[q][i] \in Task
  BY HeapIs
<1>2. PlacedInv(h) /\ OncePlacedInv(h) /\ QueuedInv(h)
  BY DEF QueuesInv
<1>3. PlacedInv(g)
  <2> SUFFICES ASSUME NEW q \in QueueName, NEW i \in 1..Len(h.queues[q]), NEW u \in Task,
                      u = h.queues[q][i]
               PROVE  /\ g.task[u].queued
                      /\ q = QueueOf(g.task[u].kind) \/ (q = "done" /\ g.task[u].kind = "io")
    BY <1>1 DEF PlacedInv
  <2>1. h.task[u].queued /\ (q = QueueOf(h.task[u].kind) \/ (q = "done" /\ h.task[u].kind = "io"))
    BY <1>2 DEF PlacedInv
  <2>2. QED
    BY <2>1
<1>4. OncePlacedInv(g)
  BY <1>2 DEF OncePlacedInv
<1>5. QueuedInv(g)
  BY <1>2 DEF QueuedInv
<1>6. PooledInv(g, Q)
  <2> SUFFICES ASSUME NEW u \in Q
               PROVE  /\ g.task[u].kind = "io" /\ ~g.task[u].completed
                      /\ \E i \in 1..Len(h.queues["io"]) : h.queues["io"][i] = u
    BY DEF PooledInv
  <2>1. /\ h.task[u].kind = "io" /\ ~h.task[u].completed
        /\ \E i \in 1..Len(h.queues["io"]) : h.queues["io"][i] = u
    BY DEF PooledInv
  <2>2. u \in Task /\ h.task[u].queued
    <3>1. "io" \in QueueName
      BY DEF QueueName
    <3>2. QED
      BY <2>1, <3>1, <1>1, <1>2 DEF PlacedInv
  <2>3. QED
    BY <2>1, <2>2
<1>7. QED
  BY <1>3, <1>4, <1>5, <1>6 DEF QueuesInv

(* Who is in the pool is queued.                                           *)
LEMMA PooledQueued ==
  ASSUME NEW h, NEW K, NEW P, NEW n, HeapInv(h, K, P, n), NEW u \in P
  PROVE  u \in Task /\ h.task[u].queued /\ h.task[u].kind = "io" /\ u \notin K
<1>1. h \in HeapType /\ QueuesInv(h) /\ PooledInv(h, P) /\ (u \in Task => TaskInv(h, u, K, n))
  BY DEF HeapInv
<1>2. PlacedInv(h) /\ "io" \in QueueName
  BY <1>1 DEF QueuesInv, QueueName
<1>3. h.task[u].kind = "io" /\ \E i \in 1..Len(h.queues["io"]) : h.queues["io"][i] = u
  BY <1>1 DEF PooledInv
<1>4. u \in Task
  BY <1>1, <1>2, <1>3, HeapIs
<1>5. h.task[u].queued
  BY <1>2, <1>3 DEF PlacedInv
<1>6. HeldInv(h, u, K)
  BY <1>1, <1>4 DEF TaskInv
<1>7. QED
  BY <1>3, <1>4, <1>5, <1>6 DEF HeldInv

(* A task that was held is queued.                                         *)
LEMMA AppendKeeps ==
  ASSUME NEW h, NEW K, NEW P, NEW n \in Int, HeapInv(h, K, P, n), NEW t \in K, t \in Task,
         h.task[t].deps > 0 => h.task[t].kind \in Combinators
  PROVE  HeapInv(AppendTask(h, t), K \ {t}, P, n)
<1>0. /\ h \in HeapType /\ PlacedInv(h) /\ OncePlacedInv(h) /\ QueuedInv(h)
      /\ \A u \in Task : TaskInv(h, u, K, n)
      /\ PooledInv(h, P)
  BY DEF HeapInv, QueuesInv
<1>1. h.task[t] \in TaskType /\ h.task[t].kind # "free" /\ ~h.task[t].queued
      /\ ~h.task[t].finished
  BY <1>0, HeapIs DEF TaskInv, FreeInv, HeldInv, FinishedInv
<1>2. PICK g, q : g = AppendTask(h, t) /\ q = QueueOf(h.task[t].kind)
  OBVIOUS
<1>3. /\ g \in HeapType /\ g.status = h.status /\ g.dependents = h.dependents
      /\ q \in QueueName \ {"done"}
      /\ g.queues[q] = Append(h.queues[q], t)
      /\ \A r \in QueueName \ {q} : g.queues[r] = h.queues[r]
      /\ \A u \in Task \ {t} : g.task[u] = h.task[u]
      /\ g.task[t] = [h.task[t] EXCEPT !.queued = TRUE]
  <2>1. AppendedTo(h, t, q, g)
    BY <1>0, <1>2, AppendIs
  <2>2. QED
    BY <2>1 DEF AppendedTo
<1>4. /\ \A u \in Task : g.task[u].kind = h.task[u].kind /\ g.task[u].deps = h.task[u].deps
           /\ g.task[u].items = h.task[u].items /\ g.task[u].result = h.task[u].result
           /\ g.task[u].id = h.task[u].id /\ g.task[u].finished = h.task[u].finished
           /\ g.task[u].completed = h.task[u].completed
           /\ (u # t => g.task[u].queued = h.task[u].queued)
      /\ g.task[t].queued
  BY <1>1, <1>3, SMTT(30) DEF TaskType
<1>5. /\ \A r \in QueueName : h.queues[r] \in Seq(Task) /\ Len(h.queues[r]) \in Nat
      /\ Len(g.queues[q]) = Len(h.queues[q]) + 1
      /\ \A i \in 1..Len(h.queues[q]) : g.queues[q][i] = h.queues[q][i]
      /\ g.queues[q][Len(h.queues[q]) + 1] = t
      /\ \A r \in QueueName : \A i \in 1..Len(g.queues[r]) :
           \/ i \in 1..Len(h.queues[r]) /\ g.queues[r][i] = h.queues[r][i]
           \/ r = q /\ i = Len(h.queues[q]) + 1 /\ g.queues[r][i] = t
  <2>1. \A r \in QueueName : h.queues[r] \in Seq(Task) /\ Len(h.queues[r]) \in Nat
    BY <1>0, HeapIs
  <2>2. /\ Len(g.queues[q]) = Len(h.queues[q]) + 1
        /\ \A i \in 1..Len(h.queues[q]) : g.queues[q][i] = h.queues[q][i]
        /\ g.queues[q][Len(h.queues[q]) + 1] = t
    BY <2>1, <1>3
  <2>3. ASSUME NEW r \in QueueName, NEW i \in 1..Len(g.queues[r])
        PROVE  \/ i \in 1..Len(h.queues[r]) /\ g.queues[r][i] = h.queues[r][i]
               \/ r = q /\ i = Len(h.queues[q]) + 1 /\ g.queues[r][i] = t
    <3>1. CASE r = q
      BY <3>1, <2>1, <2>2, <1>3
    <3>2. CASE r # q
      BY <3>2, <1>3
    <3>3. QED
      BY <3>1, <3>2
  <2>4. QED
    BY <2>1, <2>2, <2>3
<1>6. \A r \in QueueName : \A i \in 1..Len(h.queues[r]) :
        h.queues[r][i] \in Task /\ h.queues[r][i] # t
  BY <1>0, <1>1, <1>5 DEF PlacedInv
<1>7. PlacedInv(g) /\ OncePlacedInv(g) /\ QueuedInv(g)
  <2>1. \A r \in QueueName : \A i \in 1..Len(g.queues[r]) :
          /\ g.task[g.queues[r][i]].queued
          /\ \/ r = QueueOf(g.task[g.queues[r][i]].kind)
             \/ r = "done" /\ g.task[g.queues[r][i]].kind = "io"
    <3> TAKE r \in QueueName
    <3> TAKE i \in 1..Len(g.queues[r])
    <3>1. CASE i \in 1..Len(h.queues[r]) /\ g.queues[r][i] = h.queues[r][i]
      <4>1. PICK u \in Task : u = h.queues[r][i] /\ u # t
        BY <3>1, <1>6
      <4>2. h.task[u].queued /\ (r = QueueOf(h.task[u].kind) \/ (r = "done" /\ h.task[u].kind = "io"))
        <5>1. PlacedInv(h)
          BY <1>0
        <5>2. QED
          BY <3>1, <4>1, <5>1 DEF PlacedInv
      <4>3. QED
        <5>1. g.queues[r][i] = u
          BY <3>1, <4>1
        <5>2. g.task[u].queued /\ g.task[u].kind = h.task[u].kind
          BY <4>1, <4>2, <1>4
        <5>3. QED
          BY <4>2, <5>1, <5>2
    <3>2. CASE r = q /\ g.queues[r][i] = t
      BY <3>2, <1>2, <1>4
    <3>3. QED
      BY <3>1, <3>2, <1>5
  <2>2. \A r, s \in QueueName : \A i \in 1..Len(g.queues[r]), j \in 1..Len(g.queues[s]) :
          g.queues[r][i] = g.queues[s][j] => r = s /\ i = j
    <3> SUFFICES ASSUME NEW r \in QueueName, NEW s \in QueueName, NEW i \in 1..Len(g.queues[r]),
                        NEW j \in 1..Len(g.queues[s]), g.queues[r][i] = g.queues[s][j]
                 PROVE  r = s /\ i = j
      OBVIOUS
    <3>1. CASE i \in 1..Len(h.queues[r]) /\ g.queues[r][i] = h.queues[r][i]
      <4>1. j \in 1..Len(h.queues[s]) /\ g.queues[s][j] = h.queues[s][j]
        <5>1. g.queues[s][j] # t
          BY <3>1, <1>6
        <5>2. QED
          BY <5>1, <1>5
      <4>2. QED
        <5>1. OncePlacedInv(h)
          BY <1>0
        <5>2. h.queues[r][i] = h.queues[s][j]
          BY <3>1, <4>1
        <5>3. QED
          BY <3>1, <4>1, <5>1, <5>2 DEF OncePlacedInv
    <3>2. CASE r = q /\ i = Len(h.queues[q]) + 1 /\ g.queues[r][i] = t
      BY <3>2, <1>5, <1>6
    <3>3. QED
      BY <3>1, <3>2, <1>5
  <2>3. \A u \in Task : g.task[u].queued =>
          \E r \in QueueName : \E i \in 1..Len(g.queues[r]) : g.queues[r][i] = u
    <3> SUFFICES ASSUME NEW u \in Task, g.task[u].queued
                 PROVE  \E r \in QueueName : \E i \in 1..Len(g.queues[r]) : g.queues[r][i] = u
      OBVIOUS
    <3>1. CASE u = t
      BY <3>1, <1>3, <1>5
    <3>2. CASE u # t
      <4>1. PICK r \in QueueName : \E i \in 1..Len(h.queues[r]) : h.queues[r][i] = u
        BY <3>2, <1>0, <1>4 DEF QueuedInv
      <4>2. PICK i \in 1..Len(h.queues[r]) : h.queues[r][i] = u
        BY <4>1
      <4>3. i \in 1..Len(g.queues[r]) /\ g.queues[r][i] = u
        BY <4>2, <1>3, <1>5, SMTT(30)
      <4>4. QED
        BY <4>3
    <3>3. QED
      BY <3>1, <3>2
  <2>4. QED
    BY <2>1, <2>2, <2>3 DEF PlacedInv, OncePlacedInv, QueuedInv
<1>8. \A u \in Task \ {t} : TaskInv(g, u, K \ {t}, n)
  <2>1. KeyOf(g.task[t]) = KeyOf(h.task[t])
    BY <1>4 DEF KeyOf
  <2>2. /\ h \in HeapType /\ g \in HeapType /\ n <= n /\ h.task[t].kind # "free"
        /\ \A u \in Task : TaskInv(h, u, K, n)
    BY <1>0, <1>1, <1>3
  <2>3. OnlyAt(h, g, t, K, K \ {t})
    BY <1>3 DEF OnlyAt
  <2>4. StatusKept(h, g)
    BY <1>3 DEF StatusKept
  <2>5. KeyKept(h, g, t)
    BY <2>1, <2>2 DEF KeyKept
  <2>6. QED
    BY <2>2, <2>3, <2>4, <2>5, OthersKeep
<1>9. TaskInv(g, t, K \ {t}, n)
  <2>1. /\ DepsInv(h, t) /\ FreeInv(h, t, K) /\ FinishedInv(h, t, K) /\ HeldInv(h, t, K)
        /\ WaitingInv(h, t, K) /\ InputInv(h, t) /\ CreatedInv(h, t) /\ KeyInv(h, t, n)
    BY <1>0 DEF TaskInv
  <2>2. DepsInv(g, t)
    BY <2>1, <1>3, <1>4 DEF DepsInv
  <2>3. FreeInv(g, t, K \ {t}) /\ FinishedInv(g, t, K \ {t}) /\ HeldInv(g, t, K \ {t})
    BY <1>1, <1>4 DEF FreeInv, FinishedInv, HeldInv
  <2>4. WaitingInv(g, t, K \ {t})
    BY <2>1, <1>1, <1>4, TaskIs DEF WaitingInv
  <2>5. InputInv(g, t) /\ CreatedInv(g, t) /\ KeyInv(g, t, n)
    <3>1. InputInv(g, t)
      BY <2>1, <1>3, <1>4 DEF InputInv
    <3>2. CreatedInv(g, t)
      BY <2>1, <1>3, <1>4 DEF CreatedInv, StatusIn
    <3>3. KeyInv(g, t, n)
      BY <2>1, <1>3, <1>4 DEF KeyInv, KeyOf
    <3>4. QED
      BY <3>1, <3>2, <3>3
  <2>6. QED
    BY <2>2, <2>3, <2>4, <2>5 DEF TaskInv
<1>15. PooledInv(g, P)
  <2> SUFFICES ASSUME NEW u \in P
               PROVE  /\ g.task[u].kind = "io" /\ ~g.task[u].completed
                      /\ \E i \in 1..Len(g.queues["io"]) : g.queues["io"][i] = u
    BY DEF PooledInv
  <2>1. PICK i \in 1..Len(h.queues["io"]) : h.queues["io"][i] = u
    BY <1>0 DEF PooledInv
  <2>2. "io" \in QueueName
    BY DEF QueueName
  <2>3. u \in Task /\ u # t
    BY <2>1, <2>2, <1>6
  <2>4. i \in 1..Len(g.queues["io"]) /\ g.queues["io"][i] = u
    BY <2>1, <2>2, <1>3, <1>5, SMTT(30)
  <2>5. QED
    BY <2>3, <2>4, <1>0, <1>4 DEF PooledInv
<1>16. QED
  BY <1>2, <1>3, <1>7, <1>8, <1>9, <1>15 DEF HeapInv, QueuesInv

(* A heap in which one task record is another.                             *)
WithTask(h, t, k) == [h EXCEPT !.task[t] = k]

(* Writing one task leaves the rest of the heap as it was.                 *)
LEMMA TaskSetIs ==
  ASSUME NEW h \in HeapType, NEW t \in Task, NEW k \in TaskType
  PROVE  LET g == WithTask(h, t, k)
         IN /\ g \in HeapType /\ g.status = h.status /\ g.dependents = h.dependents
            /\ g.queues = h.queues
            /\ g.task[t] = k /\ \A u \in Task \ {t} : g.task[u] = h.task[u]
<1> DEFINE g == WithTask(h, t, k)
<1>1. /\ g.status = h.status /\ g.dependents = h.dependents
      /\ g.queues = h.queues /\ g.task = [h.task EXCEPT ![t] = k]
      /\ g = [status |-> g.status, dependents |-> g.dependents, task |-> g.task,
              queues |-> g.queues]
  BY HeapIs DEF WithTask
<1>2. g.task \in [Task -> TaskType]
  BY <1>1, HeapIs
<1>3. QED
  BY <1>1, <1>2, HeapIs DEF HeapType

(* A record that nobody waits for and no queue holds is freed.             *)
LEMMA ReleaseKeeps ==
  ASSUME NEW h, NEW K, NEW P, NEW n \in Int, NEW t \in Task, AllBut(h, t, K, P, n),
         ~h.task[t].queued, WaitsAt(h.dependents, t) = {}
  PROVE  /\ HeapInv(Release(h, t), K \ {t}, P, n)
         /\ Release(h, t) = WithTask(h, t, Blank)
<1>0. h \in HeapType
  BY DEF AllBut
<1>1. /\ QueuesInv(h) /\ PooledInv(h, P)
      /\ \A u \in Task \ {t} : TaskInv(h, u, K, n)
  BY DEF AllBut
<1>2. PICK g : g = Release(h, t)
  OBVIOUS
<1>3. Blank \in TaskType
  <2>1. <<>> \in Seq(Promise \cup {Plain}) /\ 0 \in 0..MaxTimers
    BY Sizes
  <2>2. QED
    BY <2>1 DEF Blank, TaskType
<1>4. g = WithTask(h, t, Blank)
  BY <1>2 DEF Release, WithTask
<1>5. /\ g \in HeapType /\ g.status = h.status /\ g.dependents = h.dependents
      /\ g.queues = h.queues
      /\ g.task[t] = Blank /\ \A u \in Task \ {t} : g.task[u] = h.task[u]
  BY <1>0, <1>3, <1>4, TaskSetIs
<1>6. QueuesInv(g) /\ PooledInv(g, P)
  <2>1. \A u \in Task : g.task[u].queued = h.task[u].queued
    <3>1. h.task[t].queued = FALSE
      BY <1>0, HeapIs, TaskIs
    <3>2. g.task[t].queued = FALSE
      BY <1>5 DEF Blank
    <3>3. QED
      BY <3>1, <3>2, <1>5
  <2>2. \A u \in Task : h.task[u].queued => g.task[u] = h.task[u]
    BY <1>5
  <2>3. /\ h \in HeapType /\ g \in HeapType /\ P \subseteq P /\ g.queues = h.queues
        /\ \A u \in Task : h.task[u].queued => g.task[u].kind = h.task[u].kind
        /\ \A u \in P : u \in Task /\ h.task[u].queued =>
             g.task[u].completed = h.task[u].completed
    BY <2>2, <1>0, <1>5
  <2>4. QED
    BY <2>1, <2>3, <1>1, QueuesStay
<1>7. \A u \in Task \ {t} : TaskInv(g, u, K \ {t}, n)
  <2>1. g.task[t].kind = "free"
    BY <1>5 DEF Blank
  <2>2. n <= n
    OBVIOUS
  <2>3. OnlyAt(h, g, t, K, K \ {t})
    BY <1>5 DEF OnlyAt
  <2>4. StatusKept(h, g) /\ KeyKept(h, g, t)
    BY <1>5, <2>1 DEF StatusKept, KeyKept
  <2>5. h \in HeapType /\ g \in HeapType /\ \A u \in Task \ {t} : TaskInv(h, u, K, n)
    BY <1>0, <1>1, <1>5
  <2>6. QED
    BY <2>2, <2>3, <2>4, <2>5, OthersKeep
<1>8. TaskInv(g, t, K \ {t}, n)
  <2>1. Cardinality(WaitsAt(g.dependents, t)) = 0
    BY <1>5, FS_EmptySet
  <2>2. QED
    BY <2>1, <1>5 DEF TaskInv, DepsInv, FreeInv, FinishedInv, HeldInv, WaitingInv, InputInv,
      CreatedInv, KeyInv, Blank, Sources, Reactions, Combinators
<1>9. QED
  BY <1>2, <1>4, <1>5, <1>6, <1>7, <1>8 DEF HeapInv

(* After Done a task that is waited for is finished, any other is free.    *)
LEMMA DoneKeeps ==
  ASSUME NEW h, NEW K, NEW P, NEW n \in Int, HeapInv(h, K, P, n), NEW t \in K, t \in Task
  PROVE  /\ HeapInv(Done(h, t), K \ {t}, P, n)
         /\ Done(h, t).status = h.status
         /\ \A u \in Task \ {t} : Done(h, t).task[u] = h.task[u]
<1>0. h \in HeapType
  BY DEF HeapInv
<1>1. /\ QueuesInv(h) /\ PooledInv(h, P)
      /\ \A u \in Task : TaskInv(h, u, K, n)
  BY DEF HeapInv
<1>2. /\ DepsInv(h, t) /\ FreeInv(h, t, K) /\ FinishedInv(h, t, K) /\ HeldInv(h, t, K)
      /\ WaitingInv(h, t, K) /\ InputInv(h, t) /\ CreatedInv(h, t) /\ KeyInv(h, t, n)
  BY <1>1 DEF TaskInv
<1>3. h.task[t] \in TaskType /\ ~h.task[t].queued /\ h.task[t].kind # "free"
      /\ h.task[t].deps \in Nat
  BY <1>0, <1>2, HeapIs, TaskIs DEF HeldInv, FreeInv
<1>4. CASE h.task[t].deps > 0
  <2>1. PICK k : k = [h.task[t] EXCEPT !.finished = TRUE]
    OBVIOUS
  <2>2. /\ k \in TaskType /\ k.finished
        /\ k.kind = h.task[t].kind /\ k.deps = h.task[t].deps /\ k.items = h.task[t].items
        /\ k.result = h.task[t].result /\ k.id = h.task[t].id /\ k.queued = h.task[t].queued
        /\ k.completed = h.task[t].completed
    BY <2>1, <1>3 DEF TaskType
  <2>3. PICK g : g = Done(h, t)
    OBVIOUS
  <2>4. g = WithTask(h, t, k)
    BY <1>4, <2>1, <2>3 DEF Done, WithTask
  <2>5. /\ g \in HeapType /\ g.status = h.status /\ g.dependents = h.dependents
        /\ g.queues = h.queues
        /\ g.task[t] = k /\ \A u \in Task \ {t} : g.task[u] = h.task[u]
    BY <1>0, <2>2, <2>4, TaskSetIs
  <2>6. QueuesInv(g) /\ PooledInv(g, P)
    <3>1. \A u \in Task : g.task[u].queued = h.task[u].queued
      BY <2>2, <2>5
    <3>2. /\ g \in HeapType /\ P \subseteq P /\ g.queues = h.queues
          /\ \A u \in Task : h.task[u].queued => g.task[u].kind = h.task[u].kind
          /\ \A u \in P : u \in Task /\ h.task[u].queued =>
               g.task[u].completed = h.task[u].completed
      BY <2>2, <2>5
    <3>3. QED
      BY <3>1, <3>2, <1>0, <1>1, QueuesStay
  <2>7. \A u \in Task \ {t} : TaskInv(g, u, K \ {t}, n)
    <3>1. OnlyAt(h, g, t, K, K \ {t}) /\ StatusKept(h, g)
      BY <2>5 DEF OnlyAt, StatusKept
    <3>2. KeyKept(h, g, t)
      BY <1>3, <2>2, <2>5 DEF KeyOf, KeyKept
    <3>3. g \in HeapType /\ n <= n
      BY <2>5
    <3>4. QED
      BY <3>1, <3>2, <3>3, <1>0, <1>1, OthersKeep
  <2>8. TaskInv(g, t, K \ {t}, n)
    <3>1. DepsInv(g, t) /\ InputInv(g, t)
      BY <1>2, <2>2, <2>5 DEF DepsInv, InputInv
    <3>2. FreeInv(g, t, K \ {t}) /\ FinishedInv(g, t, K \ {t}) /\ HeldInv(g, t, K \ {t})
      BY <1>3, <1>4, <2>2, <2>5 DEF FreeInv, FinishedInv, HeldInv
    <3>3. WaitingInv(g, t, K \ {t})
      BY <1>2, <1>3, <2>2, <2>5 DEF WaitingInv
    <3>4. CreatedInv(g, t) /\ KeyInv(g, t, n)
      BY <1>2, <2>2, <2>5 DEF CreatedInv, KeyInv, KeyOf, StatusIn
    <3>5. QED
      BY <3>1, <3>2, <3>3, <3>4 DEF TaskInv
  <2>9. QED
    BY <2>3, <2>5, <2>6, <2>7, <2>8 DEF HeapInv
<1>5. CASE ~(h.task[t].deps > 0)
  <2>1. Done(h, t) = Release(h, t)
    BY <1>5 DEF Done
  <2>2. WaitsAt(h.dependents, t) = {}
    <3>1. h.task[t].deps = 0
      BY <1>3, <1>5
    <3>2. /\ h.dependents \in [Promise -> Seq(Task)]
          /\ Cardinality(WaitsAt(h.dependents, t)) = 0
      BY <3>1, <1>0, <1>2, HeapIs DEF DepsInv
    <3>3. QED
      BY <3>2, WaitsFinite, FS_EmptySet
  <2>3. /\ AllBut(h, t, K, P, n)
        /\ HeapInv(Release(h, t), K \ {t}, P, n)
        /\ Release(h, t) = WithTask(h, t, Blank)
    <3>1. AllBut(h, t, K, P, n)
      BY <1>0, <1>1 DEF AllBut
    <3>2. QED
      BY <1>3, <2>2, <3>1, ReleaseKeeps
  <2>4. Blank \in TaskType
    <3>1. <<>> \in Seq(Promise \cup {Plain}) /\ 0 \in 0..MaxTimers
      BY Sizes
    <3>2. QED
      BY <3>1 DEF Blank, TaskType
  <2>5. Release(h, t).status = h.status /\ \A u \in Task \ {t} : Release(h, t).task[u] = h.task[u]
    BY <1>0, <2>3, <2>4, TaskSetIs
  <2>6. QED
    BY <2>1, <2>3, <2>5
<1>6. QED
  BY <1>4, <1>5

----------------------------------------------------------------------------
(* Who waits for a promise.                                                *)

(* The first one is taken away, or one more comes in front.                *)
LEMMA TailWaits ==
  ASSUME NEW d \in [Promise -> Seq(Task)], NEW p \in Promise, d[p] # <<>>,
         NEW e \in [Promise -> Seq(Task)], e[p] = Tail(d[p]),
         \A q \in Promise \ {p} : e[q] = d[q]
  PROVE  /\ Head(d[p]) \in Task
         /\ WaitsAt(e, Head(d[p])) \subseteq WaitsAt(d, Head(d[p]))
         /\ Cardinality(WaitsAt(d, Head(d[p]))) > 0
         /\ Cardinality(WaitsAt(e, Head(d[p]))) = Cardinality(WaitsAt(d, Head(d[p]))) - 1
         /\ \A u \in Task \ {Head(d[p])} : WaitsAt(e, u) = WaitsAt(d, u)
<1> DEFINE t == Head(d[p])
           l == Len(d[p])
           x == <<p, l - 1>>
<1>1. /\ d[p] \in Seq(Task) /\ l \in Nat /\ l > 0 /\ l = Len(d[p]) /\ t = d[p][1] /\ t \in Task
      /\ Tail(d[p]) \in Seq(Task) /\ Len(Tail(d[p])) = l - 1
      /\ \A i \in 1..(l - 1) : Tail(d[p])[i] = d[p][i + 1]
  OBVIOUS
<1> HIDE DEF l
<1>2. /\ e \in [Promise -> Seq(Task)] /\ e[p] = Tail(d[p])
      /\ \A q \in Promise \ {p} : e[q] = d[q]
  BY <1>1
<1>3. \A u \in Task : WaitsAt(e, u) = WaitsAt(d, u) \ {x}
  <2> SUFFICES ASSUME NEW u \in Task, NEW q \in Promise, NEW k \in Nat
               PROVE  <<q, k>> \in WaitsAt(e, u) <=> <<q, k>> \in WaitsAt(d, u) /\ <<q, k>> # x
    BY DEF WaitsAt
  <2>1. /\ <<q, k>> \in WaitsAt(e, u) <=> k < Len(e[q]) /\ e[q][Len(e[q]) - k] = u
        /\ <<q, k>> \in WaitsAt(d, u) <=> k < Len(d[q]) /\ d[q][Len(d[q]) - k] = u
        /\ <<q, k>> # x <=> q # p \/ k # l - 1
    BY <1>1 DEF WaitsAt
  <2>2. CASE q # p
    BY <2>1, <2>2, <1>2
  <2>3. CASE q = p
    <3>1. CASE k < l - 1
      <4>1. (l - 1) - k \in 1..(l - 1) /\ (l - 1) - k + 1 = l - k
        BY <3>1, <1>1
      <4>2. e[p][(l - 1) - k] = d[p][l - k]
        BY <4>1, <1>1, <1>2
      <4>3. Len(e[p]) = l - 1 /\ k < l /\ k # l - 1
        BY <3>1, <1>1, <1>2
      <4>4. QED
        BY <4>2, <4>3, <1>1, <2>1, <2>3, <3>1
    <3>2. CASE ~(k < l - 1)
      <4>1. ~(k < Len(e[p])) /\ (k < l => k = l - 1)
        BY <3>2, <1>1, <1>2
      <4>2. QED
        BY <4>1, <1>1, <2>1, <2>3
    <3>3. QED
      BY <3>1, <3>2
  <2>4. QED
    BY <2>2, <2>3
<1>4. x \in WaitsAt(d, t) /\ \A u \in Task \ {t} : x \notin WaitsAt(d, u)
  BY <1>1 DEF WaitsAt
<1> HIDE DEF x, t
<1>5. /\ IsFiniteSet(WaitsAt(d, t)) /\ Cardinality(WaitsAt(d, t)) \in Nat
      /\ Cardinality(WaitsAt(d, t) \ {x}) = Cardinality(WaitsAt(d, t)) - 1
      /\ Cardinality(WaitsAt(d, t) \ {x}) \in Nat
  <2>1. IsFiniteSet(WaitsAt(d, t)) /\ Cardinality(WaitsAt(d, t)) \in Nat
    BY WaitsFinite
  <2>2. /\ IsFiniteSet(WaitsAt(d, t) \ {x})
        /\ Cardinality(WaitsAt(d, t) \ {x}) = IF x \in WaitsAt(d, t)
             THEN Cardinality(WaitsAt(d, t)) - 1 ELSE Cardinality(WaitsAt(d, t))
    BY <2>1, FS_RemoveElement
  <2>3. QED
    BY <2>1, <2>2, <1>4, FS_CardinalityType
<1>6. \A u \in Task \ {t} : WaitsAt(d, u) \ {x} = WaitsAt(d, u)
  BY <1>4
<1>7. t \in Task /\ WaitsAt(e, t) = WaitsAt(d, t) \ {x} /\ Cardinality(WaitsAt(d, t)) > 0
  <2>1. Cardinality(WaitsAt(d, t)) > 0
    BY <1>5
  <2>2. t \in Task
    BY <1>1
  <2>3. QED
    BY <2>1, <2>2, <1>3
<1>8. \A u \in Task \ {t} : WaitsAt(e, u) = WaitsAt(d, u)
  BY <1>3, <1>6
<1>9. QED
  BY <1>2, <1>5, <1>7, <1>8 DEF t

InFront(d, p, t) == [d EXCEPT ![p] = <<t>> \o d[p]]

(* A task put in front of a promise's dependents has one place more, and   *)
(* no other task's places move.                                            *)
LEMMA HeadWaits ==
  ASSUME NEW d \in [Promise -> Seq(Task)], NEW p \in Promise, NEW t \in Task,
         NEW e, e = InFront(d, p, t)
  PROVE  /\ \A w \in WaitsAt(e, t) : w \in WaitsAt(d, t) \/ w[1] = p
         /\ Cardinality(WaitsAt(e, t)) = Cardinality(WaitsAt(d, t)) + 1
         /\ \A u \in Task \ {t} : WaitsAt(e, u) = WaitsAt(d, u)
<1> DEFINE l == Len(d[p])
           x == <<p, l>>
<1>1. /\ d[p] \in Seq(Task) /\ l \in Nat /\ l = Len(d[p])
      /\ <<t>> \o d[p] \in Seq(Task) /\ Len(<<t>> \o d[p]) = l + 1
      /\ (<<t>> \o d[p])[1] = t
      /\ \A i \in 2..(l + 1) : (<<t>> \o d[p])[i] = d[p][i - 1]
  OBVIOUS
<1> HIDE DEF l
<1>2. /\ e \in [Promise -> Seq(Task)] /\ e[p] = <<t>> \o d[p]
      /\ \A q \in Promise \ {p} : e[q] = d[q]
  BY <1>1 DEF InFront

<1>3. \A u \in Task : WaitsAt(e, u) = IF u = t THEN WaitsAt(d, u) \cup {x} ELSE WaitsAt(d, u)
  <2> SUFFICES ASSUME NEW u \in Task, NEW q \in Promise, NEW k \in Nat
               PROVE  <<q, k>> \in WaitsAt(e, u) <=>
                        \/ <<q, k>> \in WaitsAt(d, u)
                        \/ u = t /\ <<q, k>> = x
    <3>1. x \in Promise \X Nat
      BY <1>1
    <3>2. QED
      BY <3>1 DEF WaitsAt
  <2>1. /\ <<q, k>> \in WaitsAt(e, u) <=> k < Len(e[q]) /\ e[q][Len(e[q]) - k] = u
        /\ <<q, k>> \in WaitsAt(d, u) <=> k < Len(d[q]) /\ d[q][Len(d[q]) - k] = u
        /\ <<q, k>> = x <=> q = p /\ k = l
    BY <1>1 DEF WaitsAt
  <2>2. CASE q # p
    BY <2>1, <2>2, <1>2
  <2>3. CASE q = p
    <3>1. CASE k < l
      <4>1. (l + 1) - k \in 2..(l + 1) /\ (l + 1) - k - 1 = l - k
        BY <3>1, <1>1
      <4>2. e[p][(l + 1) - k] = d[p][l - k]
        BY <4>1, <1>1, <1>2
      <4>3. Len(e[p]) = l + 1 /\ k < l + 1 /\ k # l
        BY <3>1, <1>1, <1>2
      <4>4. QED
        BY <4>2, <4>3, <1>1, <2>1, <2>3, <3>1
    <3>2. CASE ~(k < l)
      <4>1. Len(e[p]) = l + 1 /\ e[p][1] = t /\ (k < l + 1 <=> k = l) /\ (l + 1) - l = 1
        BY <3>2, <1>1, <1>2
      <4>2. QED
        BY <1>1, <3>2, <4>1, <2>1, <2>3
    <3>3. QED
      BY <3>1, <3>2
  <2>4. QED
    BY <2>2, <2>3
<1>4. x \notin WaitsAt(d, t)
  BY <1>1 DEF WaitsAt
<1> HIDE DEF x
<1>5. Cardinality(WaitsAt(d, t) \cup {x}) = Cardinality(WaitsAt(d, t)) + 1
  <2>1. IsFiniteSet(WaitsAt(d, t)) /\ Cardinality(WaitsAt(d, t)) \in Nat
    BY WaitsFinite
  <2>2. Cardinality(WaitsAt(d, t) \cup {x}) = IF x \in WaitsAt(d, t)
             THEN Cardinality(WaitsAt(d, t)) ELSE Cardinality(WaitsAt(d, t)) + 1
    BY <2>1, FS_AddElement
  <2>3. QED
    BY <2>2, <1>4
<1>6. \A w \in WaitsAt(e, t) : w \in WaitsAt(d, t) \/ w[1] = p
  BY <1>3 DEF x
<1>7. Cardinality(WaitsAt(e, t)) = Cardinality(WaitsAt(d, t)) + 1
  BY <1>3, <1>5
<1>8. \A u \in Task \ {t} : WaitsAt(e, u) = WaitsAt(d, u)
  BY <1>3
<1>9. QED
  BY <1>6, <1>7, <1>8

(* A heap in which other tasks wait for one promise.                       *)
WithDependents(h, p, s) == [h EXCEPT !.dependents[p] = s]

(* Writing one promise's dependents leaves the rest of the heap as it      *)
(* was.                                                                    *)
LEMMA DependentsSetIs ==
  ASSUME NEW h \in HeapType, NEW p \in Promise, NEW s \in Seq(Task)
  PROVE  LET g == WithDependents(h, p, s)
         IN /\ g \in HeapType /\ g.status = h.status /\ g.task = h.task
            /\ g.queues = h.queues /\ g.dependents = [h.dependents EXCEPT ![p] = s]
<1> DEFINE g == WithDependents(h, p, s)
           d == [h.dependents EXCEPT ![p] = s]
<1>0. g = [h EXCEPT !.dependents = d]
  BY DEF WithDependents
<1> HIDE DEF g, d
<1>1. /\ g.status = h.status /\ g.task = h.task
      /\ g.queues = h.queues /\ g.dependents = d
      /\ g = [status |-> g.status, dependents |-> g.dependents, task |-> g.task,
              queues |-> g.queues]
  BY <1>0, HeapIs
<1>2. d \in [Promise -> Seq(Task)]
  BY HeapIs DEF d
<1>3. g \in HeapType
  BY <1>1, <1>2, HeapIs DEF HeapType
<1>4. QED
  BY <1>1, <1>3 DEF d, g

(* Kinds stay, but for tasks that are freed.                               *)
Fades(h, g) == \A u \in Task : g.task[u].kind \in {h.task[u].kind, "free"}

(* A task that is still to be run, and what it is to do for its promise.   *)
Alive(k) == k.kind # "free" /\ ~k.finished
SameDuty(j, k) ==
  /\ Alive(j) <=> Alive(k)
  /\ Alive(j) => /\ k.kind = j.kind /\ k.items = j.items /\ k.result = j.result
                 /\ k.onFulfilled = j.onFulfilled /\ k.onRejected = j.onRejected
Lives(h, g) == \A u \in Task : SameDuty(h.task[u], g.task[u])

(* Duties stay over two steps as they do over each.                        *)
LEMMA LivesOn ==
  ASSUME NEW a, NEW b, NEW c, Lives(a, b), Lives(b, c)
  PROVE  Lives(a, c)
<1>1. ASSUME NEW u \in Task PROVE SameDuty(a.task[u], c.task[u])
  <2>1. SameDuty(a.task[u], b.task[u]) /\ SameDuty(b.task[u], c.task[u])
    BY DEF Lives
  <2>2. QED
    BY <2>1 DEF SameDuty
<1>2. QED
  BY <1>1 DEF Lives

(* append_task, without the queues.                                        *)
Appended(h, t, g) ==
  /\ g \in HeapType /\ g.status = h.status /\ g.dependents = h.dependents
  /\ \A u \in Task \ {t} : g.task[u] = h.task[u]
  /\ g.task[t] = [h.task[t] EXCEPT !.queued = TRUE]
LEMMA AppendedIs ==
  ASSUME NEW h \in HeapType, NEW t \in Task
  PROVE  Appended(h, t, AppendTask(h, t))
BY AppendIs DEF AppendedTo, Appended

(* The first task that waits for p is woken.                               *)
LEMMA WakeKeeps ==
  ASSUME NEW h, NEW K, NEW P, NEW n \in Int, HeapInv(h, K, P, n),
         NEW p \in Promise, h.dependents[p] # <<>>, NEW t, t = Head(h.dependents[p]), t \notin K,
         NEW g, g = Wake(WithDependents(h, p, Tail(h.dependents[p])), t)
  PROVE  /\ HeapInv(g, K, P, n) /\ Fades(h, g) /\ g.status = h.status
         /\ g.dependents = [h.dependents EXCEPT ![p] = Tail(h.dependents[p])]
<1>0. h \in HeapType
  BY DEF HeapInv
<1>1. /\ QueuesInv(h) /\ PooledInv(h, P)
      /\ \A u \in Task : TaskInv(h, u, K, n)
  BY DEF HeapInv
<1>2. PICK e : e = [h.dependents EXCEPT ![p] = Tail(h.dependents[p])]
  OBVIOUS
<1>3. /\ e \in [Promise -> Seq(Task)] /\ t \in Task
      /\ WaitsAt(e, t) \subseteq WaitsAt(h.dependents, t)
      /\ Cardinality(WaitsAt(h.dependents, t)) > 0
      /\ Cardinality(WaitsAt(e, t)) = Cardinality(WaitsAt(h.dependents, t)) - 1
      /\ \A u \in Task \ {t} : WaitsAt(e, u) = WaitsAt(h.dependents, u)
  <2>1. h.dependents \in [Promise -> Seq(Task)]
    BY <1>0, HeapIs
  <2>2. h.dependents[p] \in Seq(Task) /\ Tail(h.dependents[p]) \in Seq(Task)
    BY <2>1
  <2>3. /\ e \in [Promise -> Seq(Task)] /\ e[p] = Tail(h.dependents[p])
        /\ \A q \in Promise \ {p} : e[q] = h.dependents[q]
    BY <1>2, <2>1, <2>2
  <2>4. QED
    BY <2>1, <2>3, TailWaits
<1>4. PICK f0 : f0 = WithDependents(h, p, Tail(h.dependents[p]))
  OBVIOUS
<1>5. /\ f0 \in HeapType /\ f0.status = h.status /\ f0.task = h.task
      /\ f0.queues = h.queues /\ f0.dependents = e
  <2>1. Tail(h.dependents[p]) \in Seq(Task)
    <3>1. h.dependents[p] \in Seq(Task)
      BY <1>0, HeapIs
    <3>2. QED
      BY <3>1
  <2>2. QED
    BY <2>1, <1>0, <1>2, <1>4, DependentsSetIs, SMTT(30), ZenonT(60)
<1>6. /\ DepsInv(h, t) /\ FreeInv(h, t, K) /\ FinishedInv(h, t, K) /\ HeldInv(h, t, K)
      /\ WaitingInv(h, t, K) /\ InputInv(h, t) /\ CreatedInv(h, t) /\ KeyInv(h, t, n)
  BY <1>1, <1>3 DEF TaskInv
<1>7. /\ h.task[t] \in TaskType /\ h.task[t].deps \in Nat /\ h.task[t].deps > 0
      /\ h.task[t].deps = Cardinality(WaitsAt(h.dependents, t))
      /\ h.task[t].kind # "free"
      /\ h.task[t].kind \in {"free"} \cup Reactions \cup Sources \cup Combinators
      /\ h.task[t].queued \in BOOLEAN /\ h.task[t].finished \in BOOLEAN
  <2>1. h.task[t] \in TaskType
    BY <1>0, <1>3, HeapIs
  <2>2. h.task[t].deps > 0 /\ h.task[t].deps = Cardinality(WaitsAt(h.dependents, t))
    BY <1>3, <1>6 DEF DepsInv
  <2>3. h.task[t].kind # "free"
    BY <1>6, <2>2, SMTT(30) DEF FreeInv
  <2>4. QED
    BY <2>1, <2>2, <2>3, TaskIs
<1>8. PICK left : left = h.task[t].deps - 1
  OBVIOUS
<1>9. left \in Nat /\ left = Cardinality(WaitsAt(e, t)) /\ (left > 0 => h.task[t].deps > 1)
  BY <1>3, <1>7, <1>8
<1>10. PICK k : k = [h.task[t] EXCEPT !.deps = left]
  OBVIOUS
<1>11. /\ k \in TaskType /\ k.deps = left
       /\ k.kind = h.task[t].kind /\ k.items = h.task[t].items
       /\ k.result = h.task[t].result /\ k.id = h.task[t].id /\ k.queued = h.task[t].queued
       /\ k.completed = h.task[t].completed /\ k.finished = h.task[t].finished
  BY <1>7, <1>9, <1>10 DEF TaskType
<1>12. PICK f : f = WithTask(f0, t, k)
  OBVIOUS
<1>13. /\ f \in HeapType /\ f.status = h.status /\ f.dependents = e
       /\ f.queues = h.queues
       /\ f.task[t] = k /\ \A u \in Task \ {t} : f.task[u] = h.task[u]
  <2>1. f0 \in HeapType /\ t \in Task /\ k \in TaskType
    BY <1>3, <1>5, <1>11
  <2>2. LET z == WithTask(f0, t, k)
        IN /\ z \in HeapType /\ z.status = f0.status /\ z.dependents = f0.dependents
           /\ z.queues = f0.queues
           /\ z.task[t] = k /\ \A u \in Task \ {t} : z.task[u] = f0.task[u]
    BY <2>1, TaskSetIs
  <2>3. QED
    BY <2>2, <1>5, <1>12
<1>25. f.status = h.status /\ f.dependents = e
  BY <1>13
<1>26. /\ f.task[t].kind = h.task[t].kind /\ f.task[t].items = h.task[t].items
       /\ f.task[t].result = h.task[t].result /\ f.task[t].id = h.task[t].id
       /\ f.task[t].queued = h.task[t].queued /\ f.task[t].finished = h.task[t].finished
       /\ f.task[t].deps = left
  BY <1>11, <1>13
<1>27. h.task[t].kind # "free" /\ h.task[t].deps > 0
  BY <1>7
<1>14. f = [f0 EXCEPT !.task[t].deps = left]
  BY <1>5, <1>10, <1>12 DEF WithTask
<1>15. g = CASE h.task[t].finished -> IF left = 0 THEN Release(f, t) ELSE f
             [] ~h.task[t].finished /\ ~h.task[t].queued -> AppendTask(f, t)
             [] OTHER -> f
  <2>1. (IF f0.task[t].deps > 0 THEN f0.task[t].deps - 1 ELSE 0) = left
    BY <1>5, <1>7, <1>8
  <2>2. g = Wake(f0, t)
    BY <1>4
  <2>3. QED
    BY <2>1, <2>2, <1>5, <1>14 DEF Wake
<1>16. QueuesInv(f) /\ PooledInv(f, P)
  <2>1. /\ \A u \in Task : f.task[u].queued = h.task[u].queued
        /\ \A u \in Task : h.task[u].queued => f.task[u].kind = h.task[u].kind
        /\ \A u \in P : u \in Task /\ h.task[u].queued =>
             f.task[u].completed = h.task[u].completed
    BY <1>11, <1>13
  <2>2. QED
    BY <2>1, <1>0, <1>1, <1>13, QueuesStay
<1>17. ASSUME NEW L, \A u \in Task \ {t} : u \in L <=> u \in K
       PROVE  AllBut(f, t, L, P, n)
  <2>1. OnlyAt(h, f, t, K, L)
    BY <1>3, <1>13, <1>17 DEF OnlyAt
  <2>2. StatusKept(h, f) /\ KeyKept(h, f, t) /\ n <= n
    <3>1. StatusKept(h, f)
      BY <1>25 DEF StatusKept
    <3>2. KeyOf(f.task[t]) = KeyOf(h.task[t])
      BY <1>26 DEF KeyOf
    <3>3. KeyKept(h, f, t)
      BY <3>2, <1>27 DEF KeyKept
    <3>4. QED
      BY <3>1, <3>3
  <2>3. \A u \in Task \ {t} : TaskInv(f, u, L, n)
    BY <1>0, <1>1, <1>13, <2>1, <2>2, OthersKeep
  <2>4. QED
    BY <2>3, <1>13, <1>16 DEF AllBut
<1>18. DepsInv(f, t) /\ InputInv(f, t) /\ CreatedInv(f, t) /\ KeyInv(f, t, n)
  <2>1. DepsInv(f, t)
    BY <1>9, <1>25, <1>26 DEF DepsInv
  <2>2. InputInv(f, t)
    <3>1. InputInv(h, t)
      BY <1>6
    <3>2. WaitsAt(f.dependents, t) \subseteq WaitsAt(h.dependents, t)
      BY <1>3, <1>25
    <3>3. ASSUME f.task[t].kind \in Combinators
          PROVE  /\ \A v \in WaitsAt(f.dependents, t) :
                      \E i \in 1..Len(f.task[t].items) : f.task[t].items[i] = v[1]
                 /\ \A i \in 1..Len(f.task[t].items) : f.task[t].items[i] # f.task[t].result
      <4>1. PICK a, r : a = h.task[t].items /\ r = h.task[t].result
        OBVIOUS
      <4>2. /\ \A v \in WaitsAt(h.dependents, t) : \E i \in 1..Len(a) : a[i] = v[1]
            /\ \A i \in 1..Len(a) : a[i] # r
        BY <3>1, <3>3, <4>1, <1>26 DEF InputInv
      <4>3. f.task[t].items = a /\ f.task[t].result = r
        BY <4>1, <1>26
      <4>4. QED
        BY <4>2, <4>3, <3>2
    <3>4. QED
      BY <3>3 DEF InputInv
  <2>3. CreatedInv(f, t)
    <3>1. CreatedInv(h, t) /\ \A x : StatusIn(f, x) = StatusIn(h, x)
      BY <1>6, <1>25 DEF StatusIn
    <3>2. QED
      BY <3>1, <1>26 DEF CreatedInv
  <2>4. KeyInv(f, t, n)
    <3>1. KeyInv(h, t, n) /\ KeyOf(f.task[t]) = KeyOf(h.task[t])
      BY <1>6, <1>26 DEF KeyOf
    <3>2. \A u \in Task \ {t} : f.task[u] = h.task[u]
      BY <1>13
    <3>3. QED
      BY <3>1, <3>2, <1>25, <1>26 DEF KeyInv
  <2>5. QED
    BY <2>1, <2>2, <2>3, <2>4
<1>19. Fades(h, f)
  BY <1>11, <1>13 DEF Fades
<1>28. WaitingInv(f, t, K)
  <2>1. h.task[t].deps \in Nat /\ left \in Nat /\ h.task[t].deps = left + 1
    BY <1>7, <1>8, <1>9
  <2>2. /\ h.task[t].kind \in Sources => h.task[t].deps = 0
        /\ h.task[t].kind \in Reactions => h.task[t].deps <= 1 /\ Len(h.task[t].items) = 1
        /\ h.task[t].kind \notin Combinators /\ (h.task[t].queued \/ t \in K) => h.task[t].deps = 0
    BY <1>6 DEF WaitingInv
  <2>3. h.task[t].kind \notin Sources
    BY <2>1, <2>2
  <2>4. h.task[t].kind \in Reactions => left <= 1 /\ Len(h.task[t].items) = 1
    BY <2>1, <2>2
  <2>5. ~(h.task[t].kind \notin Combinators /\ (h.task[t].queued \/ t \in K))
    BY <2>1, <2>2
  <2>6. QED
    BY <2>3, <2>4, <2>5, <1>26 DEF WaitingInv
<1>20. CASE h.task[t].finished /\ left = 0
  <2>1. g = Release(f, t)
    BY <1>15, <1>20
  <2>2. ~f.task[t].queued /\ WaitsAt(f.dependents, t) = {}
    <3>1. ~f.task[t].queued
      BY <1>6, <1>26, <1>20 DEF FinishedInv
    <3>2. Cardinality(WaitsAt(e, t)) = 0
      BY <1>9, <1>20
    <3>3. WaitsAt(e, t) = {}
      BY <3>2, <1>3, WaitsFinite, FS_EmptySet
    <3>4. QED
      BY <3>1, <3>3, <1>13
  <2>3. AllBut(f, t, K, P, n)
    BY <1>17
  <2>4. HeapInv(g, K \ {t}, P, n) /\ g = WithTask(f, t, Blank)
    <3>1. t \in Task
      BY <1>3
    <3>2. /\ HeapInv(Release(f, t), K \ {t}, P, n)
          /\ Release(f, t) = WithTask(f, t, Blank)
      BY <3>1, <2>2, <2>3, ReleaseKeeps
    <3>3. QED
      BY <2>1, <3>2
  <2>5. K \ {t} = K
    OBVIOUS
  <2>6. Blank \in TaskType
    BY Sizes DEF Blank, TaskType
  <2>7. /\ g.status = f.status /\ g.dependents = f.dependents
        /\ g.task[t] = Blank /\ \A u \in Task \ {t} : g.task[u] = f.task[u]
    BY <1>3, <1>13, <2>4, <2>6, TaskSetIs
  <2>8. Fades(h, g)
    BY <2>7, <1>13 DEF Fades, Blank
  <2>9. QED
    BY <2>4, <2>5, <2>7, <2>8, <1>2, <1>13
<1>21. CASE h.task[t].finished /\ left # 0
  <2>1. g = f
    BY <1>15, <1>21
  <2>2. AllBut(f, t, K, P, n)
    BY <1>17
  <2>3. TaskInv(f, t, K, n)
    <3>1. FreeInv(f, t, K) /\ FinishedInv(f, t, K) /\ HeldInv(f, t, K)
      <4>1. left > 0
        BY <1>9, <1>21
      <4>2. FinishedInv(h, t, K) /\ HeldInv(h, t, K)
        BY <1>6
      <4>3. QED
        BY <4>1, <4>2, <1>26, <1>27 DEF FreeInv, FinishedInv, HeldInv
    <3>2. WaitingInv(f, t, K)
      BY <1>28
    <3>3. QED
      BY <3>1, <3>2, <1>18 DEF TaskInv
  <2>4. HeapInv(g, K, P, n)
    BY <2>1, <2>2, <2>3 DEF HeapInv, AllBut
  <2>5. QED
    BY <2>1, <2>4, <1>2, <1>13, <1>19
<1>22. CASE ~h.task[t].finished /\ ~h.task[t].queued
  <2>1. g = AppendTask(f, t)
    BY <1>15, <1>22
  <2>2. PICK L : L = K \cup {t}
    OBVIOUS
  <2>3. AllBut(f, t, L, P, n)
    BY <2>2, <1>17
  <2>4. f.task[t].deps > 0 => f.task[t].kind \in Combinators
    <3>1. h.task[t].kind \in {"free"} \cup Reactions \cup Sources \cup Combinators
      BY <1>7
    <3>2. /\ h.task[t].kind \in Sources => h.task[t].deps = 0
          /\ h.task[t].kind \in Reactions => h.task[t].deps <= 1
      BY <1>6 DEF WaitingInv
    <3>3. left > 0 => h.task[t].deps > 1
      BY <1>9
    <3>4. h.task[t].deps \in Nat
      BY <1>7
    <3>5. left > 0 => h.task[t].kind \notin Sources /\ h.task[t].kind \notin Reactions
      BY <3>2, <3>3, <3>4
    <3>6. f.task[t].deps = left /\ f.task[t].kind = h.task[t].kind /\ h.task[t].kind # "free"
      BY <1>7, <1>26
    <3>7. QED
      BY <3>1, <3>5, <3>6
  <2>5. TaskInv(f, t, L, n)
    <3>1. FreeInv(f, t, L) /\ FinishedInv(f, t, L) /\ HeldInv(f, t, L)
      BY <2>2, <1>22, <1>26, <1>27 DEF FreeInv, FinishedInv, HeldInv
    <3>2. WaitingInv(f, t, L)
      <4>1. /\ h.task[t].kind \notin Sources
            /\ h.task[t].kind \in Reactions => h.task[t].deps <= 1 /\ Len(h.task[t].items) = 1
        <5>1. h.task[t].deps > 0 /\ h.task[t].deps \in Nat
          BY <1>7
        <5>2. WaitingInv(h, t, K)
          BY <1>6
        <5>3. h.task[t].deps # 0
          BY <5>1
        <5>4. h.task[t].kind \notin Sources
          BY <5>2, <5>3 DEF WaitingInv
        <5>5. h.task[t].kind \in Reactions => h.task[t].deps <= 1 /\ Len(h.task[t].items) = 1
          BY <5>2 DEF WaitingInv
        <5>6. QED
          BY <5>4, <5>5
      <4>2. h.task[t].kind \in Reactions => left <= 1
        BY <4>1, <1>7, <1>8
      <4>3. f.task[t].kind \notin Combinators => f.task[t].deps = 0
        BY <2>4, <1>9, <1>26
      <4>4. QED
        BY <4>1, <4>2, <4>3, <1>26 DEF WaitingInv
    <3>3. QED
      BY <3>1, <3>2, <1>18 DEF TaskInv
  <2>6. HeapInv(f, L, P, n)
    BY <2>3, <2>5 DEF HeapInv, AllBut
  <2>7. HeapInv(g, L \ {t}, P, n)
    BY <1>3, <2>1, <2>2, <2>4, <2>6, AppendKeeps
  <2>8. L \ {t} = K
    BY <2>2
  <2>9. /\ g.status = f.status /\ g.dependents = f.dependents
        /\ \A u \in Task \ {t} : g.task[u] = f.task[u]
        /\ g.task[t] = [f.task[t] EXCEPT !.queued = TRUE]
    <3>1. t \in Task /\ f \in HeapType
      BY <1>3, <1>13
    <3>2. Appended(f, t, g)
      BY <3>1, <2>1, AppendedIs
    <3>3. QED
      BY <3>2 DEF Appended
  <2>10. g.task[t].kind = f.task[t].kind
    <3>1. f.task[t] \in TaskType
      BY <1>11, <1>13
    <3>2. QED
      BY <3>1, <2>9 DEF TaskType
  <2>11. Fades(h, g)
    BY <2>9, <2>10, <1>19 DEF Fades
  <2>12. QED
    BY <2>7, <2>8, <2>9, <2>11, <1>2, <1>13
<1>23. CASE ~h.task[t].finished /\ h.task[t].queued
  <2>1. g = f
    BY <1>15, <1>23
  <2>2. AllBut(f, t, K, P, n)
    BY <1>17
  <2>3. TaskInv(f, t, K, n)
    <3>1. FreeInv(f, t, K) /\ FinishedInv(f, t, K) /\ HeldInv(f, t, K)
      <4>1. HeldInv(h, t, K)
        BY <1>6
      <4>2. QED
        BY <4>1, <1>23, <1>26, <1>27 DEF FreeInv, FinishedInv, HeldInv
    <3>2. WaitingInv(f, t, K)
      BY <1>28
    <3>3. QED
      BY <3>1, <3>2, <1>18 DEF TaskInv
  <2>4. HeapInv(g, K, P, n)
    BY <2>1, <2>2, <2>3 DEF HeapInv, AllBut
  <2>5. QED
    BY <2>1, <2>4, <1>2, <1>13, <1>19
<1>24. QED
  BY <1>7, <1>20, <1>21, <1>22, <1>23

Wakes(h, K, p, t, g) ==
  /\ p \in Promise /\ h.dependents[p] # <<>> /\ t = Head(h.dependents[p]) /\ t \notin K
  /\ g = Wake(WithDependents(h, p, Tail(h.dependents[p])), t)
WithoutFirst(d, p) == [d EXCEPT ![p] = Tail(d[p])]

(* Waking the first dependent of a promise, its count one less, and        *)
(* queueing it when that was its last, keeps the heap's invariant; every   *)
(* settled promise is woken one dependent at a time.                       *)
LEMMA WokenKeeps ==
  ASSUME NEW h, NEW K, NEW P, NEW n \in Int, HeapInv(h, K, P, n),
         NEW p, NEW t, NEW g, Wakes(h, K, p, t, g)
  PROVE  /\ HeapInv(g, K, P, n) /\ Fades(h, g) /\ g.status = h.status
         /\ g.dependents = WithoutFirst(h.dependents, p)
<1>1. /\ p \in Promise /\ h.dependents[p] # <<>> /\ t = Head(h.dependents[p]) /\ t \notin K
      /\ g = Wake(WithDependents(h, p, Tail(h.dependents[p])), t)
  BY DEF Wakes
<1>2. /\ HeapInv(g, K, P, n) /\ Fades(h, g) /\ g.status = h.status
      /\ g.dependents = [h.dependents EXCEPT ![p] = Tail(h.dependents[p])]
  BY <1>1, WakeKeeps
<1>3. QED
  BY <1>2 DEF WithoutFirst

(* A heap in which a promise has another state.                            *)
WithStatus(h, p, x) == [h EXCEPT !.status[p] = x]

(* Writing one promise's status leaves the rest of the heap as it was.     *)
LEMMA StatusSetIs ==
  ASSUME NEW h \in HeapType, NEW p \in Promise, NEW x \in StatusName
  PROVE  LET g == WithStatus(h, p, x)
         IN /\ g \in HeapType /\ g.task = h.task /\ g.queues = h.queues
            /\ g.dependents = h.dependents /\ g.status = [h.status EXCEPT ![p] = x]
<1> DEFINE g == WithStatus(h, p, x)
           d == [h.status EXCEPT ![p] = x]
<1>0. g = [h EXCEPT !.status = d]
  BY DEF WithStatus
<1> HIDE DEF g, d
<1>1. /\ g.status = d /\ g.task = h.task
      /\ g.queues = h.queues /\ g.dependents = h.dependents
      /\ g = [status |-> g.status, dependents |-> g.dependents, task |-> g.task,
              queues |-> g.queues]
  BY <1>0, HeapIs
<1>2. d \in [Promise -> StatusName]
  BY HeapIs DEF d
<1>3. g \in HeapType
  BY <1>1, <1>2, HeapIs DEF HeapType
<1>4. QED
  BY <1>1, <1>3 DEF d, g

(* No task depends on what a promise's status is, as long as the promise   *)
(* is there.                                                               *)
LEMMA StatusSetKeeps ==
  ASSUME NEW h, NEW K, NEW P, NEW n \in Int, HeapInv(h, K, P, n),
         NEW p \in Promise, NEW x \in StatusName, x # "absent"
  PROVE  HeapInv(WithStatus(h, p, x), K, P, n) /\ StatusKept(h, WithStatus(h, p, x))
<1>1. /\ h \in HeapType /\ QueuesInv(h) /\ PooledInv(h, P)
      /\ \A u \in Task : TaskInv(h, u, K, n)
  BY DEF HeapInv
<1>2. PICK g : g = WithStatus(h, p, x)
  OBVIOUS
<1>3. /\ g \in HeapType /\ g.task = h.task /\ g.queues = h.queues
      /\ g.dependents = h.dependents /\ g.status = [h.status EXCEPT ![p] = x]
  BY <1>1, <1>2, StatusSetIs
<1>4. StatusKept(h, g)
  <2>1. h.status \in [Promise -> StatusName]
    BY <1>1, HeapIs
  <2>2. QED
    BY <2>1, <1>3 DEF StatusKept
<1>5. QueuesInv(g) /\ PooledInv(g, P)
  BY <1>1, <1>3, QueuesStay
<1>6. \A u \in Task \ {NoTask} : TaskInv(g, u, K, n)
  <2>1. OnlyAt(h, g, NoTask, K, K) /\ KeyKept(h, g, NoTask) /\ n <= n
    <3>1. NoTask \notin Task
      BY Sizes DEF NoTask
    <3>2. QED
      BY <3>1, <1>3 DEF OnlyAt, KeyKept
  <2>2. QED
    BY <2>1, <1>1, <1>3, <1>4, OthersKeep
<1>7. \A u \in Task : TaskInv(g, u, K, n)
  BY <1>6, Sizes DEF NoTask
<1>8. QED
  BY <1>2, <1>3, <1>4, <1>5, <1>7 DEF HeapInv

(* What Wake does to tasks and queues it does whatever waits for what.     *)
Alike(a, b) == a.task = b.task /\ a.queues = b.queues

(* Heaps alike but for their dependents stay alike when one task is        *)
(* written in both.                                                        *)
LEMMA AlikeTask ==
  ASSUME NEW a \in HeapType, NEW b \in HeapType, Alike(a, b), NEW t \in Task, NEW k \in TaskType
  PROVE  Alike(WithTask(a, t, k), WithTask(b, t, k))
<1> DEFINE c == WithTask(a, t, k)
           d == WithTask(b, t, k)
<1>1. /\ c \in HeapType /\ c.queues = a.queues
      /\ c.task[t] = k /\ \A u \in Task \ {t} : c.task[u] = a.task[u]
  BY TaskSetIs
<1>2. /\ d \in HeapType /\ d.queues = b.queues
      /\ d.task[t] = k /\ \A u \in Task \ {t} : d.task[u] = b.task[u]
  BY TaskSetIs
<1> HIDE DEF c, d
<1>3. c.task \in [Task -> TaskType] /\ d.task \in [Task -> TaskType]
  BY <1>1, <1>2, HeapIs
<1>4. \A u \in Task : c.task[u] = d.task[u]
  BY <1>1, <1>2 DEF Alike
<1>5. c.task = d.task
  BY <1>3, <1>4
<1>6. QED
  BY <1>1, <1>2, <1>5 DEF Alike, c, d

(* They stay alike when one task is queued in both.                        *)
LEMMA AlikeAppend ==
  ASSUME NEW a \in HeapType, NEW b \in HeapType, Alike(a, b), NEW t \in Task
  PROVE  Alike(AppendTask(a, t), AppendTask(b, t))
<1>1. PICK c, d, q, r : /\ c = AppendTask(a, t) /\ d = AppendTask(b, t)
                        /\ q = QueueOf(a.task[t].kind) /\ r = QueueOf(b.task[t].kind)
  OBVIOUS
<1>2. q = r /\ a.task[t] = b.task[t] /\ a.queues = b.queues /\ a.task = b.task
  BY <1>1 DEF Alike
<1>3. /\ c \in HeapType /\ q \in QueueName \ {"done"}
      /\ c.queues[q] = Append(a.queues[q], t)
      /\ \A x \in QueueName \ {q} : c.queues[x] = a.queues[x]
      /\ \A u \in Task \ {t} : c.task[u] = a.task[u]
      /\ c.task[t] = [a.task[t] EXCEPT !.queued = TRUE]
  <2>1. AppendedTo(a, t, q, c)
    BY <1>1, AppendIs
  <2>2. QED
    BY <2>1 DEF AppendedTo
<1>4. /\ d \in HeapType
      /\ d.queues[r] = Append(b.queues[r], t)
      /\ \A x \in QueueName \ {r} : d.queues[x] = b.queues[x]
      /\ \A u \in Task \ {t} : d.task[u] = b.task[u]
      /\ d.task[t] = [b.task[t] EXCEPT !.queued = TRUE]
  <2>1. AppendedTo(b, t, r, d)
    BY <1>1, AppendIs
  <2>2. QED
    BY <2>1 DEF AppendedTo
<1>5. /\ c.task \in [Task -> TaskType] /\ d.task \in [Task -> TaskType]
      /\ c.queues \in [QueueName -> Seq(Task)] /\ d.queues \in [QueueName -> Seq(Task)]
  BY <1>3, <1>4, HeapIs
<1>6. c.task = d.task
  <2>1. c.task[t] = d.task[t]
    BY <1>2, <1>3, <1>4
  <2>2. \A u \in Task \ {t} : c.task[u] = d.task[u]
    BY <1>2, <1>3, <1>4
  <2>3. QED
    BY <2>1, <2>2, <1>5
<1>7. c.queues = d.queues
  <2>1. c.queues[q] = d.queues[q]
    BY <1>2, <1>3, <1>4
  <2>2. \A x \in QueueName \ {q} : c.queues[x] = d.queues[x]
    BY <1>2, <1>3, <1>4
  <2>3. \A x \in QueueName : c.queues[x] = d.queues[x]
    BY <2>1, <2>2
  <2>4. QED
    BY <2>3, <1>5
<1>8. QED
  BY <1>1, <1>6, <1>7 DEF Alike

(* Waking a task reads and writes tasks and queues, never the promises.    *)
LEMMA WakeIs ==
  ASSUME NEW h \in HeapType, NEW t \in Task
  PROVE  /\ Wake(h, t) \in HeapType /\ Wake(h, t).status = h.status
         /\ Wake(h, t).dependents = h.dependents
         /\ \A b \in HeapType : Alike(h, b) => Alike(Wake(h, t), Wake(b, t))
<1> DEFINE left(a) == IF a.task[t].deps > 0 THEN a.task[t].deps - 1 ELSE 0
           rec(a) == [a.task[t] EXCEPT !.deps = left(a)]
           less(a) == WithTask(a, t, rec(a))
<1>1. \A a \in HeapType : left(a) \in Nat /\ rec(a) \in TaskType
  <2> SUFFICES ASSUME NEW a \in HeapType PROVE left(a) \in Nat /\ rec(a) \in TaskType
    OBVIOUS
  <2>1. a.task[t] \in TaskType /\ a.task[t].deps \in Nat
    BY HeapIs, TaskIs
  <2>2. left(a) \in Nat
    BY <2>1
  <2> HIDE DEF left
  <2>3. rec(a) \in TaskType
    BY <2>1, <2>2 DEF TaskType
  <2>4. QED
    BY <2>2, <2>3
<1>2. \A a \in HeapType : a.task[t] \in TaskType /\ [a EXCEPT !.task[t].deps = left(a)] = less(a)
  BY HeapIs DEF WithTask
<1>3. Blank \in TaskType
  BY Sizes DEF Blank, TaskType
<1>4. \A a \in HeapType : Release(a, t) = WithTask(a, t, Blank)
  BY DEF Release, WithTask
<1>5. \A a \in HeapType :
        Wake(a, t) = CASE a.task[t].finished ->
                            IF left(a) = 0 THEN WithTask(less(a), t, Blank) ELSE less(a)
                       [] ~a.task[t].finished /\ ~a.task[t].queued -> AppendTask(less(a), t)
                       [] OTHER -> less(a)
  <2> SUFFICES ASSUME NEW a \in HeapType
               PROVE  Wake(a, t) = CASE a.task[t].finished ->
                            IF left(a) = 0 THEN WithTask(less(a), t, Blank) ELSE less(a)
                       [] ~a.task[t].finished /\ ~a.task[t].queued -> AppendTask(less(a), t)
                       [] OTHER -> less(a)
    OBVIOUS
  <2>1. less(a) = [a EXCEPT !.task[t].deps = left(a)]
    BY <1>2
  <2>2. less(a) \in HeapType
    BY <1>1, TaskSetIs
  <2>3. Release(less(a), t) = WithTask(less(a), t, Blank)
    BY <2>2, <1>4
  <2> HIDE DEF less
  <2>4. QED
    BY <2>1, <2>3 DEF Wake
<1> HIDE DEF left, rec
<1>6. \A a \in HeapType : /\ less(a) \in HeapType /\ less(a).status = a.status
                          /\ less(a).dependents = a.dependents
  BY <1>1, TaskSetIs
<1>7. ASSUME NEW b \in HeapType, Alike(h, b)
      PROVE  /\ Alike(less(h), less(b)) /\ left(h) = left(b) /\ h.task[t] = b.task[t]
  <2>1. left(h) = left(b) /\ rec(h) = rec(b) /\ h.task[t] = b.task[t]
    BY <1>7 DEF Alike, left, rec
  <2>2. QED
    BY <2>1, <1>1, <1>7, AlikeTask
<1> HIDE DEF less
<1>8. CASE h.task[t].finished /\ left(h) = 0
  <2>1. Wake(h, t) = WithTask(less(h), t, Blank)
    BY <1>5, <1>8
  <2>2. ASSUME NEW b \in HeapType, Alike(h, b) PROVE Alike(Wake(h, t), Wake(b, t))
    <3>1. Wake(b, t) = WithTask(less(b), t, Blank)
      BY <1>5, <1>7, <1>8, <2>2
    <3>2. QED
      BY <2>1, <2>2, <3>1, <1>3, <1>6, <1>7, AlikeTask
  <2>3. QED
    BY <2>1, <2>2, <1>3, <1>6, TaskSetIs
<1>9. CASE ~h.task[t].finished /\ ~h.task[t].queued
  <2>1. Wake(h, t) = AppendTask(less(h), t)
    BY <1>5, <1>9
  <2>2. ASSUME NEW b \in HeapType, Alike(h, b) PROVE Alike(Wake(h, t), Wake(b, t))
    <3>1. Wake(b, t) = AppendTask(less(b), t)
      BY <1>5, <1>7, <1>9, <2>2
    <3>2. QED
      BY <2>1, <2>2, <3>1, <1>6, <1>7, AlikeAppend
  <2>3. QED
    <3>1. PICK a : a = less(h) /\ a \in HeapType
      BY <1>6
    <3>2. /\ AppendTask(a, t) \in HeapType /\ AppendTask(a, t).status = a.status
          /\ AppendTask(a, t).dependents = a.dependents
      <4>1. AppendedTo(a, t, QueueOf(a.task[t].kind), AppendTask(a, t))
        BY <3>1, AppendIs
      <4>2. QED
        BY <4>1 DEF AppendedTo
    <3>3. a.status = h.status /\ a.dependents = h.dependents /\ Wake(h, t) = AppendTask(a, t)
      BY <2>1, <3>1, <1>6
    <3>4. QED
      BY <2>2, <3>2, <3>3
<1>10. CASE ~(h.task[t].finished /\ left(h) = 0) /\ ~(~h.task[t].finished /\ ~h.task[t].queued)
  <2>1. Wake(h, t) = less(h)
    BY <1>5, <1>10
  <2>2. ASSUME NEW b \in HeapType, Alike(h, b) PROVE Alike(Wake(h, t), Wake(b, t))
    <3>1. Wake(b, t) = less(b)
      BY <1>5, <1>7, <1>10, <2>2
    <3>2. QED
      BY <2>1, <2>2, <3>1, <1>7
  <2>3. QED
    BY <2>1, <2>2, <1>6
<1>11. QED
  BY <1>8, <1>9, <1>10

(* Waking ends no task that is still to be run, and revives none.          *)
LEMMA WakeLives ==
  ASSUME NEW h \in HeapType, NEW t \in Task
  PROVE  Lives(h, Wake(h, t))
<1>1. PICK left, r, k, a : /\ left = (IF h.task[t].deps > 0 THEN h.task[t].deps - 1 ELSE 0)
                           /\ r = h.task[t] /\ k = [r EXCEPT !.deps = left]
                           /\ a = WithTask(h, t, k)
  OBVIOUS
<1>2. r \in TaskType /\ left \in Nat
  <2>1. r \in TaskType
    BY <1>1, HeapIs
  <2>2. r.deps \in Nat
    BY <2>1, TaskIs
  <2>3. QED
    BY <2>1, <2>2, <1>1
<1>3. /\ k \in TaskType /\ k.kind = r.kind /\ k.items = r.items /\ k.result = r.result
      /\ k.onFulfilled = r.onFulfilled /\ k.onRejected = r.onRejected /\ k.finished = r.finished
  BY <1>1, <1>2 DEF TaskType
<1>4. a \in HeapType /\ a.task[t] = k /\ \A u \in Task \ {t} : a.task[u] = h.task[u]
  BY <1>1, <1>3, TaskSetIs
<1>5. SameDuty(r, k)
  BY <1>3 DEF SameDuty, Alive
<1>6. Lives(h, a)
  <2>1. ASSUME NEW u \in Task \ {t} PROVE SameDuty(h.task[u], a.task[u])
    BY <1>4 DEF SameDuty
  <2>2. QED
    BY <2>1, <1>1, <1>4, <1>5 DEF Lives
<1>7. a = [h EXCEPT !.task[t].deps = left]
  <2>1. h.task \in [Task -> TaskType]
    BY HeapIs
  <2>2. QED
    BY <2>1, <1>1 DEF WithTask
<1>8. Wake(h, t) = CASE r.finished -> (IF left = 0 THEN Release(a, t) ELSE a)
                     [] ~r.finished /\ ~r.queued -> AppendTask(a, t)
                     [] OTHER -> a
  BY <1>1, <1>7 DEF Wake
<1>9. CASE r.finished /\ left = 0
  <2>1. Wake(h, t) = WithTask(a, t, Blank)
    BY <1>8, <1>9 DEF Release, WithTask
  <2>2. Blank \in TaskType /\ Blank.kind = "free"
    BY Sizes DEF Blank, TaskType
  <2>3. /\ WithTask(a, t, Blank).task[t] = Blank
        /\ \A u \in Task \ {t} : WithTask(a, t, Blank).task[u] = a.task[u]
    BY <2>2, <1>4, TaskSetIs
  <2>4. SameDuty(a.task[t], Blank)
    BY <2>2, <1>3, <1>4, <1>9 DEF SameDuty, Alive
  <2>5. ASSUME NEW u \in Task \ {t} PROVE SameDuty(a.task[u], WithTask(a, t, Blank).task[u])
    BY <2>3 DEF SameDuty
  <2>6. Lives(a, WithTask(a, t, Blank))
    BY <2>3, <2>4, <2>5 DEF Lives
  <2>7. QED
    BY <2>1, <2>6, <1>6, LivesOn
<1>10. CASE ~r.finished /\ ~r.queued
  <2>1. Wake(h, t) = AppendTask(a, t)
    BY <1>8, <1>10
  <2>2. PICK y : y = AppendTask(a, t)
    OBVIOUS
  <2>3. /\ \A u \in Task \ {t} : y.task[u] = a.task[u]
        /\ y.task[t] = [k EXCEPT !.queued = TRUE]
    BY <2>2, <1>4, AppendedIs DEF Appended
  <2>4. SameDuty(k, y.task[t])
    BY <2>3, <1>3 DEF SameDuty, Alive, TaskType
  <2>5. ASSUME NEW u \in Task \ {t} PROVE SameDuty(a.task[u], y.task[u])
    BY <2>3 DEF SameDuty
  <2>6. Lives(a, y)
    BY <2>4, <2>5, <1>4 DEF Lives
  <2>7. QED
    BY <2>1, <2>2, <2>6, <1>6, LivesOn
<1>11. CASE ~(r.finished /\ left = 0) /\ ~(~r.finished /\ ~r.queued)
  <2>1. Wake(h, t) = a
    BY <1>8, <1>11
  <2>2. QED
    BY <2>1, <1>6
<1>12. QED
  BY <1>9, <1>10, <1>11

(* A task that has been run is not to be run any more.                     *)
LEMMA DoneEnds ==
  ASSUME NEW h \in HeapType, NEW t \in Task
  PROVE  ~Alive(Done(h, t).task[t])
<1>1. h.task[t] \in TaskType /\ Blank \in TaskType /\ Blank.kind = "free"
  BY HeapIs, Sizes DEF Blank, TaskType
<1>2. CASE h.task[t].deps > 0
  <2>1. PICK r, k : r = h.task[t] /\ k = [r EXCEPT !.finished = TRUE]
    OBVIOUS
  <2>2. k \in TaskType /\ k.finished
    BY <2>1, <1>1 DEF TaskType
  <2>3. Done(h, t) = WithTask(h, t, k)
    BY <2>1, <1>2 DEF Done, WithTask
  <2>4. Done(h, t).task[t] = k
    BY <2>2, <2>3, TaskSetIs
  <2>5. QED
    BY <2>2, <2>4 DEF Alive
<1>3. CASE ~(h.task[t].deps > 0)
  <2>1. Done(h, t) = WithTask(h, t, Blank)
    BY <1>3 DEF Done, Release, WithTask
  <2>2. Done(h, t).task[t] = Blank
    BY <2>1, <1>1, TaskSetIs
  <2>3. QED
    BY <2>2, <1>1 DEF Alive
<1>4. QED
  BY <1>2, <1>3

(* A settled promise wakes everything that waits for it, one after the     *)
(* other: the rest is thought to wait for it still.                        *)
LEMMA SettleKeeps ==
  ASSUME NEW h, NEW K, NEW P, NEW n \in Int, HeapInv(h, K, P, n),
         NEW p \in Promise, NEW x \in StatusName, x # "absent",
         \A i \in 1..Len(h.dependents[p]) : h.dependents[p][i] \notin K
  PROVE  /\ HeapInv(Settle(h, p, x), K, P, n)
         /\ Fades(h, Settle(h, p, x)) /\ StatusKept(h, Settle(h, p, x))
         /\ Settle(h, p, x).status = [h.status EXCEPT ![p] = x] /\ Lives(h, Settle(h, p, x))
<1> DEFINE tasks == h.dependents[p]
           l == Len(tasks)
           h0 == WithStatus(h, p, x)
           base == WithDependents(h0, p, <<>>)
           Step(f, i) == IF i = 0 THEN base ELSE Wake(f[i - 1], tasks[i])
           Loop(f) == f = [i \in 0..l |-> Step(f, i)]
           woken == CHOOSE f : Loop(f)
           rest(i) == SubSeq(tasks, i + 1, l)
           view(i) == WithDependents(woken[i], p, rest(i))
<1>1. h \in HeapType
  BY DEF HeapInv
<1>2. /\ tasks \in Seq(Task) /\ l \in Nat /\ (\A i \in 1..l : tasks[i] \in Task /\ tasks[i] \notin K)
  <2>1. tasks \in Seq(Task)
    BY <1>1, HeapIs
  <2>2. QED
    BY <2>1
<1>3. /\ h0 \in HeapType /\ h0.task = h.task /\ h0.queues = h.queues
      /\ h0.dependents = h.dependents /\ h0.status = [h.status EXCEPT ![p] = x]
      /\ HeapInv(h0, K, P, n) /\ StatusKept(h, h0)
  BY <1>1, StatusSetIs, StatusSetKeeps
<1>4. /\ base \in HeapType /\ base.status = h0.status /\ base.task = h0.task
      /\ base.queues = h0.queues /\ base.dependents = [h0.dependents EXCEPT ![p] = <<>>]
  <2>1. <<>> \in Seq(Task)
    OBVIOUS
  <2>2. PICK y, e : y = h0 /\ e = <<>>
    OBVIOUS
  <2>3. y \in HeapType /\ e \in Seq(Task)
    BY <1>3, <2>1, <2>2
  <2>4. LET z == WithDependents(y, p, e)
        IN /\ z \in HeapType /\ z.status = y.status /\ z.task = y.task
           /\ z.queues = y.queues /\ z.dependents = [y.dependents EXCEPT ![p] = e]
    BY <2>3, DependentsSetIs
  <2>5. QED
    BY <2>2, <2>4
<1>5. [h EXCEPT !.status[p] = x, !.dependents[p] = <<>>] = base
  <2>1. h = [status |-> h.status, dependents |-> h.dependents, task |-> h.task,
             queues |-> h.queues]
    BY <1>1, HeapIs
  <2>2. QED
    BY <2>1 DEF WithStatus, WithDependents
<1> HIDE DEF h0, base
<1>6. \E f : Loop(f)
  <2> DEFINE F == [y \in HeapType \X (1..l) |-> Wake(y[1], tasks[y[2]])]
  <2>1. F \in [HeapType \X (1..l) -> HeapType]
    BY <1>2, WakeIs
  <2>2. \A i \in 1..l : \A y \in HeapType : F[<<y, i>>] = Wake(y, tasks[i])
    OBVIOUS
  <2> HIDE DEF F
  <2>3. Loops(l, HeapType, base, F) # {}
    <3>1. base \in HeapType /\ l \in Nat
      BY <1>2, <1>4
    <3> HIDE DEF l
    <3>2. QED
      BY <2>1, <3>1, LoopExists
  <2>9. PICK f \in [0..l -> HeapType] : f[0] = base /\ \A i \in 1..l : f[i] = F[<<f[i - 1], i>>]
    BY <2>3 DEF Loops
  <2>4. \A i \in 0..l : f[i] = Step(f, i)
    <3> TAKE i \in 0..l
    <3>1. CASE i = 0
      BY <3>1, <2>9
    <3>2. CASE i # 0
      <4>1. i \in 1..l /\ i - 1 \in 0..l
        BY <3>2, <1>2
      <4>2. f[i] = Wake(f[i - 1], tasks[i])
        BY <4>1, <2>2, <2>9
      <4>3. QED
        BY <3>2, <4>2
    <3>3. QED
      BY <3>1, <3>2
  <2>5. f = [i \in 0..l |-> f[i]]
    BY <2>9
  <2>6. Loop(f)
    <3> HIDE DEF Step
    <3>1. QED
      BY <2>4, <2>5
  <2> HIDE DEF Loop
  <2>7. QED
    BY <2>6
<1>7. Loop(woken)
  <2> HIDE DEF Loop
  <2>1. QED
    BY <1>6
<1>9. Settle(h, p, x) = woken[l]
  BY <1>5 DEF Settle
<1> HIDE DEF woken
<1>8. woken[0] = base /\ \A i \in 1..l : woken[i] = Wake(woken[i - 1], tasks[i])
  <2>1. \A i \in 0..l : woken[i] = Step(woken, i)
    BY <1>7
  <2>2. 0 \in 0..l /\ \A i \in 1..l : i \in 0..l /\ i # 0
    BY <1>2
  <2>3. QED
    BY <2>1, <2>2
<1> DEFINE Good == {i \in 0..l :
             /\ woken[i] \in HeapType
             /\ woken[i].status = base.status /\ woken[i].dependents = base.dependents
             /\ HeapInv(view(i), K, P, n) /\ Fades(h, woken[i]) /\ Lives(h, woken[i])}
<1>10. rest(0) = tasks /\ rest(l) = <<>> /\ \A i \in 0..l : rest(i) \in Seq(Task)
  <2>1. \A i \in 0..l : rest(i) \in Seq(Task)
    BY <1>2
  <2>2. rest(l) = <<>>
    BY <1>2
  <2>3. rest(0) = tasks
    BY <1>2
  <2>4. QED
    BY <2>1, <2>2, <2>3
<1>11. \A i \in 1..l : /\ rest(i - 1) # <<>> /\ Head(rest(i - 1)) = tasks[i]
                      /\ Tail(rest(i - 1)) = rest(i)
  <2> TAKE i \in 1..l
  <2>1. rest(i - 1) = SubSeq(tasks, i, l) /\ rest(i) = SubSeq(tasks, i + 1, l)
    BY <1>2
  <2> HIDE DEF rest
  <2>2. /\ SubSeq(tasks, i, l) \in Seq(Task) /\ Len(SubSeq(tasks, i, l)) = l - i + 1
        /\ \A j \in 1..(l - i + 1) : SubSeq(tasks, i, l)[j] = tasks[i + j - 1]
    BY <1>2
  <2>3. /\ SubSeq(tasks, i + 1, l) \in Seq(Task) /\ Len(SubSeq(tasks, i + 1, l)) = l - i
        /\ \A j \in 1..(l - i) : SubSeq(tasks, i + 1, l)[j] = tasks[i + j]
    BY <1>2
  <2>4. SubSeq(tasks, i, l) # <<>> /\ Head(SubSeq(tasks, i, l)) = tasks[i]
    <3>1. PICK a : a = SubSeq(tasks, i, l)
      OBVIOUS
    <3>2. a \in Seq(Task) /\ Len(a) > 0 /\ a[1] = tasks[i + 1 - 1] /\ i + 1 - 1 = i
      BY <1>2, <2>2, <3>1
    <3>3. a # <<>> /\ Head(a) = tasks[i]
      BY <3>2
    <3>4. QED
      BY <3>1, <3>3
  <2>5. /\ Tail(SubSeq(tasks, i, l)) \in Seq(Task) /\ Len(Tail(SubSeq(tasks, i, l))) = l - i
        /\ \A j \in 1..(l - i) : Tail(SubSeq(tasks, i, l))[j] = SubSeq(tasks, i, l)[j + 1]
    BY <1>2, <2>2, <2>4
  <2>6. \A j \in 1..(l - i) : Tail(SubSeq(tasks, i, l))[j] = tasks[i + j]
    <3> TAKE j \in 1..(l - i)
    <3>1. j + 1 \in 1..(l - i + 1) /\ i + (j + 1) - 1 = i + j
      BY <1>2
    <3>2. QED
      BY <3>1, <2>2, <2>5
  <2>7. Tail(SubSeq(tasks, i, l)) = SubSeq(tasks, i + 1, l)
    <3>1. PICK a, b : a = Tail(SubSeq(tasks, i, l)) /\ b = SubSeq(tasks, i + 1, l)
      OBVIOUS
    <3>2. a \in Seq(Task) /\ b \in Seq(Task) /\ Len(a) = Len(b) /\ \A j \in 1..Len(a) : a[j] = b[j]
      BY <3>1, <2>3, <2>5, <2>6
    <3>3. a = b
      BY <3>2, SeqEqual
    <3>4. QED
      BY <3>1, <3>3
  <2>8. QED
    BY <2>1, <2>4, <2>7
<1> HIDE DEF rest
<1>12. 0 \in Good
  <2>1. /\ view(0) \in HeapType /\ view(0).status = base.status /\ view(0).task = base.task
        /\ view(0).queues = base.queues
        /\ view(0).dependents = [base.dependents EXCEPT ![p] = tasks]
    BY <1>2, <1>4, <1>8, <1>10, DependentsSetIs
  <2> HIDE DEF view
  <2>2. view(0).dependents = h0.dependents
    <3>1. h0.dependents \in [Promise -> Seq(Task)] /\ h0.dependents[p] = tasks
      BY <1>3, HeapIs
    <3>2. QED
      BY <1>4, <2>1, <3>1
  <2>3. view(0) = h0
    BY <1>3, <1>4, <2>1, <2>2, SameHeap
  <2>4. Fades(h, woken[0])
    BY <1>3, <1>4, <1>8 DEF Fades
  <2>6. Lives(h, woken[0])
    BY <1>3, <1>4, <1>8 DEF Lives, SameDuty
  <2>5. QED
    BY <1>2, <1>3, <1>4, <1>8, <2>3, <2>4, <2>6
<1>13. ASSUME NEW i \in 1..l, i - 1 \in Good PROVE i \in Good
  <2> DEFINE a == woken[i - 1]
             v == view(i - 1)
             t == tasks[i]
             c == WithDependents(v, p, rest(i))
  <2>1. /\ a \in HeapType /\ a.status = base.status /\ a.dependents = base.dependents
        /\ HeapInv(v, K, P, n) /\ Fades(h, a) /\ Lives(h, a)
    BY <1>13
  <2>2. /\ t \in Task /\ t \notin K /\ i \in 0..l /\ i - 1 \in 0..l
        /\ rest(i) \in Seq(Task) /\ rest(i - 1) \in Seq(Task)
        /\ woken[i] = Wake(a, t)
    BY <1>2, <1>8, <1>10
  <2>3. /\ v \in HeapType /\ v.status = a.status /\ v.task = a.task
        /\ v.queues = a.queues /\ v.dependents = [a.dependents EXCEPT ![p] = rest(i - 1)]
    BY <2>1, <2>2, DependentsSetIs
  <2>4. /\ a.dependents \in [Promise -> Seq(Task)]
        /\ v.dependents[p] = rest(i - 1)
        /\ [v.dependents EXCEPT ![p] = rest(i)] = [a.dependents EXCEPT ![p] = rest(i)]
    <3>1. a.dependents \in [Promise -> Seq(Task)]
      BY <2>1, HeapIs
    <3>2. QED
      BY <2>2, <2>3, <3>1
  <2>5. /\ c \in HeapType /\ c.status = v.status /\ c.task = v.task
        /\ c.queues = v.queues /\ c.dependents = [v.dependents EXCEPT ![p] = rest(i)]
    BY <2>2, <2>3, DependentsSetIs
  <2>6. v.dependents[p] # <<>> /\ t = Head(v.dependents[p]) /\ Tail(v.dependents[p]) = rest(i)
    BY <1>11, <2>4
  <2> HIDE DEF v, t, a
  <2>7. /\ HeapInv(Wake(c, t), K, P, n) /\ Fades(v, Wake(c, t)) /\ Wake(c, t).status = v.status
        /\ Wake(c, t).dependents = [v.dependents EXCEPT ![p] = rest(i)]
    <3>1. PICK g : g = Wake(WithDependents(v, p, Tail(v.dependents[p])), t)
      OBVIOUS
    <3>2. /\ HeapInv(g, K, P, n) /\ Fades(v, g) /\ g.status = v.status
          /\ g.dependents = WithoutFirst(v.dependents, p)
      <4>1. HeapInv(v, K, P, n) /\ Wakes(v, K, p, t, g)
        BY <3>1, <2>1, <2>2, <2>6 DEF Wakes
      <4>2. QED
        BY <4>1, WokenKeeps
    <3>3. QED
      BY <2>6, <3>1, <3>2 DEF WithoutFirst
  <2> HIDE DEF c
  <2>8. /\ Wake(a, t) \in HeapType /\ Wake(a, t).status = a.status
        /\ Wake(a, t).dependents = a.dependents
        /\ Wake(a, t).task = Wake(c, t).task /\ Wake(a, t).queues = Wake(c, t).queues
        /\ Wake(c, t) \in HeapType
    <3>1. Alike(a, c)
      BY <2>3, <2>5 DEF Alike
    <3>2. QED
      BY <2>1, <2>2, <2>5, <3>1, WakeIs DEF Alike
  <2>9. /\ view(i) \in HeapType /\ view(i).status = a.status /\ view(i).task = Wake(a, t).task
        /\ view(i).queues = Wake(a, t).queues
        /\ view(i).dependents = [a.dependents EXCEPT ![p] = rest(i)]
    BY <2>2, <2>8, DependentsSetIs
  <2> HIDE DEF view
  <2>10. view(i) = Wake(c, t)
    <3>1. view(i).dependents = Wake(c, t).dependents
      BY <2>4, <2>7, <2>9
    <3>2. view(i).status = Wake(c, t).status
      BY <2>3, <2>7, <2>9
    <3>3. QED
      BY <2>8, <2>9, <3>1, <3>2, SameHeap
  <2>11. Fades(h, woken[i])
    <3>1. \A u \in Task : Wake(a, t).task[u].kind \in {a.task[u].kind, "free"}
      BY <2>3, <2>7, <2>8 DEF Fades
    <3>2. QED
      BY <2>1, <2>2, <3>1 DEF Fades
  <2>12. Lives(h, woken[i])
    <3>1. Lives(a, Wake(a, t))
      BY <2>1, <2>2, WakeLives
    <3>2. QED
      BY <2>1, <2>2, <3>1, LivesOn
  <2>13. QED
    BY <2>1, <2>2, <2>7, <2>8, <2>10, <2>11, <2>12 DEF a
<1>14. l \in Good
  <2> HIDE DEF Good
  <2>1. 0..l \subseteq Good
    BY <1>2, <1>12, <1>13, UpTo
  <2>2. QED
    BY <2>1, <1>2
<1>15. view(l) = woken[l]
  <2>1. /\ woken[l] \in HeapType /\ woken[l].dependents = base.dependents
    BY <1>14
  <2>2. /\ view(l) \in HeapType /\ view(l).status = woken[l].status /\ view(l).task = woken[l].task
        /\ view(l).queues = woken[l].queues
        /\ view(l).dependents = [base.dependents EXCEPT ![p] = <<>>]
    BY <1>2, <1>10, <2>1, DependentsSetIs
  <2>3. [base.dependents EXCEPT ![p] = <<>>] = base.dependents
    <3>1. h0.dependents \in [Promise -> Seq(Task)]
      BY <1>3, HeapIs
    <3>2. QED
      BY <1>4, <3>1
  <2> HIDE DEF view
  <2>4. QED
    BY <2>1, <2>2, <2>3, SameHeap
<1>16. StatusKept(h, woken[l])
  <2>1. woken[l].status = h0.status
    BY <1>4, <1>14
  <2>2. QED
    BY <2>1, <1>3 DEF StatusKept
<1>17. woken[l].status = [h.status EXCEPT ![p] = x] /\ Lives(h, woken[l])
  BY <1>3, <1>4, <1>14
<1>18. QED
  <2>1. HeapInv(view(l), K, P, n) /\ Fades(h, woken[l])
    BY <1>14
  <2> HIDE DEF view
  <2>2. QED
    BY <2>1, <1>9, <1>15, <1>16, <1>17

(* A task that has run settles its promise and is done.                    *)
SettlesFor(h, t, x, g) ==
  /\ g.status = [h.status EXCEPT ![h.task[t].result] = x]
  /\ ~Alive(g.task[t])
  /\ \A u \in Task \ {t} : SameDuty(h.task[u], g.task[u])
LEMMA SettledByKeeps ==
  ASSUME NEW h, NEW K, NEW P, NEW n \in Int, HeapInv(h, K, P, n), NEW t \in K, t \in Task,
         h.task[t].kind # "timer",
         \A u \in (K \cap Task) \ {t} : h.task[u].kind \notin Combinators,
         NEW x \in StatusName, x # "absent"
  PROVE  /\ HeapInv(SettledBy(h, t, x), K \ {t}, P, n)
         /\ Fades(h, SettledBy(h, t, x)) /\ StatusKept(h, SettledBy(h, t, x))
         /\ SettlesFor(h, t, x, SettledBy(h, t, x))
<1>1. h \in HeapType /\ \A u \in Task : TaskInv(h, u, K, n)
  BY DEF HeapInv
<1>2. /\ FreeInv(h, t, K) /\ InputInv(h, t) /\ KeyInv(h, t, n)
  BY <1>1 DEF TaskInv
<1>3. PICK p : p = h.task[t].result
  OBVIOUS
<1>4. p \in Promise
  BY <1>2, <1>3 DEF FreeInv, KeyInv
<1>5. ASSUME NEW i \in 1..Len(h.dependents[p]) PROVE h.dependents[p][i] \notin K
  <2>1. PICK u : u = h.dependents[p][i]
    OBVIOUS
  <2>2. /\ h.dependents \in [Promise -> Seq(Task)] /\ h.dependents[p] \in Seq(Task)
        /\ Len(h.dependents[p]) \in Nat /\ u \in Task
    BY <1>1, <1>4, <2>1, HeapIs
  <2>3. <<p, Len(h.dependents[p]) - i>> \in WaitsAt(h.dependents, u)
    <3>1. /\ Len(h.dependents[p]) - i \in Nat /\ Len(h.dependents[p]) - i < Len(h.dependents[p])
          /\ Len(h.dependents[p]) - (Len(h.dependents[p]) - i) = i
      BY <2>2
    <3>2. QED
      BY <3>1, <1>4, <2>1 DEF WaitsAt
  <2>4. h.task[u].deps # 0
    <3>1. DepsInv(h, u)
      BY <1>1, <2>2 DEF TaskInv
    <3>2. Cardinality(WaitsAt(h.dependents, u)) # 0
      BY <2>2, <2>3, WaitsFinite, FS_EmptySet
    <3>3. QED
      BY <3>1, <3>2 DEF DepsInv
  <2>5. SUFFICES ASSUME u \in K PROVE FALSE
    BY <2>1
  <2>6. h.task[u].kind \in Combinators
    <3>1. WaitingInv(h, u, K)
      BY <1>1, <2>2 DEF TaskInv
    <3>2. QED
      BY <2>4, <2>5, <3>1 DEF WaitingInv
  <2>7. u = t
    BY <2>2, <2>5, <2>6
  <2>8. \E j \in 1..Len(h.task[t].items) : h.task[t].items[j] = p
    BY <1>2, <2>3, <2>6, <2>7 DEF InputInv
  <2>9. QED
    BY <1>2, <1>3, <2>6, <2>7, <2>8 DEF InputInv
<1>6. PICK g : g = Settle(h, p, x)
  OBVIOUS
<1>7. /\ HeapInv(g, K, P, n) /\ Fades(h, g) /\ StatusKept(h, g)
      /\ g.status = [h.status EXCEPT ![p] = x] /\ Lives(h, g)
  BY <1>4, <1>5, <1>6, SettleKeeps
<1>8. /\ HeapInv(Done(g, t), K \ {t}, P, n)
      /\ Done(g, t).status = g.status
      /\ \A u \in Task \ {t} : Done(g, t).task[u] = g.task[u]
  BY <1>7, DoneKeeps
<1>9. Done(g, t).task[t].kind \in {g.task[t].kind, "free"}
  <2>1. g \in HeapType
    BY <1>7 DEF HeapInv
  <2>2. g.task[t] \in TaskType /\ Blank \in TaskType
    BY <2>1, HeapIs, Sizes DEF Blank, TaskType
  <2>3. CASE g.task[t].deps > 0
    <3>1. [g.task[t] EXCEPT !.finished = TRUE] \in TaskType
      BY <2>2 DEF TaskType
    <3>2. Done(g, t) = WithTask(g, t, [g.task[t] EXCEPT !.finished = TRUE])
      BY <2>3 DEF Done, WithTask
    <3>3. Done(g, t).task[t] = [g.task[t] EXCEPT !.finished = TRUE]
      BY <2>1, <3>1, <3>2, TaskSetIs
    <3>4. QED
      BY <2>2, <3>3 DEF TaskType
  <2>4. CASE ~(g.task[t].deps > 0)
    <3>1. Done(g, t) = WithTask(g, t, Blank)
      BY <2>4 DEF Done, Release, WithTask
    <3>2. Done(g, t).task[t] = Blank
      BY <2>1, <2>2, <3>1, TaskSetIs
    <3>3. QED
      BY <3>2 DEF Blank
  <2>5. QED
    BY <2>3, <2>4
<1>10. Fades(h, Done(g, t))
  BY <1>7, <1>8, <1>9 DEF Fades
<1>11. StatusKept(h, Done(g, t))
  BY <1>7, <1>8 DEF StatusKept
<1>12. SettledBy(h, t, x) = Done(g, t)
  BY <1>3, <1>6 DEF SettledBy
<1>13. SettlesFor(h, t, x, Done(g, t))
  <2>1. g \in HeapType
    BY <1>7 DEF HeapInv
  <2>2. ~Alive(Done(g, t).task[t])
    BY <2>1, DoneEnds
  <2>3. \A u \in Task \ {t} : SameDuty(h.task[u], Done(g, t).task[u])
    BY <1>7, <1>8 DEF Lives
  <2>4. QED
    BY <2>2, <2>3, <1>3, <1>7, <1>8 DEF SettlesFor
<1>14. QED
  BY <1>8, <1>10, <1>11, <1>12, <1>13

----------------------------------------------------------------------------
(* A task waits.                                                           *)

(* Kinds, items and promises of tasks stay, and the states of promises.    *)
Same(h, g) ==
  /\ g.status = h.status
  /\ \A u \in Task : g.task[u].kind = h.task[u].kind /\ g.task[u].items = h.task[u].items
  /\ Lives(h, g)
SameBut(k, j) ==
  /\ j.kind = k.kind /\ j.items = k.items /\ j.result = k.result /\ j.finished = k.finished
  /\ j.onFulfilled = k.onFulfilled /\ j.onRejected = k.onRejected

(* They stay when one task is queued, taken or linked, or none is.         *)
LEMMA SameIs ==
  ASSUME NEW h, NEW g, NEW t, g.status = h.status,
         \A u \in Task \ {t} : g.task[u] = h.task[u],
         t \in Task => SameBut(h.task[t], g.task[t])
  PROVE  Same(h, g)
<1>1. ASSUME NEW u \in Task PROVE SameBut(h.task[u], g.task[u])
  <2>1. CASE u = t
    BY <2>1
  <2>2. CASE u # t
    <3>1. g.task[u] = h.task[u]
      BY <2>2
    <3>2. QED
      BY <3>1 DEF SameBut
  <2>3. QED
    BY <2>1, <2>2
<1>2. \A u \in Task : g.task[u].kind = h.task[u].kind /\ g.task[u].items = h.task[u].items
  BY <1>1 DEF SameBut
<1>3. Lives(h, g)
  BY <1>1 DEF Lives, SameDuty, SameBut, Alive
<1>4. QED
  BY <1>2, <1>3 DEF Same

(* They stay over two steps as they do over each.                          *)
LEMMA SameOn ==
  ASSUME NEW a, NEW b, NEW c, Same(a, b), Same(b, c)
  PROVE  Same(a, c)
<1>1. Lives(a, c)
  BY LivesOn DEF Same
<1>2. QED
  BY <1>1 DEF Same

(* add_dependent on a pending promise: the task has one dependency and     *)
(* one place more.                                                         *)
LEMMA LinkKeeps ==
  ASSUME NEW h, NEW K, NEW P, NEW n \in Int, HeapInv(h, K, P, n), NEW t \in K, t \in Task,
         h.task[t].kind \in Reactions \cup Combinators,
         NEW p \in Promise, h.status[p] = "pending",
         h.task[t].kind \in Combinators =>
           \E i \in 1..Len(h.task[t].items) : h.task[t].items[i] = p,
         NEW g, g = AddDependent(h, p, t)
  PROVE  /\ HeapInv(g, K \ {t}, P, n) /\ Same(h, g)
         /\ g.task[t].deps > 0 /\ ~g.task[t].queued /\ ~g.task[t].finished
<1>0. h \in HeapType
  BY DEF HeapInv
<1>1. /\ QueuesInv(h) /\ PooledInv(h, P)
      /\ \A u \in Task : TaskInv(h, u, K, n)
  BY DEF HeapInv
<1>2. /\ DepsInv(h, t) /\ FreeInv(h, t, K) /\ FinishedInv(h, t, K) /\ HeldInv(h, t, K)
      /\ WaitingInv(h, t, K) /\ InputInv(h, t) /\ CreatedInv(h, t) /\ KeyInv(h, t, n)
  BY <1>1 DEF TaskInv
<1>3. /\ h.task[t] \in TaskType /\ h.task[t].deps \in Nat /\ h.task[t].queued = FALSE
      /\ h.task[t].finished = FALSE /\ h.task[t].kind # "free"
  BY <1>0, <1>2, HeapIs, TaskIs DEF HeldInv, FinishedInv, FreeInv
<1>4. PICK d : d = <<t>> \o h.dependents[p]
  OBVIOUS
<1>5. /\ h.dependents \in [Promise -> Seq(Task)] /\ h.dependents[p] \in Seq(Task)
      /\ d \in Seq(Task)
  BY <1>0, <1>4, HeapIs
<1>6. PICK f : f = WithDependents(h, p, d)
  OBVIOUS
<1>7. /\ f \in HeapType /\ f.status = h.status /\ f.task = h.task
      /\ f.queues = h.queues /\ f.dependents = [h.dependents EXCEPT ![p] = d]
  BY <1>0, <1>5, <1>6, DependentsSetIs
<1>8. PICK k : k = [h.task[t] EXCEPT !.deps = h.task[t].deps + 1, !.queued = FALSE]
  OBVIOUS
<1>9. /\ k \in TaskType /\ k.deps = h.task[t].deps + 1
      /\ k.kind = h.task[t].kind /\ k.items = h.task[t].items
      /\ k.result = h.task[t].result /\ k.id = h.task[t].id /\ k.queued = FALSE
      /\ k.completed = h.task[t].completed /\ k.finished = FALSE
  <2>1. PICK j : j = [h.task[t] EXCEPT !.deps = h.task[t].deps + 1]
    OBVIOUS
  <2>2. /\ j \in TaskType /\ j.deps = h.task[t].deps + 1
        /\ j.kind = h.task[t].kind /\ j.items = h.task[t].items
        /\ j.result = h.task[t].result /\ j.id = h.task[t].id
        /\ j.completed = h.task[t].completed /\ j.finished = FALSE
    BY <1>3, <2>1, SMTT(30) DEF TaskType
  <2>3. k = [j EXCEPT !.queued = FALSE]
    BY <1>3, <1>8, <2>1 DEF TaskType
  <2>4. QED
    BY <2>2, <2>3 DEF TaskType
<1>10. g = WithTask(f, t, k)
  <2>1. p # Plain
    BY Sizes DEF Plain
  <2>2. h = [status |-> h.status, dependents |-> h.dependents, task |-> h.task,
             queues |-> h.queues]
    BY <1>0, HeapIs
  <2>3. h.task \in [Task -> TaskType]
    BY <1>0, HeapIs
  <2>4. StatusIn(h, p) = "pending"
    BY <2>1 DEF StatusIn
  <2>5. g = [h EXCEPT !.dependents[p] = <<t>> \o @,
                      !.task[t].deps = @ + 1, !.task[t].queued = FALSE]
    BY <2>4 DEF AddDependent
  <2>6. g = [h EXCEPT !.dependents = [h.dependents EXCEPT ![p] = d],
                      !.task = [h.task EXCEPT ![t] = k]]
    <3>1. [[h.task EXCEPT ![t] = [h.task[t] EXCEPT !.deps = h.task[t].deps + 1]]
             EXCEPT ![t] = [[h.task EXCEPT ![t] = [h.task[t] EXCEPT !.deps = h.task[t].deps + 1]][t]
                              EXCEPT !.queued = FALSE]]
          = [h.task EXCEPT ![t] = k]
      <4>1. [h.task EXCEPT ![t] = [h.task[t] EXCEPT !.deps = h.task[t].deps + 1]][t]
              = [h.task[t] EXCEPT !.deps = h.task[t].deps + 1]
        BY <2>3
      <4>2. [[h.task[t] EXCEPT !.deps = h.task[t].deps + 1] EXCEPT !.queued = FALSE] = k
        <5>1. PICK m : m = h.task[t] /\ m \in TaskType
          BY <1>3
        <5>2. [[m EXCEPT !.deps = m.deps + 1] EXCEPT !.queued = FALSE]
                = [m EXCEPT !.deps = m.deps + 1, !.queued = FALSE]
          BY <5>1 DEF TaskType
        <5>3. QED
          BY <5>1, <5>2, <1>8
      <4>3. QED
        BY <2>3, <4>1, <4>2
    <3>2. PICK A : A = [[h.task EXCEPT ![t] = [h.task[t] EXCEPT !.deps = h.task[t].deps + 1]]
             EXCEPT ![t] = [[h.task EXCEPT ![t] = [h.task[t] EXCEPT !.deps = h.task[t].deps + 1]][t]
                              EXCEPT !.queued = FALSE]]
      OBVIOUS
    <3>3. g = [h EXCEPT !.dependents = [h.dependents EXCEPT ![p] = d], !.task = A]
      BY <2>5, <3>2, <1>4, Zenon
    <3>4. QED
      BY <3>1, <3>2, <3>3
  <2>7. QED
    BY <2>2, <2>6, <1>6 DEF WithTask, WithDependents
<1>11. /\ g \in HeapType /\ g.status = h.status /\ g.dependents = [h.dependents EXCEPT ![p] = d]
       /\ g.queues = h.queues
       /\ g.task[t] = k /\ \A u \in Task \ {t} : g.task[u] = h.task[u]
  BY <1>7, <1>9, <1>10, TaskSetIs
<1>12. /\ \A w \in WaitsAt(g.dependents, t) : w \in WaitsAt(h.dependents, t) \/ w[1] = p
       /\ Cardinality(WaitsAt(g.dependents, t)) = Cardinality(WaitsAt(h.dependents, t)) + 1
       /\ \A u \in Task \ {t} : WaitsAt(g.dependents, u) = WaitsAt(h.dependents, u)
  <2>1. PICK e : e = g.dependents
    OBVIOUS
  <2>3. PICK a : a = h.dependents
    OBVIOUS
  <2>4. a \in [Promise -> Seq(Task)] /\ e = InFront(a, p, t)
    BY <1>4, <1>5, <1>11, <2>1, <2>3 DEF InFront
  <2>5. /\ \A w \in WaitsAt(e, t) : w \in WaitsAt(a, t) \/ w[1] = p
        /\ Cardinality(WaitsAt(e, t)) = Cardinality(WaitsAt(a, t)) + 1
        /\ \A u \in Task \ {t} : WaitsAt(e, u) = WaitsAt(a, u)
    BY <2>4, HeadWaits
  <2>6. QED
    BY <2>1, <2>3, <2>5
<1>13. QueuesInv(g) /\ PooledInv(g, P)
  <2>1. /\ \A u \in Task : g.task[u].queued = h.task[u].queued
        /\ \A u \in Task : h.task[u].queued => g.task[u].kind = h.task[u].kind
        /\ \A u \in P : u \in Task /\ h.task[u].queued =>
             g.task[u].completed = h.task[u].completed
    BY <1>3, <1>9, <1>11
  <2>2. QED
    BY <2>1, <1>0, <1>1, <1>11, QueuesStay
<1>14. \A u \in Task \ {t} : TaskInv(g, u, K \ {t}, n)
  <2>1. OnlyAt(h, g, t, K, K \ {t})
    BY <1>11, <1>12 DEF OnlyAt
  <2>2. StatusKept(h, g) /\ KeyKept(h, g, t) /\ n <= n
    BY <1>3, <1>9, <1>11 DEF StatusKept, KeyKept, KeyOf
  <2>3. QED
    BY <1>0, <1>1, <1>11, <2>1, <2>2, OthersKeep
<1>15. TaskInv(g, t, K \ {t}, n)
  <2>1. DepsInv(g, t)
    BY <1>2, <1>9, <1>11, <1>12 DEF DepsInv
  <2>2. FreeInv(g, t, K \ {t}) /\ FinishedInv(g, t, K \ {t}) /\ HeldInv(g, t, K \ {t})
    BY <1>3, <1>9, <1>11 DEF FreeInv, FinishedInv, HeldInv
  <2>3. WaitingInv(g, t, K \ {t})
    BY <1>2, <1>3, <1>9, <1>11 DEF WaitingInv, Reactions, Combinators, Sources
  <2>4. InputInv(g, t)
    <3>1. /\ g.task[t].kind = h.task[t].kind /\ g.task[t].items = h.task[t].items
          /\ g.task[t].result = h.task[t].result
      BY <1>9, <1>11
    <3>2. \A w \in WaitsAt(g.dependents, t) : w \in WaitsAt(h.dependents, t) \/ w[1] = p
      BY <1>12
    <3>3. QED
      BY <1>2, <3>1, <3>2 DEF InputInv
  <2>5. CreatedInv(g, t)
    BY <1>2, <1>9, <1>11 DEF CreatedInv, StatusIn
  <2>6. KeyInv(g, t, n)
    BY <1>2, <1>9, <1>11 DEF KeyInv, KeyOf
  <2>7. QED
    BY <2>1, <2>2, <2>3, <2>4, <2>5, <2>6 DEF TaskInv
<1>16. Same(h, g)
  <2>1. SameBut(h.task[t], k)
    <3>1. PICK r : r = h.task[t]
      OBVIOUS
    <3>2. r \in TaskType /\ k = [r EXCEPT !.deps = r.deps + 1, !.queued = FALSE]
      BY <3>1, <1>3, <1>8
    <3>3. QED
      BY <3>1, <3>2 DEF SameBut, TaskType
  <2>2. PICK a, b : a = h /\ b = g
    OBVIOUS
  <2>3. SameBut(a.task[t], b.task[t]) /\ b.status = a.status
    BY <2>1, <2>2, <1>11
  <2>4. \A u \in Task \ {t} : b.task[u] = a.task[u]
    BY <2>2, <1>11
  <2>5. Same(a, b)
    BY <2>3, <2>4, SameIs
  <2>6. QED
    BY <2>2, <2>5
<1>17. QED
  <2>1. HeapInv(g, K \ {t}, P, n)
    <3>1. \A u \in Task : TaskInv(g, u, K \ {t}, n)
      BY <1>14, <1>15
    <3>2. QED
      BY <1>11, <1>13, <3>1 DEF HeapInv
  <2>2. g.task[t].deps > 0 /\ ~g.task[t].queued /\ ~g.task[t].finished
    BY <1>3, <1>9, <1>11
  <2>3. QED
    BY <2>1, <2>2, <1>16

(* A combinator that waits may be held as well.                            *)
LEMMA HeldAsWell ==
  ASSUME NEW h, NEW K, NEW P, NEW n \in Int, NEW t \in Task, HeapInv(h, K \ {t}, P, n), t \in K,
         h.task[t].kind \in Combinators, ~h.task[t].queued, ~h.task[t].finished
  PROVE  HeapInv(h, K, P, n)
<1>1. /\ h \in HeapType /\ QueuesInv(h) /\ PooledInv(h, P)
      /\ \A u \in Task : TaskInv(h, u, K \ {t}, n)
  BY DEF HeapInv
<1>2. \A u \in Task \ {t} : TaskInv(h, u, K, n)
  <2>1. OnlyAt(h, h, t, K \ {t}, K) /\ StatusKept(h, h) /\ KeyKept(h, h, t) /\ n <= n
    BY DEF OnlyAt, StatusKept, KeyKept
  <2>2. QED
    BY <1>1, <2>1, OthersKeep
<1>3. TaskInv(h, t, K, n)
  <2>1. /\ DepsInv(h, t) /\ WaitingInv(h, t, K \ {t}) /\ InputInv(h, t) /\ CreatedInv(h, t)
        /\ KeyInv(h, t, n)
    BY <1>1 DEF TaskInv
  <2>2. FreeInv(h, t, K) /\ FinishedInv(h, t, K) /\ HeldInv(h, t, K)
    BY DEF FreeInv, FinishedInv, HeldInv, Combinators
  <2>3. WaitingInv(h, t, K)
    BY <2>1 DEF WaitingInv
  <2>4. QED
    BY <2>1, <2>2, <2>3 DEF TaskInv
<1>4. QED
  BY <1>1, <1>2, <1>3 DEF HeapInv

(* What is not ready has a pending input.                                  *)
LEMMA NotReady ==
  ASSUME NEW h \in HeapType, NEW t \in Task, ~Ready(h, t)
  PROVE  \E i \in 1..Len(h.task[t].items) : StatusIn(h, h.task[t].items[i]) = "pending"
<1> DEFINE items == h.task[t].items
           S == {StatusIn(h, i) : i \in ToSet(items)}
<1>1. items \in Seq(Promise \cup {Plain}) /\ DOMAIN items = 1..Len(items) /\ Len(items) \in Nat
  BY HeapIs, TaskIs
<1>2. ToSet(items) = {items[i] : i \in 1..Len(items)}
  BY <1>1 DEF ToSet
<1>3. "pending" \in S => \E i \in 1..Len(items) : StatusIn(h, items[i]) = "pending"
  BY <1>2
<1>4. FirstNot(h, t, "fulfilled", "fulfilled") = "pending" =>
        \E i \in 1..Len(items) : StatusIn(h, items[i]) = "pending"
  <2> DEFINE I == {i \in DOMAIN items : StatusIn(h, items[i]) # "fulfilled"}
  <2> SUFFICES ASSUME FirstNot(h, t, "fulfilled", "fulfilled") = "pending"
               PROVE  \E i \in 1..Len(items) : StatusIn(h, items[i]) = "pending"
    OBVIOUS
  <2>1. I # {} /\ StatusIn(h, items[Min(I)]) = "pending"
    BY DEF FirstNot
  <2>2. I \subseteq Nat
    BY <1>1
  <2>3. Min(I) \in I
    <3> HIDE DEF I
    <3>1. QED
      BY <2>1, <2>2, LeastIs
  <2>4. QED
    BY <1>1, <2>1, <2>3
<1>5. "pending" \notin S /\ h.task[t].kind # "all" => Ready(h, t)
  <2> SUFFICES ASSUME "pending" \notin S, h.task[t].kind # "all" PROVE Ready(h, t)
    OBVIOUS
  <2>1. S # {"pending"}
    OBVIOUS
  <2> HIDE DEF S
  <2>2. S = {StatusIn(h, i) : i \in ToSet(h.task[t].items)}
    BY DEF S
  <2>3. QED
    BY <2>1, <2>2 DEF Ready
<1>6. h.task[t].kind = "all" => (Ready(h, t) <=> FirstNot(h, t, "fulfilled", "fulfilled") # "pending")
  BY DEF Ready
<1>7. QED
  BY <1>3, <1>4, <1>5, <1>6

(* A task in hand that waits for its items, or is queued at once, is       *)
(* nobody's to hold any more: queues or promises point to it.              *)
LEMMA WaitKeeps ==
  ASSUME NEW h, NEW K, NEW P, NEW n \in Int, HeapInv(h, K, P, n), NEW t \in K, t \in Task,
         h.task[t].kind \in Reactions \cup Combinators
  PROVE  HeapInv(Wait(h, t), K \ {t}, P, n) /\ Same(h, Wait(h, t))
<1> DEFINE items == h.task[t].items
           l == Len(items)
           Step(f, i) == IF i = 0 THEN h ELSE AddDependent(f[i - 1], items[i], t)
           Loop(f) == f = [i \in 0..l |-> Step(f, i)]
           waiting == CHOOSE f : Loop(f)
<1>1. h \in HeapType /\ WaitingInv(h, t, K)
  BY DEF HeapInv, TaskInv
<1>2. /\ items \in Seq(Promise \cup {Plain}) /\ l \in Nat /\ (\A i \in 1..l : items[i] \in Promise \cup {Plain})
      /\ h.task[t] \in TaskType
  <2>1. h.task[t] \in TaskType /\ items \in Seq(Promise \cup {Plain})
    BY <1>1, HeapIs, TaskIs
  <2>2. QED
    BY <2>1
<1>3. CASE Ready(h, t)
  <2>1. PICK g, q : g = AppendTask(h, t) /\ q = QueueOf(h.task[t].kind)
    OBVIOUS
  <2>2. HeapInv(g, K \ {t}, P, n)
    <3>1. h.task[t].deps > 0 => h.task[t].kind \in Combinators
      <4>1. h.task[t].deps \in Nat
        BY <1>2, TaskIs
      <4>2. QED
        BY <4>1, <1>1 DEF WaitingInv
    <3>2. QED
      BY <2>1, <3>1, AppendKeeps
  <2>3. /\ g \in HeapType /\ g.status = h.status /\ g.dependents = h.dependents
        /\ q \in QueueName \ {"done"}
        /\ g.queues[q] = Append(h.queues[q], t)
        /\ \A r \in QueueName \ {q} : g.queues[r] = h.queues[r]
        /\ \A u \in Task \ {t} : g.task[u] = h.task[u]
        /\ g.task[t] = [h.task[t] EXCEPT !.queued = TRUE]
    <3>1. AppendedTo(h, t, q, g)
      BY <1>1, <2>1, AppendIs
    <3>2. QED
      BY <3>1 DEF AppendedTo
  <2>4. SameBut(h.task[t], g.task[t])
    BY <1>2, <2>3 DEF TaskType, SameBut
  <2>5. Same(h, g)
    BY <2>3, <2>4, SameIs
  <2>6. Wait(h, t) = g
    BY <1>3, <2>1 DEF Wait
  <2>7. QED
    BY <2>2, <2>5, <2>6
<1>4. CASE ~Ready(h, t)
  <2>1. \E f : Loop(f)
    <3> DEFINE F == [y \in HeapType \X (1..l) |-> AddDependent(y[1], items[y[2]], t)]
    <3>1. \A y \in HeapType : \A i \in 1..l : AddDependent(y, items[i], t) \in HeapType
      <4> SUFFICES ASSUME NEW y \in HeapType, NEW i \in 1..l, NEW p \in Promise \cup {Plain}, p = items[i]
                   PROVE  AddDependent(y, p, t) \in HeapType
        BY <1>2
      <4>1. CASE StatusIn(y, p) # "pending"
        BY <4>1 DEF AddDependent
      <4>2. CASE StatusIn(y, p) = "pending"
        <5>1. p \in Promise
          BY <4>2 DEF StatusIn
        <5>2. y.task[t] \in TaskType /\ y.task[t].deps \in Nat /\ y.dependents[p] \in Seq(Task)
          BY <5>1, HeapIs, TaskIs
        <5>3. PICK j, k : j = [y.task[t] EXCEPT !.deps = y.task[t].deps + 1] /\ k = [j EXCEPT !.queued = FALSE]
          OBVIOUS
        <5>4. j \in TaskType
          <6>1. PICK r : r = y.task[t]
            OBVIOUS
          <6>2. r \in TaskType /\ r.deps + 1 \in Nat /\ j = [r EXCEPT !.deps = r.deps + 1]
            BY <5>2, <5>3, <6>1
          <6>3. QED
            BY <6>2 DEF TaskType
        <5>5. k \in TaskType
          BY <5>3, <5>4 DEF TaskType
        <5>6. PICK d : d = <<t>> \o y.dependents[p]
          OBVIOUS
        <5>7. d \in Seq(Task)
          <6>1. PICK e : e = y.dependents[p]
            OBVIOUS
          <6>2. e \in Seq(Task) /\ <<t>> \in Seq(Task)
            BY <5>2, <6>1
          <6>3. d = <<t>> \o e
            BY <5>6, <6>1
          <6>4. QED
            BY <6>2, <6>3
        <5>8. WithDependents(y, p, d) \in HeapType /\ WithDependents(y, p, d).task = y.task
          BY <5>1, <5>7, DependentsSetIs
        <5>9. PICK a : a = WithTask(WithDependents(y, p, d), t, j)
          OBVIOUS
        <5>10. a \in HeapType /\ a.task[t] = j
          BY <5>4, <5>8, <5>9, TaskSetIs
        <5>11. WithTask(a, t, k) \in HeapType
          BY <5>5, <5>10, TaskSetIs
        <5>12. AddDependent(y, p, t) = WithTask(a, t, k)
          <6>1. y = [status |-> y.status, dependents |-> y.dependents, task |-> y.task,
                     queues |-> y.queues]
            BY HeapIs
          <6>2. a = [y EXCEPT !.dependents[p] = d, !.task[t].deps = @ + 1]
            BY <5>3, <5>9, <6>1 DEF WithTask, WithDependents
          <6>3. AddDependent(y, p, t) = [[y EXCEPT !.dependents[p] = d, !.task[t].deps = @ + 1]
                                           EXCEPT !.task[t].queued = FALSE]
            BY <4>2, <5>6, <6>1 DEF AddDependent
          <6>4. WithTask(a, t, k) = [a EXCEPT !.task[t].queued = FALSE]
            BY <5>3, <5>10 DEF WithTask
          <6>5. QED
            BY <6>2, <6>3, <6>4
        <5>13. QED
          BY <5>11, <5>12
      <4>3. QED
        BY <4>1, <4>2
    <3>2. F \in [HeapType \X (1..l) -> HeapType]
      BY <3>1
    <3>3. \A i \in 1..l : \A y \in HeapType : F[<<y, i>>] = AddDependent(y, items[i], t)
      OBVIOUS
    <3> HIDE DEF F
    <3>4. Loops(l, HeapType, h, F) # {}
      <4>1. l \in Nat
        BY <1>2
      <4> HIDE DEF l
      <4>2. QED
        BY <1>1, <3>2, <4>1, LoopExists
    <3>5. PICK f \in [0..l -> HeapType] : f[0] = h /\ \A i \in 1..l : f[i] = F[<<f[i - 1], i>>]
      BY <3>4 DEF Loops
    <3>6. \A i \in 0..l : f[i] = Step(f, i)
      <4> TAKE i \in 0..l
      <4>1. CASE i = 0
        BY <4>1, <3>5
      <4>2. CASE i # 0
        <5>1. i \in 1..l /\ i - 1 \in 0..l
          BY <4>2, <1>2
        <5>2. f[i] = AddDependent(f[i - 1], items[i], t)
          BY <5>1, <3>3, <3>5
        <5>3. QED
          BY <4>2, <5>2
      <4>3. QED
        BY <4>1, <4>2
    <3>7. f = [i \in 0..l |-> f[i]]
      BY <3>5
    <3>8. Loop(f)
      <4> HIDE DEF Step
      <4>1. QED
        BY <3>6, <3>7
    <3> HIDE DEF Loop
    <3>9. QED
      BY <3>8
  <2>2. Loop(waiting)
    <3> HIDE DEF Loop
    <3>1. QED
      BY <2>1
  <2>3. Wait(h, t) = waiting[l]
    BY <1>4 DEF Wait
  <2> HIDE DEF waiting
  <2>4. waiting[0] = h /\ \A i \in 1..l : waiting[i] = AddDependent(waiting[i - 1], items[i], t)
    <3>1. \A i \in 0..l : waiting[i] = Step(waiting, i)
      BY <2>2
    <3>2. 0 \in 0..l /\ \A i \in 1..l : i \in 0..l /\ i # 0
      BY <1>2
    <3>3. QED
      BY <3>1, <3>2
  <2> DEFINE Pends(i) == StatusIn(h, items[i]) = "pending"
             Good == {i \in 0..l :
               IF \E j \in 1..i : Pends(j)
               THEN /\ HeapInv(waiting[i], K \ {t}, P, n) /\ Same(h, waiting[i])
                    /\ waiting[i].task[t].deps > 0
                    /\ ~waiting[i].task[t].queued /\ ~waiting[i].task[t].finished
               ELSE waiting[i] = h}
  <2>5. 0 \in Good
    BY <1>2, <2>4
  <2>6. ASSUME NEW i \in 1..l, i - 1 \in Good PROVE i \in Good
    <3> DEFINE a == waiting[i - 1]
    <3>1. /\ i \in 0..l /\ items[i] \in Promise \cup {Plain} /\ waiting[i] = AddDependent(a, items[i], t)
          /\ i - 1 \in Nat
      BY <1>2, <2>4
    <3>2. StatusIn(a, items[i]) = StatusIn(h, items[i])
      BY <2>6, <3>1 DEF StatusIn, Same
    <3>3. CASE ~Pends(i)
      <4>1. waiting[i] = a
        BY <3>1, <3>2, <3>3 DEF AddDependent
      <4>2. (\E j \in 1..i : Pends(j)) <=> (\E j \in 1..(i - 1) : Pends(j))
        <5>1. \A j \in 1..i : j = i \/ j \in 1..(i - 1)
          BY <3>1
        <5>2. \A j \in 1..(i - 1) : j \in 1..i
          BY <3>1
        <5>3. QED
          BY <5>1, <5>2, <3>3
      <4> HIDE DEF Pends
      <4>3. QED
        BY <4>1, <4>2, <3>1, <2>6
    <3>4. CASE Pends(i)
      <4>1. /\ HeapInv(a, K, P, n) /\ Same(h, a)
        <5>1. CASE ~ \E j \in 1..(i - 1) : Pends(j)
          <6>1. a = h
            BY <5>1, <2>6
          <6>2. Same(h, h)
            BY SameIs DEF SameBut
          <6>3. QED
            BY <6>1, <6>2
        <5>2. CASE \E j \in 1..(i - 1) : Pends(j)
          <6>1. /\ HeapInv(a, K \ {t}, P, n) /\ Same(h, a)
                /\ a.task[t].deps > 0 /\ ~a.task[t].queued /\ ~a.task[t].finished
            BY <5>2, <2>6
          <6>2. l # 1
            BY <5>2, <1>2
          <6>3. h.task[t].kind \in Combinators
            BY <6>2, <1>1 DEF WaitingInv
          <6>4. a.task[t].kind \in Combinators
            BY <6>1, <6>3 DEF Same
          <6> HIDE DEF a
          <6>5. QED
            BY <6>1, <6>4, HeldAsWell
        <5>3. QED
          BY <5>1, <5>2
      <4> HIDE DEF a
      <4>2. PICK p : p = items[i]
        OBVIOUS
      <4>3. /\ p \in Promise /\ a.status[p] = "pending"
            /\ a.task[t].kind \in Reactions \cup Combinators
            /\ \E j \in 1..Len(a.task[t].items) : a.task[t].items[j] = p
        <5>1. p # Plain
          BY <3>4, <4>2 DEF StatusIn
        <5>2. p \in Promise
          BY <5>1, <3>1, <4>2
        <5>3. a.status[p] = "pending"
          BY <5>1, <3>2, <3>4, <4>2 DEF StatusIn
        <5>4. a.task[t].kind = h.task[t].kind /\ a.task[t].items = items
          BY <4>1 DEF Same
        <5>5. QED
          BY <5>2, <5>3, <5>4, <4>2
      <4>4. PICK g : g = AddDependent(a, p, t)
        OBVIOUS
      <4>5. /\ HeapInv(g, K \ {t}, P, n) /\ Same(a, g)
            /\ g.task[t].deps > 0 /\ ~g.task[t].queued /\ ~g.task[t].finished
        BY <4>1, <4>3, <4>4, LinkKeeps
      <4>6. Same(h, g)
        BY <4>1, <4>5, SameOn
      <4>7. waiting[i] = g
        BY <3>1, <4>2, <4>4
      <4>8. \E j \in 1..i : Pends(j)
        BY <3>1, <3>4
      <4> HIDE DEF Pends
      <4>9. QED
        BY <3>1, <4>5, <4>6, <4>7, <4>8
    <3>5. QED
      BY <3>3, <3>4
  <2>7. l \in Good
    <3> HIDE DEF Good
    <3>1. 0..l \subseteq Good
      BY <1>2, <2>5, <2>6, UpTo
    <3>2. QED
      BY <3>1, <1>2
  <2>8. \E j \in 1..l : Pends(j)
    BY <1>1, <1>4, NotReady
  <2> HIDE DEF Pends
  <2>9. QED
    BY <2>3, <2>7, <2>8
<1>5. QED
  BY <1>3, <1>4

----------------------------------------------------------------------------
(* Tasks leave the queues.                                                 *)

(* What a queue holds, and once.                                           *)
Has(s, u) == \E i \in 1..Len(s) : s[i] = u
Unique(s) == \A i, j \in 1..Len(s) : s[i] = s[j] => i = j

(* The invariant of the queues, by what they hold.                         *)
QueuesAre(h) ==
  /\ \A q \in QueueName : Unique(h.queues[q])
  /\ \A q, r \in QueueName : \A u \in Task :
       Has(h.queues[q], u) /\ Has(h.queues[r], u) => q = r
  /\ \A q \in QueueName : \A u \in Task :
       Has(h.queues[q], u) =>
         h.task[u].queued /\ (q = QueueOf(h.task[u].kind) \/ (q = "done" /\ h.task[u].kind = "io"))
  /\ \A u \in Task : h.task[u].queued => \E q \in QueueName : Has(h.queues[q], u)

(* The queues' invariant, said of each queue as a set of tasks without     *)
(* repetition.                                                             *)
LEMMA QueuesHold ==
  ASSUME NEW h \in HeapType
  PROVE  /\ QueuesInv(h) <=> QueuesAre(h)
         /\ \A q \in QueueName : /\ h.queues[q] \in Seq(Task) /\ Len(h.queues[q]) \in Nat
                                 /\ \A i \in 1..Len(h.queues[q]) : h.queues[q][i] \in Task
<1>1. \A q \in QueueName : /\ h.queues[q] \in Seq(Task) /\ Len(h.queues[q]) \in Nat
                           /\ \A i \in 1..Len(h.queues[q]) : h.queues[q][i] \in Task
  BY HeapIs
<1>2. ASSUME QueuesInv(h) PROVE QueuesAre(h)
  <2>1. PlacedInv(h) /\ OncePlacedInv(h) /\ QueuedInv(h)
    BY <1>2 DEF QueuesInv
  <2>2. \A q \in QueueName : Unique(h.queues[q])
    BY <2>1 DEF OncePlacedInv, Unique
  <2>3. \A q, r \in QueueName : \A u \in Task :
          Has(h.queues[q], u) /\ Has(h.queues[r], u) => q = r
    BY <2>1 DEF OncePlacedInv, Has
  <2>4. \A q \in QueueName : \A u \in Task :
       Has(h.queues[q], u) =>
         h.task[u].queued /\ (q = QueueOf(h.task[u].kind) \/ (q = "done" /\ h.task[u].kind = "io"))
    <3> SUFFICES ASSUME NEW q \in QueueName, NEW u \in Task, NEW i \in 1..Len(h.queues[q]),
                        h.queues[q][i] = u
                 PROVE  /\ h.task[u].queued
                        /\ q = QueueOf(h.task[u].kind) \/ (q = "done" /\ h.task[u].kind = "io")
      BY DEF Has
    <3>1. PlacedInv(h)
      BY <2>1
    <3>2. QED
      BY <3>1 DEF PlacedInv
  <2>5. \A u \in Task : h.task[u].queued => \E q \in QueueName : Has(h.queues[q], u)
    BY <2>1 DEF QueuedInv, Has
  <2>6. QED
    BY <2>2, <2>3, <2>4, <2>5 DEF QueuesAre
<1>3. ASSUME QueuesAre(h) PROVE QueuesInv(h)
  <2>1. \A q \in QueueName : \A i \in 1..Len(h.queues[q]) : Has(h.queues[q], h.queues[q][i])
    BY DEF Has
  <2>2. PlacedInv(h)
    BY <1>1, <1>3, <2>1 DEF PlacedInv, QueuesAre
  <2>3. OncePlacedInv(h)
    <3> SUFFICES ASSUME NEW q \in QueueName, NEW r \in QueueName, NEW i \in 1..Len(h.queues[q]),
                        NEW j \in 1..Len(h.queues[r]), h.queues[q][i] = h.queues[r][j]
                 PROVE  q = r /\ i = j
      BY DEF OncePlacedInv
    <3>1. PICK u \in Task : u = h.queues[q][i]
      BY <1>1
    <3>2. q = r
      BY <1>3, <2>1, <3>1 DEF QueuesAre
    <3>3. Unique(h.queues[q])
      BY <1>3 DEF QueuesAre
    <3>4. QED
      BY <3>2, <3>3 DEF Unique
  <2>4. QueuedInv(h)
    BY <1>3 DEF QueuedInv, QueuesAre, Has
  <2>5. QED
    BY <2>2, <2>3, <2>4 DEF QueuesInv
<1>4. QED
  BY <1>1, <1>2, <1>3

(* One element is taken out of a sequence.                                 *)
LEMMA RemovedIs ==
  ASSUME NEW s \in Seq(Task), NEW k \in 1..Len(s), NEW w, w = RemoveAt(s, k)
  PROVE  /\ w \in Seq(Task) /\ Len(w) = Len(s) - 1
         /\ \A i \in 1..(Len(s) - 1) : w[i] = IF i < k THEN s[i] ELSE s[i + 1]
<1> DEFINE l == Len(s)
           a == SubSeq(s, 1, k - 1)
           b == SubSeq(s, k + 1, l)
<1>1. /\ l \in Nat /\ (\A i \in 1..l : s[i] \in Task)
      /\ k \in Nat /\ 1 <= k /\ k <= l
  <2>1. l \in Nat /\ \A i \in 1..l : s[i] \in Task
    OBVIOUS
  <2>2. QED
    BY <2>1
<1>2. w = a \o b
  BY DEF RemoveAt
<1> HIDE DEF l
<1>3. /\ a \in Seq(Task) /\ Len(a) = k - 1
      /\ \A i \in 1..(k - 1) : a[i] = s[i]
  BY <1>1 DEF l
<1>4. /\ b \in Seq(Task) /\ Len(b) = l - k
      /\ \A i \in 1..(l - k) : b[i] = s[k + i]
  <2>1. k + 1 \in Int /\ l \in Int /\ \A i \in (k + 1)..l : s[i] \in Task
    BY <1>1
  <2>2. /\ b \in Seq(Task) /\ Len(b) = IF k + 1 <= l THEN l - (k + 1) + 1 ELSE 0
        /\ \A i \in 1..(l - (k + 1) + 1) : b[i] = s[(k + 1) + i - 1]
    BY <2>1, SubSeqProperties
  <2>3. (IF k + 1 <= l THEN l - (k + 1) + 1 ELSE 0) = l - k
    BY <1>1
  <2>4. l - (k + 1) + 1 = l - k
    BY <1>1
  <2>5. \A i \in 1..(l - k) : (k + 1) + i - 1 = k + i
    BY <1>1
  <2>6. QED
    BY <2>2, <2>3, <2>4, <2>5
<1> HIDE DEF a, b
<1>5. /\ w \in Seq(Task) /\ Len(w) = Len(a) + Len(b)
      /\ \A i \in 1..(Len(a) + Len(b)) : w[i] = IF i <= Len(a) THEN a[i] ELSE b[i - Len(a)]
  BY <1>2, <1>3, <1>4, ConcatProperties
<1>6. Len(a) + Len(b) = l - 1
  BY <1>1, <1>3, <1>4
<1>7. ASSUME NEW i \in 1..(l - 1)
      PROVE  w[i] = IF i < k THEN s[i] ELSE s[i + 1]
  <2>1. w[i] = IF i <= k - 1 THEN a[i] ELSE b[i - (k - 1)]
    BY <1>3, <1>5, <1>6
  <2>2. CASE i < k
    <3>1. i <= k - 1 /\ i \in 1..(k - 1)
      BY <1>1, <2>2
    <3>2. QED
      BY <1>3, <2>1, <2>2, <3>1
  <2>3. CASE ~(i < k)
    <3>1. ~(i <= k - 1) /\ i - (k - 1) \in 1..(l - k) /\ k + (i - (k - 1)) = i + 1
      BY <1>1, <2>3
    <3>2. QED
      BY <1>4, <2>1, <2>3, <3>1
  <2>4. QED
    BY <2>2, <2>3
<1>8. QED
  BY <1>5, <1>6, <1>7 DEF l

(* Removing one place of a queue without repetitions removes one task.     *)
LEMMA RemovedHolds ==
  ASSUME NEW s \in Seq(Task), NEW k \in 1..Len(s), Unique(s), NEW w, w = RemoveAt(s, k)
  PROVE  /\ w \in Seq(Task) /\ Unique(w) /\ s[k] \in Task /\ Has(s, s[k])
         /\ \A u \in Task : Has(w, u) <=> Has(s, u) /\ u # s[k]
<1> DEFINE l == Len(s)
           At(i) == IF i < k THEN i ELSE i + 1
<1>1. /\ w \in Seq(Task) /\ Len(w) = l - 1
      /\ \A i \in 1..(l - 1) : w[i] = IF i < k THEN s[i] ELSE s[i + 1]
  BY RemovedIs
<1>2. l \in Nat /\ k \in 1..l /\ \A i, j \in 1..l : s[i] = s[j] => i = j
  BY DEF Unique
<1>3. s[k] \in Task /\ Has(s, s[k])
  BY <1>2 DEF Has
<1> HIDE DEF l
<1>4. \A i \in 1..(l - 1) : At(i) \in 1..l /\ At(i) # k
  BY <1>2
<1>5. \A i, j \in 1..(l - 1) : At(i) = At(j) => i = j
  BY <1>2
<1>6. \A m \in 1..l : m # k => \E i \in 1..(l - 1) : At(i) = m
  <2> SUFFICES ASSUME NEW m \in 1..l, m # k PROVE \E i \in 1..(l - 1) : At(i) = m
    OBVIOUS
  <2>1. CASE m < k
    <3>1. m \in 1..(l - 1) /\ At(m) = m
      BY <2>1, <1>2
    <3>2. QED
      BY <3>1
  <2>2. CASE ~(m < k)
    <3>1. m - 1 \in 1..(l - 1) /\ At(m - 1) = m
      BY <2>2, <1>2
    <3>2. QED
      BY <3>1
  <2>3. QED
    BY <2>1, <2>2
<1>7. \A i \in 1..(l - 1) : w[i] = s[At(i)]
  BY <1>1
<1> HIDE DEF At
<1>8. Unique(w)
  <2>1. \A i, j \in 1..(l - 1) : w[i] = w[j] => i = j
    BY <1>2, <1>4, <1>5, <1>7
  <2>2. QED
    BY <2>1, <1>1 DEF Unique
<1>9. \A u \in Task : Has(w, u) => Has(s, u) /\ u # s[k]
  BY <1>1, <1>2, <1>4, <1>7 DEF Has, l
<1>10. \A u \in Task : Has(s, u) /\ u # s[k] => Has(w, u)
  <2> SUFFICES ASSUME NEW u \in Task, Has(s, u), u # s[k] PROVE Has(w, u)
    OBVIOUS
  <2>1. PICK m \in 1..l : s[m] = u
    BY DEF Has, l
  <2>2. PICK i \in 1..(l - 1) : At(i) = m
    BY <2>1, <1>6
  <2>3. w[i] = u /\ i \in 1..Len(w)
    BY <2>1, <2>2, <1>1, <1>7
  <2>4. QED
    BY <2>3 DEF Has
<1>11. QED
  BY <1>1, <1>3, <1>8, <1>9, <1>10

(* Taking the task at a place of a queue: what is removed, and what        *)
(* stays.                                                                  *)
LEMMA TakeIs ==
  ASSUME NEW h \in HeapType, NEW r \in QueueName, NEW i \in 1..Len(h.queues[r]),
         NEW t, t = h.queues[r][i], NEW g, g = Take(h, r, i)
  PROVE  /\ g \in HeapType /\ g.status = h.status /\ g.dependents = h.dependents /\ t \in Task
         /\ g.queues[r] = RemoveAt(h.queues[r], i)
         /\ \A q \in QueueName \ {r} : g.queues[q] = h.queues[q]
         /\ \A u \in Task \ {t} : g.task[u] = h.task[u]
         /\ g.task[t] = [h.task[t] EXCEPT !.queued = FALSE]
<1>1. h.queues[r] \in Seq(Task) /\ t \in Task /\ h.task[t] \in TaskType
  BY HeapIs
<1>2. PICK w, k : w = RemoveAt(h.queues[r], i) /\ k = [h.task[t] EXCEPT !.queued = FALSE]
  OBVIOUS
<1>3. w \in Seq(Task)
  BY <1>1, <1>2, RemovedIs
<1>4. k \in TaskType
  BY <1>1, <1>2 DEF TaskType
<1>5. g = [h EXCEPT !.queues = [h.queues EXCEPT ![r] = w], !.task = [h.task EXCEPT ![t] = k]]
  BY <1>2 DEF Take
<1>6. /\ g.status = h.status /\ g.dependents = h.dependents
      /\ g.queues = [h.queues EXCEPT ![r] = w]
      /\ g.task = [h.task EXCEPT ![t] = k]
      /\ g = [status |-> g.status, dependents |-> g.dependents, task |-> g.task,
              queues |-> g.queues]
  BY <1>5, HeapIs
<1>7. g.queues \in [QueueName -> Seq(Task)] /\ g.task \in [Task -> TaskType]
  BY <1>1, <1>3, <1>4, <1>6, HeapIs
<1>8. g \in HeapType
  BY <1>6, <1>7, HeapIs DEF HeapType
<1>9. g.queues[r] = w /\ \A q \in QueueName \ {r} : g.queues[q] = h.queues[q]
  <2>1. h.queues \in [QueueName -> Seq(Task)] /\ g.queues = [h.queues EXCEPT ![r] = w]
    BY <1>6, HeapIs
  <2>2. QED
    BY <2>1
<1>10. g.task[t] = k /\ \A u \in Task \ {t} : g.task[u] = h.task[u]
  <2>1. h.task \in [Task -> TaskType] /\ t \in Task /\ g.task = [h.task EXCEPT ![t] = k]
    BY <1>1, <1>6, HeapIs
  <2>2. QED
    BY <2>1
<1>11. g.status = h.status /\ g.dependents = h.dependents
  BY <1>6
<1>12. QED
  BY <1>1, <1>2, <1>8, <1>9, <1>10, <1>11

(* What does not depend on whether a task is queued or finished.           *)
LEMMA RecordKeeps ==
  ASSUME NEW h, NEW g, NEW t \in Task, NEW n,
         g.status = h.status, g.dependents = h.dependents,
         \A u \in Task \ {t} : g.task[u] = h.task[u],
         g.task[t].kind = h.task[t].kind, g.task[t].deps = h.task[t].deps,
         g.task[t].items = h.task[t].items, g.task[t].result = h.task[t].result,
         g.task[t].id = h.task[t].id,
         DepsInv(h, t), InputInv(h, t), CreatedInv(h, t), KeyInv(h, t, n)
  PROVE  DepsInv(g, t) /\ InputInv(g, t) /\ CreatedInv(g, t) /\ KeyInv(g, t, n)
<1>1. DepsInv(g, t)
  BY DEF DepsInv
<1>2. InputInv(g, t)
  BY DEF InputInv
<1>3. CreatedInv(g, t)
  BY DEF CreatedInv, StatusIn
<1>4. KeyInv(g, t, n)
  BY DEF KeyInv, KeyOf
<1>5. QED
  BY <1>1, <1>2, <1>3, <1>4

(* A task is taken out of a queue, to be run.                              *)
TakesOut(h, r, i, t, g) ==
  /\ r \in QueueName \ {"io"} /\ i \in 1..Len(h.queues[r])
  /\ t = h.queues[r][i] /\ g = Take(h, r, i)

(* A task that is taken from its queue is in the hands of who took it.     *)
LEMMA TakeOutKeeps ==
  ASSUME NEW h, NEW K, NEW P, NEW n \in Int, HeapInv(h, K, P, n),
         NEW r, NEW i, NEW t, NEW g, TakesOut(h, r, i, t, g)
  PROVE  /\ HeapInv(g, K \cup {t}, P, n) /\ Same(h, g)
         /\ t \in Task /\ t \notin K /\ h.task[t].kind # "free" /\ ~g.task[t].queued
         /\ r = "timers" => h.task[t].kind \in Sources
<1>0. /\ h \in HeapType /\ r \in QueueName /\ r # "io" /\ i \in 1..Len(h.queues[r])
      /\ t = h.queues[r][i] /\ g = Take(h, r, i)
  BY DEF HeapInv, TakesOut
<1>1. /\ QueuesAre(h) /\ PooledInv(h, P)
      /\ \A u \in Task : TaskInv(h, u, K, n)
  BY <1>0, QueuesHold DEF HeapInv
<1>2. /\ g \in HeapType /\ g.status = h.status /\ g.dependents = h.dependents /\ t \in Task
      /\ g.queues[r] = RemoveAt(h.queues[r], i)
      /\ \A q \in QueueName \ {r} : g.queues[q] = h.queues[q]
      /\ \A u \in Task \ {t} : g.task[u] = h.task[u]
      /\ g.task[t] = [h.task[t] EXCEPT !.queued = FALSE]
  BY <1>0, TakeIs
<1>3. h.task[t] \in TaskType /\ h.task[t].kind \in {"free"} \cup Reactions \cup Sources \cup Combinators
  BY <1>0, <1>2, HeapIs, TaskIs
<1>4. /\ g.task[t].kind = h.task[t].kind /\ g.task[t].deps = h.task[t].deps
      /\ g.task[t].items = h.task[t].items
      /\ g.task[t].result = h.task[t].result /\ g.task[t].id = h.task[t].id
      /\ g.task[t].finished = h.task[t].finished /\ g.task[t].queued = FALSE
      /\ SameBut(h.task[t], g.task[t])
  BY <1>2, <1>3 DEF TaskType, SameBut
<1>5. /\ Unique(g.queues[r]) /\ Has(h.queues[r], t)
      /\ \A u \in Task : Has(g.queues[r], u) <=> Has(h.queues[r], u) /\ u # t
  <2>1. h.queues[r] \in Seq(Task) /\ Unique(h.queues[r])
    BY <1>0, <1>1, HeapIs DEF QueuesAre
  <2>2. PICK s, w : s = h.queues[r] /\ w = RemoveAt(s, i)
    OBVIOUS
  <2>5. i \in 1..Len(s) /\ t = s[i]
    BY <2>2, <1>0
  <2>3. /\ w \in Seq(Task) /\ Unique(w) /\ s[i] \in Task /\ Has(s, s[i])
        /\ \A u \in Task : Has(w, u) <=> Has(s, u) /\ u # s[i]
    BY <2>1, <2>2, <2>5, RemovedHolds
  <2>4. QED
    BY <2>2, <2>3, <2>5, <1>2
<1>6. /\ h.task[t].queued
      /\ (r = QueueOf(h.task[t].kind) \/ (r = "done" /\ h.task[t].kind = "io"))
      /\ \A q \in QueueName \ {r} : ~Has(h.queues[q], t)
  BY <1>0, <1>1, <1>2, <1>5 DEF QueuesAre
<1>7. \A q \in QueueName : \A u \in Task : Has(g.queues[q], u) <=> Has(h.queues[q], u) /\ u # t
  <2> TAKE q \in QueueName
  <2>1. CASE q = r
    BY <2>1, <1>5
  <2>2. CASE q # r
    BY <2>2, <1>2, <1>6
  <2>3. QED
    BY <2>1, <2>2
<1>8. QueuesAre(g)
  <2>1. \A q \in QueueName : Unique(g.queues[q])
    <3> TAKE q \in QueueName
    <3>1. CASE q = r
      BY <3>1, <1>5
    <3>2. CASE q # r
      BY <3>2, <1>1, <1>2 DEF QueuesAre
    <3>3. QED
      BY <3>1, <3>2
  <2>2. \A q, s \in QueueName : \A u \in Task :
          Has(g.queues[q], u) /\ Has(g.queues[s], u) => q = s
    BY <1>1, <1>7 DEF QueuesAre
  <2>3. ASSUME NEW q \in QueueName, NEW u \in Task, Has(g.queues[q], u)
        PROVE  /\ g.task[u].queued
               /\ (q = QueueOf(g.task[u].kind) \/ (q = "done" /\ g.task[u].kind = "io"))
    <3>1. Has(h.queues[q], u) /\ u # t
      BY <1>7, <2>3
    <3>2. g.task[u] = h.task[u]
      BY <1>2, <3>1
    <3>3. QED
      BY <3>1, <3>2, <1>1 DEF QueuesAre
  <2>4. ASSUME NEW u \in Task, g.task[u].queued PROVE \E q \in QueueName : Has(g.queues[q], u)
    <3>1. u # t
      BY <1>4, <2>4
    <3>2. h.task[u].queued
      BY <1>2, <2>4, <3>1
    <3>3. QED
      BY <3>1, <3>2, <1>1, <1>7 DEF QueuesAre
  <2>5. QED
    BY <2>1, <2>2, <2>3, <2>4 DEF QueuesAre
<1>9. PooledInv(g, P)
  <2> SUFFICES ASSUME NEW u \in P
               PROVE  /\ g.task[u].kind = "io" /\ ~g.task[u].completed
                      /\ \E j \in 1..Len(g.queues["io"]) : g.queues["io"][j] = u
    BY DEF PooledInv
  <2>1. /\ h.task[u].kind = "io" /\ ~h.task[u].completed /\ Has(h.queues["io"], u)
    BY <1>1 DEF PooledInv, Has
  <2>2. "io" \in QueueName
    BY DEF QueueName
  <2>3. u # t
    BY <1>0, <2>1, <2>2, <1>6
  <2>4. u \in Task
    BY <2>1, <2>2, <1>0, HeapIs DEF Has
  <2>5. Has(g.queues["io"], u)
    BY <2>1, <2>2, <2>3, <2>4, <1>7
  <2>6. QED
    BY <2>1, <2>3, <2>4, <2>5, <1>2 DEF Has
<1>10. /\ DepsInv(h, t) /\ FreeInv(h, t, K) /\ FinishedInv(h, t, K) /\ HeldInv(h, t, K)
       /\ WaitingInv(h, t, K) /\ InputInv(h, t) /\ CreatedInv(h, t) /\ KeyInv(h, t, n)
  BY <1>1, <1>2 DEF TaskInv
<1>11. h.task[t].kind # "free" /\ t \notin K /\ ~h.task[t].finished
  BY <1>6, <1>10 DEF FreeInv, HeldInv, FinishedInv
<1>12. \A u \in Task \ {t} : TaskInv(g, u, K \cup {t}, n)
  <2>1. OnlyAt(h, g, t, K, K \cup {t})
    BY <1>2 DEF OnlyAt
  <2>2. StatusKept(h, g) /\ KeyKept(h, g, t) /\ n <= n
    BY <1>2, <1>4, <1>11 DEF StatusKept, KeyKept, KeyOf
  <2>3. QED
    BY <1>0, <1>1, <1>2, <2>1, <2>2, OthersKeep
<1>13. TaskInv(g, t, K \cup {t}, n)
  <2>7. /\ g.status = h.status /\ g.dependents = h.dependents
        /\ \A u \in Task \ {t} : g.task[u] = h.task[u]
    BY <1>2
  <2>8. DepsInv(h, t) /\ InputInv(h, t) /\ CreatedInv(h, t) /\ KeyInv(h, t, n)
    BY <1>10
  <2>1. DepsInv(g, t) /\ InputInv(g, t) /\ CreatedInv(g, t) /\ KeyInv(g, t, n)
    BY <2>7, <2>8, <1>2, <1>4, RecordKeeps
  <2>2. FreeInv(g, t, K \cup {t}) /\ FinishedInv(g, t, K \cup {t}) /\ HeldInv(g, t, K \cup {t})
    BY <1>4, <1>11 DEF FreeInv, FinishedInv, HeldInv
  <2>3. WaitingInv(g, t, K \cup {t})
    BY <1>4, <1>6, <1>10 DEF WaitingInv
  <2>4. QED
    BY <2>1, <2>2, <2>3 DEF TaskInv
<1>14. Same(h, g)
  BY <1>2, <1>4, SameIs
<1>15. r = "timers" => h.task[t].kind \in Sources
  BY <1>3, <1>6, <1>11, QueueIs DEF Sources
<1>16. HeapInv(g, K \cup {t}, P, n)
  <2>1. \A u \in Task : TaskInv(g, u, K \cup {t}, n)
    BY <1>12, <1>13
  <2>2. QueuesInv(g)
    BY <1>2, <1>8, QueuesHold
  <2>3. QED
    BY <1>2, <1>9, <2>1, <2>2 DEF HeapInv
<1>17. QED
  BY <1>2, <1>4, <1>11, <1>14, <1>15, <1>16

(* The tasks of a queue that are in S.                                     *)
LEMMA OnlyIs ==
  ASSUME NEW s \in Seq(Task), Unique(s), NEW S, NEW w, w = Only(s, S)
  PROVE  /\ w \in Seq(Task) /\ Unique(w)
         /\ \A u \in Task : Has(w, u) <=> Has(s, u) /\ u \in S
<1> DEFINE l == Len(s)
           Next(a, i) == IF s[i] \in S THEN Append(a, s[i]) ELSE a
           Step(f, i) == IF i = 0 THEN <<>>
                         ELSE IF s[i] \in S THEN Append(f[i - 1], s[i]) ELSE f[i - 1]
           Loop(f) == f = [i \in 0..l |-> Step(f, i)]
           kept == CHOOSE f : Loop(f)
<1>1. l \in Nat /\ (\A i \in 1..l : s[i] \in Task) /\ \A i, j \in 1..l : s[i] = s[j] => i = j
  BY DEF Unique
<1>2. \E f : Loop(f)
  <2> DEFINE F == [y \in Seq(Task) \X (1..l) |-> Next(y[1], y[2])]
  <2>1. F \in [Seq(Task) \X (1..l) -> Seq(Task)]
    <3> SUFFICES ASSUME NEW a \in Seq(Task), NEW i \in 1..l PROVE Next(a, i) \in Seq(Task)
      OBVIOUS
    <3>1. s[i] \in Task
      BY <1>1
    <3>2. Append(a, s[i]) \in Seq(Task)
      BY <3>1
    <3>3. QED
      BY <3>2
  <2>2. \A i \in 1..l : \A y \in Seq(Task) : F[<<y, i>>] = Next(y, i)
    OBVIOUS
  <2> HIDE DEF F, Next
  <2>3. Loops(l, Seq(Task), <<>>, F) # {}
    <3>1. l \in Nat /\ <<>> \in Seq(Task)
      BY <1>1
    <3> HIDE DEF l
    <3>2. QED
      BY <2>1, <3>1, LoopExists
  <2>4. PICK f \in [0..l -> Seq(Task)] : f[0] = <<>> /\ \A i \in 1..l : f[i] = F[<<f[i - 1], i>>]
    BY <2>3 DEF Loops
  <2>5. \A i \in 0..l : f[i] = Step(f, i)
    <3> TAKE i \in 0..l
    <3>1. CASE i = 0
      BY <3>1, <2>4
    <3>2. CASE i # 0
      <4>1. i \in 1..l /\ i - 1 \in 0..l
        BY <3>2, <1>1
      <4>2. f[i] = Next(f[i - 1], i)
        BY <4>1, <2>2, <2>4
      <4>3. QED
        BY <3>2, <4>2 DEF Next
    <3>3. QED
      BY <3>1, <3>2
  <2>6. f = [i \in 0..l |-> f[i]]
    BY <2>4
  <2>7. Loop(f)
    <3> HIDE DEF Step
    <3>1. QED
      BY <2>5, <2>6
  <2> HIDE DEF Loop
  <2>8. QED
    BY <2>7
<1>3. Loop(kept)
  <2> HIDE DEF Loop
  <2>1. QED
    BY <1>2
<1>4. w = kept[l]
  BY DEF Only
<1> HIDE DEF kept
<1>5. kept[0] = <<>> /\ \A i \in 1..l : kept[i] = Next(kept[i - 1], i)
  <2>1. \A i \in 0..l : kept[i] = Step(kept, i)
    BY <1>3
  <2>2. 0 \in 0..l /\ \A i \in 1..l : i \in 0..l /\ i # 0
    BY <1>1
  <2>3. QED
    BY <2>1, <2>2
<1> DEFINE Before(i, u) == \E j \in 1..i : s[j] = u
           Good == {i \in 0..l :
             /\ kept[i] \in Seq(Task) /\ Unique(kept[i])
             /\ \A u \in Task : Has(kept[i], u) <=> Before(i, u) /\ u \in S}
<1>6. 0 \in Good
  <2>1. kept[0] \in Seq(Task) /\ Unique(kept[0]) /\ \A u \in Task : ~Has(kept[0], u)
    BY <1>5 DEF Unique, Has
  <2>2. \A u \in Task : ~Before(0, u)
    OBVIOUS
  <2>3. QED
    BY <2>1, <2>2, <1>1
<1>7. ASSUME NEW i \in 1..l, i - 1 \in Good PROVE i \in Good
  <2>1. PICK a, b, x : a = kept[i - 1] /\ b = kept[i] /\ x = s[i]
    OBVIOUS
  <2>2. /\ a \in Seq(Task) /\ Unique(a) /\ x \in Task
        /\ \A u \in Task : Has(a, u) <=> Before(i - 1, u) /\ u \in S
    BY <1>1, <1>7, <2>1
  <2>3. /\ ~Before(i - 1, x)
        /\ \A u \in Task : Before(i, u) <=> Before(i - 1, u) \/ u = x
    <3>1. i \in Nat /\ i >= 1 /\ i <= l /\ l \in Nat
      BY <1>1
    <3>2. \A j \in 1..(i - 1) : j \in 1..l /\ j # i /\ j \in 1..i
      BY <3>1
    <3>3. \A j \in 1..i : j = i \/ j \in 1..(i - 1)
      BY <3>1
    <3>4. i \in 1..i
      BY <3>1
    <3> HIDE DEF l
    <3>5. QED
      BY <3>2, <3>3, <3>4, <1>1, <2>1
  <2> HIDE DEF Before
  <2>4. b = IF x \in S THEN Append(a, x) ELSE a
    BY <1>5, <2>1
  <2>5. CASE x \in S
    <3>1. PICK m \in Nat : m = Len(a)
      BY <2>2
    <3>2. /\ b \in Seq(Task) /\ Len(b) = m + 1 /\ b[m + 1] = x /\ \A j \in 1..m : b[j] = a[j]
      BY <2>2, <2>4, <2>5, <3>1
    <3>3. \A j \in 1..(m + 1) : j = m + 1 \/ j \in 1..m
      BY <3>1
    <3>4. \A u \in Task : Has(b, u) <=> Has(a, u) \/ u = x
      BY <3>1, <3>2, <3>3 DEF Has
    <3>5. \A j \in 1..m : a[j] # x
      <4>1. ~Has(a, x)
        BY <2>2, <2>3
      <4>2. QED
        BY <4>1, <3>1 DEF Has
    <3>6. Unique(b)
      BY <2>2, <3>1, <3>2, <3>3, <3>5 DEF Unique
    <3>7. QED
      BY <2>1, <2>2, <2>3, <2>5, <3>2, <3>4, <3>6
  <2>6. CASE x \notin S
    <3>1. b = a
      BY <2>4, <2>6
    <3>2. \A u \in Task : Has(b, u) <=> Before(i, u) /\ u \in S
      BY <3>1, <2>2, <2>3, <2>6
    <3>3. i \in 0..l
      BY <1>1
    <3>4. QED
      BY <2>1, <2>2, <3>1, <3>2, <3>3
  <2>7. QED
    BY <2>5, <2>6
<1>8. l \in Good
  <2> HIDE DEF Good
  <2>1. 0..l \subseteq Good
    BY <1>1, <1>6, <1>7, UpTo
  <2>2. QED
    BY <2>1, <1>1
<1>9. \A u \in Task : Before(l, u) <=> Has(s, u)
  BY DEF Has
<1> HIDE DEF Before
<1>10. QED
  BY <1>4, <1>8, <1>9

(* The queues are rearranged, and nothing else changes.                    *)
LEMMA Rearranged ==
  ASSUME NEW h, NEW K, NEW P, NEW n \in Int, HeapInv(h, K, P, n), NEW g \in HeapType,
         g.status = h.status, g.dependents = h.dependents, g.task = h.task,
         QueuesAre(g), PooledInv(g, P)
  PROVE  HeapInv(g, K, P, n)
<1>1. h \in HeapType /\ \A u \in Task : TaskInv(h, u, K, n)
  BY DEF HeapInv
<1>2. NoTask \notin Task
  BY Sizes DEF NoTask
<1>3. OnlyAt(h, g, NoTask, K, K) /\ StatusKept(h, g) /\ KeyKept(h, g, NoTask) /\ n <= n
  BY <1>2 DEF OnlyAt, StatusKept, KeyKept
<1>4. \A u \in Task \ {NoTask} : TaskInv(g, u, K, n)
  BY <1>1, <1>3, OthersKeep
<1>5. QED
  BY <1>2, <1>4, QueuesHold DEF HeapInv

(* Two queues that share no task, one behind the other, repeat no task.    *)
LEMMA JoinedHolds ==
  ASSUME NEW a \in Seq(Task), NEW b \in Seq(Task), NEW c, c = a \o b, Unique(a), Unique(b),
         \A u \in Task : ~(Has(a, u) /\ Has(b, u))
  PROVE  /\ c \in Seq(Task) /\ Unique(c)
         /\ \A u \in Task : Has(c, u) <=> Has(a, u) \/ Has(b, u)
<1>1. PICK l \in Nat, m \in Nat : l = Len(a) /\ m = Len(b)
  OBVIOUS
<1>2. /\ c \in Seq(Task) /\ Len(c) = l + m
      /\ \A i \in 1..(l + m) : c[i] = IF i <= l THEN a[i] ELSE b[i - l]
  BY <1>1, ConcatProperties
<1>3. /\ \A i \in 1..l : a[i] \in Task /\ Has(a, a[i]) /\ i \in 1..(l + m) /\ c[i] = a[i]
      /\ \A i \in 1..m : b[i] \in Task /\ Has(b, b[i]) /\ l + i \in 1..(l + m) /\ c[l + i] = b[i]
  <2>1. ASSUME NEW i \in 1..l
        PROVE  a[i] \in Task /\ Has(a, a[i]) /\ i \in 1..(l + m) /\ c[i] = a[i]
    <3>1. a[i] \in Task /\ Has(a, a[i])
      BY <1>1 DEF Has
    <3>2. i \in 1..(l + m) /\ i <= l
      OBVIOUS
    <3>3. QED
      BY <3>1, <3>2, <1>2
  <2>2. ASSUME NEW i \in 1..m
        PROVE  b[i] \in Task /\ Has(b, b[i]) /\ l + i \in 1..(l + m) /\ c[l + i] = b[i]
    <3>1. b[i] \in Task /\ Has(b, b[i])
      BY <1>1 DEF Has
    <3>2. l + i \in 1..(l + m) /\ ~(l + i <= l) /\ (l + i) - l = i
      OBVIOUS
    <3>3. QED
      BY <3>1, <3>2, <1>2
  <2>3. QED
    BY <2>1, <2>2
<1>4. \A i \in 1..(l + m) : i \in 1..l \/ \E j \in 1..m : i = l + j
  <2> SUFFICES ASSUME NEW i \in 1..(l + m), i \notin 1..l PROVE \E j \in 1..m : i = l + j
    OBVIOUS
  <2>1. i - l \in 1..m /\ i = l + (i - l)
    OBVIOUS
  <2>2. QED
    BY <2>1
<1>5. \A i, j \in 1..(l + m) : c[i] = c[j] => i = j
  <2> SUFFICES ASSUME NEW i \in 1..(l + m), NEW j \in 1..(l + m), c[i] = c[j] PROVE i = j
    OBVIOUS
  <2>1. CASE i \in 1..l /\ j \in 1..l
    BY <2>1, <1>1, <1>3 DEF Unique
  <2>2. CASE i \in 1..l /\ j \notin 1..l
    BY <2>2, <1>3, <1>4, SMTT(30), ZenonT(60)
  <2>3. CASE i \notin 1..l /\ j \in 1..l
    BY <2>3, <1>3, <1>4, SMTT(30), ZenonT(60)
  <2>4. CASE i \notin 1..l /\ j \notin 1..l
    <3>1. PICK x \in 1..m, y \in 1..m : i = l + x /\ j = l + y
      BY <2>4, <1>4
    <3>2. b[x] = b[y]
      BY <3>1, <1>3
    <3>3. QED
      BY <3>1, <3>2, <1>1 DEF Unique
  <2>5. QED
    BY <2>1, <2>2, <2>3, <2>4
<1>6. \A u \in Task : Has(c, u) <=> Has(a, u) \/ Has(b, u)
  <2> TAKE u \in Task
  <2>1. ASSUME NEW i \in 1..(l + m), c[i] = u PROVE Has(a, u) \/ Has(b, u)
    BY <2>1, <1>3, <1>4
  <2>2. ASSUME NEW i \in 1..l, a[i] = u PROVE Has(c, u)
    BY <2>2, <1>2, <1>3 DEF Has
  <2>3. ASSUME NEW i \in 1..m, b[i] = u PROVE Has(c, u)
    BY <2>3, <1>2, <1>3 DEF Has
  <2>4. Has(c, u) => \E i \in 1..(l + m) : c[i] = u
    BY <1>2 DEF Has
  <2>5. /\ Has(a, u) => \E i \in 1..l : a[i] = u
        /\ Has(b, u) => \E i \in 1..m : b[i] = u
    BY <1>1 DEF Has
  <2>6. QED
    BY <2>1, <2>2, <2>3, <2>4, <2>5
<1>7. QED
  BY <1>2, <1>5, <1>6 DEF Unique

(* Operations that are completed are moved.                                *)
LEMMA PromotedKeeps ==
  ASSUME NEW h, NEW K, NEW P, NEW n \in Int, HeapInv(h, K, P, n), NEW g, g = Promoted(h)
  PROVE  /\ HeapInv(g, K, P, n)
         /\ g.status = h.status /\ g.dependents = h.dependents /\ g.task = h.task
         /\ g.queues["callbacks"] = h.queues["callbacks"]
         /\ g.queues["timers"] = h.queues["timers"]
<1> DEFINE C == {t \in Task : h.task[t].completed}
           Q == h.queues
<1>1. h \in HeapType /\ QueuesAre(h) /\ PooledInv(h, P)
  <2>1. h \in HeapType
    BY DEF HeapInv
  <2>2. QED
    BY <2>1, QueuesHold DEF HeapInv
<1>2. /\ Q \in [QueueName -> Seq(Task)]
      /\ Q["io"] \in Seq(Task) /\ Q["done"] \in Seq(Task) /\ Unique(Q["io"]) /\ Unique(Q["done"])
  BY <1>1, HeapIs DEF QueuesAre, QueueName
<1>3. PICK a, b, c : /\ a = Only(Q["io"], C) /\ b = Q["done"] \o a /\ c = Only(Q["io"], Task \ C)
  OBVIOUS
<1>4. /\ a \in Seq(Task) /\ Unique(a)
      /\ \A u \in Task : Has(a, u) <=> Has(Q["io"], u) /\ u \in C
  BY <1>2, <1>3, OnlyIs
<1>5. /\ c \in Seq(Task) /\ Unique(c)
      /\ \A u \in Task : Has(c, u) <=> Has(Q["io"], u) /\ u \in Task \ C
  <2>1. PICK S : S = Task \ C
    OBVIOUS
  <2>2. /\ c \in Seq(Task) /\ Unique(c)
        /\ \A u \in Task : Has(c, u) <=> Has(Q["io"], u) /\ u \in S
    BY <1>2, <1>3, <2>1, OnlyIs
  <2>3. QED
    BY <2>1, <2>2
<1>6. \A u \in Task : ~(Has(Q["done"], u) /\ Has(Q["io"], u))
  BY <1>1 DEF QueuesAre, QueueName
<1>7. /\ b \in Seq(Task) /\ Unique(b)
      /\ \A u \in Task : Has(b, u) <=> Has(Q["done"], u) \/ Has(a, u)
  <2>1. PICK d : d = Q["done"]
    OBVIOUS
  <2>2. d \in Seq(Task) /\ Unique(d) /\ b = d \o a /\ \A u \in Task : ~(Has(d, u) /\ Has(a, u))
    BY <2>1, <1>2, <1>3, <1>4, <1>6
  <2>3. /\ b \in Seq(Task) /\ Unique(b)
        /\ \A u \in Task : Has(b, u) <=> Has(d, u) \/ Has(a, u)
    BY <2>2, <1>4, JoinedHolds
  <2>4. QED
    BY <2>1, <2>3
<1>8. g = [h EXCEPT !.queues = [[Q EXCEPT !["done"] = b] EXCEPT !["io"] = c]]
  <2>1. h = [status |-> h.status, dependents |-> h.dependents, task |-> h.task,
             queues |-> h.queues]
    BY <1>1, HeapIs
  <2>2. QED
    BY <1>2, <1>3, <2>1 DEF Promoted
<1>9. /\ g.status = h.status /\ g.dependents = h.dependents /\ g.task = h.task
      /\ g.queues = [[Q EXCEPT !["done"] = b] EXCEPT !["io"] = c]
      /\ g = [status |-> g.status, dependents |-> g.dependents, task |-> g.task,
              queues |-> g.queues]
  BY <1>1, <1>8, HeapIs
<1>10. /\ g.queues \in [QueueName -> Seq(Task)] /\ g.queues["done"] = b /\ g.queues["io"] = c
       /\ \A q \in QueueName \ {"done", "io"} : g.queues[q] = Q[q]
  BY <1>2, <1>5, <1>7, <1>9 DEF QueueName
<1>11. g \in HeapType
  BY <1>1, <1>9, <1>10, HeapIs DEF HeapType
<1>12. QueuesAre(g)
  <2>1. \A u \in Task :
          /\ Has(b, u) <=> Has(Q["done"], u) \/ (Has(Q["io"], u) /\ u \in C)
          /\ Has(c, u) <=> Has(Q["io"], u) /\ u \notin C
    BY <1>4, <1>5, <1>7
  <2>2. \A q \in QueueName : Unique(g.queues[q])
    BY <1>1, <1>5, <1>7, <1>10 DEF QueuesAre
  <2>3. ASSUME NEW q \in QueueName, NEW u \in Task, Has(g.queues[q], u)
        PROVE  \/ Has(Q[q], u) /\ (q = "io" => u \notin C)
               \/ q = "done" /\ Has(Q["io"], u) /\ u \in C
    <3>1. CASE q \in {"done", "io"}
      BY <2>1, <2>3, <3>1, <1>10
    <3>2. CASE q \notin {"done", "io"}
      BY <2>3, <3>2, <1>10
    <3>3. QED
      BY <3>1, <3>2
  <2>4. ASSUME NEW q \in QueueName, NEW r \in QueueName, NEW u \in Task,
               Has(g.queues[q], u), Has(g.queues[r], u)
        PROVE  q = r
    <3>1. \A x, y \in QueueName : Has(Q[x], u) /\ Has(Q[y], u) => x = y
      BY <1>1 DEF QueuesAre
    <3>2. \/ Has(Q[q], u) /\ (q = "io" => u \notin C)
          \/ q = "done" /\ Has(Q["io"], u) /\ u \in C
      BY <2>3, <2>4
    <3>3. \/ Has(Q[r], u) /\ (r = "io" => u \notin C)
          \/ r = "done" /\ Has(Q["io"], u) /\ u \in C
      BY <2>3, <2>4
    <3>4. "io" \in QueueName
      BY DEF QueueName
    <3> HIDE DEF C, Q
    <3>5. QED
      BY <3>1, <3>2, <3>3, <3>4
  <2>5. ASSUME NEW q \in QueueName, NEW u \in Task, Has(g.queues[q], u)
        PROVE  /\ g.task[u].queued
               /\ (q = QueueOf(g.task[u].kind) \/ (q = "done" /\ g.task[u].kind = "io"))
    <3>1. CASE Has(Q[q], u)
      BY <3>1, <1>1, <1>9 DEF QueuesAre
    <3>2. CASE q = "done" /\ Has(Q["io"], u)
      <4>1. h.task[u].queued /\ "io" = QueueOf(h.task[u].kind)
        BY <3>2, <1>1 DEF QueuesAre, QueueName
      <4>2. h.task[u].kind # "free"
        <5>1. TaskInv(h, u, K, n)
          BY DEF HeapInv
        <5>2. QED
          BY <4>1, <5>1 DEF TaskInv, FreeInv
      <4>3. h.task[u] \in TaskType
        BY <1>1, HeapIs
      <4>4. h.task[u].kind = "io"
        BY <4>1, <4>2, <4>3, QueueIs
      <4>5. QED
        BY <3>2, <4>1, <4>4, <1>9
    <3>3. QED
      BY <2>3, <2>5, <3>1, <3>2
  <2>6. ASSUME NEW u \in Task, g.task[u].queued PROVE \E q \in QueueName : Has(g.queues[q], u)
    <3>1. PICK q \in QueueName : Has(Q[q], u)
      BY <2>6, <1>1, <1>9 DEF QueuesAre
    <3>2. CASE q \in {"done", "io"}
      BY <3>1, <3>2, <2>1, <1>10 DEF QueueName
    <3>3. CASE q \notin {"done", "io"}
      BY <3>1, <3>3, <1>10
    <3>4. QED
      BY <3>2, <3>3
  <2>7. QED
    BY <2>2, <2>4, <2>5, <2>6 DEF QueuesAre
<1>13. PooledInv(g, P)
  <2> SUFFICES ASSUME NEW u \in P
               PROVE  /\ g.task[u].kind = "io" /\ ~g.task[u].completed
                      /\ \E j \in 1..Len(g.queues["io"]) : g.queues["io"][j] = u
    BY DEF PooledInv
  <2>1. /\ h.task[u].kind = "io" /\ ~h.task[u].completed /\ Has(Q["io"], u)
    BY <1>1 DEF PooledInv, Has
  <2>2. u \in Task
    BY <2>1, <1>2 DEF Has
  <2>3. Has(c, u)
    BY <2>1, <2>2, <1>5
  <2>4. QED
    BY <2>1, <2>3, <1>9, <1>10 DEF Has
<1>14. HeapInv(g, K, P, n)
  BY <1>9, <1>11, <1>12, <1>13, Rearranged
<1>15. QED
  BY <1>9, <1>10, <1>14 DEF QueueName

(* The next task to run is held by who runs it.                            *)
LEMMA DequeueKeeps ==
  ASSUME NEW h, NEW K, NEW P, NEW n \in Int, HeapInv(h, K, P, n), NEW d, d = Dequeue(h)
  PROVE  /\ d.task = NoTask => HeapInv(d.heap, K, P, n)
         /\ d.task # NoTask =>
              /\ HeapInv(d.heap, K \cup {d.task}, P, n)
              /\ d.task \in Task /\ d.task \notin K /\ h.task[d.task].kind # "free"
         /\ Same(h, d.heap)
<1> DEFINE Taken(x, q, i) == [task |-> x.queues[q][i], heap |-> Take(x, q, i)]
           Fine(x) ==
             /\ x.task \in Task /\ x.task \notin K /\ h.task[x.task].kind # "free"
             /\ HeapInv(x.heap, K \cup {x.task}, P, n) /\ Same(h, x.heap)
<1>1. PICK g : g = Promoted(h)
  OBVIOUS
<1>2. /\ HeapInv(g, K, P, n)
      /\ g.status = h.status /\ g.dependents = h.dependents /\ g.task = h.task
      /\ g.queues["callbacks"] = h.queues["callbacks"]
      /\ g.queues["timers"] = h.queues["timers"]
  BY <1>1, PromotedKeeps
<1>3. h \in HeapType /\ g \in HeapType
  BY <1>2 DEF HeapInv
<1>4. Same(h, g) /\ Same(h, h)
  <2>1. \A u \in Task \ {NoTask} : g.task[u] = h.task[u]
    BY <1>2
  <2>2. NoTask \in Task => SameBut(h.task[NoTask], g.task[NoTask])
    BY <1>2 DEF SameBut
  <2>3. NoTask \in Task => SameBut(h.task[NoTask], h.task[NoTask])
    BY DEF SameBut
  <2>4. QED
    BY <2>1, <2>2, <2>3, <1>2, SameIs
<1>5. ASSUME NEW x \in {h, g}, NEW q \in QueueName, q # "io", NEW i \in 1..Len(x.queues[q])
      PROVE  Fine(Taken(x, q, i))
  <2>1. PICK t, y : t = x.queues[q][i] /\ y = Take(x, q, i)
    OBVIOUS
  <2>2. HeapInv(x, K, P, n) /\ Same(h, x)
    BY <1>2, <1>4, <1>5
  <2>3. /\ HeapInv(y, K \cup {t}, P, n) /\ Same(x, y)
        /\ t \in Task /\ t \notin K /\ x.task[t].kind # "free" /\ ~y.task[t].queued
        /\ q = "timers" => x.task[t].kind \in Sources
    <3>1. TakesOut(x, q, i, t, y)
      BY <1>5, <2>1 DEF TakesOut
    <3>2. QED
      BY <2>2, <3>1, TakeOutKeeps
  <2>4. Same(h, y) /\ h.task[t].kind # "free"
    <3>1. Same(h, y)
      BY <2>2, <2>3, SameOn
    <3>2. x.task[t].kind # "free" /\ t \in Task /\ Same(h, x)
      BY <2>2, <2>3
    <3>3. h.task[t].kind # "free"
      BY <3>2 DEF Same
    <3>4. QED
      BY <3>1, <3>3
  <2>5. Taken(x, q, i).task = t /\ Taken(x, q, i).heap = y
    BY <2>1
  <2>6. QED
    BY <2>3, <2>4, <2>5
<1>6. /\ "callbacks" \in QueueName \ {"io"} /\ "done" \in QueueName \ {"io"}
      /\ "timers" \in QueueName \ {"io"}
  BY DEF QueueName
<1>7. \A x \in {h, g} : \A q \in QueueName :
        /\ DOMAIN x.queues[q] = 1..Len(x.queues[q]) /\ Len(x.queues[q]) \in Nat
        /\ x.queues[q] # <<>> => 1 \in 1..Len(x.queues[q])
  <2> TAKE x \in {h, g}
  <2> TAKE q \in QueueName
  <2>1. x.queues[q] \in Seq(Task)
    BY <1>3, HeapIs
  <2>2. QED
    BY <2>1
<1>8. CASE ReadyAt(h) # {}
  <2>1. ReadyAt(h) \subseteq 1..Len(h.queues["callbacks"])
    BY <1>6, <1>7 DEF ReadyAt
  <2>2. Min(ReadyAt(h)) \in ReadyAt(h)
    <3>1. ReadyAt(h) \subseteq Nat
      BY <2>1
    <3>2. QED
      BY <1>8, <3>1, LeastIs
  <2>3. Fine(Taken(h, "callbacks", Min(ReadyAt(h))))
    BY <2>1, <2>2, <1>5, <1>6
  <2>4. d = Taken(h, "callbacks", Min(ReadyAt(h)))
    BY <1>8 DEF Dequeue
  <2> HIDE DEF Taken
  <2>5. QED
    BY <2>3, <2>4, Sizes DEF NoTask
<1>9. CASE ReadyAt(h) = {} /\ g.queues["done"] # <<>>
  <2>1. Fine(Taken(g, "done", 1))
    BY <1>5, <1>6, <1>7, <1>9
  <2>2. d = Taken(g, "done", 1)
    BY <1>1, <1>9 DEF Dequeue
  <2> HIDE DEF Taken
  <2>3. QED
    BY <2>1, <2>2, Sizes DEF NoTask
<1>10. CASE ReadyAt(h) = {} /\ g.queues["done"] = <<>> /\ DueAt(g) # {}
  <2>1. DueAt(g) \subseteq 1..Len(g.queues["timers"])
    BY <1>6, <1>7 DEF DueAt
  <2>2. Min(DueAt(g)) \in DueAt(g)
    <3>1. DueAt(g) \subseteq Nat
      BY <2>1
    <3>2. QED
      BY <1>10, <3>1, LeastIs
  <2>3. Fine(Taken(g, "timers", Min(DueAt(g))))
    BY <2>1, <2>2, <1>5, <1>6
  <2>4. d = Taken(g, "timers", Min(DueAt(g)))
    BY <1>1, <1>10 DEF Dequeue
  <2> HIDE DEF Taken
  <2>5. QED
    BY <2>3, <2>4, Sizes DEF NoTask
<1>11. CASE ReadyAt(h) = {} /\ g.queues["done"] = <<>> /\ DueAt(g) = {}
  <2>1. d = IF g.queues["callbacks"] # <<>> THEN Taken(g, "callbacks", 1)
            ELSE [task |-> NoTask, heap |-> g]
    BY <1>1, <1>11 DEF Dequeue
  <2>2. CASE g.queues["callbacks"] # <<>>
    <3>1. Fine(Taken(g, "callbacks", 1))
      BY <1>5, <1>6, <1>7, <2>2
    <3> HIDE DEF Taken
    <3>2. QED
      BY <2>1, <2>2, <3>1, Sizes DEF NoTask
  <2>3. CASE g.queues["callbacks"] = <<>>
    <3>1. d.task = NoTask /\ d.heap = g
      BY <2>1, <2>3
    <3>2. QED
      BY <3>1, <1>2, <1>4
  <2>4. QED
    BY <2>2, <2>3
<1>12. QED
  BY <1>8, <1>9, <1>10, <1>11

----------------------------------------------------------------------------
(* New promises and new tasks.                                             *)

(* A record that was free is that of a new task.                           *)
Fresh(h, t, k, n) ==
  /\ k \in TaskType /\ k.kind # "free" /\ k.deps = 0 /\ k.queued = FALSE /\ k.finished = FALSE
  /\ k.kind \in Reactions => Len(k.items) = 1
  /\ k.kind \in Combinators =>
       \A i \in 1..Len(k.items) : k.items[i] # k.result
  /\ \A i \in 1..Len(k.items) : StatusIn(h, k.items[i]) # "absent"
  /\ k.kind # "timer" => k.result \in Promise /\ h.status[k.result] # "absent"
  /\ k.kind = "timer" => k.id \in 1..(n - 1)
  /\ \A u \in Task \ {t} : h.task[u].kind # "free" => KeyOf(k) # KeyOf(h.task[u])

(* A record that is free becomes a task in the hands of who made it.       *)
LEMMA NewTaskKeeps ==
  ASSUME NEW h, NEW K, NEW P, NEW n \in Int, NEW m \in Int, n <= m, HeapInv(h, K, P, n),
         NEW t \in Task, h.task[t].kind = "free", NEW k, Fresh(h, t, k, m),
         NEW g, g = WithTask(h, t, k)
  PROVE  /\ HeapInv(g, K \cup {t}, P, m) /\ t \notin K /\ g.task[t] = k
         /\ g.status = h.status /\ g.dependents = h.dependents /\ g.queues = h.queues
         /\ \A u \in Task \ {t} : g.task[u] = h.task[u]
<1>0. h \in HeapType /\ k \in TaskType /\ k.kind # "free"
  BY DEF HeapInv, Fresh
<1>1. /\ QueuesInv(h) /\ PooledInv(h, P)
      /\ \A u \in Task : TaskInv(h, u, K, n)
  BY DEF HeapInv
<1>2. DepsInv(h, t) /\ FreeInv(h, t, K) /\ KeyInv(h, t, n)
  BY <1>1 DEF TaskInv
<1>3. ~h.task[t].queued /\ h.task[t].deps = 0 /\ t \notin K
  BY <1>2 DEF FreeInv
<1>4. /\ g \in HeapType /\ g.status = h.status /\ g.dependents = h.dependents
      /\ g.queues = h.queues
      /\ g.task[t] = k /\ \A u \in Task \ {t} : g.task[u] = h.task[u]
  BY <1>0, TaskSetIs
<1>5. QueuesInv(g) /\ PooledInv(g, P)
  <2>1. h.task[t].queued = FALSE
    BY <1>0, <1>3, HeapIs, TaskIs
  <2>2. /\ \A u \in Task : g.task[u].queued = h.task[u].queued
        /\ \A u \in Task : h.task[u].queued => g.task[u].kind = h.task[u].kind
        /\ \A u \in P : u \in Task /\ h.task[u].queued =>
             g.task[u].completed = h.task[u].completed
    BY <2>1, <1>4 DEF Fresh
  <2>3. QED
    BY <2>2, <1>0, <1>1, <1>4, QueuesStay
<1>6. \A u \in Task \ {t} : TaskInv(g, u, K \cup {t}, m)
  <2>1. OnlyAt(h, g, t, K, K \cup {t})
    BY <1>4 DEF OnlyAt
  <2>2. StatusKept(h, g)
    BY <1>4 DEF StatusKept
  <2>3. KeyKept(h, g, t)
    BY <1>4 DEF KeyKept, Fresh
  <2>4. QED
    BY <1>0, <1>1, <1>4, <2>1, <2>2, <2>3, OthersKeep
<1>7. TaskInv(g, t, K \cup {t}, m)
  <2>1. WaitsAt(g.dependents, t) = {}
    <3>1. Cardinality(WaitsAt(h.dependents, t)) = 0 /\ h.dependents \in [Promise -> Seq(Task)]
      BY <1>0, <1>2, <1>3, HeapIs DEF DepsInv
    <3>2. QED
      BY <3>1, <1>4, WaitsFinite, FS_EmptySet
  <2>2. DepsInv(g, t)
    BY <2>1, <1>4, FS_EmptySet DEF DepsInv, Fresh
  <2>3. /\ FreeInv(g, t, K \cup {t}) /\ FinishedInv(g, t, K \cup {t})
        /\ HeldInv(g, t, K \cup {t})
    BY <1>4 DEF FreeInv, FinishedInv, HeldInv, Fresh
  <2>4. WaitingInv(g, t, K \cup {t})
    BY <1>4 DEF WaitingInv, Fresh
  <2>5. InputInv(g, t)
    BY <2>1, <1>4 DEF InputInv, Fresh
  <2>6. CreatedInv(g, t)
    BY <1>4 DEF CreatedInv, Fresh, StatusIn
  <2>7. KeyInv(g, t, m)
    <3>1. \A u \in Task \ {t} : g.task[u].kind # "free" => KeyOf(g.task[t]) # KeyOf(g.task[u])
      BY <1>4 DEF Fresh
    <3>2. /\ k.kind # "timer" => k.result \in Promise /\ g.status[k.result] # "absent"
          /\ k.kind = "timer" => k.id \in 1..(m - 1)
      BY <1>4 DEF Fresh
    <3>3. QED
      BY <3>1, <3>2, <1>4 DEF KeyInv
  <2>8. QED
    BY <2>2, <2>3, <2>4, <2>5, <2>6, <2>7 DEF TaskInv
<1>8. QED
  <2>1. \A u \in Task : TaskInv(g, u, K \cup {t}, m)
    BY <1>6, <1>7
  <2>2. QED
    BY <2>1, <1>3, <1>4, <1>5 DEF HeapInv

(* What a call of the program asks a new task for.                         *)
Asks(h, k) ==
  /\ k \in TaskType /\ k.kind \notin {"free", "timer"}
  /\ k.deps = 0 /\ k.queued = FALSE /\ k.finished = FALSE
  /\ k.kind \in Reactions => Len(k.items) = 1
  /\ \A i \in 1..Len(k.items) : StatusIn(h, k.items[i]) # "absent"

(* While not every promise has been created, the next one is there and     *)
(* is new.                                                                 *)
LEMMA NextPromiseIs ==
  ASSUME Created # Promise
  PROVE  NextPromise \in Promise /\ status[NextPromise] = "absent"
<1>1. Promise \ Created # {} /\ Promise \ Created \subseteq Nat
  BY Sizes DEF Created
<1>2. NextPromise \in Promise \ Created
  BY <1>1, LeastIs DEF NextPromise
<1>3. QED
  BY <1>2 DEF Created

(* A free record is always there for the next task: each task in use has   *)
(* a key of its own, its promise or its timer's number, and there is one   *)
(* record more than there are keys.                                        *)
LEMMA NextTaskIs ==
  ASSUME NEW K, NEW P, NEW n \in 1..(MaxTimers + 1), NEW h, h = Heap, HeapInv(h, K, P, n)
  PROVE  NextTask \in Task /\ h.task[NextTask].kind = "free"
<1>1. h \in HeapType /\ \A t \in Task : KeyInv(h, t, n)
  BY DEF HeapInv, TaskInv
<1>2. h.task = task
  BY DEF Heap
<1>3. /\ Min({t \in Task : h.task[t].kind = "free"}) \in Task
      /\ h.task[Min({t \in Task : h.task[t].kind = "free"})].kind = "free"
  BY <1>1, TaskIsFree
<1>4. QED
  BY <1>2, <1>3 DEF NextTask

(* A step that makes a pending promise and the task that is to settle it.  *)
Creates(h, p, t, g) ==
  /\ p \in Promise /\ h.status[p] = "absent" /\ g.status = [h.status EXCEPT ![p] = "pending"]
  /\ t \in Task /\ ~Alive(h.task[t]) /\ Alive(g.task[t]) /\ g.task[t].result = p
  /\ g.task[t].kind \in Reactions \cup Combinators \cup {"sleep", "io"}
  /\ \A i \in DOMAIN g.task[t].items : StatusIn(h, g.task[t].items[i]) # "absent"
  /\ \A u \in Task \ {t} : SameDuty(h.task[u], g.task[u])

(* It stays one when the new task is queued or waits.                      *)
LEMMA CreatesOn ==
  ASSUME NEW h, NEW p, NEW t, NEW g, Creates(h, p, t, g), NEW x, Same(g, x)
  PROVE  Creates(h, p, t, x)
<1>1. /\ p \in Promise /\ h.status[p] = "absent" /\ g.status = [h.status EXCEPT ![p] = "pending"]
      /\ t \in Task /\ ~Alive(h.task[t]) /\ Alive(g.task[t]) /\ g.task[t].result = p
      /\ g.task[t].kind \in Reactions \cup Combinators \cup {"sleep", "io"}
      /\ \A i \in DOMAIN g.task[t].items : StatusIn(h, g.task[t].items[i]) # "absent"
      /\ \A u \in Task \ {t} : SameDuty(h.task[u], g.task[u])
  BY DEF Creates
<1>2. x.status = g.status /\ \A u \in Task : SameDuty(g.task[u], x.task[u])
  BY DEF Same, Lives
<1>3. ASSUME NEW u \in Task \ {t} PROVE SameDuty(h.task[u], x.task[u])
  <2>1. SameDuty(h.task[u], g.task[u]) /\ SameDuty(g.task[u], x.task[u])
    BY <1>1, <1>2
  <2>2. QED
    BY <2>1 DEF SameDuty
<1>4. /\ Alive(x.task[t]) /\ x.task[t].result = p /\ x.task[t].kind = g.task[t].kind
      /\ x.task[t].items = g.task[t].items
  <2>1. SameDuty(g.task[t], x.task[t])
    BY <1>1, <1>2
  <2>2. QED
    BY <2>1, <1>1 DEF SameDuty
<1>5. QED
  BY <1>1, <1>2, <1>3, <1>4 DEF Creates

(* What a call that opens a promise does.                                  *)
Opens == \E p, t, g : Heap' = g /\ Creates(Heap, p, t, g) /\ stack' = stack

(* add_task with a pending promise: the task is in the caller's hands      *)
(* and the promise is its own.                                             *)
LEMMA AddPendingKeeps ==
  ASSUME NEW K, NEW P, NEW n \in 1..(MaxTimers + 1), NEW h, h = Heap, HeapInv(h, K, P, n),
         Created # Promise, NEW fields, Asks(h, fields),
         NEW t, t = NextTask, NEW g, g = AddPending(fields)
  PROVE  /\ HeapInv(g, K \cup {t}, P, n) /\ t \in Task /\ t \notin K /\ h.task[t].kind = "free"
         /\ StatusKept(h, g) /\ g.queues = h.queues
         /\ \A u \in Task \ {t} : g.task[u] = h.task[u]
         /\ g.task[t].kind = fields.kind /\ g.task[t].deps = 0
         /\ g.task[t].completed = fields.completed
         /\ Creates(h, NextPromise, t, g)
<1>0. n \in Int
  BY Sizes
<1>1. t \in Task /\ h.task[t].kind = "free"
  BY NextTaskIs
<1>2. PICK p : p = NextPromise
  OBVIOUS
<1>3. p \in Promise /\ h.status[p] = "absent"
  BY <1>2, NextPromiseIs DEF Heap
<1>4. PICK f : f = WithStatus(h, p, "pending")
  OBVIOUS
<1>5. h \in HeapType
  BY DEF HeapInv
<1>6. /\ f \in HeapType /\ f.task = h.task /\ f.queues = h.queues
      /\ f.dependents = h.dependents /\ f.status = [h.status EXCEPT ![p] = "pending"]
      /\ HeapInv(f, K, P, n) /\ StatusKept(h, f)
  <2>1. "pending" \in StatusName /\ "pending" # "absent"
    BY DEF StatusName
  <2>2. QED
    BY <2>1, <1>0, <1>3, <1>4, <1>5, StatusSetIs, StatusSetKeeps
<1>7. PICK k : k = [fields EXCEPT !.result = p]
  OBVIOUS
<1>8. /\ k \in TaskType /\ k.kind = fields.kind /\ k.deps = fields.deps /\ k.items = fields.items
      /\ k.queued = fields.queued /\ k.finished = fields.finished /\ k.result = p
      /\ k.completed = fields.completed
  BY <1>3, <1>7 DEF Asks, TaskType
<1>9. /\ k.kind \notin {"free", "timer"}
      /\ k.deps = 0 /\ k.queued = FALSE /\ k.finished = FALSE
      /\ k.kind \in Reactions => Len(k.items) = 1
      /\ \A i \in 1..Len(k.items) : StatusIn(h, k.items[i]) # "absent"
  BY <1>8 DEF Asks
<1>10. \A i \in 1..Len(k.items) : k.items[i] \in Promise \cup {Plain}
  BY <1>8, TaskIs
<1>11. Fresh(f, t, k, n)
  <2>1. \A i \in 1..Len(k.items) : k.items[i] # k.result
    <3>1. p # Plain
      BY <1>3, Sizes DEF Plain
    <3>2. QED
      BY <3>1, <1>3, <1>8, <1>9 DEF StatusIn
  <2>2. \A i \in 1..Len(k.items) : StatusIn(f, k.items[i]) # "absent"
    BY <1>6, <1>9, <1>10 DEF StatusIn, StatusKept
  <2>3. k.result \in Promise /\ f.status[k.result] # "absent"
    <3>1. h.status \in [Promise -> StatusName]
      BY <1>5, HeapIs
    <3>2. QED
      BY <3>1, <1>3, <1>6, <1>8
  <2>4. ASSUME NEW u \in Task \ {t}, f.task[u].kind # "free"
        PROVE  KeyOf(k) # KeyOf(f.task[u])
    <3>1. KeyOf(k) = p
      BY <1>8, <1>9 DEF KeyOf
    <3>2. KeyInv(h, u, n)
      BY DEF HeapInv, TaskInv
    <3>3. CASE h.task[u].kind = "timer"
      <4>1. h.task[u].id \in 1..(n - 1)
        BY <3>2, <3>3 DEF KeyInv
      <4>2. KeyOf(f.task[u]) = MaxPromises + h.task[u].id
        BY <1>6, <3>3 DEF KeyOf
      <4>3. p \in 1..MaxPromises /\ MaxPromises \in Nat
        BY <1>3, Sizes DEF Promise
      <4>4. QED
        BY <3>1, <4>1, <4>2, <4>3, <1>0
    <3>4. CASE h.task[u].kind # "timer"
      <4>1. h.status[h.task[u].result] # "absent"
        BY <3>2, <3>4, <2>4, <1>6 DEF KeyInv
      <4>2. KeyOf(f.task[u]) = h.task[u].result
        BY <1>6, <3>4 DEF KeyOf
      <4>3. QED
        BY <3>1, <4>1, <4>2, <1>3
    <3>5. QED
      BY <3>3, <3>4
  <2>5. QED
    BY <2>1, <2>2, <2>3, <2>4, <1>8, <1>9 DEF Fresh
<1>12. g = WithTask(f, t, k)
  <2>1. h = [status |-> h.status, dependents |-> h.dependents, task |-> h.task,
             queues |-> h.queues]
    BY <1>5, HeapIs
  <2>2. g = [[h EXCEPT !.task[t] = k] EXCEPT !.status[p] = "pending"]
    BY <1>2, <1>7 DEF AddPending, AddTask
  <2>3. QED
    BY <2>1, <2>2, <1>4 DEF WithTask, WithStatus
<1>13. n <= n /\ f.task[t].kind = "free"
  BY <1>0, <1>1, <1>6
<1>14. /\ HeapInv(g, K \cup {t}, P, n) /\ t \notin K /\ g.task[t] = k
       /\ g.status = f.status /\ g.dependents = f.dependents /\ g.queues = f.queues
       /\ \A u \in Task \ {t} : g.task[u] = f.task[u]
  BY <1>0, <1>1, <1>6, <1>11, <1>12, <1>13, NewTaskKeeps, SMTT(30)
<1>15. StatusKept(h, g)
  BY <1>6, <1>14 DEF StatusKept
<1>16. Creates(h, p, t, g)
  <2>1. k.kind \in Reactions \cup Combinators \cup {"sleep", "io"}
    <3>1. k.kind \in {"free", "then", "finally", "timer", "sleep", "io"} \union Combinators
      BY <1>8 DEF TaskType
    <3>2. QED
      BY <3>1, <1>9 DEF Reactions
  <2>2. \A i \in DOMAIN k.items : StatusIn(h, k.items[i]) # "absent"
    <3>1. DOMAIN k.items = 1..Len(k.items)
      BY <1>8, TaskIs
    <3>2. QED
      BY <3>1, <1>9
  <2>3. Alive(k) /\ ~Alive(h.task[t])
    BY <1>1, <1>9 DEF Alive
  <2>4. \A u \in Task \ {t} : SameDuty(h.task[u], g.task[u])
    BY <1>6, <1>14 DEF SameDuty
  <2>5. g.task[t] = k /\ k.result = p /\ g.status = [h.status EXCEPT ![p] = "pending"]
    BY <1>6, <1>8, <1>14
  <2>6. QED
    BY <2>1, <2>2, <2>3, <2>4, <2>5, <1>1, <1>3 DEF Creates
<1>17. QED
  BY <1>1, <1>2, <1>6, <1>8, <1>9, <1>14, <1>15, <1>16

----------------------------------------------------------------------------
(* Callbacks and drains under way.                                         *)
LEMMA HeldIs ==
  ASSUME NEW s \in Seq(FrameType)
  PROVE  HeldIn(s) \subseteq Task
<1>1. \A i \in 1..Len(s) : s[i] \in FrameType
  OBVIOUS
<1>2. QED
  BY <1>1 DEF HeldIn, FrameType

(* The frames of the stack fit a heap in which no promise vanished and     *)
(* the tasks they hold are of the kinds they were.                         *)
LEMMA FramesStay ==
  ASSUME NEW s, NEW h, NEW g, FramesOf(s, h), StatusKept(h, g),
         \A t \in HeldIn(s) : g.task[t].kind = h.task[t].kind
  PROVE  FramesOf(s, g)
<1>1. ASSUME NEW i \in 1..Len(s) PROVE Fits(s[i], g)
  <2>1. Fits(s[i], h)
    BY DEF FramesOf
  <2>2. CASE s[i].task = NoTask
    BY <2>1, <2>2 DEF Fits, StatusKept, Reactions
  <2>3. CASE s[i].task # NoTask
    <3>1. s[i].task \in HeldIn(s)
      BY <2>3 DEF HeldIn
    <3>2. g.task[s[i].task].kind = h.task[s[i].task].kind
      BY <3>1
    <3>3. QED
      BY <2>1, <3>2 DEF Fits, StatusKept
  <2>4. QED
    BY <2>2, <2>3
<1>2. QED
  BY <1>1 DEF FramesOf

(* Tasks that are held are not freed.                                      *)
LEMMA FramesFade ==
  ASSUME NEW s, NEW h, NEW g, FramesOf(s, h), StatusKept(h, g),
         \A t \in HeldIn(s) : g.task[t].kind \in {h.task[t].kind, "free"},
         NEW P, NEW n, NEW K, HeapInv(g, K, P, n), HeldIn(s) \subseteq K
  PROVE  FramesOf(s, g)
<1>1. ASSUME NEW t \in HeldIn(s) PROVE g.task[t].kind = h.task[t].kind
  <2>1. t \in Task
    BY HeldIs DEF FramesOf
  <2>2. FreeInv(g, t, K)
    BY <2>1 DEF HeapInv, TaskInv
  <2>3. QED
    BY <2>2 DEF FreeInv
<1>2. QED
  BY <1>1, FramesStay

(* What is under the top frame fits as it did, and holds all but the       *)
(* top's task.                                                             *)
LEMMA FramesTail ==
  ASSUME NEW s, NEW h, FramesOf(s, h), s # <<>>
  PROVE  /\ FramesOf(Tail(s), h)
         /\ Head(s) \in FrameType /\ Fits(Head(s), h)
         /\ Head(s).task = NoTask => HeldIn(Tail(s)) = HeldIn(s)
         /\ Head(s).task # NoTask =>
              /\ HeldIn(Tail(s)) = HeldIn(s) \ {Head(s).task}
              /\ Head(s).task \in HeldIn(s) /\ Head(s).task \in Task
<1>1. PICK l \in Nat : l = Len(s)
  BY DEF FramesOf
<1>2. /\ s \in Seq(FrameType) /\ l > 0 /\ Head(s) = s[1] /\ Tail(s) \in Seq(FrameType)
      /\ Len(Tail(s)) = l - 1 /\ 1 \in 1..l
      /\ \A i \in 1..(l - 1) : Tail(s)[i] = s[i + 1]
  BY <1>1 DEF FramesOf
<1>3. /\ \A i \in 1..l : Fits(s[i], h)
      /\ \A i, j \in 1..l : s[i].task = s[j].task /\ s[i].task # NoTask => i = j
  BY <1>1 DEF FramesOf
<1>4. PICK w : w = Tail(s)
  OBVIOUS
<1>5. \A i \in 1..(l - 1) : w[i] = s[i + 1] /\ i + 1 \in 1..l
  BY <1>1, <1>2, <1>4
<1>6. FramesOf(w, h)
  <2>1. \A i, j \in 1..(l - 1) : i + 1 = j + 1 => i = j
    BY <1>1
  <2>2. w \in Seq(FrameType) /\ Len(w) = l - 1
    BY <1>2, <1>4
  <2>3. \A i \in 1..(l - 1) : Fits(w[i], h)
    BY <1>3, <1>5
  <2>4. \A i, j \in 1..(l - 1) : w[i].task = w[j].task /\ w[i].task # NoTask => i = j
    BY <1>3, <1>5, <2>1
  <2>5. QED
    BY <2>2, <2>3, <2>4 DEF FramesOf
<1>7. \A i \in 1..l : i = 1 \/ \E j \in 1..(l - 1) : i = j + 1
  <2> SUFFICES ASSUME NEW i \in 1..l, i # 1 PROVE \E j \in 1..(l - 1) : i = j + 1
    OBVIOUS
  <2>1. i - 1 \in 1..(l - 1) /\ i = (i - 1) + 1
    BY <1>1
  <2>2. QED
    BY <2>1
<1>8. HeldIn(s) = {s[i].task : i \in 1..l} \ {NoTask}
  BY <1>1 DEF HeldIn
<1>9. HeldIn(w) = {w[i].task : i \in 1..(l - 1)} \ {NoTask}
  BY <1>2, <1>4 DEF HeldIn
<1>10. {s[i].task : i \in 1..l} = {w[i].task : i \in 1..(l - 1)} \cup {s[1].task}
  <2>1. \A i \in 1..l : s[i].task \in {w[j].task : j \in 1..(l - 1)} \cup {s[1].task}
    BY <1>5, <1>7, SMTT(30), ZenonT(60)
  <2>2. \A i \in 1..(l - 1) : w[i].task \in {s[j].task : j \in 1..l}
    BY <1>5
  <2>3. s[1].task \in {s[j].task : j \in 1..l}
    BY <1>2
  <2>4. QED
    BY <2>1, <2>2, <2>3
<1>11. s[1].task # NoTask => s[1].task \notin {w[i].task : i \in 1..(l - 1)}
  <2> SUFFICES ASSUME s[1].task # NoTask, NEW i \in 1..(l - 1), w[i].task = s[1].task PROVE FALSE
    OBVIOUS
  <2>1. i + 1 \in 1..l /\ i + 1 # 1 /\ s[i + 1].task = s[1].task
    BY <1>1, <1>5
  <2>2. QED
    BY <2>1, <1>2, <1>3
<1>12. Fits(s[1], h) /\ s[1] \in FrameType
  BY <1>2, <1>3 DEF Fits
<1>13. s[1].task # NoTask => s[1].task \in Task
  BY <1>12 DEF FrameType
<1>14. PICK x, S : x = s[1].task /\ S = {w[i].task : i \in 1..(l - 1)}
  OBVIOUS
<1>15. /\ HeldIn(w) = S \ {NoTask} /\ HeldIn(s) = (S \cup {x}) \ {NoTask}
       /\ x # NoTask => x \notin S
  BY <1>8, <1>9, <1>10, <1>11, <1>14
<1>16. /\ x = NoTask => HeldIn(w) = HeldIn(s)
       /\ x # NoTask => HeldIn(w) = HeldIn(s) \ {x} /\ x \in HeldIn(s)
  BY <1>15
<1>17. QED
  BY <1>2, <1>4, <1>6, <1>12, <1>13, <1>14, <1>16

(* A frame that fits and holds a task of its own, or none, can be          *)
(* pushed.                                                                 *)
LEMMA FramesPush ==
  ASSUME NEW s, NEW h, FramesOf(s, h), NEW f, Fits(f, h), f.task \notin HeldIn(s),
         NEW w, w = <<f>> \o s
  PROVE  /\ FramesOf(w, h)
         /\ HeldIn(w) = HeldIn(s) \cup ({f.task} \ {NoTask})
<1>1. PICK l \in Nat : l = Len(s)
  BY DEF FramesOf
<1>2. /\ s \in Seq(FrameType) /\ f \in FrameType
      /\ \A i \in 1..l : Fits(s[i], h)
      /\ \A i, j \in 1..l : s[i].task = s[j].task /\ s[i].task # NoTask => i = j
  BY <1>1 DEF FramesOf, Fits
<1>3. /\ w \in Seq(FrameType) /\ Len(w) = l + 1 /\ w[1] = f
      /\ \A i \in 2..(l + 1) : w[i] = s[i - 1]
  BY <1>1, <1>2
<1>4. /\ \A i \in 1..(l + 1) : i = 1 \/ (i - 1 \in 1..l /\ w[i] = s[i - 1])
      /\ \A i \in 1..l : i + 1 \in 1..(l + 1) /\ w[i + 1] = s[i]
      /\ 1 \in 1..(l + 1)
  <2>1. \A i \in 1..(l + 1) : i # 1 => i - 1 \in 1..l /\ i \in 2..(l + 1)
    BY <1>1
  <2>2. \A i \in 1..l : i + 1 \in 2..(l + 1) /\ i + 1 \in 1..(l + 1) /\ (i + 1) - 1 = i
    BY <1>1
  <2>3. 1 \in 1..(l + 1)
    BY <1>1
  <2>4. QED
    BY <2>1, <2>2, <2>3, <1>3
<1>5. HeldIn(s) = {s[i].task : i \in 1..l} \ {NoTask}
  BY <1>1 DEF HeldIn
<1>6. HeldIn(w) = {w[i].task : i \in 1..(l + 1)} \ {NoTask}
  BY <1>3 DEF HeldIn
<1>7. {w[i].task : i \in 1..(l + 1)} = {s[i].task : i \in 1..l} \cup {f.task}
  BY <1>3, <1>4
<1>8. \A i \in 1..(l + 1) : Fits(w[i], h)
  BY <1>2, <1>3, <1>4
<1>9. \A i, j \in 1..(l + 1) : w[i].task = w[j].task /\ w[i].task # NoTask => i = j
  <2> SUFFICES ASSUME NEW i \in 1..(l + 1), NEW j \in 1..(l + 1), w[i].task = w[j].task,
                      w[i].task # NoTask
               PROVE  i = j
    OBVIOUS
  <2>1. \A k \in 1..l : s[k].task # NoTask => s[k].task \in HeldIn(s)
    BY <1>5
  <2>2. CASE i = 1 \/ j = 1
    BY <2>1, <2>2, <1>3, <1>4
  <2>3. CASE i # 1 /\ j # 1
    <3>1. i - 1 \in 1..l /\ w[i] = s[i - 1] /\ j - 1 \in 1..l /\ w[j] = s[j - 1]
      BY <2>3, <1>4
    <3>2. i - 1 = j - 1
      BY <3>1, <1>2
    <3>3. QED
      BY <3>2, <1>1
  <2>4. QED
    BY <2>2, <2>3
<1>10. QED
  <2>1. FramesOf(w, h)
    BY <1>3, <1>8, <1>9 DEF FramesOf
  <2>2. QED
    BY <2>1, <1>5, <1>6, <1>7

(* A drain goes on: only its counter changes.                              *)
LEMMA FramesTurned ==
  ASSUME NEW s, NEW h, FramesOf(s, h), s # <<>>, NEW w, w = [s EXCEPT ![1].turns = @ + 1]
  PROVE  FramesOf(w, h) /\ HeldIn(w) = HeldIn(s)
<1>1. PICK l \in Nat : l = Len(s)
  BY DEF FramesOf
<1>2. /\ s \in Seq(FrameType) /\ l > 0 /\ 1 \in 1..l /\ s[1] \in FrameType
      /\ \A i \in 1..l : s[i] \in FrameType
      /\ \A i \in 1..l : Fits(s[i], h)
      /\ \A i, j \in 1..l : s[i].task = s[j].task /\ s[i].task # NoTask => i = j
  BY <1>1 DEF FramesOf
<1>3. PICK f : f = [s[1] EXCEPT !.turns = s[1].turns + 1]
  OBVIOUS
<1>4. /\ f \in FrameType /\ f.kind = s[1].kind /\ f.on = s[1].on /\ f.task = s[1].task
  <2>1. PICK r : r = s[1]
    OBVIOUS
  <2>2. r \in FrameType /\ f = [r EXCEPT !.turns = r.turns + 1]
    BY <2>1, <1>2, <1>3
  <2>3. r.turns + 1 \in Nat
    BY <2>2 DEF FrameType
  <2>4. f \in FrameType /\ f.kind = r.kind /\ f.on = r.on /\ f.task = r.task
    BY <2>2, <2>3 DEF FrameType
  <2>5. QED
    BY <2>1, <2>4
<1>5. w = [s EXCEPT ![1] = f]
  BY <1>3
<1>6. /\ w \in Seq(FrameType) /\ Len(w) = l /\ w[1] = f
      /\ \A i \in 1..l : i # 1 => w[i] = s[i]
  BY <1>1, <1>2, <1>4, <1>5
<1>7. \A i \in 1..l : w[i] \in FrameType /\ w[i].kind = s[i].kind /\ w[i].on = s[i].on /\ w[i].task = s[i].task
  BY <1>2, <1>4, <1>6
<1>8. FramesOf(w, h)
  <2>1. \A i \in 1..l : Fits(w[i], h)
    BY <1>2, <1>7 DEF Fits
  <2>2. \A i, j \in 1..l : w[i].task = w[j].task /\ w[i].task # NoTask => i = j
    BY <1>2, <1>7
  <2>3. QED
    BY <2>1, <2>2, <1>6 DEF FramesOf
<1>9. {w[i].task : i \in 1..l} = {s[i].task : i \in 1..l}
  BY <1>7
<1>10. QED
  BY <1>1, <1>6, <1>8, <1>9 DEF HeldIn

----------------------------------------------------------------------------
(* The actions.                                                            *)
LEMMA InvIs ==
  ASSUME SchedulerInv
  PROVE  /\ HeapInv(Heap, HeldIn(stack), Pooled, nextTimer) /\ Heap \in HeapType
         /\ FramesOf(stack, Heap) /\ PoolOnceInv /\ ClockInv
         /\ nextTimer \in Int /\ nextTimer \in 1..(MaxTimers + 1)
         /\ Heap.task = task /\ Heap.status = status
         /\ Heap.dependents = dependents /\ Heap.queues = queues
         /\ \A t \in HeldIn(stack) : t \in Task /\ task[t].kind \in {"timer", "then", "finally"}
<1>1. /\ HeapInv(Heap, HeldIn(stack), Pooled, nextTimer) /\ FramesOf(stack, Heap)
      /\ PoolOnceInv /\ ClockInv
  BY DEF SchedulerInv, Held, FramesInv
<1>2. Heap \in HeapType
  BY <1>1 DEF HeapInv
<1>3. nextTimer \in Int /\ nextTimer \in 1..(MaxTimers + 1)
  BY <1>1, Sizes DEF ClockInv
<1>4. /\ Heap.task = task /\ Heap.status = status
      /\ Heap.dependents = dependents /\ Heap.queues = queues
  BY DEF Heap
<1>5. ASSUME NEW t \in HeldIn(stack)
      PROVE  t \in Task /\ task[t].kind \in {"timer", "then", "finally"}
  <2>1. PICK i \in 1..Len(stack) : stack[i].task = t /\ t # NoTask
    BY DEF HeldIn
  <2>2. Fits(stack[i], Heap)
    BY <1>1 DEF FramesOf
  <2>3. t \in Task
    BY <2>1, <2>2 DEF Fits, FrameType
  <2>4. stack[i].kind \in {"then", "finally", "callback"}
    BY <2>1, <2>2 DEF Fits, FrameType
  <2>5. task[t].kind \in {"timer", "then", "finally"}
    BY <2>1, <2>2, <2>4, <1>4 DEF Fits, Reactions
  <2>6. QED
    BY <2>3, <2>5
<1>6. QED
  BY <1>1, <1>2, <1>3, <1>4, <1>5

(* The invariant from its four parts in the heap that a step leaves.       *)
LEMMA Assemble ==
  ASSUME NEW g, Becomes(g), HeapInv(g, HeldIn(stack'), Pooled', nextTimer'),
         FramesOf(stack', g), PoolOnceInv', ClockInv'
  PROVE  SchedulerInv'
<1>1. g \in HeapType
  BY DEF HeapInv
<1>2. Heap' = g
  BY <1>1, BecomesIs
<1>3. HeapInv(Heap', Held', Pooled', nextTimer')
  BY <1>2 DEF Held
<1>4. FramesInv'
  BY <1>2 DEF FramesInv
<1>5. QED
  BY <1>3, <1>4 DEF SchedulerInv

(* A step that leaves the pool alone leaves what is pooled as it was.      *)
LEMMA PoolStays ==
  ASSUME UNCHANGED poolVars
  PROVE  /\ Pooled' = Pooled
         /\ PoolOnceInv => PoolOnceInv'
BY DEF poolVars, Pooled, InHands, PoolOnceInv

(* The clock's part depends on the timers given and on the exception       *)
(* alone.                                                                  *)
LEMMA ClockStays ==
  ASSUME ClockInv, UNCHANGED <<now, nextTimer, exception, phase>>
  PROVE  ClockInv'
BY DEF ClockInv

(* A step that changes the heap only, and no task that is held but by      *)
(* freeing it.                                                             *)
LEMMA HeapOnly ==
  ASSUME SchedulerInv, NEW g, Becomes(g), HeapInv(g, HeldIn(stack), Pooled, nextTimer),
         StatusKept(Heap, g),
         \A t \in HeldIn(stack) : g.task[t].kind \in {task[t].kind, "free"},
         UNCHANGED <<now, nextTimer, stack, exception, phase, poolVars>>
  PROVE  SchedulerInv'
<1>1. PICK h : h = Heap
  OBVIOUS
<1>2. FramesOf(stack, h) /\ PoolOnceInv /\ ClockInv /\ h.task = task
  BY <1>1, InvIs
<1>3. FramesOf(stack, g)
  <2>1. StatusKept(h, g) /\ \A t \in HeldIn(stack) : g.task[t].kind \in {h.task[t].kind, "free"}
    BY <1>1, <1>2
  <2>2. QED
    BY <2>1, <1>2, FramesFade
<1>4. PoolOnceInv' /\ Pooled' = Pooled /\ ClockInv'
  BY <1>2, PoolStays, ClockStays
<1>5. HeapInv(g, HeldIn(stack'), Pooled', nextTimer') /\ FramesOf(stack', g)
  BY <1>3, <1>4
<1>6. QED
  BY <1>4, <1>5, Assemble

(* Every call that makes a promise out of others: a new task waits for     *)
(* them.                                                                   *)
LEMMA RegisterKeeps ==
  ASSUME SchedulerInv, NEW fields, Register(fields), Asks(Heap, fields),
         fields.kind \in Reactions \cup Combinators
  PROVE  SchedulerInv' /\ Opens
<1>1. PICK h, K, t, g : h = Heap /\ K = HeldIn(stack) /\ t = NextTask /\ g = AddPending(fields)
  OBVIOUS
<1>2. /\ HeapInv(h, K, Pooled, nextTimer) /\ nextTimer \in Int
      /\ nextTimer \in 1..(MaxTimers + 1) /\ h.task = task
  BY <1>1, InvIs
<1>3. /\ HeapInv(g, K \cup {t}, Pooled, nextTimer) /\ t \in Task /\ t \notin K /\ h.task[t].kind = "free"
      /\ StatusKept(h, g) /\ g.queues = h.queues
      /\ \A u \in Task \ {t} : g.task[u] = h.task[u]
      /\ g.task[t].kind = fields.kind /\ g.task[t].deps = 0
      /\ g.task[t].completed = fields.completed /\ Creates(h, NextPromise, t, g)
  <2>1. Created # Promise /\ Asks(h, fields)
    BY <1>1 DEF Register
  <2>2. QED
    BY <2>1, <1>1, <1>2, AddPendingKeeps
<1>4. PICK x, L : x = Wait(g, t) /\ L = K \cup {t}
  OBVIOUS
<1>5. HeapInv(x, L \ {t}, Pooled, nextTimer) /\ Same(g, x)
  <2>1. t \in L /\ HeapInv(g, L, Pooled, nextTimer) /\ g.task[t].kind \in Reactions \cup Combinators
    BY <1>3, <1>4
  <2>2. QED
    BY <2>1, <1>2, <1>3, <1>4, WaitKeeps
<1>6. L \ {t} = K
  BY <1>3, <1>4
<1>7. StatusKept(h, x)
  BY <1>3, <1>5 DEF StatusKept, Same
<1>8. \A u \in K : x.task[u].kind \in {task[u].kind, "free"}
  <2>1. K \subseteq Task
    BY <1>1, InvIs
  <2>2. QED
    BY <2>1, <1>2, <1>3, <1>5 DEF Same
<1>9. Becomes(x) /\ UNCHANGED <<now, nextTimer, stack, exception, phase, poolVars>>
  BY <1>1, <1>4 DEF Register
<1>10. HeapInv(x, K, Pooled, nextTimer)
  BY <1>5, <1>6
<1>11. Opens
  <2>1. Creates(h, NextPromise, t, x)
    BY <1>3, <1>5, CreatesOn
  <2>2. Heap' = x
    BY <1>9, <1>10, BecomesIs DEF HeapInv
  <2>3. QED
    BY <2>1, <2>2, <1>1, <1>9 DEF Opens
<1>12. SchedulerInv'
  BY <1>1, <1>7, <1>8, <1>9, <1>10, HeapOnly
<1>13. QED
  BY <1>11, <1>12

(* What the calls ask for.                                                 *)
LEMMA BlankIs == Blank \in TaskType
<1>1. <<>> \in Seq(Promise \cup {Plain}) /\ 0 \in 0..MaxTimers
  BY Sizes
<1>2. QED
  BY <1>1 DEF Blank, TaskType

HandlerName == {"none", "fn", "bad"}

NewRecord(k, kind, items) ==
  /\ k \in TaskType /\ k.kind = kind /\ k.items = items /\ k.deps = 0
  /\ k.queued = FALSE /\ k.finished = FALSE /\ k.completed = FALSE

(* What a reaction or a combinator asks of a new task's record.            *)
LEMMA ReactionIs ==
  ASSUME NEW kind \in Reactions \cup Combinators, NEW items \in Seq(Promise \cup {Plain}),
         NEW x \in HandlerName, NEW y \in HandlerName,
         NEW k, k = Reaction(kind, items, x, y)
  PROVE  NewRecord(k, kind, items)
<1>1. k = [kind |-> kind, items |-> items, onFulfilled |-> x, onRejected |-> y,
           result |-> Plain, due |-> 0, id |-> 0,
           deps |-> 0, queued |-> FALSE, finished |-> FALSE, completed |-> FALSE]
  BY DEF Reaction, Blank
<1>2. 0 \in 0..MaxTimers
  BY Sizes
<1>3. QED
  BY <1>1, <1>2 DEF TaskType, Reactions, Plain, HandlerName, NewRecord

(* then on a promise that was created.                                     *)
LEMMA CallThenKeeps ==
  ASSUME SchedulerInv, CallThen
  PROVE  SchedulerInv' /\ Opens
<1>1. PICK p \in Created, on \in Handlers : Register(Reaction("then", <<p>>, on[1], on[2]))
  BY DEF CallThen
<1>2. PICK k, items : k = Reaction("then", items, on[1], on[2]) /\ items = <<p>>
  OBVIOUS
<1>3. p \in Promise /\ status[p] # "absent" /\ p # Plain
  BY Sizes DEF Created, Plain
<1>4. items \in Seq(Promise \cup {Plain}) /\ Len(items) = 1 /\ \A i \in 1..1 : items[i] = p
  BY <1>2, <1>3
<1>5. PICK x, y : x = on[1] /\ y = on[2] /\ x \in HandlerName /\ y \in HandlerName
  BY SchedulerAssumption DEF HandlerName
<1>6. NewRecord(k, "then", items)
  <2>1. "then" \in Reactions \cup Combinators
    BY DEF Reactions
  <2>2. QED
    BY <2>1, <1>2, <1>4, <1>5, ReactionIs
<1>7. Asks(Heap, k)
  <2>1. \A i \in 1..Len(items) : StatusIn(Heap, items[i]) # "absent"
    BY <1>3, <1>4 DEF StatusIn, Heap
  <2>2. QED
    BY <2>1, <1>4, <1>6 DEF Asks, NewRecord
<1>8. k.kind \in Reactions \cup Combinators
  BY <1>6 DEF Reactions, NewRecord
<1>9. QED
  BY <1>1, <1>2, <1>7, <1>8, RegisterKeeps

(* finally on a promise that was created.                                  *)
LEMMA CallFinallyKeeps ==
  ASSUME SchedulerInv, CallFinally
  PROVE  SchedulerInv' /\ Opens
<1>1. PICK p \in Created, x \in {on[1] : on \in Handlers} : Register(Reaction("finally", <<p>>, x, "none"))
  BY DEF CallFinally
<1>2. PICK k, items : k = Reaction("finally", items, x, "none") /\ items = <<p>>
  OBVIOUS
<1>3. p \in Promise /\ status[p] # "absent" /\ p # Plain
  BY Sizes DEF Created, Plain
<1>4. items \in Seq(Promise \cup {Plain}) /\ Len(items) = 1 /\ \A i \in 1..1 : items[i] = p
  BY <1>2, <1>3
<1>5. x \in HandlerName /\ "none" \in HandlerName
  BY SchedulerAssumption DEF HandlerName
<1>6. NewRecord(k, "finally", items)
  <2>1. "finally" \in Reactions \cup Combinators
    BY DEF Reactions
  <2>2. QED
    BY <2>1, <1>2, <1>4, <1>5, ReactionIs
<1>7. Asks(Heap, k)
  <2>1. \A i \in 1..Len(items) : StatusIn(Heap, items[i]) # "absent"
    BY <1>3, <1>4 DEF StatusIn, Heap
  <2>2. QED
    BY <2>1, <1>4, <1>6 DEF Asks, NewRecord
<1>8. k.kind \in Reactions \cup Combinators
  BY <1>6 DEF Reactions, NewRecord
<1>9. QED
  BY <1>1, <1>2, <1>7, <1>8, RegisterKeeps

(* all, race, allSettled and any over promises and plain values.           *)
LEMMA CallCombinatorKeeps ==
  ASSUME SchedulerInv, CallCombinator
  PROVE  SchedulerInv' /\ Opens
<1>1. PICK kind \in Combinators, n \in 0..MaxItems :
        \E items \in [1..n -> Created \union {Plain}] :
          Register(Reaction(kind, items, "none", "none"))
  BY DEF CallCombinator
<1>2. PICK items \in [1..n -> Created \union {Plain}] :
        Register(Reaction(kind, items, "none", "none"))
  BY <1>1
<1>3. PICK k : k = Reaction(kind, items, "none", "none")
  OBVIOUS
<1>4. n \in Nat
  BY SchedulerAssumption
<1>5. items \in Seq(Promise \cup {Plain}) /\ Len(items) = n
  <2>1. items \in [1..n -> Promise \cup {Plain}]
    BY DEF Created
  <2>2. QED
    BY <2>1, <1>4
<1>6. NewRecord(k, kind, items)
  <2>1. "none" \in HandlerName /\ kind \in Reactions \cup Combinators
    BY DEF HandlerName
  <2>2. QED
    BY <2>1, <1>3, <1>5, ReactionIs
<1>7. Asks(Heap, k)
  <2>1. ASSUME NEW i \in 1..Len(items) PROVE StatusIn(Heap, items[i]) # "absent"
    <3>1. items[i] \in Created \cup {Plain}
      BY <1>5
    <3>2. QED
      BY <3>1 DEF StatusIn, Heap, Created
  <2>2. kind \notin {"free", "timer"} /\ kind \notin Reactions
    BY DEF Combinators, Reactions
  <2>3. QED
    BY <2>1, <2>2, <1>6 DEF Asks, NewRecord
<1>8. QED
  BY <1>2, <1>3, <1>6, <1>7, RegisterKeeps DEF NewRecord

(* A promise created as settled has no dependents and no task.             *)
LEMMA CallSettledKeeps ==
  ASSUME SchedulerInv, CallSettled
  PROVE  SchedulerInv'
<1>1. PICK s \in {"fulfilled", "rejected"} : status' = [status EXCEPT ![NextPromise] = s]
  BY DEF CallSettled
<1>2. PICK h, p, g : h = Heap /\ p = NextPromise /\ g = WithStatus(h, p, s)
  OBVIOUS
<1>3. p \in Promise /\ s \in StatusName /\ s # "absent"
  <2>1. Created # Promise
    BY DEF CallSettled
  <2>2. QED
    BY <2>1, <1>2, NextPromiseIs DEF StatusName
<1>4. /\ HeapInv(h, HeldIn(stack), Pooled, nextTimer) /\ nextTimer \in Int /\ h \in HeapType
      /\ h.task = task /\ h.status = status /\ h.dependents = dependents /\ h.queues = queues
  BY <1>2, InvIs
<1>5. HeapInv(g, HeldIn(stack), Pooled, nextTimer) /\ StatusKept(h, g)
  BY <1>2, <1>3, <1>4, StatusSetKeeps
<1>6. /\ g \in HeapType /\ g.task = h.task /\ g.queues = h.queues
      /\ g.dependents = h.dependents /\ g.status = [h.status EXCEPT ![p] = s]
  BY <1>2, <1>3, <1>4, StatusSetIs
<1>7. Becomes(g) /\ UNCHANGED <<now, nextTimer, stack, exception, phase, poolVars>>
  BY <1>1, <1>2, <1>4, <1>6 DEF CallSettled, Becomes
<1>8. QED
  BY <1>2, <1>4, <1>5, <1>6, <1>7, HeapOnly

(* A new task is queued at once.                                           *)
OnlyTask(h, g, t) == \A u \in Task \ {t} : g.task[u] = h.task[u]
QueuedAs(g, x, t, q) ==
  /\ x.task[t] = [g.task[t] EXCEPT !.queued = TRUE]
  /\ x.queues[q] = Append(g.queues[q], t)

(* A new task that waits for nothing goes from the caller's hands to a     *)
(* queue.                                                                  *)
LEMMA QueuedAtOnce ==
  ASSUME NEW h, NEW K, NEW P, NEW n \in Int, NEW g, NEW t \in Task, t \notin K,
         HeapInv(g, K \cup {t}, P, n), g.task[t].deps = 0, StatusKept(h, g),
         OnlyTask(h, g, t), NEW x, x = AppendTask(g, t)
  PROVE  /\ HeapInv(x, K, P, n) /\ StatusKept(h, x) /\ OnlyTask(h, x, t)
         /\ QueuedAs(g, x, t, QueueOf(g.task[t].kind)) /\ Same(g, x)
<1>1. PICK L : L = K \cup {t}
  OBVIOUS
<1>2. t \in L /\ L \ {t} = K /\ HeapInv(g, L, P, n) /\ ~(g.task[t].deps > 0)
  BY <1>1
<1>3. HeapInv(x, L \ {t}, P, n)
  BY <1>2, AppendKeeps
<1>4. g \in HeapType
  BY DEF HeapInv
<1>5. PICK q : q = QueueOf(g.task[t].kind)
  OBVIOUS
<1>6. /\ x \in HeapType /\ x.status = g.status /\ x.dependents = g.dependents
      /\ q \in QueueName \ {"done"}
      /\ x.queues[q] = Append(g.queues[q], t)
      /\ \A r \in QueueName \ {q} : x.queues[r] = g.queues[r]
      /\ \A u \in Task \ {t} : x.task[u] = g.task[u]
      /\ x.task[t] = [g.task[t] EXCEPT !.queued = TRUE]
  <2>1. AppendedTo(g, t, q, x)
    BY <1>4, <1>5, AppendIs
  <2>2. QED
    BY <2>1 DEF AppendedTo
<1>7. StatusKept(h, x)
  BY <1>6 DEF StatusKept
<1>8. OnlyTask(h, x, t) /\ QueuedAs(g, x, t, q)
  BY <1>6 DEF OnlyTask, QueuedAs
<1>9. Same(g, x)
  <2>1. g.task[t] \in TaskType
    BY <1>4, HeapIs
  <2>2. SameBut(g.task[t], x.task[t])
    BY <2>1, <1>6, TaskIs DEF SameBut
  <2>3. x.status = g.status /\ \A u \in Task \ {t} : x.task[u] = g.task[u]
    BY <1>6
  <2>4. QED
    BY <2>2, <2>3, SameIs
<1>10. QED
  BY <1>2, <1>3, <1>5, <1>7, <1>8, <1>9

(* A step that makes a timer's task.                                       *)
Times(h, t, g) ==
  /\ g.status = h.status /\ OnlyTask(h, g, t)
  /\ h.task[t].kind = "free" /\ g.task[t].kind = "timer" /\ g.task[t].result = Plain

(* setTimeout: a task without a promise, and the next timer's number.      *)
LEMMA CallSetTimeoutKeeps ==
  ASSUME SchedulerInv, CallSetTimeout
  PROVE  SchedulerInv' /\ \E t, g : Heap' = g /\ Times(Heap, t, g) /\ stack' = stack
<1>1. PICK d \in Delays : Becomes(AppendTask(AddTask(TimerTask(d)), NextTask))
  BY DEF CallSetTimeout
<1>2. PICK h, K, t, k, n : /\ h = Heap /\ K = HeldIn(stack) /\ t = NextTask
                           /\ k = TimerTask(d) /\ n = nextTimer + 1
  OBVIOUS
<1>3. /\ HeapInv(h, K, Pooled, nextTimer) /\ nextTimer \in Int /\ h \in HeapType
      /\ nextTimer \in 1..(MaxTimers + 1) /\ h.task = task /\ ClockInv /\ PoolOnceInv
      /\ FramesOf(stack, h) /\ K \subseteq Task
  BY <1>2, InvIs
<1>4. nextTimer <= MaxTimers
  BY DEF CallSetTimeout
<1>5. n \in Int /\ nextTimer <= n /\ n \in 1..(MaxTimers + 1) /\ nextTimer \in 1..(n - 1)
      /\ nextTimer \in 0..MaxTimers
  BY <1>2, <1>3, <1>4, Sizes
<1>6. t \in Task /\ h.task[t].kind = "free"
  BY <1>2, <1>3, NextTaskIs
<1>7. now + d \in Nat
  BY <1>3, SchedulerAssumption DEF ClockInv
<1>8. /\ k \in TaskType /\ k.kind = "timer" /\ k.id = nextTimer /\ k.items = <<>>
      /\ k.deps = 0 /\ k.queued = FALSE /\ k.finished = FALSE /\ k.result = Plain
  <2>1. k = [kind |-> "timer", items |-> <<>>, onFulfilled |-> "none", onRejected |-> "none",
             result |-> Plain, due |-> now + d, id |-> nextTimer,
             deps |-> 0, queued |-> FALSE, finished |-> FALSE, completed |-> FALSE]
    BY <1>2 DEF TimerTask, Blank
  <2>2. QED
    BY <2>1, <1>5, <1>7 DEF TaskType, Plain
<1>9. Fresh(h, t, k, n)
  <2>1. ASSUME NEW u \in Task \ {t}, h.task[u].kind # "free"
        PROVE  KeyOf(k) # KeyOf(h.task[u])
    <3>1. KeyOf(k) = MaxPromises + nextTimer
      BY <1>8 DEF KeyOf
    <3>2. KeyInv(h, u, nextTimer)
      BY <1>3 DEF HeapInv, TaskInv
    <3>3. CASE h.task[u].kind = "timer"
      <4>1. h.task[u].id \in 1..(nextTimer - 1) /\ KeyOf(h.task[u]) = MaxPromises + h.task[u].id
        BY <3>2, <3>3 DEF KeyInv, KeyOf
      <4>2. QED
        BY <3>1, <4>1, <1>3, Sizes
    <3>4. CASE h.task[u].kind # "timer"
      <4>1. h.task[u].result \in Promise /\ KeyOf(h.task[u]) = h.task[u].result
        BY <2>1, <3>2, <3>4 DEF KeyInv, KeyOf
      <4>2. QED
        BY <3>1, <4>1, <1>3, Sizes DEF Promise
    <3>5. QED
      BY <3>3, <3>4
  <2>2. Len(k.items) = 0
    BY <1>8
  <2>3. QED
    BY <2>1, <2>2, <1>5, <1>8 DEF Fresh, Reactions, Combinators
<1>10. PICK g : g = WithTask(h, t, k)
  OBVIOUS
<1>11. /\ HeapInv(g, K \cup {t}, Pooled, n) /\ t \notin K /\ g.task[t] = k
       /\ g.status = h.status /\ g.dependents = h.dependents /\ g.queues = h.queues
       /\ \A u \in Task \ {t} : g.task[u] = h.task[u]
  BY <1>3, <1>5, <1>6, <1>9, <1>10, NewTaskKeeps
<1>12. PICK x : x = AppendTask(g, t)
  OBVIOUS
<1>13. HeapInv(x, K, Pooled, n) /\ StatusKept(h, x) /\ OnlyTask(h, x, t) /\ Same(g, x)
  <2>1. StatusKept(h, g) /\ g.task[t].deps = 0 /\ OnlyTask(h, g, t)
    BY <1>8, <1>11 DEF StatusKept, OnlyTask
  <2>2. n \in Int /\ t \in Task /\ t \notin K /\ HeapInv(g, K \cup {t}, Pooled, n)
    BY <1>5, <1>6, <1>11
  <2>3. QED
    BY <2>1, <2>2, <1>12, QueuedAtOnce
<1>14. Becomes(x)
  <2>1. AddTask(TimerTask(d)) = g
    BY <1>2, <1>10 DEF AddTask, WithTask
  <2>2. QED
    BY <2>1, <1>1, <1>2, <1>12
<1>15. FramesOf(stack, x)
  <2>1. \A u \in HeldIn(stack) : x.task[u].kind \in {h.task[u].kind, "free"}
    BY <1>2, <1>3, <1>11, <1>13 DEF OnlyTask
  <2>2. QED
    BY <2>1, <1>2, <1>3, <1>13, FramesFade
<1>16. /\ nextTimer' = n /\ stack' = stack
       /\ UNCHANGED poolVars /\ UNCHANGED <<now, exception, phase>>
  BY <1>2 DEF CallSetTimeout
<1>17. PoolOnceInv' /\ Pooled' = Pooled /\ ClockInv'
  BY <1>3, <1>5, <1>16, PoolStays DEF ClockInv
<1>18. HeapInv(x, HeldIn(stack'), Pooled', nextTimer') /\ FramesOf(stack', x)
  BY <1>2, <1>13, <1>15, <1>16, <1>17
<1>19. SchedulerInv'
  BY <1>14, <1>17, <1>18, Assemble
<1>20. Heap' = x /\ Times(h, t, x)
  <2>1. Heap' = x
    BY <1>13, <1>14, BecomesIs DEF HeapInv
  <2>2. x.status = h.status
    BY <1>11, <1>13 DEF Same
  <2>3. k.kind = "timer" /\ k.result = Plain /\ Alive(k)
    BY <1>8 DEF Alive
  <2>4. x.task[t].kind = "timer" /\ x.task[t].result = Plain
    <3>1. SameDuty(g.task[t], x.task[t])
      BY <1>6, <1>13 DEF Same, Lives
    <3>2. QED
      BY <3>1, <2>3, <1>11 DEF SameDuty
  <2>5. QED
    BY <2>1, <2>2, <2>4, <1>6, <1>13 DEF Times
<1>21. QED
  BY <1>2, <1>16, <1>19, <1>20

(* sleepAsync: a task with a promise of its own in the timers' queue.      *)
LEMMA CallSleepAsyncKeeps ==
  ASSUME SchedulerInv, CallSleepAsync
  PROVE  SchedulerInv' /\ Opens
<1>1. PICK d \in Delays : Becomes(AppendTask(AddPending(SleepTask(d)), NextTask))
  BY DEF CallSleepAsync
<1>2. PICK h, K, t, k, g, x : /\ h = Heap /\ K = HeldIn(stack) /\ t = NextTask
                              /\ k = SleepTask(d) /\ g = AddPending(k) /\ x = AppendTask(g, t)
  OBVIOUS
<1>3. /\ HeapInv(h, K, Pooled, nextTimer) /\ nextTimer \in Int
      /\ nextTimer \in 1..(MaxTimers + 1) /\ h.task = task /\ ClockInv /\ K \subseteq Task
  BY <1>2, InvIs
<1>4. Asks(h, k)
  <2>1. k = [kind |-> "sleep", items |-> <<>>, onFulfilled |-> "none", onRejected |-> "none",
             result |-> Plain, due |-> now + d, id |-> 0,
             deps |-> 0, queued |-> FALSE, finished |-> FALSE, completed |-> FALSE]
    BY <1>2 DEF SleepTask, Blank
  <2>2. now + d \in Nat /\ 0 \in 0..MaxTimers
    BY <1>3, SchedulerAssumption, Sizes DEF ClockInv
  <2>3. k \in TaskType
    BY <2>1, <2>2 DEF TaskType, Plain
  <2>4. QED
    BY <2>1, <2>3 DEF Asks, Reactions
<1>5. /\ HeapInv(g, K \cup {t}, Pooled, nextTimer) /\ t \in Task /\ t \notin K /\ h.task[t].kind = "free"
      /\ StatusKept(h, g) /\ g.queues = h.queues
      /\ \A u \in Task \ {t} : g.task[u] = h.task[u]
      /\ g.task[t].kind = k.kind /\ g.task[t].deps = 0
      /\ g.task[t].completed = k.completed /\ Creates(h, NextPromise, t, g)
  <2>1. Created # Promise
    BY DEF CallSleepAsync
  <2>2. QED
    BY <2>1, <1>2, <1>3, <1>4, AddPendingKeeps
<1>6. HeapInv(x, K, Pooled, nextTimer) /\ StatusKept(h, x) /\ OnlyTask(h, x, t) /\ Same(g, x)
  <2>1. x = AppendTask(g, t) /\ OnlyTask(h, g, t) /\ nextTimer \in Int
    BY <1>2, <1>3, <1>5 DEF OnlyTask
  <2>2. t \in Task /\ t \notin K /\ HeapInv(g, K \cup {t}, Pooled, nextTimer)
        /\ g.task[t].deps = 0 /\ StatusKept(h, g)
    BY <1>5
  <2>3. QED
    BY <2>1, <2>2, QueuedAtOnce
<1>7. \A u \in K : x.task[u].kind \in {task[u].kind, "free"}
  BY <1>3, <1>5, <1>6 DEF OnlyTask
<1>8. Becomes(x) /\ UNCHANGED <<now, nextTimer, stack, exception, phase, poolVars>>
  BY <1>1, <1>2 DEF CallSleepAsync
<1>9. Opens
  <2>1. Creates(h, NextPromise, t, x)
    BY <1>5, <1>6, CreatesOn
  <2>2. Heap' = x
    BY <1>6, <1>8, BecomesIs DEF HeapInv
  <2>3. QED
    BY <2>1, <2>2, <1>2, <1>8 DEF Opens
<1>10. SchedulerInv'
  BY <1>2, <1>6, <1>7, <1>8, HeapOnly
<1>11. QED
  BY <1>9, <1>10

(* A step that takes a timer's or a sleep's task away.                     *)
Clears(h, K, t, g) ==
  /\ t \in Task /\ t \notin K /\ Alive(h.task[t]) /\ h.task[t].kind \in {"timer", "sleep"}
  /\ g.status = h.status /\ ~Alive(g.task[t])
  /\ \A u \in Task \ {t} : SameDuty(h.task[u], g.task[u])

(* clearTimeout takes its task from the timers' queue and frees it;        *)
(* nothing else points to a timer without a promise.                       *)
LEMMA CallClearTimeoutKeeps ==
  ASSUME SchedulerInv, CallClearTimeout
  PROVE  SchedulerInv' /\ \E t, g : Heap' = g /\ Clears(Heap, Held, t, g) /\ stack' = stack
<1>1. PICK I : /\ I \subseteq DOMAIN queues.timers /\ I # {}
               /\ Becomes(Release(Take(Heap, "timers", Min(I)), queues.timers[Min(I)]))
  <2>1. PICK id \in 0..MaxTimers :
          LET I == {i \in DOMAIN queues.timers : task[queues.timers[i]].id = id}
          IN /\ I # {}
             /\ Becomes(Release(Take(Heap, "timers", Min(I)), queues.timers[Min(I)]))
    BY DEF CallClearTimeout
  <2> DEFINE I == {i \in DOMAIN queues.timers : task[queues.timers[i]].id = id}
  <2>2. I \subseteq DOMAIN queues.timers
    OBVIOUS
  <2>3. I # {} /\ Becomes(Release(Take(Heap, "timers", Min(I)), queues.timers[Min(I)]))
    BY <2>1
  <2> HIDE DEF I
  <2>4. QED
    BY <2>2, <2>3
<1>2. PICK h, K, i, t, g, x : /\ h = Heap /\ K = HeldIn(stack) /\ i = Min(I)
                              /\ t = h.queues["timers"][i] /\ g = Take(h, "timers", i)
                              /\ x = Release(g, t)
  OBVIOUS
<1>3. /\ HeapInv(h, K, Pooled, nextTimer) /\ nextTimer \in Int /\ h \in HeapType
      /\ h.task = task /\ h.queues = queues /\ K \subseteq Task
  BY <1>2, InvIs
<1>4. "timers" \in QueueName /\ "timers" # "io" /\ i \in 1..Len(h.queues["timers"])
  <2>1. "timers" \in QueueName
    BY DEF QueueName
  <2>2. h.queues["timers"] \in Seq(Task)
    BY <2>1, <1>3, HeapIs
  <2>3. I \subseteq 1..Len(h.queues["timers"]) /\ I \subseteq Nat
    BY <2>2, <1>1, <1>3
  <2>4. i \in I
    BY <2>3, <1>1, <1>2, LeastIs
  <2>5. QED
    BY <2>1, <2>3, <2>4
<1>5. /\ HeapInv(g, K \cup {t}, Pooled, nextTimer) /\ Same(h, g)
      /\ t \in Task /\ t \notin K /\ h.task[t].kind # "free" /\ ~g.task[t].queued
      /\ h.task[t].kind \in Sources
  <2>1. PICK q, P, n : q = "timers" /\ P = Pooled /\ n = nextTimer
    OBVIOUS
  <2>2. TakesOut(h, q, i, t, g) /\ n \in Int /\ HeapInv(h, K, P, n)
    BY <2>1, <1>2, <1>3, <1>4 DEF TakesOut
  <2>3. /\ HeapInv(g, K \cup {t}, P, n) /\ Same(h, g)
        /\ t \in Task /\ t \notin K /\ h.task[t].kind # "free" /\ ~g.task[t].queued
        /\ q = "timers" => h.task[t].kind \in Sources
    BY <2>2, TakeOutKeeps
  <2>4. QED
    BY <2>1, <2>3
<1>6. PICK L : L = K \cup {t}
  OBVIOUS
<1>7. g \in HeapType /\ AllBut(g, t, L, Pooled, nextTimer)
  BY <1>5, <1>6 DEF AllBut, HeapInv
<1>8. WaitsAt(g.dependents, t) = {}
  <2>1. DepsInv(g, t) /\ WaitingInv(g, t, L)
    BY <1>5, <1>6 DEF HeapInv, TaskInv
  <2>2. g.task[t].kind \in Sources
    BY <1>5 DEF Same
  <2>3. Cardinality(WaitsAt(g.dependents, t)) = 0
    BY <2>1, <2>2 DEF DepsInv, WaitingInv
  <2>4. g.dependents \in [Promise -> Seq(Task)]
    BY <1>7, HeapIs
  <2>5. QED
    BY <2>3, <2>4, WaitsFinite, FS_EmptySet
<1>9. HeapInv(x, L \ {t}, Pooled, nextTimer) /\ x = WithTask(g, t, Blank)
  BY <1>2, <1>3, <1>5, <1>7, <1>8, ReleaseKeeps
<1>10. L \ {t} = K
  BY <1>5, <1>6
<1>11. /\ x.status = g.status /\ \A u \in Task \ {t} : x.task[u] = g.task[u]
       /\ x.task[t] = Blank
  BY <1>5, <1>7, <1>9, BlankIs, TaskSetIs
<1>12. StatusKept(h, x) /\ \A u \in K : x.task[u].kind \in {task[u].kind, "free"}
  BY <1>3, <1>5, <1>11 DEF StatusKept, Same
<1>13. Becomes(x) /\ UNCHANGED <<now, nextTimer, stack, exception, phase, poolVars>>
  BY <1>1, <1>2, <1>3 DEF CallClearTimeout
<1>14. SchedulerInv'
  BY <1>2, <1>9, <1>10, <1>12, <1>13, HeapOnly
<1>15. h.task[t].kind \in {"timer", "sleep"} /\ h.task[t].queued
  <2>1. PICK q : q = "timers" /\ q \in QueueName /\ q # "done" /\ i \in 1..Len(h.queues[q])
                 /\ t = h.queues[q][i]
    BY <1>2, <1>4
  <2>2. PlacedInv(h)
    BY <1>3 DEF HeapInv, QueuesInv
  <2>3. h.task[t].queued /\ q = QueueOf(h.task[t].kind)
    BY <2>1, <2>2 DEF PlacedInv
  <2>4. QueueOf("io") = "io"
    BY DEF QueueOf, Combinators
  <2>5. QED
    BY <2>1, <2>3, <2>4, <1>5 DEF Sources
<1>16. Clears(h, K, t, x)
  <2>1. Alive(h.task[t])
    <3>1. FinishedInv(h, t, K)
      BY <1>3, <1>5 DEF HeapInv, TaskInv
    <3>2. QED
      BY <3>1, <1>5, <1>15 DEF FinishedInv, Alive
  <2>2. ~Alive(x.task[t])
    BY <1>11 DEF Alive, Blank
  <2>3. x.status = h.status /\ \A u \in Task \ {t} : SameDuty(h.task[u], x.task[u])
    BY <1>5, <1>11 DEF Same, Lives
  <2>4. QED
    BY <2>1, <2>2, <2>3, <1>5, <1>15 DEF Clears
<1>17. Heap' = x
  BY <1>9, <1>13, BecomesIs DEF HeapInv
<1>18. QED
  BY <1>2, <1>13, <1>14, <1>16, <1>17 DEF Held

(* A step that leaves the pool alone.                                      *)
LEMMA PoolLeft ==
  ASSUME SchedulerInv, NEW x, Becomes(x), HeapInv(x, HeldIn(stack'), Pooled, nextTimer),
         FramesOf(stack', x), ClockInv', UNCHANGED <<nextTimer, poolVars>>
  PROVE  SchedulerInv'
<1>1. PoolOnceInv
  BY DEF SchedulerInv
<1>2. PoolOnceInv' /\ Pooled' = Pooled
  BY <1>1, PoolStays
<1>3. HeapInv(x, HeldIn(stack'), Pooled', nextTimer')
  BY <1>2
<1>4. QED
  BY <1>2, <1>3, Assemble

(* A step that leaves the heap and the pool alone.                         *)
Still == Heap' = Heap /\ Held' \subseteq Held
LEMMA StackOnly ==
  ASSUME SchedulerInv, UNCHANGED <<heapVars, nextTimer, poolVars>>, ClockInv',
         FramesOf(stack', Heap), HeldIn(stack') = HeldIn(stack)
  PROVE  SchedulerInv' /\ Still
<1>1. PICK h : h = Heap
  OBVIOUS
<1>2. HeapInv(h, HeldIn(stack), Pooled, nextTimer)
  BY <1>1, InvIs
<1>3. Becomes(h)
  BY <1>1 DEF Becomes, Heap, heapVars
<1>4. HeapInv(h, HeldIn(stack'), Pooled, nextTimer) /\ FramesOf(stack', h)
  BY <1>1, <1>2
<1>5. Still
  <2>1. Heap' = h
    BY <1>1, <1>3, InvIs, BecomesIs
  <2>2. QED
    BY <2>1, <1>1 DEF Still, Held
<1>6. QED
  BY <1>3, <1>4, <1>5, PoolLeft

(* Throwing, catching and the passing of time touch no task.               *)
LEMMA ThrowKeeps ==
  ASSUME SchedulerInv, Throw \/ Catch \/ Tick
  PROVE  SchedulerInv' /\ Still
<1>1. ClockInv'
  <2>1. ClockInv
    BY InvIs
  <2>2. CASE Throw \/ Catch
    BY <2>1, <2>2 DEF ClockInv, Throw, Catch
  <2>3. CASE Tick
    BY <2>1, <2>3, Sizes DEF ClockInv, Tick
  <2>4. QED
    BY <2>2, <2>3
<1>2. UNCHANGED <<heapVars, nextTimer, poolVars>> /\ stack' = stack
  BY DEF Throw, Catch, Tick
<1>3. FramesOf(stack', Heap) /\ HeldIn(stack') = HeldIn(stack)
  BY <1>2, InvIs
<1>4. QED
  BY <1>1, <1>2, <1>3, StackOnly

(* await pushes a drain that holds no task.                                *)
LEMMA CallAwaitKeeps ==
  ASSUME SchedulerInv, CallAwait
  PROVE  SchedulerInv' /\ Still
<1>1. PICK p \in Created :
        stack' = <<Drain("await", p, NoTask)>>
                 \o (IF stack = <<>> THEN stack ELSE [stack EXCEPT ![1].turns = @ + 1])
  BY DEF CallAwait
<1>2. PICK h, f, s, w : /\ h = Heap /\ f = Drain("await", p, NoTask) /\ w = stack'
                        /\ s = IF stack = <<>> THEN stack ELSE [stack EXCEPT ![1].turns = @ + 1]
  OBVIOUS
<1>3. FramesOf(stack, h) /\ ClockInv /\ h.status = status
  BY <1>2, InvIs
<1>4. FramesOf(s, h) /\ HeldIn(s) = HeldIn(stack)
  <2>1. CASE stack = <<>>
    BY <2>1, <1>2, <1>3
  <2>2. CASE stack # <<>>
    <3>1. s = [stack EXCEPT ![1].turns = @ + 1]
      BY <2>2, <1>2
    <3>2. QED
      BY <3>1, <2>2, <1>3, FramesTurned
  <2>3. QED
    BY <2>1, <2>2
<1>5. Fits(f, h) /\ f.task = NoTask
  <2>1. p \in Promise /\ h.status[p] # "absent"
    BY <1>3 DEF Created
  <2>2. f = [kind |-> "await", on |-> p, task |-> NoTask, turns |-> 0]
    BY <1>2 DEF Drain
  <2>3. QED
    BY <2>1, <2>2 DEF Fits, FrameType, Reactions
<1>6. f.task \notin HeldIn(s)
  BY <1>5 DEF HeldIn
<1>7. FramesOf(w, h) /\ HeldIn(w) = HeldIn(s) \cup ({f.task} \ {NoTask})
  <2>1. w = <<f>> \o s
    BY <1>1, <1>2
  <2>2. QED
    BY <2>1, <1>4, <1>5, <1>6, FramesPush
<1>8. UNCHANGED <<heapVars, nextTimer, poolVars>> /\ ClockInv'
  BY <1>3 DEF CallAwait, ClockInv
<1>9. FramesOf(stack', Heap) /\ HeldIn(stack') = HeldIn(stack)
  BY <1>2, <1>4, <1>5, <1>7
<1>10. QED
  BY <1>8, <1>9, StackOnly

(* The end of the program's main function pushes the last drain.           *)
LEMMA LeaveMainKeeps ==
  ASSUME SchedulerInv, LeaveMain
  PROVE  SchedulerInv' /\ Still
<1>1. PICK h, f, w : h = Heap /\ f = Drain("exit", Plain, NoTask) /\ w = stack'
  OBVIOUS
<1>2. stack = <<>> /\ stack' = <<f>> /\ w = <<f>> \o stack
  BY <1>1 DEF LeaveMain
<1>3. FramesOf(stack, h) /\ ClockInv
  BY <1>1, InvIs
<1>4. Fits(f, h) /\ f.task = NoTask /\ f.task \notin HeldIn(stack)
  <2>1. f = [kind |-> "exit", on |-> Plain, task |-> NoTask, turns |-> 0]
    BY <1>1 DEF Drain
  <2>2. QED
    BY <2>1 DEF Fits, FrameType, Reactions, HeldIn
<1>5. FramesOf(w, h) /\ HeldIn(w) = HeldIn(stack) \cup ({f.task} \ {NoTask})
  BY <1>2, <1>3, <1>4, FramesPush
<1>6. UNCHANGED <<heapVars, nextTimer, poolVars>> /\ ClockInv'
  BY <1>3 DEF LeaveMain, ClockInv
<1>7. FramesOf(stack', Heap) /\ HeldIn(stack') = HeldIn(stack)
  BY <1>1, <1>4, <1>5
<1>8. QED
  BY <1>6, <1>7, StackOnly

(* The end of a drain that leaves the heap alone.                          *)
LEMMA AwaitEndsKeeps ==
  ASSUME SchedulerInv, AwaitEnds \/ ExitDrainEnds
  PROVE  SchedulerInv' /\ Still
<1>1. PICK h : h = Heap
  OBVIOUS
<1>2. FramesOf(stack, h) /\ ClockInv
  BY <1>1, InvIs
<1>3. /\ stack # <<>> /\ Head(stack).kind \in {"await", "exit"} /\ stack' = Tail(stack)
      /\ UNCHANGED <<heapVars, now, nextTimer, poolVars>>
      /\ exception' \in BOOLEAN /\ phase' \in {phase, "stopping"}
  BY DEF AwaitEnds, ExitDrainEnds, DrainEnds, InDrain, Top, Tripped
<1>4. FramesOf(Tail(stack), h) /\ HeldIn(Tail(stack)) = HeldIn(stack)
  <2>1. Head(stack).task = NoTask
    <3>1. Fits(Head(stack), h)
      BY <1>2, <1>3, FramesTail
    <3>2. QED
      BY <3>1, <1>3 DEF Fits
  <2>2. QED
    BY <2>1, <1>2, <1>3, FramesTail
<1>5. ClockInv'
  BY <1>2, <1>3 DEF ClockInv
<1>6. FramesOf(stack', Heap) /\ HeldIn(stack') = HeldIn(stack)
  BY <1>1, <1>3, <1>4
<1>7. QED
  BY <1>3, <1>5, <1>6, StackOnly

(* A callback that returned a promise is followed by a drain that holds    *)
(* the callback's task until that promise settles.                         *)
LEMMA ReactionReturnsPromiseKeeps ==
  ASSUME SchedulerInv, ReactionReturnsPromise
  PROVE  SchedulerInv' /\ Still
<1>1. PICK q \in Created :
        stack' = <<Drain(task[Top.task].kind, q, Top.task)>> \o Tail(stack)
  BY DEF ReactionReturnsPromise
<1>2. PICK h, t, k, f, w : /\ h = Heap /\ t = Head(stack).task /\ k = task[t].kind
                           /\ f = Drain(k, q, t) /\ w = stack'
  OBVIOUS
<1>3. FramesOf(stack, h) /\ ClockInv /\ h.status = status /\ h.task = task
  BY <1>2, InvIs
<1>4. stack # <<>> /\ Head(stack).kind = "callback" /\ k \in Reactions
  BY <1>2 DEF ReactionReturnsPromise, Returning, Top, Reactions
<1>5. FramesOf(Tail(stack), h) /\ Head(stack) \in FrameType /\ Fits(Head(stack), h)
  BY <1>3, <1>4, FramesTail
<1>6. /\ t # NoTask /\ t \in Task /\ t \in HeldIn(stack)
      /\ HeldIn(Tail(stack)) = HeldIn(stack) \ {t}
  <2>1. t # NoTask
    BY <1>2, <1>4, <1>5 DEF Fits
  <2>2. QED
    BY <2>1, <1>2, <1>3, <1>4, FramesTail
<1>7. Fits(f, h) /\ f.task = t
  <2>1. q \in Promise /\ h.status[q] # "absent"
    BY <1>3 DEF Created
  <2>2. f = [kind |-> k, on |-> q, task |-> t, turns |-> 0]
    BY <1>2 DEF Drain
  <2>3. f.kind = k /\ f.on = q /\ f.task = t /\ f \in FrameType
    BY <2>1, <2>2, <1>4, <1>6 DEF FrameType, Reactions
  <2>4. h.task[t].kind = k
    BY <1>2, <1>3
  <2>5. QED
    BY <2>1, <2>3, <2>4, <1>4, <1>6 DEF Fits, Reactions
<1>8. FramesOf(w, h) /\ HeldIn(w) = HeldIn(Tail(stack)) \cup ({f.task} \ {NoTask})
  <2>1. w = <<f>> \o Tail(stack) /\ f.task \notin HeldIn(Tail(stack))
    BY <1>1, <1>2, <1>6, <1>7 DEF Top
  <2>2. QED
    BY <2>1, <1>5, <1>7, FramesPush
<1>9. UNCHANGED <<heapVars, nextTimer, poolVars>> /\ ClockInv'
  BY <1>3 DEF ReactionReturnsPromise, ClockInv
<1>10. FramesOf(stack', Heap) /\ HeldIn(stack') = HeldIn(stack)
  BY <1>2, <1>6, <1>7, <1>8
<1>11. QED
  BY <1>9, <1>10, StackOnly

(* What is no longer in the pool.                                          *)
LEMMA PoolShrinks ==
  ASSUME NEW h, NEW K, NEW P, NEW n, HeapInv(h, K, P, n), NEW Q, Q \subseteq P
  PROVE  HeapInv(h, K, Q, n)
BY DEF HeapInv, PooledInv

(* A step of the pool that takes nothing into it and touches no task       *)
(* keeps the invariant.                                                    *)
LEMMA PoolOnly ==
  ASSUME SchedulerInv, UNCHANGED <<heapVars, now, nextTimer, stack, exception>>,
         Pooled' \subseteq Pooled, PoolOnceInv',
         phase' \in {phase, "joining", "stopped"}
  PROVE  SchedulerInv' /\ Still
<1>1. PICK h : h = Heap
  OBVIOUS
<1>2. /\ HeapInv(h, HeldIn(stack), Pooled, nextTimer) /\ FramesOf(stack, h) /\ ClockInv
  BY <1>1, InvIs
<1>3. Becomes(h)
  BY <1>1 DEF Becomes, Heap, heapVars
<1>4. HeapInv(h, HeldIn(stack), Pooled', nextTimer)
  BY <1>2, PoolShrinks
<1>5. HeapInv(h, HeldIn(stack'), Pooled', nextTimer') /\ FramesOf(stack', h) /\ ClockInv'
  BY <1>2, <1>4 DEF ClockInv
<1>6. Still
  <2>1. Heap' = h
    BY <1>1, <1>3, InvIs, BecomesIs
  <2>2. QED
    BY <2>1, <1>1 DEF Still, Held
<1>7. QED
  BY <1>3, <1>5, <1>6, Assemble

(* A thread takes the oldest task from the pool's queue into its hands.    *)
LEMMA PopTaskKeeps ==
  ASSUME SchedulerInv, NEW w \in IoThread, PopTask(w)
  PROVE  SchedulerInv' /\ Still
<1>1. PICK q, t, r : q = pool.queue /\ t = Head(q) /\ r = Tail(q)
  OBVIOUS
<1>2. /\ pool \in [started : BOOLEAN, stopping : BOOLEAN, queue : Seq(Task)]
      /\ hand \in [IoThread -> Task \union {Idle, Absent}]
      /\ \A i, j \in 1..Len(q) : q[i] = q[j] => i = j
      /\ \A v, x \in IoThread : hand[v] = hand[x] /\ hand[v] \in Task => v = x
      /\ \A v \in IoThread : hand[v] \notin ToSet(q)
  BY <1>1 DEF SchedulerInv, PoolOnceInv
<1>3. q \in Seq(Task) /\ q # <<>> /\ hand[w] = Idle
  BY <1>1, <1>2 DEF PopTask
<1>4. /\ hand' = [hand EXCEPT ![w] = t]
      /\ pool' = [pool EXCEPT !.queue = r]
      /\ UNCHANGED <<heapVars, now, nextTimer, stack, exception, phase>>
  BY <1>1 DEF PopTask
<1>5. /\ r \in Seq(Task) /\ t \in Task /\ Len(r) = Len(q) - 1 /\ Len(q) \in Nat \ {0}
      /\ t = q[1] /\ \A i \in 1..Len(r) : r[i] = q[i + 1]
  BY <1>1, <1>3
<1>6. ToSet(q) = {t} \cup ToSet(r) /\ t \notin ToSet(r)
  <2>1. ToSet(q) = {q[i] : i \in 1..Len(q)} /\ ToSet(r) = {r[i] : i \in 1..Len(r)}
    BY <1>3, <1>5, SMTT(30) DEF ToSet
  <2>2. \A i \in 1..Len(r) : i + 1 \in 1..Len(q) /\ i + 1 # 1
    BY <1>5
  <2>3. \A i \in 1..Len(q) : i # 1 => i - 1 \in 1..Len(r) /\ q[i] = r[i - 1]
    BY <1>5
  <2>4. 1 \in 1..Len(q)
    BY <1>5
  <2>5. ToSet(q) \subseteq {t} \cup ToSet(r)
    BY <2>1, <2>3, <1>5
  <2>6. {t} \cup ToSet(r) \subseteq ToSet(q)
    BY <2>1, <2>2, <2>4, <1>5
  <2>7. t \notin ToSet(r)
    BY <2>1, <2>2, <2>4, <1>2, <1>5
  <2>8. QED
    BY <2>5, <2>6, <2>7
<1>7. hand'[w] = t /\ \A v \in IoThread \ {w} : hand'[v] = hand[v]
  BY <1>2, <1>4
<1>8. pool'.queue = r
  BY <1>2, <1>4
<1>9. Pooled' \subseteq Pooled
  <2>1. Pooled' = ToSet(r) \cup ({hand'[v] : v \in IoThread} \ {Idle, Absent})
    BY <1>8 DEF Pooled, InHands
  <2>2. Pooled = ToSet(q) \cup ({hand[v] : v \in IoThread} \ {Idle, Absent})
    BY <1>1 DEF Pooled, InHands
  <2>3. QED
    BY <2>1, <2>2, <1>6, <1>7
<1>10. PoolOnceInv'
  <2>1. pool' \in [started : BOOLEAN, stopping : BOOLEAN, queue : Seq(Task)]
    BY <1>2, <1>4, <1>5
  <2>2. hand' \in [IoThread -> Task \union {Idle, Absent}]
    BY <1>2, <1>4, <1>5
  <2>3. \A i, j \in 1..Len(r) : r[i] = r[j] => i = j
    <3> TAKE i, j \in 1..Len(r)
    <3>1. i + 1 \in 1..Len(q) /\ j + 1 \in 1..Len(q)
      BY <1>5
    <3>2. QED
      BY <3>1, <1>2, <1>5
  <2>4. \A v \in IoThread : hand[v] # t
    BY <1>2, <1>6
  <2>5. \A v, x \in IoThread : hand'[v] = hand'[x] /\ hand'[v] \in Task => v = x
    BY <2>4, <1>2, <1>7
  <2>6. \A v \in IoThread : hand'[v] \notin ToSet(r)
    BY <1>2, <1>6, <1>7
  <2>7. QED
    BY <2>1, <2>2, <2>3, <2>5, <2>6, <1>8 DEF PoolOnceInv
<1>11. QED
  BY <1>4, <1>9, <1>10, PoolOnly

(* A thread leaves a pool that is stopping and has no task left.           *)
LEMMA LeavePoolKeeps ==
  ASSUME SchedulerInv, NEW w \in IoThread, LeavePool(w)
  PROVE  SchedulerInv' /\ Still
<1>1. PoolOnceInv
  BY DEF SchedulerInv
<1>2. /\ hand' = [hand EXCEPT ![w] = Absent] /\ pool' = pool
      /\ UNCHANGED <<heapVars, now, nextTimer, stack, exception, phase>>
      /\ pool.queue = <<>>
  BY DEF LeavePool
<1>3. hand \in [IoThread -> Task \union {Idle, Absent}]
  BY <1>1 DEF PoolOnceInv
<1>4. hand'[w] = Absent /\ \A v \in IoThread \ {w} : hand'[v] = hand[v]
  BY <1>2, <1>3
<1>5. Pooled' \subseteq Pooled
  <2>1. InHands' \subseteq InHands
    BY <1>4 DEF InHands
  <2>2. QED
    BY <2>1, <1>2 DEF Pooled
<1>6. Absent \notin Task /\ ToSet(pool.queue) = {}
  BY <1>2, Sizes DEF Absent, ToSet
<1>7. PoolOnceInv'
  <2>1. hand' \in [IoThread -> Task \union {Idle, Absent}]
    BY <1>2, <1>3
  <2>2. \A v, x \in IoThread : hand'[v] = hand'[x] /\ hand'[v] \in Task => v = x
    BY <1>1, <1>4, <1>6 DEF PoolOnceInv
  <2>3. \A v \in IoThread : hand'[v] \notin ToSet(pool'.queue)
    BY <1>2, <1>6
  <2>4. QED
    BY <2>1, <2>2, <2>3, <1>1, <1>2 DEF PoolOnceInv
<1>8. QED
  BY <1>2, <1>5, <1>7, PoolOnly

(* Stopping the pool takes no task from it.                                *)
LEMMA StopPoolKeeps ==
  ASSUME SchedulerInv, StopPool
  PROVE  SchedulerInv' /\ Still
<1>1. PoolOnceInv
  BY DEF SchedulerInv
<1>2. /\ pool' = [pool EXCEPT !.stopping = pool.started] /\ hand' = hand
      /\ UNCHANGED <<heapVars, now, nextTimer, stack, exception>>
      /\ phase' \in {phase, "joining", "stopped"}
  BY DEF StopPool
<1>3. pool \in [started : BOOLEAN, stopping : BOOLEAN, queue : Seq(Task)]
  BY <1>1 DEF PoolOnceInv
<1>4. /\ pool' \in [started : BOOLEAN, stopping : BOOLEAN, queue : Seq(Task)]
      /\ pool'.queue = pool.queue
  BY <1>2, <1>3
<1>5. Pooled' \subseteq Pooled
  BY <1>2, <1>4 DEF Pooled, InHands
<1>6. PoolOnceInv'
  BY <1>1, <1>2, <1>4 DEF PoolOnceInv
<1>7. QED
  BY <1>2, <1>5, <1>6, PoolOnly

(* Joining the pool's threads takes no task from it.                       *)
LEMMA JoinPoolKeeps ==
  ASSUME SchedulerInv, JoinPool
  PROVE  SchedulerInv' /\ Still
<1>1. PoolOnceInv
  BY DEF SchedulerInv
<1>2. /\ pool' = [started |-> FALSE, stopping |-> FALSE, queue |-> <<>>] /\ hand' = hand
      /\ UNCHANGED <<heapVars, now, nextTimer, stack, exception>>
      /\ phase' \in {phase, "joining", "stopped"}
  BY DEF JoinPool
<1>3. pool'.queue = <<>> /\ <<>> \in Seq(Task) /\ ToSet(pool'.queue) = {} /\ Len(pool'.queue) = 0
  BY <1>2 DEF ToSet
<1>4. pool' \in [started : BOOLEAN, stopping : BOOLEAN, queue : Seq(Task)]
  BY <1>2, <1>3
<1>5. Pooled' \subseteq Pooled
  BY <1>2, <1>3 DEF Pooled, InHands
<1>6. PoolOnceInv'
  BY <1>1, <1>2, <1>3, <1>4 DEF PoolOnceInv
<1>7. QED
  BY <1>2, <1>5, <1>6, PoolOnly

(* A thread completes the operation in its hands and lets it go; the       *)
(* scheduler still has it in the queue of operations.                      *)
LEMMA RunTaskKeeps ==
  ASSUME SchedulerInv, NEW w \in IoThread, RunTask(w)
  PROVE  SchedulerInv' /\ \E g : Heap' = g /\ Same(Heap, g) /\ stack' = stack
<1>1. PICK h, K, t, P, Q : /\ h = Heap /\ K = HeldIn(stack) /\ t = hand[w]
                           /\ P = Pooled /\ Q = Pooled'
  OBVIOUS
<1>2. /\ HeapInv(h, K, P, nextTimer) /\ h \in HeapType /\ h.task = task /\ h.status = status
      /\ h.dependents = dependents /\ h.queues = queues
      /\ FramesOf(stack, h) /\ PoolOnceInv /\ ClockInv /\ nextTimer \in Int
  BY <1>1, InvIs
<1>3. t \in Task /\ task' = [task EXCEPT ![t].completed = TRUE]
      /\ hand' = [hand EXCEPT ![w] = Idle] /\ pool' = pool
      /\ UNCHANGED <<status, dependents, queues, now, nextTimer, stack, exception, phase>>
  BY <1>1 DEF RunTask
<1>4. hand \in [IoThread -> Task \union {Idle, Absent}]
  BY <1>2 DEF PoolOnceInv
<1>5. hand'[w] = Idle /\ \A v \in IoThread \ {w} : hand'[v] = hand[v]
  BY <1>3, <1>4
<1>6. Idle \notin Task
  BY Sizes DEF Idle
<1>7. Q \subseteq P /\ t \notin Q
  <2>1. Q = ToSet(pool.queue) \cup ({hand'[v] : v \in IoThread} \ {Idle, Absent})
    BY <1>1, <1>3 DEF Pooled, InHands
  <2>2. P = ToSet(pool.queue) \cup ({hand[v] : v \in IoThread} \ {Idle, Absent})
    BY <1>1 DEF Pooled, InHands
  <2>3. t \notin ToSet(pool.queue) /\ \A v \in IoThread \ {w} : hand[v] # t
    BY <1>1, <1>2, <1>3 DEF PoolOnceInv
  <2>4. QED
    BY <2>1, <2>2, <2>3, <1>3, <1>5, <1>6
<1>8. PoolOnceInv'
  <2>1. hand' \in [IoThread -> Task \union {Idle, Absent}]
    BY <1>3, <1>4
  <2>2. \A v, x \in IoThread : hand'[v] = hand'[x] /\ hand'[v] \in Task => v = x
    BY <1>2, <1>5, <1>6 DEF PoolOnceInv
  <2>3. pool.queue \in Seq(Task)
    BY <1>2 DEF PoolOnceInv
  <2>4. ToSet(pool.queue) \subseteq Task
    BY <2>3 DEF ToSet
  <2>5. \A v \in IoThread : hand'[v] \notin ToSet(pool'.queue)
    BY <2>4, <1>2, <1>3, <1>5, <1>6 DEF PoolOnceInv
  <2>6. QED
    BY <2>1, <2>2, <2>5, <1>2, <1>3 DEF PoolOnceInv
<1>9. PICK r, k, g : /\ r = h.task[t] /\ k = [r EXCEPT !.completed = TRUE]
                     /\ g = WithTask(h, t, k)
  OBVIOUS
<1>10. r \in TaskType
  BY <1>2, <1>3, <1>9, HeapIs
<1>11. /\ k \in TaskType /\ k.kind = r.kind /\ k.deps = r.deps /\ k.items = r.items
       /\ k.result = r.result /\ k.id = r.id /\ k.queued = r.queued /\ k.finished = r.finished
       /\ k.onFulfilled = r.onFulfilled /\ k.onRejected = r.onRejected
  BY <1>9, <1>10 DEF TaskType
<1>12. /\ g \in HeapType /\ g.status = h.status /\ g.dependents = h.dependents
       /\ g.queues = h.queues
       /\ g.task[t] = k /\ \A u \in Task \ {t} : g.task[u] = h.task[u]
  <2>1. h \in HeapType /\ t \in Task /\ k \in TaskType
    BY <1>2, <1>3, <1>11
  <2>2. /\ WithTask(h, t, k) \in HeapType /\ WithTask(h, t, k).status = h.status
        /\ WithTask(h, t, k).dependents = h.dependents
        /\ WithTask(h, t, k).queues = h.queues
        /\ WithTask(h, t, k).task[t] = k
        /\ \A u \in Task \ {t} : WithTask(h, t, k).task[u] = h.task[u]
    BY <2>1, TaskSetIs
  <2>3. QED
    BY <2>2, <1>9
<1>13. Becomes(g)
  <2>1. g.task = [h.task EXCEPT ![t] = k]
    BY <1>2, <1>9, HeapIs DEF WithTask
  <2>2. [h.task EXCEPT ![t].completed = TRUE] = [h.task EXCEPT ![t] = k]
    BY <1>9
  <2>3. task' = g.task
    BY <2>1, <2>2, <1>2, <1>3
  <2>4. QED
    BY <2>3, <1>2, <1>3, <1>12 DEF Becomes
<1>14. QueuesInv(g) /\ PooledInv(g, Q)
  <2>1. QueuesInv(h) /\ PooledInv(h, P)
    BY <1>2 DEF HeapInv
  <2>2. \A u \in Task : g.task[u].queued = h.task[u].queued /\ g.task[u].kind = h.task[u].kind
    BY <1>9, <1>11, <1>12
  <2>3. \A u \in Q : u \in Task /\ h.task[u].queued => g.task[u].completed = h.task[u].completed
    BY <1>7, <1>12
  <2>4. QED
    BY <2>1, <2>2, <2>3, <1>2, <1>7, <1>12, QueuesStay
<1>15. \A u \in Task : TaskInv(g, u, K, nextTimer)
  <2>1. \A u \in Task : TaskInv(h, u, K, nextTimer)
    BY <1>2 DEF HeapInv
  <2>2. \A u \in Task \ {t} : TaskInv(g, u, K, nextTimer)
    <3>1. OnlyAt(h, g, t, K, K) /\ StatusKept(h, g)
      BY <1>12 DEF OnlyAt, StatusKept
    <3>2. KeyKept(h, g, t)
      <4>1. KeyOf(k) = KeyOf(r)
        BY <1>11 DEF KeyOf
      <4>2. KeyOf(g.task[t]) = KeyOf(h.task[t]) /\ g.task[t].kind = h.task[t].kind
        BY <4>1, <1>9, <1>11, <1>12
      <4>3. QED
        BY <4>2 DEF KeyKept
    <3>3. nextTimer <= nextTimer /\ \A u \in Task \ {t} : TaskInv(h, u, K, nextTimer)
      BY <2>1, <1>2
    <3>4. QED
      BY <3>1, <3>2, <3>3, <1>2, <1>12, OthersKeep
  <2>3. TaskInv(g, t, K, nextTimer)
    <3>1. /\ DepsInv(h, t) /\ FreeInv(h, t, K) /\ FinishedInv(h, t, K) /\ HeldInv(h, t, K)
          /\ WaitingInv(h, t, K) /\ InputInv(h, t) /\ CreatedInv(h, t) /\ KeyInv(h, t, nextTimer)
      BY <2>1, <1>3 DEF TaskInv
    <3>2. DepsInv(g, t) /\ InputInv(g, t) /\ CreatedInv(g, t) /\ KeyInv(g, t, nextTimer)
      BY <3>1, <1>3, <1>9, <1>11, <1>12, RecordKeeps
    <3>3. FreeInv(g, t, K) /\ FinishedInv(g, t, K) /\ HeldInv(g, t, K) /\ WaitingInv(g, t, K)
      <4>1. /\ g.task[t].kind = h.task[t].kind /\ g.task[t].deps = h.task[t].deps
            /\ g.task[t].items = h.task[t].items /\ g.task[t].queued = h.task[t].queued
            /\ g.task[t].finished = h.task[t].finished
        BY <1>9, <1>11, <1>12
      <4>2. FreeInv(g, t, K) /\ FinishedInv(g, t, K)
        BY <3>1, <4>1 DEF FreeInv, FinishedInv
      <4>3. HeldInv(g, t, K)
        BY <3>1, <4>1 DEF HeldInv
      <4>4. WaitingInv(g, t, K)
        BY <3>1, <4>1 DEF WaitingInv
      <4>5. QED
        BY <4>2, <4>3, <4>4
    <3>4. QED
      BY <3>2, <3>3 DEF TaskInv
  <2>4. QED
    BY <2>2, <2>3
<1>16. HeapInv(g, K, Q, nextTimer)
  BY <1>12, <1>14, <1>15 DEF HeapInv
<1>17. FramesOf(stack, g)
  <2>1. HeldIn(stack) \subseteq Task
    BY InvIs
  <2>2. \A u \in HeldIn(stack) : g.task[u].kind = h.task[u].kind
    BY <2>1, <1>9, <1>11, <1>12
  <2>3. StatusKept(h, g)
    BY <1>12 DEF StatusKept
  <2>4. QED
    BY <2>2, <2>3, <1>2, FramesStay
<1>18. HeapInv(g, HeldIn(stack'), Pooled', nextTimer') /\ FramesOf(stack', g) /\ ClockInv'
  BY <1>1, <1>2, <1>3, <1>16, <1>17 DEF ClockInv
<1>19. SchedulerInv'
  BY <1>8, <1>13, <1>18, Assemble
<1>20. Heap' = g
  BY <1>12, <1>13, BecomesIs
<1>21. Same(h, g)
  <2>1. SameBut(r, k)
    BY <1>11 DEF SameBut
  <2>2. SameBut(h.task[t], g.task[t])
    BY <2>1, <1>9, <1>12
  <2>3. g.status = h.status /\ \A u \in Task \ {t} : g.task[u] = h.task[u]
    BY <1>12
  <2>4. QED
    BY <2>2, <2>3, SameIs
<1>22. QED
  BY <1>1, <1>3, <1>19, <1>20, <1>21

(* The pool after the call: what is in it was, or is the new task.         *)
Grows(t) ==
  /\ pool' \in {pool, PoolPush(t)}
  /\ \A w \in IoThread : hand'[w] \in {hand[w], Idle, Absent}
  /\ hand' \in [IoThread -> Task \union {Idle, Absent}]

(* A new operation is pooled at most once: in the pool's queue when it     *)
(* was accepted, nowhere otherwise.                                        *)
LEMMA PoolGrows ==
  ASSUME PoolOnceInv, NEW t \in Task, t \notin Pooled, Grows(t)
  PROVE  /\ PoolOnceInv' /\ Pooled' \subseteq Pooled \cup {t}
         /\ pool' = pool => Pooled' \subseteq Pooled
<1>1. PICK q, r : q = pool.queue /\ r = pool'.queue
  OBVIOUS
<1>2. /\ pool \in [started : BOOLEAN, stopping : BOOLEAN, queue : Seq(Task)]
      /\ q \in Seq(Task) /\ hand \in [IoThread -> Task \union {Idle, Absent}]
      /\ \A i, j \in 1..Len(q) : q[i] = q[j] => i = j
      /\ \A v, x \in IoThread : hand[v] = hand[x] /\ hand[v] \in Task => v = x
      /\ \A v \in IoThread : hand[v] \notin ToSet(q)
  BY <1>1 DEF PoolOnceInv
<1>3. /\ pool' \in [started : BOOLEAN, stopping : BOOLEAN, queue : Seq(Task)]
      /\ r \in {q, Append(q, t)} /\ (pool' = pool => r = q)
  <2>1. CASE pool' = pool
    BY <2>1, <1>1, <1>2
  <2>2. CASE pool' = PoolPush(t)
    <3>1. Append(q, t) \in Seq(Task)
      BY <1>2
    <3>2. pool' = [pool EXCEPT !.started = TRUE, !.queue = Append(q, t)]
      BY <2>2, <1>1 DEF PoolPush
    <3>3. QED
      BY <3>1, <3>2, <1>1, <1>2
  <2>3. QED
    BY <2>1, <2>2 DEF Grows
<1>4. t \notin ToSet(q) /\ Pooled = ToSet(q) \cup ({hand[v] : v \in IoThread} \ {Idle, Absent})
  BY <1>1 DEF Pooled, InHands
<1>5. Idle \notin Task /\ Absent \notin Task
  BY Sizes DEF Idle, Absent
<1>6. t \notin {hand[v] : v \in IoThread}
  BY <1>4, <1>5
<1>7. /\ ToSet(r) \subseteq ToSet(q) \cup {t}
      /\ \A i, j \in 1..Len(r) : r[i] = r[j] => i = j
  <2>1. CASE r = q
    BY <2>1, <1>2
  <2>2. CASE r = Append(q, t)
    <3>1. ToSet(q) = {q[i] : i \in 1..Len(q)}
      BY <1>2 DEF ToSet
    <3>2. Len(r) = Len(q) + 1 /\ \A i \in 1..Len(r) : r[i] = IF i = Len(q) + 1 THEN t ELSE q[i]
      BY <2>2, <1>2
    <3>3. Len(q) \in Nat /\ \A i \in 1..Len(r) : i # Len(q) + 1 => i \in 1..Len(q)
      BY <3>2, <1>2
    <3>4. ToSet(r) = {r[i] : i \in 1..Len(r)}
      <4>1. r \in Seq(Task)
        BY <2>2, <1>2
      <4>2. QED
        BY <4>1 DEF ToSet
    <3>5. ToSet(r) \subseteq ToSet(q) \cup {t}
      BY <3>1, <3>2, <3>3, <3>4
    <3>6. \A i \in 1..Len(q) : q[i] # t
      BY <3>1, <1>4
    <3>7. \A i, j \in 1..Len(r) : r[i] = r[j] => i = j
      BY <3>2, <3>3, <3>6, <1>2
    <3>8. QED
      BY <3>5, <3>7
  <2>3. QED
    BY <2>1, <2>2, <1>3
<1>8. \A w \in IoThread : hand'[w] \in {hand[w], Idle, Absent}
  BY DEF Grows
<1>9. Pooled' = ToSet(r) \cup ({hand'[v] : v \in IoThread} \ {Idle, Absent})
  BY <1>1 DEF Pooled, InHands
<1>10. Pooled' \subseteq Pooled \cup {t} /\ (pool' = pool => Pooled' \subseteq Pooled)
  <2>1. ({hand'[v] : v \in IoThread} \ {Idle, Absent})
          \subseteq ({hand[v] : v \in IoThread} \ {Idle, Absent})
    BY <1>8
  <2>2. pool' = pool => ToSet(r) \subseteq ToSet(q)
    BY <1>3
  <2>3. QED
    BY <2>1, <2>2, <1>4, <1>7, <1>9
<1>11. PoolOnceInv'
  <2>1. \A v, x \in IoThread : hand'[v] = hand'[x] /\ hand'[v] \in Task => v = x
    BY <1>2, <1>5, <1>8
  <2>2. ASSUME NEW v \in IoThread PROVE hand'[v] \notin ToSet(r)
    <3>1. ToSet(q) \subseteq Task
      BY <1>2 DEF ToSet
    <3>2. hand[v] \notin ToSet(q) \cup {t}
      BY <1>2, <1>6
    <3>3. Idle \notin ToSet(q) \cup {t} /\ Absent \notin ToSet(q) \cup {t}
      BY <3>1, <1>5
    <3>4. QED
      BY <3>2, <3>3, <1>7, <1>8
  <2>3. QED
    BY <2>1, <2>2, <1>1, <1>3, <1>7 DEF PoolOnceInv, Grows
<1>12. QED
  BY <1>10, <1>11

(* An asynchronous operation: a task in the queue of operations and, if    *)
(* a thread could be started, in the pool.                                 *)
LEMMA CallIoKeeps ==
  ASSUME SchedulerInv, CallIo
  PROVE  SchedulerInv' /\ Opens
<1>1. PICK n \in PoolStarts :
        /\ Becomes(AppendTask(AddPending(IoTask(n)), NextTask))
        /\ pool' = IF n = 0 THEN pool ELSE PoolPush(NextTask)
        /\ hand' = IF pool.started THEN hand
                   ELSE [w \in IoThread |-> IF w <= n THEN Idle ELSE Absent]
  BY DEF CallIo
<1>2. PICK h, K, t, k, g, x : /\ h = Heap /\ K = HeldIn(stack) /\ t = NextTask
                              /\ k = IoTask(n) /\ g = AddPending(k) /\ x = AppendTask(g, t)
  OBVIOUS
<1>3. /\ HeapInv(h, K, Pooled, nextTimer) /\ nextTimer \in Int /\ h \in HeapType
      /\ nextTimer \in 1..(MaxTimers + 1) /\ h.task = task /\ ClockInv /\ PoolOnceInv
      /\ FramesOf(stack, h) /\ K \subseteq Task
  BY <1>2, InvIs
<1>4. /\ Asks(h, k) /\ k.kind = "io" /\ k.completed = (n = 0)
  <2>1. k = [kind |-> "io", items |-> <<>>, onFulfilled |-> "none", onRejected |-> "none",
             result |-> Plain, due |-> 0, id |-> 0,
             deps |-> 0, queued |-> FALSE, finished |-> FALSE, completed |-> n = 0]
    BY <1>2 DEF IoTask, Blank
  <2>2. 0 \in 0..MaxTimers
    BY Sizes
  <2>3. k \in TaskType
    BY <2>1, <2>2 DEF TaskType, Plain
  <2>4. QED
    BY <2>1, <2>3 DEF Asks, Reactions
<1>5. /\ HeapInv(g, K \cup {t}, Pooled, nextTimer) /\ t \in Task /\ t \notin K /\ h.task[t].kind = "free"
      /\ StatusKept(h, g) /\ g.queues = h.queues
      /\ \A u \in Task \ {t} : g.task[u] = h.task[u]
      /\ g.task[t].kind = "io" /\ g.task[t].deps = 0
      /\ g.task[t].completed = (n = 0) /\ Creates(h, NextPromise, t, g)
  <2>1. Created # Promise
    BY DEF CallIo
  <2>2. QED
    BY <2>1, <1>2, <1>3, <1>4, AddPendingKeeps
<1>6. HeapInv(x, K, Pooled, nextTimer) /\ StatusKept(h, x) /\ OnlyTask(h, x, t)
      /\ QueuedAs(g, x, t, "io") /\ Same(g, x)
  <2>1. x = AppendTask(g, t) /\ OnlyTask(h, g, t) /\ nextTimer \in Int
    BY <1>2, <1>3, <1>5 DEF OnlyTask
  <2>2. t \in Task /\ t \notin K /\ HeapInv(g, K \cup {t}, Pooled, nextTimer)
        /\ g.task[t].deps = 0 /\ StatusKept(h, g)
    BY <1>5
  <2>3. QueueOf(g.task[t].kind) = "io"
    BY <1>5 DEF QueueOf, Combinators
  <2>4. HeapInv(x, K, Pooled, nextTimer) /\ StatusKept(h, x) /\ OnlyTask(h, x, t)
        /\ QueuedAs(g, x, t, QueueOf(g.task[t].kind)) /\ Same(g, x)
    BY <2>1, <2>2, QueuedAtOnce
  <2>5. QED
    BY <2>3, <2>4
<1>7. t \notin Pooled
  <2>1. \A u \in Pooled : h.task[u].kind = "io"
    BY <1>3 DEF HeapInv, PooledInv
  <2>2. QED
    BY <2>1, <1>5
<1>8. Grows(t)
  <2>1. pool' \in {pool, PoolPush(t)}
    BY <1>1, <1>2
  <2>2. hand \in [IoThread -> Task \union {Idle, Absent}]
    BY <1>3 DEF PoolOnceInv
  <2>3. CASE pool.started
    BY <2>1, <2>2, <2>3, <1>1 DEF Grows
  <2>4. CASE ~pool.started
    <3>1. hand' = [w \in IoThread |-> IF w <= n THEN Idle ELSE Absent]
      BY <2>4, <1>1
    <3>2. QED
      BY <2>1, <3>1 DEF Grows
  <2>5. QED
    BY <2>3, <2>4
<1>9. /\ PoolOnceInv' /\ Pooled' \subseteq Pooled \cup {t}
      /\ pool' = pool => Pooled' \subseteq Pooled
  BY <1>3, <1>5, <1>7, <1>8, PoolGrows
<1>10. HeapInv(x, K, Pooled', nextTimer)
  <2>1. CASE n = 0
    BY <2>1, <1>1, <1>6, <1>9, PoolShrinks
  <2>2. CASE n # 0
    <3>1. PICK r, s : r = g.task[t] /\ s = g.queues["io"]
      OBVIOUS
    <3>2. g \in HeapType /\ "io" \in QueueName
      BY <1>5 DEF HeapInv, QueueName
    <3>3. r \in TaskType /\ s \in Seq(Task)
      BY <3>1, <3>2, <1>5, HeapIs
    <3>4. x.task[t] = [r EXCEPT !.queued = TRUE] /\ x.queues["io"] = Append(s, t)
      BY <3>1, <1>6 DEF QueuedAs
    <3>5. x.task[t].kind = "io" /\ ~x.task[t].completed
      BY <3>1, <3>3, <3>4, <1>5, <2>2 DEF TaskType
    <3>6. Len(s) + 1 \in 1..Len(x.queues["io"]) /\ x.queues["io"][Len(s) + 1] = t
      BY <3>3, <3>4, <1>5
    <3>7. PooledInv(x, Pooled \cup {t})
      BY <3>5, <3>6, <1>6 DEF HeapInv, PooledInv
    <3>8. HeapInv(x, K, Pooled \cup {t}, nextTimer)
      BY <3>7, <1>6 DEF HeapInv
    <3>9. QED
      BY <3>8, <1>9, PoolShrinks
  <2>3. QED
    BY <2>1, <2>2
<1>11. Becomes(x) /\ UNCHANGED <<now, nextTimer, stack, exception, phase>>
  BY <1>1, <1>2 DEF CallIo
<1>12. FramesOf(stack, x)
  <2>1. \A u \in HeldIn(stack) : x.task[u].kind \in {h.task[u].kind, "free"}
    BY <1>2, <1>3, <1>5, <1>6 DEF OnlyTask
  <2>2. QED
    BY <2>1, <1>2, <1>3, <1>6, FramesFade
<1>13. HeapInv(x, HeldIn(stack'), Pooled', nextTimer') /\ FramesOf(stack', x) /\ ClockInv'
  BY <1>2, <1>3, <1>10, <1>11, <1>12 DEF ClockInv
<1>14. Opens
  <2>1. Creates(h, NextPromise, t, x)
    BY <1>5, <1>6, CreatesOn
  <2>2. Heap' = x
    BY <1>6, <1>11, BecomesIs DEF HeapInv
  <2>3. QED
    BY <2>1, <2>2, <1>2, <1>11 DEF Opens
<1>15. SchedulerInv'
  BY <1>9, <1>11, <1>13, Assemble
<1>16. QED
  BY <1>14, <1>15

(* A turn of a drain.                                                      *)
LEMMA TurnedKeeps ==
  ASSUME SchedulerInv, stack # <<>>, NEW x, Becomes(x),
         HeapInv(x, HeldIn(stack), Pooled, nextTimer),
         NEW g, Same(Heap, g), Fades(g, x), StatusKept(g, x),
         stack' = Turned, UNCHANGED <<now, nextTimer, exception, phase, poolVars>>
  PROVE  SchedulerInv'
<1>1. PICK h, w : h = Heap /\ w = stack'
  OBVIOUS
<1>2. FramesOf(stack, h) /\ ClockInv /\ HeldIn(stack) \subseteq Task
  BY <1>1, InvIs
<1>3. Same(h, g)
  BY <1>1
<1>4. FramesOf(stack, x)
  <2>1. StatusKept(h, x)
    BY <1>3 DEF Same, StatusKept
  <2>2. \A u \in HeldIn(stack) : x.task[u].kind \in {h.task[u].kind, "free"}
    BY <1>2, <1>3 DEF Same, Fades
  <2>3. QED
    BY <2>1, <2>2, <1>2, FramesFade
<1>5. w = [stack EXCEPT ![1].turns = @ + 1]
  BY <1>1 DEF Turned
<1>6. FramesOf(w, x) /\ HeldIn(w) = HeldIn(stack)
  BY <1>4, <1>5, FramesTurned
<1>7. HeapInv(x, HeldIn(stack'), Pooled, nextTimer) /\ FramesOf(stack', x) /\ ClockInv'
  BY <1>1, <1>2, <1>6 DEF ClockInv
<1>8. QED
  BY <1>7, PoolLeft

(* A turn that finds nothing to run, after completed operations were       *)
(* promoted and timers looked at.                                          *)
LEMMA TurnIdleKeeps ==
  ASSUME SchedulerInv, TurnIdle
  PROVE  SchedulerInv'
<1>1. PICK h, d, x, K, n : /\ h = Heap /\ d = Dequeue(h) /\ x = d.heap /\ K = HeldIn(stack)
                           /\ n = nextTimer
  OBVIOUS
<1>2. /\ stack # <<>> /\ d.task = NoTask /\ Becomes(x) /\ stack' = Turned
      /\ UNCHANGED <<now, nextTimer, exception, phase, poolVars>>
  BY <1>1 DEF TurnIdle, Turning, InDrain
<1>3. HeapInv(h, K, Pooled, n) /\ n \in Int
  BY <1>1, InvIs
<1>4. HeapInv(x, K, Pooled, n) /\ Same(h, x)
  BY <1>1, <1>2, <1>3, DequeueKeeps
<1>5. Fades(x, x) /\ StatusKept(x, x)
  BY DEF Fades, StatusKept
<1>6. QED
  BY <1>1, <1>2, <1>4, <1>5, TurnedKeeps

TurnOf(kinds, t, g) ==
  /\ Turn(kinds) /\ t = Dequeue(Heap).task /\ g = Dequeue(Heap).heap

(* What a turn takes from the queues is held by nobody else.               *)
LEMMA TurnTakes ==
  ASSUME SchedulerInv, NEW kinds, NEW t, NEW g, TurnOf(kinds, t, g)
  PROVE  /\ HeapInv(g, HeldIn(stack) \cup {t}, Pooled, nextTimer) /\ Same(Heap, g)
         /\ t \in Task /\ t \notin HeldIn(stack) /\ g.task[t].kind \in kinds
         /\ \A u \in HeldIn(stack) : g.task[u].kind \notin Combinators
         /\ stack # <<>> /\ UNCHANGED <<now, nextTimer, exception, phase, poolVars>>
<1>1. PICK h, d, K, n, P : /\ h = Heap /\ d = Dequeue(h) /\ K = HeldIn(stack)
                           /\ n = nextTimer /\ P = Pooled
  OBVIOUS
<1>2. /\ HeapInv(h, K, P, n) /\ n \in Int /\ h.task = task
      /\ \A u \in K : u \in Task /\ task[u].kind \in {"timer", "then", "finally"}
  BY <1>1, InvIs
<1>3. /\ stack # <<>> /\ d.task = t /\ d.heap = g /\ t # NoTask
      /\ task[t].kind \in kinds
      /\ UNCHANGED <<now, nextTimer, exception, phase, poolVars>>
  BY <1>1 DEF TurnOf, Turn, Turning, InDrain
<1>4. /\ d.task # NoTask =>
              /\ HeapInv(d.heap, K \cup {d.task}, P, n)
              /\ d.task \in Task /\ d.task \notin K /\ h.task[d.task].kind # "free"
      /\ Same(h, d.heap)
  BY <1>1, <1>2, DequeueKeeps
<1>5. HeapInv(g, K \cup {t}, P, n) /\ Same(h, g) /\ t \in Task /\ t \notin K
  BY <1>3, <1>4
<1>6. g.task[t].kind \in kinds
  BY <1>2, <1>3, <1>5 DEF Same
<1>7. \A u \in K : g.task[u].kind \notin Combinators
  BY <1>2, <1>5 DEF Same, Combinators
<1>8. QED
  BY <1>1, <1>3, <1>5, <1>6, <1>7

(* A turn that settles the promise of the task that it takes.              *)
LEMMA TurnSettles ==
  ASSUME SchedulerInv, NEW kinds, NEW t, NEW g, TurnOf(kinds, t, g), "timer" \notin kinds,
         NEW s \in StatusName, s # "absent", Becomes(SettledBy(g, t, s)), stack' = Turned
  PROVE  SchedulerInv'
<1>1. PICK h, K, L, x, P, n : /\ h = Heap /\ K = HeldIn(stack) /\ L = K \cup {t}
                              /\ x = SettledBy(g, t, s) /\ P = Pooled /\ n = nextTimer
  OBVIOUS
<1>2. /\ HeapInv(g, L, P, n) /\ Same(h, g)
      /\ t \in Task /\ t \notin K /\ g.task[t].kind \in kinds
      /\ \A u \in K : g.task[u].kind \notin Combinators
      /\ stack # <<>> /\ UNCHANGED <<now, nextTimer, exception, phase, poolVars>>
  BY <1>1, TurnTakes
<1>3. /\ t \in L /\ L \ {t} = K /\ n \in Int /\ g.task[t].kind # "timer"
      /\ \A u \in (L \cap Task) \ {t} : g.task[u].kind \notin Combinators
  BY <1>1, <1>2, InvIs
<1>4. HeapInv(x, L \ {t}, P, n) /\ Fades(g, x) /\ StatusKept(g, x)
  BY <1>1, <1>2, <1>3, SettledByKeeps
<1>5. HeapInv(x, HeldIn(stack), Pooled, nextTimer) /\ Same(Heap, g) /\ Becomes(x)
  BY <1>1, <1>2, <1>3, <1>4
<1>6. QED
  BY <1>2, <1>4, <1>5, TurnedKeeps

(* A turn that calls back.                                                 *)
LEMMA TurnCallsBack ==
  ASSUME SchedulerInv, NEW kinds, NEW t, NEW g, TurnOf(kinds, t, g),
         kinds \subseteq {"timer", "then", "finally"},
         Becomes(g), stack' = <<Callback(t)>> \o Turned
  PROVE  SchedulerInv'
<1>1. PICK h, K, f, s, w : /\ h = Heap /\ K = HeldIn(stack) /\ f = Callback(t)
                           /\ s = Turned /\ w = stack'
  OBVIOUS
<1>2. /\ HeapInv(g, K \cup {t}, Pooled, nextTimer) /\ Same(h, g)
      /\ t \in Task /\ t \notin K /\ g.task[t].kind \in kinds
      /\ stack # <<>> /\ UNCHANGED <<now, nextTimer, exception, phase, poolVars>>
  BY <1>1, TurnTakes
<1>3. FramesOf(stack, h) /\ ClockInv /\ K \subseteq Task
  BY <1>1, InvIs
<1>4. FramesOf(stack, g)
  <2>1. StatusKept(h, g) /\ \A u \in HeldIn(stack) : g.task[u].kind = h.task[u].kind
    BY <1>1, <1>2, <1>3 DEF Same, StatusKept
  <2>2. QED
    BY <2>1, <1>3, FramesStay
<1>5. FramesOf(s, g) /\ HeldIn(s) = K
  <2>1. s = [stack EXCEPT ![1].turns = @ + 1]
    BY <1>1 DEF Turned
  <2>2. QED
    BY <2>1, <1>1, <1>2, <1>4, FramesTurned
<1>6. Fits(f, g) /\ f.task = t
  <2>1. f = [kind |-> "callback", on |-> Plain, task |-> t, turns |-> 0]
    BY <1>1 DEF Callback
  <2>2. t # NoTask
    BY <1>2, Sizes DEF NoTask
  <2>3. f \in FrameType
    BY <2>1, <1>2 DEF FrameType
  <2>4. QED
    BY <2>1, <2>2, <2>3, <1>2 DEF Fits, Reactions
<1>7. FramesOf(w, g) /\ HeldIn(w) = HeldIn(s) \cup ({f.task} \ {NoTask})
  <2>1. w = <<f>> \o s /\ f.task \notin HeldIn(s)
    BY <1>1, <1>2, <1>5, <1>6
  <2>2. QED
    BY <2>1, <1>5, <1>6, FramesPush
<1>8. HeldIn(stack') = K \cup {t}
  <2>1. t # NoTask
    BY <1>2, Sizes DEF NoTask
  <2>2. QED
    BY <2>1, <1>1, <1>5, <1>6, <1>7
<1>9. HeapInv(g, HeldIn(stack'), Pooled, nextTimer) /\ FramesOf(stack', g) /\ ClockInv'
  BY <1>1, <1>2, <1>3, <1>7, <1>8 DEF ClockInv
<1>10. QED
  BY <1>2, <1>9, PoolLeft

(* A turn that ends an operation or a sleep settles its promise and        *)
(* frees its task; one for a timer pushes its callback's frame.            *)
LEMMA TurnIoKeeps ==
  ASSUME SchedulerInv, TurnIo \/ TurnSleep \/ TurnTimer
  PROVE  SchedulerInv'
<1>1. PICK t, g : t = Dequeue(Heap).task /\ g = Dequeue(Heap).heap
  OBVIOUS
<1>2. CASE TurnIo
  <2>1. /\ TurnOf({"io"}, t, g) /\ stack' = Turned
        /\ \E s \in {"fulfilled", "rejected"} : Becomes(SettledBy(g, t, s))
    BY <1>1, <1>2 DEF TurnIo, TurnOf
  <2>2. PICK s \in {"fulfilled", "rejected"} : Becomes(SettledBy(g, t, s))
    BY <2>1
  <2>3. s \in StatusName /\ s # "absent" /\ "timer" \notin {"io"}
    BY DEF StatusName
  <2>4. QED
    BY <2>1, <2>2, <2>3, TurnSettles
<1>3. CASE TurnSleep
  <2>1. /\ TurnOf({"sleep"}, t, g) /\ stack' = Turned
        /\ Becomes(SettledBy(g, t, "fulfilled"))
    BY <1>1, <1>3 DEF TurnSleep, TurnOf
  <2>2. "fulfilled" \in StatusName /\ "fulfilled" # "absent" /\ "timer" \notin {"sleep"}
    BY DEF StatusName
  <2>3. QED
    BY <2>1, <2>2, TurnSettles
<1>4. CASE TurnTimer
  <2>1. TurnOf({"timer"}, t, g) /\ Becomes(g) /\ stack' = <<Callback(t)>> \o Turned
    BY <1>1, <1>4 DEF TurnTimer, TurnOf
  <2>2. QED
    BY <2>1, TurnCallsBack
<1>5. QED
  BY <1>2, <1>3, <1>4

(* What a combinator settles with.                                         *)
LEMMA InputStatus ==
  ASSUME NEW h \in HeapType, NEW t \in Task, CreatedInv(h, t), h.task[t].kind # "free",
         NEW i \in 1..Len(h.task[t].items)
  PROVE  StatusIn(h, h.task[t].items[i]) \in StatusName \ {"absent"}
<1>1. PICK r, p : r = h.task[t] /\ p = r.items[i]
  OBVIOUS
<1>2. r \in TaskType /\ h.status \in [Promise -> StatusName]
  BY <1>1, HeapIs
<1>3. r.items \in Seq(Promise \cup {Plain})
  BY <1>2, TaskIs
<1>4. p \in Promise \cup {Plain} /\ StatusIn(h, p) # "absent"
  BY <1>1, <1>3 DEF CreatedInv
<1>5. StatusIn(h, p) \in StatusName
  BY <1>2, <1>4 DEF StatusIn, StatusName
<1>6. QED
  BY <1>1, <1>4, <1>5

(* What a combinator takes over from its items is the status of a          *)
(* promise that is there.                                                  *)
LEMMA FirstNotIs ==
  ASSUME NEW h \in HeapType, NEW t \in Task, CreatedInv(h, t), h.task[t].kind # "free",
         NEW s, NEW otherwise \in StatusName \ {"absent"}
  PROVE  FirstNot(h, t, s, otherwise) \in StatusName \ {"absent"}
<1>1. PICK items, I : /\ items = h.task[t].items
                      /\ I = {i \in DOMAIN items : StatusIn(h, items[i]) # s}
  OBVIOUS
<1>2. items \in Seq(Promise \cup {Plain})
  <2>1. h.task[t] \in TaskType
    BY HeapIs
  <2>2. QED
    BY <2>1, <1>1, TaskIs
<1>3. I \subseteq 1..Len(items) /\ I \subseteq Nat
  BY <1>1, <1>2
<1>4. FirstNot(h, t, s, otherwise) = IF I = {} THEN otherwise ELSE StatusIn(h, items[Min(I)])
  BY <1>1 DEF FirstNot
<1>5. CASE I = {}
  BY <1>4, <1>5
<1>6. CASE I # {}
  <2>1. Min(I) \in 1..Len(h.task[t].items)
    BY <1>1, <1>3, <1>6, LeastIs
  <2>2. StatusIn(h, h.task[t].items[Min(I)]) \in StatusName \ {"absent"}
    BY <2>1, InputStatus
  <2>3. QED
    BY <2>2, <1>1, <1>4, <1>6
<1>7. QED
  BY <1>5, <1>6

(* So is what a combinator settles with.                                   *)
LEMMA VerdictIs ==
  ASSUME NEW h \in HeapType, NEW t \in Task, CreatedInv(h, t), h.task[t].kind # "free"
  PROVE  Verdict(h, t) \in StatusName \ {"absent"}
<1>1. {"fulfilled", "rejected", "pending"} \subseteq StatusName \ {"absent"}
  BY DEF StatusName
<1>2. AllVerdict(h, t) \in StatusName \ {"absent"}
  BY <1>1, FirstNotIs DEF AllVerdict
<1>3. AnyVerdict(h, t) \in StatusName \ {"absent"}
  BY <1>1, FirstNotIs DEF AnyVerdict
<1>4. AllSettledVerdict(h, t) \in StatusName \ {"absent"}
  BY <1>1 DEF AllSettledVerdict
<1>5. RaceVerdict(h, t) \in StatusName \ {"absent"}
  <2>1. PICK o : o = IF h.task[t].items = <<>> THEN "fulfilled" ELSE "pending"
    OBVIOUS
  <2>2. o \in StatusName \ {"absent"}
    BY <2>1, <1>1
  <2>3. QED
    BY <2>1, <2>2, FirstNotIs DEF RaceVerdict
<1>6. QED
  BY <1>2, <1>3, <1>4, <1>5 DEF Verdict

(* A turn for a combinator settles its promise and frees its task.         *)
LEMMA TurnCombinatorKeeps ==
  ASSUME SchedulerInv, TurnCombinator
  PROVE  SchedulerInv'
<1>1. PICK t, g, v : /\ t = Dequeue(Heap).task /\ g = Dequeue(Heap).heap
                     /\ v = Verdict(g, t)
  OBVIOUS
<1>2. /\ TurnOf(Combinators, t, g) /\ stack' = Turned
      /\ Becomes(IF v = "pending" THEN Wait(g, t) ELSE SettledBy(g, t, v))
  BY <1>1 DEF TurnCombinator, TurnOf
<1>3. "timer" \notin Combinators
  BY DEF Combinators
<1>4. PICK K, L, P, n, x : /\ K = HeldIn(stack) /\ L = K \cup {t} /\ P = Pooled
                           /\ n = nextTimer /\ x = Wait(g, t)
  OBVIOUS
<1>5. /\ HeapInv(g, L, P, n) /\ Same(Heap, g)
      /\ t \in Task /\ t \notin K /\ g.task[t].kind \in Combinators
      /\ stack # <<>> /\ UNCHANGED <<now, nextTimer, exception, phase, poolVars>>
  BY <1>2, <1>4, TurnTakes
<1>6. v \in StatusName \ {"absent"}
  <2>1. g \in HeapType /\ CreatedInv(g, t) /\ g.task[t].kind # "free"
    BY <1>5 DEF HeapInv, TaskInv, Combinators
  <2>2. QED
    BY <2>1, <1>1, <1>5, VerdictIs
<1>7. CASE v = "pending"
  <2>1. t \in L /\ n \in Int /\ L \ {t} = K /\ g.task[t].kind \in Reactions \cup Combinators
    BY <1>4, <1>5, InvIs
  <2>2. HeapInv(x, L \ {t}, P, n) /\ Same(g, x)
    BY <2>1, <1>4, <1>5, WaitKeeps
  <2>3. Fades(g, x) /\ StatusKept(g, x)
    BY <2>2 DEF Same, Fades, StatusKept
  <2>4. Becomes(x) /\ HeapInv(x, HeldIn(stack), Pooled, nextTimer)
    BY <2>1, <2>2, <1>2, <1>4, <1>7
  <2>5. QED
    BY <2>3, <2>4, <1>2, <1>5, TurnedKeeps
<1>8. CASE v # "pending"
  BY <1>2, <1>3, <1>6, <1>8, TurnSettles
<1>9. QED
  BY <1>7, <1>8

(* A turn for a reaction calls its callback, whose frame holds the task,   *)
(* or settles its promise at once.                                         *)
LEMMA TurnReactionKeeps ==
  ASSUME SchedulerInv, TurnReaction
  PROVE  SchedulerInv'
<1>1. PICK t, g, source, on :
        /\ t = Dequeue(Heap).task /\ g = Dequeue(Heap).heap
        /\ source = StatusIn(g, g.task[t].items[1]) /\ on = HandlerOf(g, t)
  OBVIOUS
<1>2. TurnOf({"then", "finally"}, t, g)
  BY <1>1 DEF TurnReaction, TurnOf
<1>3. \/ Becomes(g) /\ stack' = <<Callback(t)>> \o Turned
      \/ /\ Becomes(SettledBy(g, t, IF on = "bad" THEN "rejected" ELSE source))
         /\ stack' = Turned
  BY <1>1 DEF TurnReaction
<1>4. CASE Becomes(g) /\ stack' = <<Callback(t)>> \o Turned
  <2>1. {"then", "finally"} \subseteq {"timer", "then", "finally"}
    OBVIOUS
  <2>2. QED
    BY <2>1, <1>2, <1>4, TurnCallsBack
<1>5. CASE /\ Becomes(SettledBy(g, t, IF on = "bad" THEN "rejected" ELSE source))
           /\ stack' = Turned
  <2>1. PICK s : s = IF on = "bad" THEN "rejected" ELSE source
    OBVIOUS
  <2>2. PICK K, L, P, n : /\ K = HeldIn(stack) /\ L = K \cup {t} /\ P = Pooled /\ n = nextTimer
    OBVIOUS
  <2>3. HeapInv(g, L, P, n) /\ t \in Task /\ g.task[t].kind \in {"then", "finally"}
    BY <2>2, <1>2, TurnTakes
  <2>4. g \in HeapType /\ CreatedInv(g, t) /\ WaitingInv(g, t, L) /\ g.task[t].kind # "free"
    BY <2>3 DEF HeapInv, TaskInv
  <2>5. Len(g.task[t].items) = 1
    BY <2>3, <2>4 DEF WaitingInv, Reactions
  <2>6. 1 \in 1..Len(g.task[t].items)
    BY <2>5
  <2>7. source \in StatusName \ {"absent"}
    BY <2>3, <2>4, <2>6, <1>1, InputStatus
  <2>8. s \in StatusName /\ s # "absent" /\ "timer" \notin {"then", "finally"}
    BY <2>1, <2>7 DEF StatusName
  <2>9. QED
    BY <2>1, <2>8, <1>2, <1>5, TurnSettles
<1>6. QED
  BY <1>3, <1>4, <1>5

(* The callback or drain on top, when it is for a task.                    *)
TopHolds(t) ==
  stack # <<>> /\ Head(stack).kind \in {"callback", "then", "finally"} /\ t = Head(stack).task

(* What the invariant says of the frame on top and of the task it holds.   *)
LEMMA TopIs ==
  ASSUME SchedulerInv, NEW t, TopHolds(t)
  PROVE  /\ t \in Task /\ t \in HeldIn(stack) /\ FramesOf(Tail(stack), Heap)
         /\ HeldIn(Tail(stack)) = HeldIn(stack) \ {t}
         /\ Head(stack).kind \in Reactions =>
              /\ Head(stack).on \in Promise /\ status[Head(stack).on] # "absent"
              /\ task[t].kind = Head(stack).kind
         /\ \A u \in HeldIn(stack) : task[u].kind \notin Combinators
         /\ WaitingInv(Heap, t, HeldIn(stack)) /\ CreatedInv(Heap, t)
<1>1. PICK h, f : h = Heap /\ f = Head(stack)
  OBVIOUS
<1>2. /\ FramesOf(stack, h) /\ h.status = status /\ h.task = task
      /\ \A u \in HeldIn(stack) : u \in Task /\ task[u].kind \in {"timer", "then", "finally"}
  BY <1>1, InvIs
<1>3. /\ FramesOf(Tail(stack), h) /\ Fits(f, h)
      /\ f.task # NoTask =>
           /\ HeldIn(Tail(stack)) = HeldIn(stack) \ {f.task}
           /\ f.task \in HeldIn(stack) /\ f.task \in Task
  <2>1. stack # <<>>
    BY DEF TopHolds
  <2>2. QED
    BY <2>1, <1>1, <1>2, FramesTail
<1>4. t = f.task /\ f.kind \in {"callback", "then", "finally"}
  BY <1>1 DEF TopHolds
<1>5. t # NoTask
  BY <1>3, <1>4 DEF Fits
<1>6. f.kind \in Reactions =>
        f.on \in Promise /\ h.status[f.on] # "absent" /\ h.task[t].kind = f.kind
  BY <1>3, <1>4 DEF Fits, Reactions
<1>7. WaitingInv(h, t, HeldIn(stack)) /\ CreatedInv(h, t)
  <2>1. HeapInv(h, HeldIn(stack), Pooled, nextTimer)
    BY <1>1, InvIs
  <2>2. QED
    BY <2>1, <1>3, <1>4, <1>5 DEF HeapInv, TaskInv
<1>8. \A u \in HeldIn(stack) : task[u].kind \notin Combinators
  BY <1>2 DEF Combinators
<1>9. QED
  BY <1>1, <1>2, <1>3, <1>4, <1>5, <1>6, <1>7, <1>8

(* It is over, and its task is not held any more.                          *)
LEMMA PopKeeps ==
  ASSUME SchedulerInv, NEW t, TopHolds(t), NEW x, Becomes(x),
         HeapInv(x, HeldIn(stack) \ {t}, Pooled, nextTimer), StatusKept(Heap, x),
         \A u \in Task \ {t} : x.task[u].kind \in {task[u].kind, "free"},
         stack' = Tail(stack), ClockInv', UNCHANGED <<nextTimer, poolVars>>
  PROVE  SchedulerInv'
<1>1. PICK h, s, L : h = Heap /\ s = Tail(stack) /\ L = HeldIn(stack) \ {t}
  OBVIOUS
<1>2. FramesOf(s, h) /\ HeldIn(s) = L /\ h.task = task /\ L \subseteq Task \ {t}
  <2>1. HeldIn(stack) \subseteq Task /\ h.task = task
    BY <1>1, InvIs
  <2>2. QED
    BY <2>1, <1>1, TopIs
<1>3. FramesOf(s, x)
  <2>1. StatusKept(h, x) /\ HeapInv(x, L, Pooled, nextTimer) /\ HeldIn(s) \subseteq L
    BY <1>1, <1>2
  <2>2. \A u \in HeldIn(s) : x.task[u].kind \in {h.task[u].kind, "free"}
    BY <1>2
  <2>3. QED
    BY <2>1, <2>2, <1>2, FramesFade
<1>4. HeapInv(x, HeldIn(stack'), Pooled, nextTimer) /\ FramesOf(stack', x)
  BY <1>1, <1>2, <1>3
<1>5. QED
  BY <1>4, PoolLeft

(* A timer's callback has returned, and its task is freed.                 *)
LEMMA TimerReturnsKeeps ==
  ASSUME SchedulerInv, TimerReturns
  PROVE  SchedulerInv'
<1>1. PICK h, K, t, x, P, n : /\ h = Heap /\ K = HeldIn(stack) /\ t = Head(stack).task
                              /\ x = Done(h, t) /\ P = Pooled /\ n = nextTimer
  OBVIOUS
<1>2. /\ TopHolds(t) /\ task[t].kind = "timer" /\ Becomes(Release(h, t))
      /\ stack' = Tail(stack) /\ UNCHANGED <<now, nextTimer, exception, phase, poolVars>>
  BY <1>1 DEF TimerReturns, Returning, Top, TopHolds
<1>3. HeapInv(h, K, P, n) /\ n \in Int /\ h.task = task /\ ClockInv
  BY <1>1, InvIs
<1>4. t \in Task /\ t \in K /\ WaitingInv(h, t, K)
  BY <1>1, <1>2, TopIs
<1>5. Becomes(x)
  <2>1. h.task[t].deps = 0
    BY <1>2, <1>3, <1>4 DEF WaitingInv, Sources
  <2>2. QED
    BY <2>1, <1>1, <1>2 DEF Done
<1>6. /\ HeapInv(x, K \ {t}, P, n) /\ x.status = h.status
      /\ \A u \in Task \ {t} : x.task[u] = h.task[u]
  <2>1. /\ HeapInv(Done(h, t), K \ {t}, P, n) /\ Done(h, t).status = h.status
        /\ \A u \in Task \ {t} : Done(h, t).task[u] = h.task[u]
    BY <1>3, <1>4, DoneKeeps
  <2>2. x = Done(h, t)
    BY <1>1
  <2>3. QED
    BY <2>1, <2>2
<1>7. StatusKept(Heap, x) /\ HeapInv(x, HeldIn(stack) \ {t}, Pooled, nextTimer)
  BY <1>1, <1>6 DEF StatusKept
<1>8. \A u \in Task \ {t} : x.task[u].kind \in {task[u].kind, "free"}
  BY <1>3, <1>6
<1>9. ClockInv'
  BY <1>2, <1>3, ClockStays
<1>10. QED
  BY <1>2, <1>5, <1>7, <1>8, <1>9, PopKeeps

(* The promise of its task is settled.                                     *)
LEMMA PoppedSettles ==
  ASSUME SchedulerInv, NEW t, TopHolds(t), task[t].kind \in Reactions,
         NEW s \in StatusName, s # "absent", Becomes(SettledBy(Heap, t, s)),
         stack' = Tail(stack), ClockInv', UNCHANGED <<nextTimer, poolVars>>
  PROVE  SchedulerInv'
<1>1. PICK h, K, x, P, n : /\ h = Heap /\ K = HeldIn(stack) /\ x = SettledBy(h, t, s)
                           /\ P = Pooled /\ n = nextTimer
  OBVIOUS
<1>2. HeapInv(h, K, P, n) /\ n \in Int /\ h.task = task
  BY <1>1, InvIs
<1>3. t \in Task /\ t \in K /\ \A u \in K : task[u].kind \notin Combinators
  BY <1>1, TopIs
<1>4. HeapInv(x, K \ {t}, P, n) /\ Fades(h, x) /\ StatusKept(h, x)
  <2>1. h.task[t].kind # "timer" /\ \A u \in (K \cap Task) \ {t} : h.task[u].kind \notin Combinators
    BY <1>2, <1>3 DEF Reactions
  <2>2. QED
    BY <2>1, <1>1, <1>2, <1>3, SettledByKeeps
<1>5. StatusKept(Heap, x) /\ HeapInv(x, HeldIn(stack) \ {t}, Pooled, nextTimer) /\ Becomes(x)
  BY <1>1, <1>4
<1>6. \A u \in Task \ {t} : x.task[u].kind \in {task[u].kind, "free"}
  BY <1>2, <1>4 DEF Fades
<1>7. QED
  BY <1>5, <1>6, PopKeeps

(* A reaction's source is a promise that is there.                         *)
LEMMA SourceStatusIs ==
  ASSUME SchedulerInv, NEW t, TopHolds(t), task[t].kind \in Reactions
  PROVE  SourceStatus(t) \in StatusName \ {"absent"}
<1>1. PICK h : h = Heap
  OBVIOUS
<1>2. h \in HeapType /\ h.task = task
  BY <1>1, InvIs
<1>3. t \in Task /\ WaitingInv(h, t, HeldIn(stack)) /\ CreatedInv(h, t)
  BY <1>1, TopIs
<1>4. Len(h.task[t].items) = 1 /\ h.task[t].kind # "free"
  BY <1>2, <1>3 DEF WaitingInv, Reactions
<1>5. 1 \in 1..Len(h.task[t].items)
  BY <1>4
<1>6. StatusIn(h, h.task[t].items[1]) \in StatusName \ {"absent"}
  BY <1>2, <1>3, <1>4, <1>5, InputStatus
<1>7. QED
  BY <1>1, <1>2, <1>6 DEF SourceStatus

(* A reaction's callback has returned a plain value or has thrown: its     *)
(* promise is settled and its task freed.                                  *)
LEMMA ReactionReturnsKeeps ==
  ASSUME SchedulerInv, ReactionReturns
  PROVE  SchedulerInv'
<1>1. PICK t, s : /\ t = Head(stack).task
                  /\ s = CASE exception -> "rejected"
                           [] ~exception /\ task[t].kind = "then" -> "fulfilled"
                           [] OTHER -> SourceStatus(t)
  OBVIOUS
<1>2. /\ TopHolds(t) /\ task[t].kind \in Reactions
      /\ Becomes(SettledBy(Heap, t, s)) /\ stack' = Tail(stack) /\ exception' = FALSE
      /\ UNCHANGED <<now, nextTimer, phase, poolVars>>
  BY <1>1 DEF ReactionReturns, Returning, Top, TopHolds, Reactions
<1>3. s \in StatusName /\ s # "absent"
  <2>1. SourceStatus(t) \in StatusName \ {"absent"}
    BY <1>2, SourceStatusIs
  <2>2. QED
    BY <2>1, <1>1 DEF StatusName
<1>4. ClockInv'
  BY <1>2, InvIs DEF ClockInv
<1>5. QED
  BY <1>2, <1>3, <1>4, PoppedSettles

(* The drain for a finally callback's promise is over: settled, the        *)
(* reaction's promise settles and its task is freed; still pending, the    *)
(* task waits for it.                                                      *)
LEMMA FinallyEndsKeeps ==
  ASSUME SchedulerInv, FinallyEnds
  PROVE  SchedulerInv'
<1>1. PICK h, K, t, p, x, P, n :
        /\ h = Heap /\ K = HeldIn(stack) /\ t = Head(stack).task /\ p = Head(stack).on
        /\ x = AddDependent(h, p, t) /\ P = Pooled /\ n = nextTimer
  OBVIOUS
<1>2. /\ TopHolds(t) /\ Head(stack).kind = "finally"
      /\ Becomes(CASE status[p] = "pending" -> x
                   [] status[p] = "rejected" -> SettledBy(Heap, t, "rejected")
                   [] OTHER -> SettledBy(Heap, t, SourceStatus(t)))
      /\ stack' = Tail(stack) /\ exception' \in BOOLEAN
      /\ UNCHANGED <<now, nextTimer, phase, poolVars>>
  BY <1>1 DEF FinallyEnds, DrainEnds, InDrain, Top, TopHolds, Tripped
<1>3. /\ HeapInv(h, K, P, n) /\ n \in Int /\ h.task = task /\ h.status = status /\ ClockInv
  BY <1>1, InvIs
<1>4. t \in Task /\ t \in K /\ p \in Promise /\ task[t].kind = "finally"
  BY <1>1, <1>2, TopIs DEF Reactions
<1>5. ClockInv' /\ task[t].kind \in Reactions
  BY <1>2, <1>3, <1>4 DEF ClockInv, Reactions
<1>6. CASE status[p] = "pending"
  <2>1. Becomes(x)
    BY <1>2, <1>6
  <2>2. h.status[p] = "pending" /\ h.task[t].kind \in Reactions \cup Combinators
        /\ h.task[t].kind \notin Combinators
    BY <1>3, <1>4, <1>6 DEF Reactions, Combinators
  <2>3. HeapInv(x, K \ {t}, P, n) /\ Same(h, x)
    BY <2>2, <1>1, <1>3, <1>4, LinkKeeps
  <2>4. StatusKept(Heap, x) /\ HeapInv(x, HeldIn(stack) \ {t}, Pooled, nextTimer)
    BY <2>3, <1>1 DEF StatusKept, Same
  <2>5. \A u \in Task \ {t} : x.task[u].kind \in {task[u].kind, "free"}
    BY <2>3, <1>3 DEF Same
  <2>6. QED
    BY <2>1, <2>4, <2>5, <1>2, <1>5, PopKeeps
<1>7. CASE status[p] # "pending"
  <2>1. PICK s : s = IF status[p] = "rejected" THEN "rejected" ELSE SourceStatus(t)
    OBVIOUS
  <2>2. s \in StatusName /\ s # "absent"
    <3>1. SourceStatus(t) \in StatusName \ {"absent"}
      BY <1>2, <1>5, SourceStatusIs
    <3>2. QED
      BY <2>1, <3>1 DEF StatusName
  <2>3. Becomes(SettledBy(Heap, t, s))
    BY <2>1, <1>2, <1>7
  <2>4. QED
    BY <2>2, <2>3, <1>2, <1>5, PoppedSettles
<1>8. QED
  BY <1>6, <1>7

(* A task that waits for one promise.                                      *)
OneMore(k) == [k EXCEPT !.deps = k.deps + 1, !.queued = FALSE]

(* add_dependent on a pending promise, written out.                        *)
LEMMA LinkIs ==
  ASSUME NEW h \in HeapType, NEW p \in Promise, NEW t \in Task, h.status[p] = "pending",
         NEW g, g = AddDependent(h, p, t)
  PROVE  /\ g \in HeapType /\ g.status = h.status /\ g.queues = h.queues
         /\ g.dependents = InFront(h.dependents, p, t)
         /\ g.task[t] = OneMore(h.task[t]) /\ \A u \in Task \ {t} : g.task[u] = h.task[u]
<1>1. PICK d, a, k : /\ d = <<t>> \o h.dependents[p] /\ a = WithDependents(h, p, d)
                     /\ k = OneMore(h.task[t])
  OBVIOUS
<1>2. /\ h.dependents[p] \in Seq(Task) /\ d \in Seq(Task) /\ h.task[t] \in TaskType
      /\ h.task \in [Task -> TaskType]
  BY <1>1, HeapIs
<1>3. /\ a \in HeapType /\ a.status = h.status /\ a.task = h.task
      /\ a.queues = h.queues /\ a.dependents = [h.dependents EXCEPT ![p] = d]
  <2>1. d \in Seq(Task) /\ a = WithDependents(h, p, d)
    BY <1>1, <1>2
  <2>2. LET z == WithDependents(h, p, d)
        IN /\ z \in HeapType /\ z.status = h.status /\ z.task = h.task
           /\ z.queues = h.queues /\ z.dependents = [h.dependents EXCEPT ![p] = d]
    BY <2>1, DependentsSetIs
  <2>3. QED
    BY <2>1, <2>2
<1>4. k \in TaskType
  <2>1. PICK r : r = h.task[t]
    OBVIOUS
  <2>2. r \in TaskType /\ r.deps + 1 \in Nat /\ k = [r EXCEPT !.deps = r.deps + 1, !.queued = FALSE]
    BY <2>1, <1>1, <1>2, TaskIs DEF OneMore
  <2>3. QED
    BY <2>2 DEF TaskType
<1>5. PICK b : b = WithTask(a, t, k)
  OBVIOUS
<1>6. /\ b \in HeapType /\ b.status = a.status /\ b.dependents = a.dependents
      /\ b.queues = a.queues
      /\ b.task[t] = k /\ \A u \in Task \ {t} : b.task[u] = a.task[u]
  BY <1>3, <1>4, <1>5, TaskSetIs
<1>7. g = b
  <2>1. h = [status |-> h.status, dependents |-> h.dependents, task |-> h.task,
             queues |-> h.queues]
    BY HeapIs
  <2>2. StatusIn(h, p) = "pending"
    BY Sizes DEF StatusIn, Plain
  <2>3. g = [h EXCEPT !.dependents[p] = <<t>> \o @,
                      !.task[t].deps = @ + 1, !.task[t].queued = FALSE]
    BY <2>2 DEF AddDependent
  <2>4. PICK j : j = [h.task EXCEPT ![t] = k]
    OBVIOUS
  <2>5. j = [[h.task EXCEPT ![t].deps = @ + 1] EXCEPT ![t].queued = FALSE]
    BY <2>4, <1>1, <1>2 DEF OneMore
  <2>6. g = [status |-> h.status, dependents |-> [h.dependents EXCEPT ![p] = d], task |-> j,
             queues |-> h.queues]
    <3>1. d = <<t>> \o h.dependents[p]
      BY <1>1
    <3>2. g = [h EXCEPT !.dependents = [h.dependents EXCEPT ![p] = d],
                        !.task = [[h.task EXCEPT ![t].deps = @ + 1] EXCEPT ![t].queued = FALSE]]
      BY <2>1, <2>3, <3>1
    <3>3. g = [h EXCEPT !.dependents = [h.dependents EXCEPT ![p] = d], !.task = j]
      BY <2>5, <3>2
    <3>4. QED
      BY <2>1, <3>3
  <2>7. b = [status |-> h.status, dependents |-> [h.dependents EXCEPT ![p] = d], task |-> j,
             queues |-> h.queues]
    BY <2>1, <2>4, <1>1, <1>5 DEF WithTask, WithDependents
  <2>8. QED
    BY <2>6, <2>7
<1>8. QED
  BY <1>1, <1>3, <1>6, <1>7 DEF InFront

(* A reaction to one pending promise waits for that promise.               *)
LEMMA WaitOne ==
  ASSUME NEW h \in HeapType, NEW t \in Task, NEW p \in Promise, h.status[p] = "pending",
         h.task[t].kind = "then", h.task[t].items = <<p>>
  PROVE  Wait(h, t) = AddDependent(h, p, t)
<1> DEFINE items == h.task[t].items
           l == Len(items)
           Step(f, i) == IF i = 0 THEN h ELSE AddDependent(f[i - 1], items[i], t)
           Loop(f) == f = [i \in 0..l |-> Step(f, i)]
           waiting == CHOOSE f : Loop(f)
<1>1. l = 1 /\ items[1] = p /\ ToSet(items) = {p} /\ 0..l = {0, 1}
  <2>1. items = <<p>>
    OBVIOUS
  <2> HIDE DEF items
  <2>2. Len(items) = 1 /\ items[1] = p /\ DOMAIN items = {1}
    BY <2>1
  <2>3. ToSet(items) = {p}
    BY <2>2 DEF ToSet
  <2>4. 0..1 = {0, 1}
    OBVIOUS
  <2>5. QED
    BY <2>2, <2>3, <2>4
<1>2. ~Ready(h, t)
  <2>1. StatusIn(h, p) = "pending"
    BY Sizes DEF StatusIn, Plain
  <2>2. "pending" \in {StatusIn(h, i) : i \in ToSet(h.task[t].items)}
    BY <2>1, <1>1
  <2>3. QED
    BY <2>2 DEF Ready
<1> HIDE DEF items, l
<1>3. Wait(h, t) = waiting[l]
  BY <1>2 DEF Wait, items, l
<1>4. \E f : Loop(f)
  <2> DEFINE f == [i \in 0..l |-> IF i = 0 THEN h ELSE AddDependent(h, p, t)]
  <2>1. f[0] = h /\ 0 \in 0..l
    BY <1>1
  <2>2. ASSUME NEW i \in 0..l PROVE f[i] = Step(f, i)
    <3>1. CASE i = 0
      BY <3>1
    <3>2. CASE i # 0
      <4>1. i = 1 /\ i - 1 = 0 /\ items[i] = p
        BY <3>2, <1>1
      <4>2. f[i] = AddDependent(h, p, t)
        BY <3>2
      <4> HIDE DEF f
      <4>3. QED
        BY <4>1, <4>2, <2>1
    <3>3. QED
      BY <3>1, <3>2
  <2>3. f = [i \in 0..l |-> f[i]]
    OBVIOUS
  <2> HIDE DEF f, Step
  <2>4. f = [i \in 0..l |-> Step(f, i)]
    BY <2>2, <2>3
  <2>5. QED
    BY <2>4
<1>5. Loop(waiting)
  <2> HIDE DEF Loop
  <2>1. QED
    BY <1>4
<1>6. \A i \in 0..l : waiting[i] = Step(waiting, i)
  <2> HIDE DEF waiting, Step
  <2>1. QED
    BY <1>5
<1> HIDE DEF waiting, Loop
<1>7. waiting[0] = h /\ waiting[1] = AddDependent(waiting[0], items[1], t)
  <2>1. 0 \in 0..l /\ 1 \in 0..l /\ 1 - 1 = 0
    BY <1>1
  <2>2. waiting[0] = h
    BY <2>1, <1>6
  <2>3. waiting[1] = AddDependent(waiting[1 - 1], items[1], t)
    BY <2>1, <1>6
  <2>4. QED
    BY <2>1, <2>2, <2>3
<1>8. QED
  BY <1>1, <1>3, <1>7

(* A new task without a new promise or timer.                              *)
LEMMA AddedKeeps ==
  ASSUME NEW h, NEW K, NEW P, NEW n \in Int, HeapInv(h, K, P, n),
         NEW t \in Task, h.task[t].kind = "free", NEW k, Fresh(h, t, k, n)
  PROVE  HeapInv(WithTask(h, t, k), K \cup {t}, P, n)
<1>1. n <= n
  OBVIOUS
<1>2. PICK g : g = WithTask(h, t, k)
  OBVIOUS
<1>3. HeapInv(g, K \cup {t}, P, n)
  BY <1>1, <1>2, NewTaskKeeps
<1>4. QED
  BY <1>2, <1>3

(* A new task for the same promise, in the place of t.                     *)
Follows(k, h, t, p) ==
  /\ k \in TaskType /\ k.kind = "then" /\ k.items = <<p>> /\ k.deps = 0
  /\ k.queued = FALSE /\ k.finished = FALSE /\ k.result = h.task[t].result
  /\ k.onFulfilled = "none" /\ k.onRejected = "none"

(* ThenEnds makes such a task.                                             *)
LEMMA FollowerIs ==
  ASSUME NEW h \in HeapType, NEW t \in Task, NEW p \in Promise,
         NEW k, k = [Reaction("then", <<p>>, "none", "none") EXCEPT !.result = h.task[t].result]
  PROVE  Follows(k, h, t, p)
<1>1. PICK r : r = h.task[t].result
  OBVIOUS
<1>2. r \in Promise \cup {Plain}
  <2>1. h.task[t] \in TaskType
    BY HeapIs
  <2>2. QED
    BY <2>1, <1>1, TaskIs
<1>3. k = [kind |-> "then", items |-> <<p>>, onFulfilled |-> "none", onRejected |-> "none",
           result |-> r, due |-> 0, id |-> 0,
           deps |-> 0, queued |-> FALSE, finished |-> FALSE, completed |-> FALSE]
  BY <1>1 DEF Reaction, Blank
<1>4. <<p>> \in Seq(Promise \cup {Plain}) /\ 0 \in 0..MaxTimers
  BY Sizes
<1>5. k \in TaskType
  <2>1. PICK j : j = k
    OBVIOUS
  <2>2. j = [kind |-> "then", items |-> <<p>>, onFulfilled |-> "none", onRejected |-> "none",
             result |-> r, due |-> 0, id |-> 0,
             deps |-> 0, queued |-> FALSE, finished |-> FALSE, completed |-> FALSE]
    BY <2>1, <1>3
  <2>3. j \in TaskType
    BY <2>2, <1>2, <1>4 DEF TaskType
  <2>4. QED
    BY <2>1, <2>3
<1>6. QED
  BY <1>1, <1>3, <1>5 DEF Follows

(* A then callback that returned a pending promise: a new task takes       *)
(* over the reaction's promise and waits for the returned one, and the     *)
(* reaction's own task is freed.                                           *)
LEMMA FollowsKeeps ==
  ASSUME NEW h, NEW K, NEW P, NEW n \in Int, HeapInv(h, K, P, n), NEW t \in K, t \in Task,
         h.task[t].kind = "then", NEW p \in Promise, h.status[p] = "pending",
         NEW m \in Task, h.task[m].kind = "free", NEW k, Follows(k, h, t, p),
         NEW x, x = Done(Wait(WithTask(h, m, k), m), t)
  PROVE  /\ HeapInv(x, K \ {t}, P, n) /\ x.status = h.status
         /\ \A u \in Task \ {t, m} : x.task[u] = h.task[u]
         /\ x.task[m].kind = "then" /\ m \notin K
         /\ x.task[t] = Blank /\ x.task[m] = OneMore(k) /\ x \in HeapType
<1>1. /\ h \in HeapType /\ WaitingInv(h, t, K) /\ KeyInv(h, t, n) /\ FreeInv(h, m, K)
      /\ \A u \in Task : KeyInv(h, u, n)
  BY DEF HeapInv, TaskInv
<1>2. h.task[t].deps = 0 /\ m # t /\ m \notin K /\ h.task[m].kind # "then"
  BY <1>1 DEF WaitingInv, FreeInv, Combinators
<1>3. PICK L, a, b, y, c : /\ L = K \ {t} /\ a = WithTask(h, t, Blank) /\ b = WithTask(a, m, k)
                           /\ y = AddDependent(b, p, m)
                           /\ c = OneMore(k)
  OBVIOUS
<1>4. /\ a \in HeapType /\ a.status = h.status /\ a.dependents = h.dependents
      /\ a.queues = h.queues
      /\ a.task[t] = Blank /\ \A u \in Task \ {t} : a.task[u] = h.task[u]
  BY <1>1, <1>3, BlankIs, TaskSetIs
<1>5. HeapInv(a, L, P, n)
  <2>1. a = Done(h, t)
    BY <1>2, <1>3 DEF Done, Release, WithTask
  <2>2. HeapInv(Done(h, t), K \ {t}, P, n)
    BY DoneKeeps
  <2>3. QED
    BY <2>1, <2>2, <1>3
<1>6. Fresh(a, m, k, n)
  <2>1. k.items[1] = p /\ Len(k.items) = 1 /\ a.status[p] = "pending"
    BY <1>4 DEF Follows
  <2>2. \A i \in 1..Len(k.items) : StatusIn(a, k.items[i]) # "absent"
    BY <2>1, Sizes DEF StatusIn, Plain
  <2>3. k.result \in Promise /\ a.status[k.result] # "absent"
    BY <1>1, <1>4 DEF KeyInv, Follows
  <2>4. ASSUME NEW u \in Task \ {m}, a.task[u].kind # "free" PROVE KeyOf(k) # KeyOf(a.task[u])
    <3>1. u # t
      BY <2>4, <1>4 DEF Blank
    <3>2. KeyOf(k) = KeyOf(h.task[t])
      BY DEF KeyOf, Follows
    <3>3. a.task[u] = h.task[u]
      BY <3>1, <1>4
    <3>4. QED
      BY <3>1, <3>2, <3>3, <2>4, <1>1 DEF KeyInv
  <2>5. QED
    BY <2>1, <2>2, <2>3, <2>4 DEF Fresh, Follows, Combinators
<1>7. /\ HeapInv(b, L \cup {m}, P, n) /\ b.task[m] = k
      /\ b.status = a.status /\ b.dependents = a.dependents /\ b.queues = a.queues
      /\ \A u \in Task \ {m} : b.task[u] = a.task[u]
  <2>1. n \in Int /\ HeapInv(a, L, P, n) /\ m \in Task /\ a.task[m].kind = "free"
    BY <1>2, <1>4, <1>5
  <2>2. HeapInv(b, L \cup {m}, P, n)
    BY <2>1, <1>3, <1>6, AddedKeeps
  <2>3. a \in HeapType /\ k \in TaskType
    BY <1>4 DEF Follows
  <2>4. QED
    BY <2>2, <2>3, <1>3, TaskSetIs
<1>8. b \in HeapType
  BY <1>7 DEF HeapInv
<1>9. HeapInv(y, L, P, n)
  <2>1. PICK M : M = L \cup {m}
    OBVIOUS
  <2>2. m \in M /\ M \ {m} = L /\ HeapInv(b, M, P, n)
    BY <2>1, <1>2, <1>3, <1>7
  <2>3. b.task[m].kind \in Reactions \cup Combinators /\ b.task[m].kind \notin Combinators
        /\ b.status[p] = "pending"
    BY <1>4, <1>7 DEF Follows, Reactions, Combinators
  <2>4. HeapInv(y, M \ {m}, P, n)
    BY <2>2, <2>3, <1>3, LinkKeeps
  <2>5. QED
    BY <2>2, <2>4
<1>10. /\ y \in HeapType /\ y.status = b.status /\ y.queues = b.queues
       /\ y.dependents = InFront(b.dependents, p, m)
       /\ y.task[m] = c /\ \A u \in Task \ {m} : y.task[u] = b.task[u]
  <2>1. /\ b \in HeapType /\ p \in Promise /\ m \in Task /\ b.status[p] = "pending"
        /\ y = AddDependent(b, p, m)
    BY <1>3, <1>4, <1>7, <1>8
  <2>2. c = OneMore(b.task[m])
    BY <1>3, <1>7
  <2>3. QED
    BY <2>1, <2>2, LinkIs
<1>11. PICK e, f, z : /\ e = WithTask(h, m, k) /\ f = AddDependent(e, p, m)
                      /\ z = WithTask(f, t, Blank)
  OBVIOUS
<1>12. /\ e \in HeapType /\ e.status = h.status /\ e.dependents = h.dependents
       /\ e.queues = h.queues
       /\ e.task[m] = k /\ \A u \in Task \ {m} : e.task[u] = h.task[u]
  <2>1. k \in TaskType
    BY DEF Follows
  <2>2. QED
    BY <2>1, <1>1, <1>11, TaskSetIs
<1>13. /\ f \in HeapType /\ f.status = e.status /\ f.queues = e.queues
       /\ f.dependents = InFront(e.dependents, p, m)
       /\ f.task[m] = c /\ \A u \in Task \ {m} : f.task[u] = e.task[u]
  <2>1. /\ e \in HeapType /\ p \in Promise /\ m \in Task /\ e.status[p] = "pending"
        /\ f = AddDependent(e, p, m)
    BY <1>11, <1>12
  <2>2. c = OneMore(e.task[m])
    BY <1>3, <1>12
  <2>3. QED
    BY <2>1, <2>2, LinkIs
<1>14. /\ z \in HeapType /\ z.status = f.status /\ z.dependents = f.dependents
       /\ z.queues = f.queues
       /\ z.task[t] = Blank /\ \A u \in Task \ {t} : z.task[u] = f.task[u]
  BY <1>11, <1>13, BlankIs, TaskSetIs
<1>15. x = z
  <2>1. Wait(e, m) = f
    <3>1. e.status[p] = "pending" /\ e.task[m].kind = "then" /\ e.task[m].items = <<p>>
      BY <1>12 DEF Follows
    <3>2. QED
      BY <3>1, <1>11, <1>12, WaitOne
  <2>2. f.task[t].deps = 0
    BY <1>2, <1>12, <1>13
  <2>3. QED
    BY <2>1, <2>2, <1>11, SMTT(30) DEF Done, Release, WithTask
<1>16. z = y
  <2>1. z.status = y.status /\ z.dependents = y.dependents /\ z.queues = y.queues
    BY <1>4, <1>7, <1>10, <1>12, <1>13, <1>14
  <2>2. \A u \in Task : z.task[u] = y.task[u]
    BY <1>2, <1>4, <1>7, <1>10, <1>12, <1>13, <1>14
  <2>3. z.task \in [Task -> TaskType] /\ y.task \in [Task -> TaskType]
    BY <1>10, <1>14, HeapIs
  <2>4. z.task = y.task
    BY <2>2, <2>3
  <2>5. QED
    BY <2>1, <2>4, <1>10, <1>14, SameHeap
<1>17. c.kind = "then"
  BY <1>3 DEF Follows, TaskType, OneMore
<1>18. HeapInv(x, K \ {t}, P, n) /\ x.status = h.status
  BY <1>3, <1>4, <1>7, <1>9, <1>10, <1>15, <1>16
<1>19. x.task[m].kind = "then"
  BY <1>10, <1>15, <1>16, <1>17
<1>20. \A u \in Task \ {t, m} : x.task[u] = h.task[u]
  BY <1>12, <1>13, <1>14, <1>15
<1>21. x.task[t] = Blank /\ x.task[m] = OneMore(k) /\ x \in HeapType
  BY <1>3, <1>10, <1>14, <1>15, <1>16
<1>22. QED
  BY <1>2, <1>18, <1>19, <1>20, <1>21

(* The drain for a then callback's promise is over: settled, the promise   *)
(* settles the reaction's; still pending, a new task follows it.           *)
LEMMA ThenEndsKeeps ==
  ASSUME SchedulerInv, ThenEnds
  PROVE  SchedulerInv'
<1>1. PICK h, K, t, p, m, k, x, P, n :
        /\ h = Heap /\ K = HeldIn(stack) /\ t = Head(stack).task /\ p = Head(stack).on
        /\ m = NextTask
        /\ k = [Reaction("then", <<p>>, "none", "none") EXCEPT !.result = task[t].result]
        /\ x = Done(Wait(WithTask(h, m, k), m), t) /\ P = Pooled /\ n = nextTimer
  OBVIOUS
<1>2. /\ TopHolds(t) /\ Head(stack).kind = "then"
      /\ Becomes(IF status[p] = "pending" THEN x ELSE SettledBy(Heap, t, status[p]))
      /\ stack' = Tail(stack) /\ exception' \in BOOLEAN
      /\ UNCHANGED <<now, nextTimer, phase, poolVars>>
  BY <1>1 DEF ThenEnds, DrainEnds, InDrain, Top, TopHolds, Tripped, AddTask, WithTask
<1>3. /\ HeapInv(h, K, P, n) /\ n \in Int /\ n \in 1..(MaxTimers + 1) /\ h \in HeapType
      /\ h.task = task /\ h.status = status /\ ClockInv
  BY <1>1, InvIs
<1>4. t \in Task /\ t \in K /\ p \in Promise /\ task[t].kind = "then" /\ status[p] # "absent"
  BY <1>1, <1>2, TopIs DEF Reactions
<1>5. ClockInv' /\ task[t].kind \in Reactions
  BY <1>2, <1>3, <1>4 DEF ClockInv, Reactions
<1>6. CASE status[p] = "pending"
  <2>1. Becomes(x)
    BY <1>2, <1>6
  <2>2. m \in Task /\ h.task[m].kind = "free"
    BY <1>1, <1>3, NextTaskIs
  <2>3. Follows(k, h, t, p)
    BY <1>1, <1>3, <1>4, FollowerIs
  <2>4. /\ HeapInv(x, K \ {t}, P, n) /\ x.status = h.status
        /\ \A u \in Task \ {t, m} : x.task[u] = h.task[u]
        /\ x.task[m].kind = "then" /\ m \notin K
    <3>1. /\ h.task[t].kind = "then" /\ h.status[p] = "pending" /\ n \in Int
          /\ HeapInv(h, K, P, n) /\ t \in K /\ t \in Task /\ p \in Promise
      BY <1>3, <1>4, <1>6
    <3>2. x = Done(Wait(WithTask(h, m, k), m), t)
      BY <1>1
    <3>3. QED
      <4>1. PICK y : y = Done(Wait(WithTask(h, m, k), m), t)
        OBVIOUS
      <4>2. /\ HeapInv(y, K \ {t}, P, n) /\ y.status = h.status
            /\ \A u \in Task \ {t, m} : y.task[u] = h.task[u]
            /\ y.task[m].kind = "then" /\ m \notin K
        BY <2>2, <2>3, <3>1, <4>1, FollowsKeeps
      <4>3. y = x
        BY <3>2, <4>1
      <4>4. QED
        BY <4>2, <4>3
  <2>5. FramesOf(Tail(stack), x) /\ HeldIn(Tail(stack)) = K \ {t}
    <3>1. PICK s : s = Tail(stack)
      OBVIOUS
    <3>2. FramesOf(s, h) /\ HeldIn(s) = K \ {t} /\ K \subseteq Task
      BY <3>1, <1>1, <1>2, TopIs, InvIs
    <3>3. StatusKept(h, x) /\ \A u \in HeldIn(s) : x.task[u].kind = h.task[u].kind
      BY <3>2, <2>4 DEF StatusKept
    <3>4. FramesOf(s, x)
      BY <3>2, <3>3, FramesStay
    <3>5. QED
      BY <3>1, <3>2, <3>4
  <2>6. HeapInv(x, HeldIn(stack'), Pooled, nextTimer) /\ FramesOf(stack', x)
    BY <2>4, <2>5, <1>1, <1>2
  <2>7. QED
    BY <2>1, <2>6, <1>2, <1>5, PoolLeft
<1>7. CASE status[p] # "pending"
  <2>1. status[p] \in StatusName
    <3>1. h.status \in [Promise -> StatusName]
      BY <1>3, HeapIs
    <3>2. QED
      BY <3>1, <1>3, <1>4
  <2>2. Becomes(SettledBy(Heap, t, status[p]))
    BY <1>2, <1>7
  <2>3. QED
    BY <2>1, <2>2, <1>2, <1>4, <1>5, PoppedSettles
<1>8. QED
  BY <1>6, <1>7

----------------------------------------------------------------------------
(* The first state, the steps, and what follows.                           *)
LEMMA SchedulerInitial ==
  ASSUME SchedulerInit
  PROVE  SchedulerInv
<1>1. PICK h : h = Heap
  OBVIOUS
<1>2. /\ h.status = [p \in Promise |-> "absent"] /\ h.dependents = [p \in Promise |-> <<>>]
      /\ h.task = [t \in Task |-> Blank]
      /\ h.queues = [callbacks |-> <<>>, timers |-> <<>>, io |-> <<>>, done |-> <<>>]
      /\ h = [status |-> h.status, dependents |-> h.dependents, task |-> h.task,
              queues |-> h.queues]
  BY <1>1 DEF SchedulerInit, Heap
<1>3. h \in HeapType
  <2>1. h.status \in [Promise -> StatusName] /\ h.dependents \in [Promise -> Seq(Task)]
    BY <1>2 DEF StatusName
  <2>2. h.task \in [Task -> TaskType]
    BY <1>2, BlankIs
  <2>3. h.queues \in [QueueName -> Seq(Task)]
    <3>1. PICK s : s = h.queues
      OBVIOUS
    <3>2. s = [callbacks |-> <<>>, timers |-> <<>>, io |-> <<>>, done |-> <<>>]
      BY <3>1, <1>2
    <3>3. DOMAIN s = QueueName /\ s = [q \in DOMAIN s |-> s[q]]
      BY <3>2 DEF QueueName
    <3>4. ASSUME NEW q \in QueueName PROVE s[q] \in Seq(Task)
      <4>1. <<>> \in Seq(Task)
        OBVIOUS
      <4>2. /\ s["callbacks"] = <<>> /\ s["timers"] = <<>> /\ s["io"] = <<>>
            /\ s["done"] = <<>>
        BY <3>2
      <4>3. q \in {"callbacks", "timers", "io", "done"}
        BY DEF QueueName
      <4>4. QED
        BY <4>1, <4>2, <4>3
    <3>5. QED
      BY <3>1, <3>3, <3>4
  <2>4. QED
    BY <2>1, <2>2, <2>3, <1>2 DEF HeapType
<1>4. stack = <<>> /\ HeldIn(stack) = {}
  BY DEF SchedulerInit, HeldIn
<1>5. FramesOf(stack, h)
  BY <1>4 DEF FramesOf
<1>6. pool.queue = <<>> /\ ToSet(pool.queue) = {} /\ \A w \in IoThread : hand[w] = Absent
  BY DEF SchedulerInit, ToSet
<1>7. Pooled = {}
  BY <1>6 DEF Pooled, InHands
<1>8. PoolOnceInv
  <2>1. Absent \notin Task
    BY Sizes DEF Absent
  <2>2. pool \in [started : BOOLEAN, stopping : BOOLEAN, queue : Seq(Task)]
    BY DEF SchedulerInit
  <2>3. hand \in [IoThread -> Task \cup {Idle, Absent}] /\ Len(pool.queue) = 0
    BY <1>6 DEF SchedulerInit
  <2>4. QED
    BY <2>1, <2>2, <2>3, <1>6 DEF PoolOnceInv
<1>9. ClockInv /\ nextTimer = 1
  <2>1. now = 0 /\ nextTimer = 1 /\ exception = FALSE /\ phase = "main"
    BY DEF SchedulerInit
  <2>2. 0 \in 0..MaxNow /\ 1 \in 1..(MaxTimers + 1)
    BY Sizes
  <2>3. QED
    BY <2>1, <2>2 DEF ClockInv
<1>10. QueuesInv(h) /\ PooledInv(h, {})
  <2>1. \A q \in QueueName : Len(h.queues[q]) = 0
    BY <1>2 DEF QueueName
  <2>2. \A t \in Task : h.task[t].queued = FALSE
    BY <1>2 DEF Blank
  <2>3. QED
    BY <2>1, <2>2 DEF QueuesInv, PlacedInv, OncePlacedInv, QueuedInv, PooledInv
<1>11. ASSUME NEW t \in Task PROVE TaskInv(h, t, {}, 1)
  <2>1. /\ h.task[t].kind = "free" /\ h.task[t].deps = 0 /\ h.task[t].queued = FALSE
        /\ h.task[t].finished = FALSE
    BY <1>2 DEF Blank
  <2>2. WaitsAt(h.dependents, t) = {}
    BY <1>2 DEF WaitsAt
  <2>3. DepsInv(h, t)
    BY <2>1, <2>2, FS_EmptySet DEF DepsInv
  <2>4. FreeInv(h, t, {}) /\ FinishedInv(h, t, {}) /\ HeldInv(h, t, {})
    BY <2>1 DEF FreeInv, FinishedInv, HeldInv
  <2>5. WaitingInv(h, t, {}) /\ InputInv(h, t) /\ CreatedInv(h, t) /\ KeyInv(h, t, 1)
    BY <2>1 DEF WaitingInv, InputInv, CreatedInv, KeyInv, Sources, Reactions, Combinators
  <2>6. QED
    BY <2>3, <2>4, <2>5 DEF TaskInv
<1>12. HeapInv(h, {}, {}, 1)
  BY <1>3, <1>10, <1>11 DEF HeapInv
<1>13. QED
  BY <1>1, <1>4, <1>5, <1>7, <1>8, <1>9, <1>12 DEF SchedulerInv, Held, FramesInv

(* Every step of the scheduler, its callers and the pool keeps the         *)
(* invariant.                                                              *)
LEMMA SchedulerInductive ==
  ASSUME SchedulerInv, [SchedulerNext]_schedulerVars
  PROVE  SchedulerInv'
<1>1. CASE UNCHANGED schedulerVars
  <2>1. UNCHANGED <<heapVars, nextTimer, poolVars>> /\ stack' = stack
        /\ UNCHANGED <<now, nextTimer, exception, phase>>
    BY <1>1 DEF schedulerVars
  <2>2. ClockInv' /\ FramesOf(stack', Heap) /\ HeldIn(stack') = HeldIn(stack)
    BY <2>1, InvIs, ClockStays
  <2>3. QED
    BY <2>1, <2>2, StackOnly
<1>2. CASE ProgramCalls
  BY <1>2, CallThenKeeps, CallFinallyKeeps, CallCombinatorKeeps, CallSettledKeeps,
     CallSetTimeoutKeeps, CallSleepAsyncKeeps, CallClearTimeoutKeeps, CallIoKeeps,
     CallAwaitKeeps, ThrowKeeps, LeaveMainKeeps DEF ProgramCalls
<1>3. CASE Turns
  BY <1>3, TurnIdleKeeps, TurnCombinatorKeeps, TurnIoKeeps, TurnReactionKeeps DEF Turns
<1>4. CASE Ends
  BY <1>4, AwaitEndsKeeps, ThenEndsKeeps, FinallyEndsKeeps DEF Ends
<1>5. CASE Returns
  BY <1>5, TimerReturnsKeeps, ReactionReturnsKeeps, ReactionReturnsPromiseKeeps DEF Returns
<1>6. CASE \E w \in IoThread : PopTask(w) \/ RunTask(w) \/ LeavePool(w)
  BY <1>6, PopTaskKeeps, RunTaskKeeps, LeavePoolKeeps
<1>7. CASE StopPool \/ JoinPool \/ Tick
  BY <1>7, StopPoolKeeps, JoinPoolKeeps, ThrowKeeps
<1>8. QED
  BY <1>1, <1>2, <1>3, <1>4, <1>5, <1>6, <1>7 DEF SchedulerNext

(* The invariant gives the types.                                          *)
LEMMA SchedulerTyped ==
  ASSUME SchedulerInv
  PROVE  SchedulerTypeOK
<1>1. PICK h : h = Heap
  OBVIOUS
<1>2. /\ h \in HeapType /\ h.task = task /\ h.status = status /\ h.queues = queues
      /\ h.dependents = dependents /\ FramesOf(stack, h) /\ PoolOnceInv /\ ClockInv
  BY <1>1, InvIs
<1>3. /\ status \in [Promise -> {"absent", "pending", "fulfilled", "rejected"}]
      /\ dependents \in [Promise -> Seq(Task)] /\ task \in [Task -> TaskType]
      /\ queues \in [{"callbacks", "timers", "io", "done"} -> Seq(Task)]
  BY <1>2, HeapIs DEF StatusName, QueueName
<1>4. ASSUME NEW i \in DOMAIN stack
      PROVE  stack[i].turns \in Nat /\ [stack[i] EXCEPT !.turns = 0] \in Frames
  <2>1. PICK f : f = stack[i]
    OBVIOUS
  <2>2. i \in 1..Len(stack)
    BY <1>2 DEF FramesOf
  <2>3. Fits(f, h) /\ f \in FrameType
    BY <2>1, <2>2, <1>2 DEF FramesOf, Fits
  <2>4. /\ f.kind \in {"await", "exit", "then", "finally", "callback"}
        /\ f.on \in Promise \cup {Plain} /\ f.task \in Task \cup {NoTask} /\ f.turns \in Nat
        /\ [f EXCEPT !.turns = 0] = [kind |-> f.kind, on |-> f.on, task |-> f.task, turns |-> 0]
    BY <2>3 DEF FrameType
  <2>5. CASE f.kind = "callback"
    <3>1. f.on = Plain /\ f.task \in Task
      BY <2>3, <2>4, <2>5 DEF Fits
    <3>2. [f EXCEPT !.turns = 0] = Callback(f.task)
      BY <2>4, <2>5, <3>1 DEF Callback
    <3>3. QED
      BY <2>1, <2>4, <3>1, <3>2 DEF Frames
  <2>6. CASE f.kind # "callback"
    <3>1. [f EXCEPT !.turns = 0] = Drain(f.kind, f.on, f.task)
      BY <2>4 DEF Drain
    <3>2. f.kind \in {"await", "exit", "then", "finally"}
      BY <2>4, <2>6
    <3>3. QED
      BY <2>1, <2>4, <3>1, <3>2 DEF Frames
  <2>7. QED
    BY <2>5, <2>6
<1>5. QED
  BY <1>2, <1>3, <1>4 DEF SchedulerTypeOK, PoolOnceInv, ClockInv

(* Counting the places of t from the start or from the end is the same.    *)
LEMMA PlacesCounted ==
  ASSUME NEW d \in [Promise -> Seq(Task)], NEW t
  PROVE  Cardinality(PlacesIn(d, t)) = Cardinality(WaitsAt(d, t))
<1> DEFINE W == WaitsAt(d, t)
           Q == PlacesIn(d, t)
           F == [w \in W |-> <<w[1], Len(d[w[1]]) - w[2]>>]
<1>1. \A p \in Promise : d[p] \in Seq(Task) /\ Len(d[p]) \in Nat /\ DOMAIN d[p] = 1..Len(d[p])
  OBVIOUS
<1>2. \A p, i : <<p, i>> \in Q <=> p \in Promise /\ i \in 1..Len(d[p]) /\ d[p][i] = t
  BY <1>1 DEF PlacesIn
<1>3. \A z \in Q : z = <<z[1], z[2]>>
  BY DEF PlacesIn
<1>4. \A w \in W : /\ w = <<w[1], w[2]>> /\ w[1] \in Promise /\ w[2] \in Nat
                   /\ w[2] < Len(d[w[1]]) /\ d[w[1]][Len(d[w[1]]) - w[2]] = t
  BY DEF WaitsAt
<1>5. \A p \in Promise : \A j \in Nat : j < Len(d[p]) /\ d[p][Len(d[p]) - j] = t => <<p, j>> \in W
  BY DEF WaitsAt
<1> HIDE DEF W, Q
<1>6. F \in [W -> Q]
  <2>1. ASSUME NEW w \in W PROVE <<w[1], Len(d[w[1]]) - w[2]>> \in Q
    <3>1. PICK p, j, l : p = w[1] /\ j = w[2] /\ l = Len(d[p])
      OBVIOUS
    <3>2. l \in Nat /\ j \in Nat /\ j < l /\ d[p][l - j] = t /\ p \in Promise
      BY <3>1, <1>1, <1>4
    <3>3. l - j \in 1..l
      BY <3>2
    <3>4. QED
      BY <3>1, <3>2, <3>3, <1>2
  <2>2. QED
    BY <2>1
<1>7. ASSUME NEW v \in W, NEW w \in W, F[v] = F[w] PROVE v = w
  <2>1. v[1] = w[1] /\ Len(d[v[1]]) - v[2] = Len(d[w[1]]) - w[2]
    BY <1>7
  <2>2. v[2] = w[2]
    BY <2>1, <1>1, <1>4
  <2>3. QED
    BY <2>1, <2>2, <1>4
<1>8. ASSUME NEW z \in Q PROVE \E w \in W : F[w] = z
  <2>1. PICK p, i, l : p = z[1] /\ i = z[2] /\ l = Len(d[p])
    OBVIOUS
  <2>2. z = <<p, i>> /\ p \in Promise /\ i \in 1..l /\ d[p][i] = t /\ l \in Nat
    BY <2>1, <1>1, <1>2, <1>3
  <2>3. PICK j : j = l - i
    OBVIOUS
  <2>4. j \in Nat /\ j < l /\ l - j = i
    BY <2>2, <2>3
  <2>5. <<p, j>> \in W
    BY <2>1, <2>2, <2>4, <1>5
  <2>6. F[<<p, j>>] = <<p, i>>
    BY <2>1, <2>4, <2>5
  <2>7. QED
    BY <2>2, <2>5, <2>6
<1> HIDE DEF F
<1>9. F \in Bijection(W, Q)
  <2>1. DOMAIN F = W
    BY <1>6
  <2>2. F \in Injection(W, Q)
    BY <1>6, <1>7, <2>1 DEF Injection, IsInjective
  <2>3. F \in Surjection(W, Q)
    BY <1>6, <1>8 DEF Surjection
  <2>4. QED
    BY <2>2, <2>3 DEF Bijection
<1>10. IsFiniteSet(W)
  BY WaitsFinite DEF W
<1>11. Cardinality(Q) = Cardinality(W)
  BY <1>9, <1>10, FS_Bijection DEF ExistsBijection
<1>12. QED
  BY <1>11 DEF W, Q

(* A task is in the queues once or not at all.                             *)
LEMMA QueuedOnce ==
  ASSUME NEW h \in HeapType, QueuesInv(h), NEW t \in Task
  PROVE  Cardinality(PlacesIn(h.queues, t)) = (IF h.task[t].queued THEN 1 ELSE 0)
<1>1. PICK s : s = h.queues
  OBVIOUS
<1>2. /\ s \in [QueueName -> Seq(Task)]
      /\ \A q \in QueueName : s[q] \in Seq(Task) /\ DOMAIN s[q] = 1..Len(s[q])
  <2>1. s \in [QueueName -> Seq(Task)]
    BY <1>1, HeapIs
  <2>2. QED
    BY <2>1
<1>3. \A q, i : <<q, i>> \in PlacesIn(s, t) <=> q \in QueueName /\ i \in 1..Len(s[q]) /\ s[q][i] = t
  BY <1>2 DEF PlacesIn
<1>4. \A z \in PlacesIn(s, t) : z = <<z[1], z[2]>>
  BY DEF PlacesIn
<1>5. CASE h.task[t].queued
  <2>1. PICK q \in QueueName : \E i \in 1..Len(s[q]) : s[q][i] = t
    BY <1>1, <1>5 DEF QueuesInv, QueuedInv
  <2>2. PICK i \in 1..Len(s[q]) : s[q][i] = t
    BY <2>1
  <2>3. <<q, i>> \in PlacesIn(s, t)
    BY <2>2, <1>3
  <2>4. ASSUME NEW z \in PlacesIn(s, t) PROVE z = <<q, i>>
    <3>1. z = <<z[1], z[2]>> /\ z[1] \in QueueName /\ z[2] \in 1..Len(s[z[1]]) /\ s[z[1]][z[2]] = t
      BY <1>3, <1>4
    <3>2. z[1] = q /\ z[2] = i
      BY <3>1, <2>2, <1>1 DEF QueuesInv, OncePlacedInv
    <3>3. QED
      BY <3>1, <3>2
  <2>5. PlacesIn(s, t) = {<<q, i>>}
    BY <2>3, <2>4
  <2>6. QED
    BY <2>5, <1>1, <1>5, FS_Singleton
<1>6. CASE ~h.task[t].queued
  <2>1. \A q \in QueueName : \A i \in 1..Len(s[q]) : s[q][i] # t
    BY <1>1, <1>6 DEF QueuesInv, PlacedInv
  <2>2. PlacesIn(s, t) = {}
    BY <2>1, <1>3, <1>4
  <2>3. QED
    BY <2>2, <1>1, <1>6, FS_EmptySet
<1>7. QED
  BY <1>5, <1>6

(* The invariant gives every task an owner.                                *)
LEMMA SchedulerOwned ==
  ASSUME SchedulerInv
  PROVE  TasksOwned
<1>1. PICK h, K, P : h = Heap /\ K = HeldIn(stack) /\ P = Pooled
  OBVIOUS
<1>2. /\ h \in HeapType /\ h.task = task /\ h.queues = queues
      /\ h.dependents = dependents /\ FramesOf(stack, h) /\ PoolOnceInv
      /\ HeapInv(h, K, P, nextTimer)
  BY <1>1, InvIs
<1>3. SUFFICES ASSUME NEW t \in Task
      PROVE  /\ task[t].deps = Cardinality(PlacesIn(dependents, t))
             /\ Cardinality(PlacesIn(queues, t)) = (IF task[t].queued THEN 1 ELSE 0)
             /\ task[t].kind = "free" => ~task[t].queued /\ ~OnStack(t) /\ ~InPool(t)
             /\ task[t].finished => task[t].deps > 0 /\ ~task[t].queued /\ ~OnStack(t)
             /\ task[t].kind # "free" /\ ~task[t].finished =>
                  task[t].queued \/ task[t].deps > 0 \/ OnStack(t)
             /\ InPool(t) => ~task[t].completed /\ t \in ToSet(queues.io)
  BY DEF TasksOwned
<1>4. /\ QueuesInv(h) /\ PooledInv(h, P)
      /\ DepsInv(h, t) /\ FreeInv(h, t, K) /\ FinishedInv(h, t, K) /\ HeldInv(h, t, K)
  BY <1>2 DEF HeapInv, TaskInv
<1>5. task[t].deps = Cardinality(PlacesIn(dependents, t))
  <2>1. h.dependents \in [Promise -> Seq(Task)]
    BY <1>2, HeapIs
  <2>2. Cardinality(PlacesIn(h.dependents, t)) = Cardinality(WaitsAt(h.dependents, t))
    BY <2>1, PlacesCounted
  <2>3. QED
    BY <2>2, <1>2, <1>4 DEF DepsInv
<1>6. Cardinality(PlacesIn(queues, t)) = (IF task[t].queued THEN 1 ELSE 0)
  BY <1>2, <1>4, QueuedOnce
<1>7. OnStack(t) <=> t \in K
  <2>1. t # NoTask
    BY Sizes DEF NoTask
  <2>2. DOMAIN stack = 1..Len(stack)
    BY <1>2 DEF FramesOf
  <2>3. QED
    BY <2>1, <2>2, <1>1 DEF OnStack, HeldIn
<1>8. InPool(t) <=> t \in P
  <2>1. t \notin {Idle, Absent}
    BY Sizes DEF Idle, Absent
  <2>2. DOMAIN hand = IoThread
    BY <1>2 DEF PoolOnceInv
  <2>3. ToSet(hand) = {hand[w] : w \in IoThread}
    BY <2>2 DEF ToSet
  <2>4. QED
    BY <2>1, <2>3, <1>1 DEF InPool, Pooled, InHands
<1>9. task[t].kind = "free" => ~task[t].queued /\ ~OnStack(t) /\ ~InPool(t)
  BY <1>2, <1>4, <1>7, <1>8 DEF FreeInv, PooledInv
<1>10. task[t].finished => task[t].deps > 0 /\ ~task[t].queued /\ ~OnStack(t)
  BY <1>2, <1>4, <1>7 DEF FinishedInv
<1>11. task[t].kind # "free" /\ ~task[t].finished =>
         task[t].queued \/ task[t].deps > 0 \/ OnStack(t)
  BY <1>2, <1>4, <1>7 DEF HeldInv
<1>12. InPool(t) => ~task[t].completed /\ t \in ToSet(queues.io)
  <2>1. queues["io"] \in Seq(Task)
    <3>1. h.queues \in [QueueName -> Seq(Task)]
      BY <1>2, HeapIs
    <3>2. QED
      BY <3>1, <1>2 DEF QueueName
  <2>2. DOMAIN queues["io"] = 1..Len(queues["io"])
    BY <2>1
  <2>3. QED
    BY <2>2, <1>2, <1>4, <1>8 DEF PooledInv, ToSet
<1>13. QED
  BY <1>5, <1>6, <1>9, <1>10, <1>11, <1>12

(* Every reachable state satisfies the invariant.                          *)
THEOREM SchedulerInvariant == SchedulerSpec => []SchedulerInv
<1>1. SchedulerInit => SchedulerInv
  BY SchedulerInitial
<1>2. SchedulerInv /\ [SchedulerNext]_schedulerVars => SchedulerInv'
  BY SchedulerInductive
<1>3. QED
  BY <1>1, <1>2, PTL DEF SchedulerSpec

(* The promises, tasks, queues and frames of the previous runtime keep     *)
(* their types, and its counters their bounds.                             *)
THEOREM SchedulerTypeCorrect == SchedulerSpec => []SchedulerTypeOK
<1>1. SchedulerInv => SchedulerTypeOK
  BY SchedulerTyped
<1>2. QED
  BY <1>1, SchedulerInvariant, PTL

(* jayess_settle, jayess_run_microtasks and clearTimeout free no task that *)
(* a queue, a promise, a callback or a thread of the pool points to, and   *)
(* forget none that is to be run.                                          *)
THEOREM TasksAreOwned == SchedulerSpec => []TasksOwned
<1>1. SchedulerInv => TasksOwned
  BY SchedulerOwned
<1>2. QED
  BY <1>1, SchedulerInvariant, PTL

----------------------------------------------------------------------------
(* What the heap promises.                                                 *)

(* The tasks that are to settle p, and p's rule, in a heap h.              *)
HandledBy(k) ==
  CASE k.kind = "then" ->
         {s \in {"fulfilled", "rejected"} :
            "none" # IF s = "fulfilled" THEN k.onFulfilled ELSE k.onRejected}
    [] k.kind = "finally" /\ k.onFulfilled # "none" -> {"fulfilled", "rejected"}
    [] OTHER -> {}
RuleFrom(k) == [kind |-> k.kind, of |-> k.items, handled |-> HandledBy(k)]
Settlers(h, p) == {t \in Task : Alive(h.task[t]) /\ h.task[t].result = p}
RuleIn(h, p) ==
  IF h.status[p] # "pending" THEN NoRule
  ELSE IF Settlers(h, p) = {} THEN [NoRule EXCEPT !.kind = "lost"]
  ELSE RuleFrom(h.task[Min(Settlers(h, p))])
RulesIn(h) == [p \in Promise |-> RuleIn(h, p)]

(* The rules of the heap are those that the refinement gives the contract, *)
(* before and after a step.                                                *)
LEMMA RuleOfIs ==
  ASSUME NEW p \in Promise
  PROVE  RuleOf(p) = RuleIn(Heap, p)
<1>1. Heap.status = status /\ Heap.task = task
  BY DEF Heap
<1>2. Settlers(Heap, p) = {t \in Task : task[t].kind # "free" /\ ~task[t].finished /\ task[t].result = p}
  BY <1>1 DEF Settlers, Alive
<1>3. QED
  BY <1>1, <1>2 DEF RuleOf, RuleIn, RuleFrom, HandledBy

(* So they are after a step that leaves the heap x.                        *)
LEMMA RuleOfNext ==
  ASSUME NEW x, Heap' = x, NEW p \in Promise
  PROVE  RuleOf(p)' = RuleIn(x, p)
<1>1. x.status = status' /\ x.task = task'
  BY DEF Heap
<1>2. Settlers(x, p) = {t \in Task : task'[t].kind # "free" /\ ~task'[t].finished /\ task'[t].result = p}
  BY <1>1 DEF Settlers, Alive
<1>3. QED
  BY <1>1, <1>2 DEF RuleOf, RuleIn, RuleFrom, HandledBy

(* Each promise has one task to settle it, and what a task that is held    *)
(* calls is there for the state that its source is in.                     *)
Running(h, t) ==
  h.task[t].kind \in Reactions =>
    /\ StatusIn(h, h.task[t].items[1]) \in {"fulfilled", "rejected"}
    /\ HandlerOf(h, t) = "fn"
LiveInv(h) ==
  \A t \in Task : Alive(h.task[t]) =>
    IF h.task[t].kind = "timer" THEN h.task[t].result = Plain
    ELSE h.status[h.task[t].result] = "pending"
PromiseInv(h, K) == LiveInv(h) /\ \A t \in K : Running(h, t)
PromisesInv == PromiseInv(Heap, Held)

(* The rule of a promise that one task settles is the task's.              *)
LEMMA OnlySettler ==
  ASSUME NEW h, NEW p, h.status[p] = "pending", NEW t \in Task, Alive(h.task[t]),
         h.task[t].result = p, \A u \in Task \ {t} : ~(Alive(h.task[u]) /\ h.task[u].result = p)
  PROVE  RuleIn(h, p) = RuleFrom(h.task[t])
<1>1. Settlers(h, p) = {t}
  BY DEF Settlers
<1>2. Min({t}) = t
  <2>1. {t} \subseteq Nat /\ {t} # {}
    BY Sizes
  <2>2. Min({t}) \in {t}
    BY <2>1, LeastIs
  <2>3. QED
    BY <2>2
<1>3. QED
  BY <1>1, <1>2 DEF RuleIn

(* Each task that is to settle a promise is the only one to do so.         *)
LEMMA OneSettles ==
  ASSUME NEW h, NEW K, NEW P, NEW n, HeapInv(h, K, P, n), LiveInv(h),
         NEW t \in Task, Alive(h.task[t]), h.task[t].kind # "timer",
         NEW p, p = h.task[t].result
  PROVE  /\ p \in Promise /\ h.status[p] = "pending"
         /\ \A u \in Task \ {t} : ~(Alive(h.task[u]) /\ h.task[u].result = p)
         /\ RuleIn(h, p) = RuleFrom(h.task[t])
<1>1. h.task[t].kind # "free" /\ KeyInv(h, t, n)
  BY DEF HeapInv, TaskInv, Alive
<1>2. p \in Promise
  BY <1>1 DEF KeyInv
<1>3. h.status[p] = "pending"
  BY DEF LiveInv
<1>4. ASSUME NEW u \in Task \ {t}, Alive(h.task[u]), h.task[u].result = p PROVE FALSE
  <2>1. h.task[u].kind # "free"
    BY <1>4 DEF Alive
  <2>2. h.task[u].kind # "timer"
    <3>1. p # Plain
      BY <1>2, Sizes DEF Plain
    <3>2. QED
      BY <3>1, <1>4 DEF LiveInv
  <2>3. KeyOf(h.task[t]) = p /\ KeyOf(h.task[u]) = p
    BY <2>2, <1>4 DEF KeyOf
  <2>4. QED
    BY <2>1, <2>3, <1>1 DEF KeyInv
<1>5. RuleIn(h, p) = RuleFrom(h.task[t])
  BY <1>3, <1>4, OnlySettler
<1>6. QED
  BY <1>2, <1>3, <1>4, <1>5

(* A step leaves the rule of a promise alone whose state and whose tasks   *)
(* it leaves alone.                                                        *)
DutyFor(h, g, u, p) ==
  /\ u \in Settlers(h, p) <=> u \in Settlers(g, p)
  /\ u \in Settlers(h, p) => RuleFrom(g.task[u]) = RuleFrom(h.task[u])
LEMMA RuleStays ==
  ASSUME NEW h, NEW g, NEW p, g.status[p] = h.status[p], \A u \in Task : DutyFor(h, g, u, p)
  PROVE  RuleIn(g, p) = RuleIn(h, p)
<1>1. Settlers(g, p) = Settlers(h, p)
  BY DEF DutyFor, Settlers
<1>2. CASE Settlers(h, p) = {}
  BY <1>1, <1>2 DEF RuleIn
<1>3. CASE Settlers(h, p) # {}
  <2>1. Settlers(h, p) \subseteq Task /\ Task \subseteq Nat
    BY Sizes DEF Settlers
  <2>2. Min(Settlers(h, p)) \in Settlers(h, p)
    BY <2>1, <1>3, LeastIs
  <2>3. RuleFrom(g.task[Min(Settlers(h, p))]) = RuleFrom(h.task[Min(Settlers(h, p))])
    BY <2>1, <2>2 DEF DutyFor
  <2>4. QED
    BY <2>3, <1>1, <1>3 DEF RuleIn
<1>4. QED
  BY <1>2, <1>3

(* Who goes on with what it had to do goes on for each promise.            *)
LEMMA DutyStays ==
  ASSUME NEW h, NEW g, NEW u \in Task, SameDuty(h.task[u], g.task[u]), NEW p
  PROVE  DutyFor(h, g, u, p)
<1>1. u \in Settlers(h, p) <=> u \in Settlers(g, p)
  BY DEF SameDuty, Settlers
<1>2. ASSUME u \in Settlers(h, p) PROVE RuleFrom(g.task[u]) = RuleFrom(h.task[u])
  <2>1. /\ g.task[u].kind = h.task[u].kind /\ g.task[u].items = h.task[u].items
        /\ g.task[u].onFulfilled = h.task[u].onFulfilled
        /\ g.task[u].onRejected = h.task[u].onRejected
    BY <1>2 DEF SameDuty, Settlers
  <2>2. QED
    BY <2>1 DEF RuleFrom, HandledBy
<1>3. QED
  BY <1>1, <1>2 DEF DutyFor

(***************************************************************************)
(* What a step may be for the contract.                                    *)
(***************************************************************************)
MovesOn == [Contract!Next]_<<status, [p \in Promise |-> RuleOf(p)]>>

(* Its variables before and after a step, by the heaps.                    *)
LEMMA RulesMove ==
  ASSUME NEW h, h = Heap, NEW g, Heap' = g
  PROVE  /\ [p \in Promise |-> RuleOf(p)] = RulesIn(h)
         /\ [p \in Promise |-> RuleOf(p)]' = RulesIn(g)
         /\ status = h.status /\ status' = g.status
<1>1. [p \in Promise |-> RuleOf(p)] = RulesIn(h)
  BY RuleOfIs DEF RulesIn
<1>2. [p \in Promise |-> RuleOf(p)]' = RulesIn(g)
  BY RuleOfNext DEF RulesIn
<1>3. status = h.status /\ status' = g.status
  BY DEF Heap
<1>4. QED
  BY <1>1, <1>2, <1>3

(* A task that is held goes on running when what is settled stays settled. *)
SettledStays(h, g) ==
  \A p \in Promise : h.status[p] \in {"fulfilled", "rejected"} => g.status[p] = h.status[p]
GoesOn(h, g, K, t) == t \in K /\ SameDuty(h.task[t], g.task[t])
LEMMA RunsOn ==
  ASSUME NEW h, NEW K, NEW P, NEW n, HeapInv(h, K, P, n), NEW t \in K, t \in Task,
         Running(h, t), NEW g, GoesOn(h, g, K, t), SettledStays(h, g)
  PROVE  Running(g, t)
<1>1. h \in HeapType /\ FreeInv(h, t, K) /\ FinishedInv(h, t, K) /\ WaitingInv(h, t, K)
  BY DEF HeapInv, TaskInv
<1>2. Alive(h.task[t])
  BY <1>1 DEF FreeInv, FinishedInv, Alive
<1>3. /\ g.task[t].kind = h.task[t].kind /\ g.task[t].items = h.task[t].items
      /\ g.task[t].onFulfilled = h.task[t].onFulfilled
      /\ g.task[t].onRejected = h.task[t].onRejected
  BY <1>2 DEF GoesOn, SameDuty
<1>4. CASE h.task[t].kind \in Reactions
  <2>1. PICK items, p : items = h.task[t].items /\ p = items[1]
    OBVIOUS
  <2>2. items \in Seq(Promise \cup {Plain}) /\ Len(items) = 1
    <3>1. h.task[t] \in TaskType
      BY <1>1, HeapIs
    <3>2. QED
      BY <3>1, <2>1, <1>1, <1>4, TaskIs DEF WaitingInv
  <2>3. p \in Promise \cup {Plain}
    BY <2>1, <2>2
  <2>4. StatusIn(h, p) \in {"fulfilled", "rejected"} /\ HandlerOf(h, t) = "fn"
    BY <2>1, <1>4 DEF Running
  <2>5. StatusIn(g, p) = StatusIn(h, p)
    BY <2>3, <2>4 DEF StatusIn, SettledStays
  <2>6. HandlerOf(g, t) = HandlerOf(h, t)
    BY <2>1, <2>5, <1>3 DEF HandlerOf
  <2>7. QED
    BY <2>1, <2>4, <2>5, <2>6, <1>3 DEF Running
<1>5. CASE h.task[t].kind \notin Reactions
  BY <1>3, <1>5 DEF Running
<1>6. QED
  BY <1>4, <1>5

(* What is held after a step runs, or was held and goes on.                *)
HeldOn(h, g) == \A t \in Held' : Running(g, t) \/ GoesOn(h, g, Held, t)
LEMMA HeldRuns ==
  ASSUME SchedulerInv, PromisesInv, NEW h, h = Heap, NEW g, HeldOn(h, g), SettledStays(h, g)
  PROVE  \A t \in Held' : Running(g, t)
<1>1. PICK K, P, n : K = Held /\ P = Pooled /\ n = nextTimer
  OBVIOUS
<1>2. HeapInv(h, K, P, n) /\ K \subseteq Task /\ \A t \in K : Running(h, t)
  BY <1>1, InvIs DEF Held, PromisesInv, PromiseInv
<1>3. ASSUME NEW t \in Held' PROVE Running(g, t)
  <2>1. CASE Running(g, t)
    BY <2>1
  <2>2. CASE GoesOn(h, g, K, t)
    <3>1. t \in K
      BY <2>2 DEF GoesOn
    <3>2. QED
      BY <2>2, <3>1, <1>2, RunsOn
  <2>3. QED
    BY <2>1, <2>2, <1>1 DEF HeldOn
<1>4. QED
  BY <1>3

(* A step that only timers come and go by.                                 *)
TimerDuty(j, k) ==
  /\ Alive(j) => j.result = Plain
  /\ Alive(k) => k.kind = "timer" /\ k.result = Plain
Unmoved(h, g) ==
  /\ g.status = h.status
  /\ \A u \in Task : SameDuty(h.task[u], g.task[u]) \/ TimerDuty(h.task[u], g.task[u])
LEMMA UnmovedStep ==
  ASSUME SchedulerInv, PromisesInv, NEW h, h = Heap, NEW g, Heap' = g,
         Unmoved(h, g), HeldOn(h, g)
  PROVE  MovesOn /\ PromisesInv'
<1>1. g.status = h.status
  BY DEF Unmoved
<1>2. ASSUME NEW p \in Promise PROVE RuleIn(g, p) = RuleIn(h, p)
  <2>1. ASSUME NEW u \in Task PROVE DutyFor(h, g, u, p)
    <3>1. CASE SameDuty(h.task[u], g.task[u])
      BY <3>1, DutyStays
    <3>2. CASE TimerDuty(h.task[u], g.task[u])
      <4>1. p # Plain
        BY Sizes DEF Plain
      <4>2. u \notin Settlers(h, p) /\ u \notin Settlers(g, p)
        BY <3>2, <4>1 DEF TimerDuty, Settlers
      <4>3. QED
        BY <4>2 DEF DutyFor
    <3>3. QED
      BY <3>1, <3>2 DEF Unmoved
  <2>2. QED
    BY <2>1, <1>1, RuleStays
<1>3. RulesIn(g) = RulesIn(h)
  BY <1>2 DEF RulesIn
<1>4. MovesOn
  <2>1. UNCHANGED <<status, [p \in Promise |-> RuleOf(p)]>>
    BY <1>1, <1>3, RulesMove
  <2>2. QED
    BY <2>1 DEF MovesOn
<1>5. LiveInv(g)
  <2> SUFFICES ASSUME NEW t \in Task, Alive(g.task[t])
               PROVE  IF g.task[t].kind = "timer" THEN g.task[t].result = Plain
                      ELSE g.status[g.task[t].result] = "pending"
    BY DEF LiveInv
  <2>1. CASE SameDuty(h.task[t], g.task[t])
    <3>1. LiveInv(h)
      BY DEF PromisesInv, PromiseInv
    <3>2. /\ Alive(h.task[t]) /\ g.task[t].kind = h.task[t].kind
          /\ g.task[t].result = h.task[t].result
      BY <2>1 DEF SameDuty
    <3>3. QED
      BY <3>1, <3>2, <1>1 DEF LiveInv
  <2>2. CASE TimerDuty(h.task[t], g.task[t])
    BY <2>2 DEF TimerDuty
  <2>3. QED
    BY <2>1, <2>2 DEF Unmoved
<1>6. \A t \in Held' : Running(g, t)
  BY <1>1, HeldRuns DEF SettledStays
<1>7. PromisesInv'
  BY <1>5, <1>6 DEF PromisesInv, PromiseInv
<1>8. QED
  BY <1>4, <1>7

(* A step that settles the promise of a task that is done with it.         *)
LEMMA SettledStep ==
  ASSUME SchedulerInv, PromisesInv, NEW h, h = Heap, NEW g, Heap' = g,
         NEW t \in Task, Alive(h.task[t]), h.task[t].kind # "timer",
         NEW s \in {"fulfilled", "rejected"}, s \in Contract!Allowed(h.task[t].result),
         SettlesFor(h, t, s, g), HeldOn(h, g)
  PROVE  MovesOn /\ PromisesInv'
<1>1. PICK p, K, P, n : p = h.task[t].result /\ K = Held /\ P = Pooled /\ n = nextTimer
  OBVIOUS
<1>2. HeapInv(h, K, P, n) /\ h \in HeapType /\ LiveInv(h)
  BY <1>1, InvIs DEF Held, PromisesInv, PromiseInv
<1>3. /\ p \in Promise /\ h.status[p] = "pending"
      /\ \A u \in Task \ {t} : ~(Alive(h.task[u]) /\ h.task[u].result = p)
  BY <1>1, <1>2, OneSettles
<1>4. /\ g.status = [h.status EXCEPT ![p] = s] /\ ~Alive(g.task[t])
      /\ \A u \in Task \ {t} : SameDuty(h.task[u], g.task[u])
  BY <1>1 DEF SettlesFor
<1>5. g.status[p] = s /\ \A q \in Promise \ {p} : g.status[q] = h.status[q]
  <2>1. h.status \in [Promise -> StatusName]
    BY <1>2, HeapIs
  <2>2. QED
    BY <2>1, <1>3, <1>4
<1>6. RuleIn(g, p) = NoRule
  BY <1>5 DEF RuleIn
<1>7. ASSUME NEW q \in Promise \ {p} PROVE RuleIn(g, q) = RuleIn(h, q)
  <2>1. ASSUME NEW u \in Task PROVE DutyFor(h, g, u, q)
    <3>1. CASE u = t
      <4>1. t \notin Settlers(h, q) /\ t \notin Settlers(g, q)
        BY <1>1, <1>4 DEF Settlers
      <4>2. QED
        BY <3>1, <4>1 DEF DutyFor
    <3>2. CASE u # t
      BY <3>2, <1>4, DutyStays
    <3>3. QED
      BY <3>1, <3>2
  <2>2. QED
    BY <2>1, <1>5, RuleStays
<1>8. RulesIn(g) = [RulesIn(h) EXCEPT ![p] = NoRule]
  BY <1>3, <1>6, <1>7 DEF RulesIn
<1>9. MovesOn
  <2>1. PICK R, S : /\ R = [q \in Promise |-> RuleOf(q)]
                    /\ S = [q \in Promise |-> RuleOf(q)]'
    OBVIOUS
  <2>2. R = RulesIn(h) /\ S = RulesIn(g) /\ status = h.status /\ status' = g.status
    BY <2>1, RulesMove
  <2>3. s \in Contract!Allowed(p)
    BY <1>1
  <2>4. status[p] = "pending" /\ status' = [status EXCEPT ![p] = s]
    BY <2>2, <1>3, <1>4
  <2>5. S = [R EXCEPT ![p] = Contract!NoRule]
    BY <2>2, <1>8 DEF Contract!NoRule, NoRule
  <2>6. Contract!Settle(p)
    BY <2>1, <2>3, <2>4, <2>5 DEF Contract!Settle
  <2>7. QED
    BY <2>6, <1>3 DEF MovesOn, Contract!Next
<1>10. LiveInv(g)
  <2> SUFFICES ASSUME NEW u \in Task, Alive(g.task[u])
               PROVE  IF g.task[u].kind = "timer" THEN g.task[u].result = Plain
                      ELSE g.status[g.task[u].result] = "pending"
    BY DEF LiveInv
  <2>1. u # t
    BY <1>4
  <2>2. /\ Alive(h.task[u]) /\ g.task[u].kind = h.task[u].kind
        /\ g.task[u].result = h.task[u].result
    BY <2>1, <1>4 DEF SameDuty
  <2>3. CASE h.task[u].kind = "timer"
    BY <2>2, <2>3, <1>2 DEF LiveInv
  <2>4. CASE h.task[u].kind # "timer"
    <3>1. PICK q : q = h.task[u].result
      OBVIOUS
    <3>2. q \in Promise /\ h.status[q] = "pending"
      BY <2>2, <2>4, <3>1, <1>2, OneSettles
    <3>3. q # p
      BY <2>1, <2>2, <3>1, <1>3
    <3>4. g.status[q] = "pending"
      BY <3>2, <3>3, <1>5
    <3>5. QED
      BY <2>2, <2>4, <3>1, <3>4
  <2>5. QED
    BY <2>3, <2>4
<1>11. \A u \in Held' : Running(g, u)
  <2>1. SettledStays(h, g)
    BY <1>3, <1>5 DEF SettledStays
  <2>2. QED
    BY <2>1, HeldRuns
<1>12. PromisesInv'
  BY <1>10, <1>11 DEF PromisesInv, PromiseInv
<1>13. QED
  BY <1>9, <1>12

(* A task that goes on has a pending promise to settle, when none that was *)
(* pending is settled.                                                     *)
PendingStays(h, g) == \A q \in Promise : h.status[q] = "pending" => g.status[q] = "pending"
LEMMA LiveStays ==
  ASSUME NEW h, NEW K, NEW P, NEW n, HeapInv(h, K, P, n), LiveInv(h), NEW g, PendingStays(h, g),
         NEW u \in Task, SameDuty(h.task[u], g.task[u]), Alive(g.task[u])
  PROVE  IF g.task[u].kind = "timer" THEN g.task[u].result = Plain
         ELSE g.status[g.task[u].result] = "pending"
<1>1. /\ Alive(h.task[u]) /\ g.task[u].kind = h.task[u].kind
      /\ g.task[u].result = h.task[u].result
  BY DEF SameDuty
<1>2. CASE h.task[u].kind = "timer"
  BY <1>1, <1>2 DEF LiveInv
<1>3. CASE h.task[u].kind # "timer"
  <2>1. PICK q : q = h.task[u].result
    OBVIOUS
  <2>2. q \in Promise /\ h.status[q] = "pending"
    BY <2>1, <1>1, <1>3, OneSettles
  <2>3. g.status[q] = "pending"
    BY <2>2 DEF PendingStays
  <2>4. QED
    BY <2>1, <2>3, <1>1, <1>3
<1>4. QED
  BY <1>2, <1>3

(* A step that opens a promise is the contract's Create.                   *)
LEMMA CreatesStep ==
  ASSUME SchedulerInv, PromisesInv, NEW h, h = Heap, NEW g, Heap' = g,
         NEW p, NEW t, Creates(h, p, t, g), HeldOn(h, g)
  PROVE  MovesOn /\ PromisesInv'
<1>1. PICK K, P, n : K = Held /\ P = Pooled /\ n = nextTimer
  OBVIOUS
<1>2. HeapInv(h, K, P, n) /\ h \in HeapType /\ LiveInv(h)
  BY <1>1, InvIs DEF Held, PromisesInv, PromiseInv
<1>3. /\ p \in Promise /\ h.status[p] = "absent" /\ g.status = [h.status EXCEPT ![p] = "pending"]
      /\ t \in Task /\ ~Alive(h.task[t]) /\ Alive(g.task[t]) /\ g.task[t].result = p
      /\ g.task[t].kind \in Reactions \cup Combinators \cup {"sleep", "io"}
      /\ \A i \in DOMAIN g.task[t].items : StatusIn(h, g.task[t].items[i]) # "absent"
      /\ \A u \in Task \ {t} : SameDuty(h.task[u], g.task[u])
  BY DEF Creates
<1>4. g.status[p] = "pending" /\ \A q \in Promise \ {p} : g.status[q] = h.status[q]
  <2>1. h.status \in [Promise -> StatusName]
    BY <1>2, HeapIs
  <2>2. QED
    BY <2>1, <1>3
<1>5. SettledStays(h, g) /\ PendingStays(h, g)
  BY <1>3, <1>4 DEF SettledStays, PendingStays
<1>6. RuleIn(g, p) = RuleFrom(g.task[t])
  <2>1. ASSUME NEW u \in Task \ {t}, Alive(g.task[u]), g.task[u].result = p PROVE FALSE
    <3>1. /\ Alive(h.task[u]) /\ g.task[u].kind = h.task[u].kind
          /\ h.task[u].result = p
      BY <2>1, <1>3 DEF SameDuty
    <3>2. p # Plain
      BY <1>3, Sizes DEF Plain
    <3>3. h.status[p] = "pending"
      BY <3>1, <3>2, <1>2 DEF LiveInv
    <3>4. QED
      BY <3>3, <1>3
  <2>2. QED
    BY <2>1, <1>3, <1>4, OnlySettler
<1>7. ASSUME NEW q \in Promise \ {p} PROVE RuleIn(g, q) = RuleIn(h, q)
  <2>1. ASSUME NEW u \in Task PROVE DutyFor(h, g, u, q)
    <3>1. CASE u = t
      <4>1. t \notin Settlers(h, q) /\ t \notin Settlers(g, q)
        BY <1>3 DEF Settlers
      <4>2. QED
        BY <3>1, <4>1 DEF DutyFor
    <3>2. CASE u # t
      BY <3>2, <1>3, DutyStays
    <3>3. QED
      BY <3>1, <3>2
  <2>2. QED
    BY <2>1, <1>4, RuleStays
<1>8. PICK r : r = RuleFrom(g.task[t])
  OBVIOUS
<1>9. RulesIn(g) = [RulesIn(h) EXCEPT ![p] = r]
  BY <1>3, <1>6, <1>7, <1>8 DEF RulesIn
<1>10. /\ r.kind \in Contract!Kinds \ {"lost"}
       /\ \A i \in DOMAIN r.of : r.of[i] # Plain => status[r.of[i]] # "absent"
  <2>1. r.kind = g.task[t].kind /\ r.of = g.task[t].items
    BY <1>8 DEF RuleFrom
  <2>2. r.kind \in Contract!Kinds \ {"lost"}
    BY <2>1, <1>3 DEF Contract!Kinds, Reactions, Combinators
  <2>3. h.status = status
    BY DEF Heap
  <2>4. QED
    BY <2>1, <2>2, <2>3, <1>3 DEF StatusIn
<1>11. MovesOn
  <2>1. PICK R, S : /\ R = [q \in Promise |-> RuleOf(q)]
                    /\ S = [q \in Promise |-> RuleOf(q)]'
    OBVIOUS
  <2>2. R = RulesIn(h) /\ S = RulesIn(g) /\ status = h.status /\ status' = g.status
    BY <2>1, RulesMove
  <2>3. status[p] = "absent" /\ status' = [status EXCEPT ![p] = "pending"]
    BY <2>2, <1>3
  <2>4. S[p] = r /\ S = [R EXCEPT ![p] = S[p]]
    BY <2>2, <1>3, <1>6, <1>8, <1>9 DEF RulesIn
  <2>5. Contract!Create(p)
    BY <2>1, <2>3, <2>4, <1>10 DEF Contract!Create
  <2>6. QED
    BY <2>5, <1>3 DEF MovesOn, Contract!Next
<1>12. LiveInv(g)
  <2> SUFFICES ASSUME NEW u \in Task, Alive(g.task[u])
               PROVE  IF g.task[u].kind = "timer" THEN g.task[u].result = Plain
                      ELSE g.status[g.task[u].result] = "pending"
    BY DEF LiveInv
  <2>1. CASE u = t
    BY <2>1, <1>3, <1>4 DEF Reactions, Combinators
  <2>2. CASE u # t
    <3>1. SameDuty(h.task[u], g.task[u])
      BY <2>2, <1>3
    <3>2. QED
      BY <3>1, <1>2, <1>5, LiveStays
  <2>3. QED
    BY <2>1, <2>2
<1>13. \A u \in Held' : Running(g, u)
  BY <1>5, HeldRuns
<1>14. PromisesInv'
  BY <1>12, <1>13 DEF PromisesInv, PromiseInv
<1>15. QED
  BY <1>11, <1>14

(* A step that makes a promise that is settled already.                    *)
Settled(h, p, s, g) ==
  /\ h.status[p] = "absent" /\ g.status = [h.status EXCEPT ![p] = s] /\ g.task = h.task
LEMMA SettledFromStart ==
  ASSUME SchedulerInv, PromisesInv, NEW h, h = Heap, NEW g, Heap' = g,
         NEW p \in Promise, NEW s \in {"fulfilled", "rejected"}, Settled(h, p, s, g),
         HeldOn(h, g)
  PROVE  MovesOn /\ PromisesInv'
<1>1. PICK K, P, n : K = Held /\ P = Pooled /\ n = nextTimer
  OBVIOUS
<1>2. HeapInv(h, K, P, n) /\ h \in HeapType /\ LiveInv(h)
  BY <1>1, InvIs DEF Held, PromisesInv, PromiseInv
<1>3. /\ h.status[p] = "absent" /\ g.status[p] = s
      /\ \A q \in Promise \ {p} : g.status[q] = h.status[q]
  <2>1. h.status \in [Promise -> StatusName]
    BY <1>2, HeapIs
  <2>2. QED
    BY <2>1 DEF Settled
<1>4. SettledStays(h, g) /\ PendingStays(h, g)
  BY <1>3 DEF SettledStays, PendingStays
<1>5. \A u \in Task : SameDuty(h.task[u], g.task[u])
  BY DEF SameDuty, Settled
<1>6. ASSUME NEW q \in Promise \ {p} PROVE RuleIn(g, q) = RuleIn(h, q)
  <2>1. ASSUME NEW u \in Task PROVE DutyFor(h, g, u, q)
    BY <1>5, DutyStays
  <2>2. QED
    BY <2>1, <1>3, RuleStays
<1>7. RuleIn(g, p) = NoRule /\ RuleIn(h, p) = NoRule
  BY <1>3 DEF RuleIn
<1>8. RulesIn(g) = RulesIn(h)
  BY <1>6, <1>7 DEF RulesIn
<1>9. MovesOn
  <2>1. PICK R, S : /\ R = [q \in Promise |-> RuleOf(q)]
                    /\ S = [q \in Promise |-> RuleOf(q)]'
    OBVIOUS
  <2>2. S = R /\ status = h.status /\ status' = g.status
    BY <2>1, <1>8, RulesMove
  <2>3. status[p] = "absent" /\ status' = [status EXCEPT ![p] = s]
    BY <2>2 DEF Settled
  <2>4. Contract!Create(p)
    BY <2>1, <2>2, <2>3 DEF Contract!Create
  <2>5. QED
    BY <2>4 DEF MovesOn, Contract!Next
<1>10. LiveInv(g)
  BY <1>2, <1>4, <1>5, LiveStays DEF LiveInv
<1>11. \A u \in Held' : Running(g, u)
  BY <1>4, HeldRuns
<1>12. QED
  BY <1>9, <1>10, <1>11 DEF PromisesInv, PromiseInv

(* A step that takes a sleep away, and with it the rule of its promise.    *)
LEMMA LosesStep ==
  ASSUME SchedulerInv, PromisesInv, NEW h, h = Heap, NEW g, Heap' = g,
         NEW t \in Task, Alive(h.task[t]), h.task[t].kind = "sleep", ~Alive(g.task[t]),
         g.status = h.status, \A u \in Task \ {t} : SameDuty(h.task[u], g.task[u]),
         HeldOn(h, g)
  PROVE  MovesOn /\ PromisesInv'
<1>1. PICK p, r, K, P, n : /\ p = h.task[t].result /\ r = [NoRule EXCEPT !.kind = "lost"]
                           /\ K = Held /\ P = Pooled /\ n = nextTimer
  OBVIOUS
<1>2. HeapInv(h, K, P, n) /\ LiveInv(h)
  BY <1>1, InvIs DEF Held, PromisesInv, PromiseInv
<1>3. /\ p \in Promise /\ h.status[p] = "pending"
      /\ \A u \in Task \ {t} : ~(Alive(h.task[u]) /\ h.task[u].result = p)
      /\ RuleIn(h, p) = RuleFrom(h.task[t])
  BY <1>1, <1>2, OneSettles
<1>4. RuleIn(g, p) = r
  <2>1. Settlers(g, p) = {}
    BY <1>3 DEF Settlers, SameDuty
  <2>2. QED
    BY <2>1, <1>1, <1>3 DEF RuleIn
<1>5. ASSUME NEW q \in Promise \ {p} PROVE RuleIn(g, q) = RuleIn(h, q)
  <2>1. ASSUME NEW u \in Task PROVE DutyFor(h, g, u, q)
    <3>1. CASE u = t
      <4>1. t \notin Settlers(h, q) /\ t \notin Settlers(g, q)
        BY <1>1 DEF Settlers
      <4>2. QED
        BY <3>1, <4>1 DEF DutyFor
    <3>2. CASE u # t
      BY <3>2, DutyStays
    <3>3. QED
      BY <3>1, <3>2
  <2>2. QED
    BY <2>1, RuleStays
<1>6. RulesIn(g) = [RulesIn(h) EXCEPT ![p] = r]
  BY <1>3, <1>4, <1>5 DEF RulesIn
<1>7. MovesOn
  <2>1. PICK R, S : /\ R = [q \in Promise |-> RuleOf(q)]
                    /\ S = [q \in Promise |-> RuleOf(q)]'
    OBVIOUS
  <2>2. R = RulesIn(h) /\ S = RulesIn(g) /\ status = h.status /\ status' = g.status
    BY <2>1, RulesMove
  <2>3. R[p] = RuleIn(h, p) /\ R[p].kind = "sleep"
    BY <2>2, <1>3 DEF RulesIn, RuleFrom
  <2>4. S = [R EXCEPT ![p] = [Contract!NoRule EXCEPT !.kind = "lost"]]
    BY <2>2, <1>1, <1>6 DEF Contract!NoRule, NoRule
  <2>5. status[p] = "pending" /\ status' = status
    BY <2>2, <1>3
  <2>6. Contract!Lose(p)
    BY <2>1, <2>3, <2>4, <2>5 DEF Contract!Lose
  <2>7. QED
    BY <2>6, <1>3 DEF MovesOn, Contract!Next
<1>8. SettledStays(h, g) /\ PendingStays(h, g)
  BY DEF SettledStays, PendingStays
<1>9. LiveInv(g)
  BY <1>2, <1>8, LiveStays DEF LiveInv
<1>10. \A u \in Held' : Running(g, u)
  BY <1>8, HeldRuns
<1>11. QED
  BY <1>7, <1>9, <1>10 DEF PromisesInv, PromiseInv

----------------------------------------------------------------------------
(* What a task may settle its promise with.                                *)
InputsOf(h, k) == {StatusIn(h, k.items[i]) : i \in DOMAIN k.items}

(* What the contract allows a promise whose rule is that of the task k.    *)
LEMMA AllowedIs ==
  ASSUME NEW h, h = Heap, NEW p \in Promise, NEW k, RuleIn(h, p) = RuleFrom(k),
         NEW I, I = InputsOf(h, k), NEW A, A = Contract!Allowed(p)
  PROVE  /\ k.kind = "then" /\ "pending" \notin I =>
              A = IF I \subseteq HandledBy(k) THEN {"fulfilled", "rejected"} ELSE I
         /\ k.kind = "finally" /\ "pending" \notin I =>
              A = IF HandledBy(k) = {} THEN I ELSE I \cup {"rejected"}
         /\ k.kind = "all" =>
              A = {s \in {"fulfilled", "rejected"} :
                     IF s = "rejected" THEN s \in I ELSE I \subseteq {s}}
         /\ k.kind = "race" => A = IF I = {} THEN {"fulfilled"} ELSE I \ {"pending"}
         /\ k.kind = "allSettled" => A = IF "pending" \in I THEN {} ELSE {"fulfilled"}
         /\ k.kind = "any" =>
              A = {s \in {"fulfilled", "rejected"} :
                     IF s = "fulfilled" THEN s \in I ELSE I \subseteq {s}}
         /\ k.kind = "sleep" => A = {"fulfilled"}
         /\ k.kind = "io" => A = {"fulfilled", "rejected"}
         /\ Contract!Inputs(p) = I
<1>1. PICK R, r : R = [q \in Promise |-> RuleOf(q)] /\ r = RuleFrom(k)
  OBVIOUS
<1>2. R[p] = r
  BY <1>1, RuleOfIs
<1>3. r.kind = k.kind /\ r.of = k.items /\ r.handled = HandledBy(k)
  BY <1>1 DEF RuleFrom
<1>4. \A i : Contract!StatusOf(i) = StatusIn(h, i)
  BY DEF Contract!StatusOf, StatusIn, Heap
<1>5. Contract!Inputs(p) = I
  BY <1>1, <1>2, <1>3, <1>4 DEF Contract!Inputs, InputsOf
<1>6. [q \in Promise |-> RuleOf(q)][p] = r
  BY <1>1, <1>2
<1>7. CASE k.kind = "then" /\ "pending" \notin I
  BY <1>3, <1>5, <1>6, <1>7 DEF Contract!Allowed
<1>8. CASE k.kind = "finally" /\ "pending" \notin I
  BY <1>3, <1>5, <1>6, <1>8 DEF Contract!Allowed
<1>9. CASE k.kind = "all"
  BY <1>3, <1>5, <1>6, <1>9 DEF Contract!Allowed
<1>10. CASE k.kind = "race"
  BY <1>3, <1>5, <1>6, <1>10 DEF Contract!Allowed
<1>11. CASE k.kind = "allSettled"
  BY <1>3, <1>5, <1>6, <1>11 DEF Contract!Allowed
<1>12. CASE k.kind = "any"
  BY <1>3, <1>5, <1>6, <1>12 DEF Contract!Allowed
<1>13. CASE k.kind \in {"sleep", "io"}
  BY <1>3, <1>5, <1>6, <1>13 DEF Contract!Allowed
<1>14. QED
  BY <1>5, <1>7, <1>8, <1>9, <1>10, <1>11, <1>12, <1>13

(* A combinator's verdict.                                                 *)
LEMMA FirstNotOf ==
  ASSUME NEW h \in HeapType, NEW t \in Task, NEW s, NEW otherwise, NEW v,
         v = FirstNot(h, t, s, otherwise), NEW I, I = InputsOf(h, h.task[t])
  PROVE  (v = otherwise /\ I \subseteq {s}) \/ (v \in I /\ v # s)
<1>1. PICK items, J : /\ items = h.task[t].items
                      /\ J = {i \in DOMAIN items : StatusIn(h, items[i]) # s}
  OBVIOUS
<1>2. J \subseteq Nat
  <2>1. h.task[t] \in TaskType
    BY HeapIs
  <2>2. items \in Seq(Promise \cup {Plain})
    BY <2>1, <1>1, TaskIs
  <2>3. QED
    BY <2>2, <1>1
<1>3. v = IF J = {} THEN otherwise ELSE StatusIn(h, items[Min(J)])
  BY <1>1 DEF FirstNot
<1>4. CASE J = {}
  <2>1. \A i \in DOMAIN items : StatusIn(h, items[i]) = s
    BY <1>1, <1>4
  <2>2. I = {StatusIn(h, items[i]) : i \in DOMAIN items}
    BY <1>1 DEF InputsOf
  <2>3. I \subseteq {s}
    BY <2>1, <2>2
  <2>4. v = otherwise
    BY <1>3, <1>4
  <2>5. QED
    BY <2>3, <2>4
<1>5. CASE J # {}
  <2>1. Min(J) \in J
    BY <1>2, <1>5, LeastIs
  <2>2. QED
    BY <2>1, <1>1, <1>3, <1>5 DEF InputsOf
<1>6. QED
  BY <1>4, <1>5

(* It is one that the contract allows.                                     *)
LEMMA VerdictAllowed ==
  ASSUME NEW h, h = Heap, NEW g \in HeapType, NEW t \in Task, h.status = g.status,
         NEW k, k = g.task[t], k.kind \in Combinators,
         NEW p \in Promise, RuleIn(h, p) = RuleFrom(k),
         NEW v, v = Verdict(g, t), v \in StatusName \ {"absent", "pending"}
  PROVE  v \in Contract!Allowed(p)
<1>1. PICK I, A, items : I = InputsOf(h, k) /\ A = Contract!Allowed(p) /\ items = k.items
  OBVIOUS
<1>2. v \in {"fulfilled", "rejected"}
  BY DEF StatusName
<1>3. I = InputsOf(g, g.task[t])
  BY <1>1 DEF InputsOf, StatusIn
<1>4. items \in Seq(Promise \cup {Plain})
  BY <1>1, HeapIs, TaskIs
<1>5. CASE k.kind = "all"
  <2>1. v = FirstNot(g, t, "fulfilled", "fulfilled")
    BY <1>5 DEF Verdict, AllVerdict
  <2>2. (v = "fulfilled" /\ I \subseteq {"fulfilled"}) \/ (v \in I /\ v # "fulfilled")
    BY <2>1, <1>3, FirstNotOf
  <2>3. A = {s \in {"fulfilled", "rejected"} :
               IF s = "rejected" THEN s \in I ELSE I \subseteq {s}}
    BY <1>1, <1>5, AllowedIs
  <2>4. QED
    BY <2>2, <2>3, <1>1, <1>2
<1>6. CASE k.kind = "race"
  <2>1. PICK o : o = IF k.items = <<>> THEN "fulfilled" ELSE "pending"
    OBVIOUS
  <2>2. v = FirstNot(g, t, "pending", o)
    BY <2>1, <1>6 DEF Verdict, RaceVerdict
  <2>3. (v = o /\ I \subseteq {"pending"}) \/ (v \in I /\ v # "pending")
    BY <2>2, <1>3, FirstNotOf
  <2>4. A = IF I = {} THEN {"fulfilled"} ELSE I \ {"pending"}
    BY <1>1, <1>6, AllowedIs
  <2>5. k.items = <<>> => I = {}
    BY <1>1 DEF InputsOf
  <2>6. QED
    BY <2>1, <2>3, <2>4, <2>5, <1>1, <1>2
<1>7. CASE k.kind = "allSettled"
  <2>1. v = IF \E i \in ToSet(items) : StatusIn(g, i) = "pending" THEN "pending" ELSE "fulfilled"
    BY <1>1, <1>7 DEF Verdict, AllSettledVerdict
  <2>2. A = IF "pending" \in I THEN {} ELSE {"fulfilled"}
    BY <1>1, <1>7, AllowedIs
  <2>3. \A i \in ToSet(items) : StatusIn(g, i) # "pending"
    BY <2>1, <1>2
  <2>4. \A i \in DOMAIN items : items[i] \in ToSet(items)
    BY <1>4 DEF ToSet
  <2>5. "pending" \notin I
    BY <2>3, <2>4, <1>1, <1>3 DEF InputsOf
  <2>6. QED
    BY <2>1, <2>2, <2>3, <2>5, <1>1
<1>8. CASE k.kind = "any"
  <2>1. v = FirstNot(g, t, "rejected", "rejected")
    BY <1>8 DEF Verdict, AnyVerdict
  <2>2. (v = "rejected" /\ I \subseteq {"rejected"}) \/ (v \in I /\ v # "rejected")
    BY <2>1, <1>3, FirstNotOf
  <2>3. A = {s \in {"fulfilled", "rejected"} :
               IF s = "fulfilled" THEN s \in I ELSE I \subseteq {s}}
    BY <1>1, <1>8, AllowedIs
  <2>4. QED
    BY <2>2, <2>3, <1>1, <1>2
<1>9. QED
  BY <1>5, <1>6, <1>7, <1>8 DEF Combinators

(* What a reaction settles with once its source is settled.                *)
LEMMA ReactionAllowed ==
  ASSUME NEW h, h = Heap, NEW p \in Promise, NEW k \in TaskType, k.kind \in Reactions,
         Len(k.items) = 1, RuleIn(h, p) = RuleFrom(k),
         NEW source, source = StatusIn(h, k.items[1]), source \in {"fulfilled", "rejected"},
         NEW on, on = IF k.kind = "then" /\ source = "rejected" THEN k.onRejected
                      ELSE k.onFulfilled,
         NEW s \in {"fulfilled", "rejected"},
         s = source \/ (on # "none" /\ (k.kind = "then" \/ s = "rejected"))
  PROVE  /\ s \in Contract!Allowed(p)
         /\ k.kind = "then" /\ on # "none" => Contract!Inputs(p) \subseteq HandledBy(k)
<1>1. PICK I, A, H, items : /\ I = InputsOf(h, k) /\ A = Contract!Allowed(p) /\ H = HandledBy(k)
                            /\ items = k.items
  OBVIOUS
<1>2. items \in Seq(Promise \cup {Plain}) /\ DOMAIN items = {1}
  <2>1. items \in Seq(Promise \cup {Plain})
    BY <1>1, TaskIs
  <2>2. Len(items) = 1
    BY <1>1
  <2>3. QED
    BY <2>1, <2>2
<1>3. I = {source}
  BY <1>1, <1>2 DEF InputsOf
<1>4. Contract!Inputs(p) = I /\ "pending" \notin I
  BY <1>1, <1>3, AllowedIs
<1>5. CASE k.kind = "then"
  <2>1. H = {x \in {"fulfilled", "rejected"} :
               "none" # IF x = "fulfilled" THEN k.onFulfilled ELSE k.onRejected}
    BY <1>1, <1>5 DEF HandledBy
  <2>2. I \subseteq H <=> on # "none"
    BY <2>1, <1>3, <1>5
  <2>3. A = IF I \subseteq H THEN {"fulfilled", "rejected"} ELSE I
    BY <1>1, <1>4, <1>5, AllowedIs
  <2>4. QED
    BY <2>2, <2>3, <1>1, <1>3, <1>4
<1>6. CASE k.kind = "finally"
  <2>1. k.onFulfilled # "none" => H = {"fulfilled", "rejected"}
    BY <1>1, <1>6 DEF HandledBy
  <2>2. A = IF H = {} THEN I ELSE I \cup {"rejected"}
    BY <1>1, <1>4, <1>6, AllowedIs
  <2>3. QED
    BY <2>1, <2>2, <1>1, <1>3, <1>6
<1>7. QED
  BY <1>5, <1>6 DEF Reactions

(* A step by which a new task takes over the promise of a then whose       *)
(* callback answered with a pending promise q.                             *)
TakesOver(h, t, m, q, g) ==
  /\ t \in Task /\ Alive(h.task[t]) /\ h.task[t].kind = "then" /\ ~Alive(g.task[t])
  /\ m \in Task \ {t} /\ ~Alive(h.task[m]) /\ Alive(g.task[m])
  /\ g.task[m].kind = "then" /\ g.task[m].items = <<q>>
  /\ g.task[m].onFulfilled = "none" /\ g.task[m].onRejected = "none"
  /\ g.task[m].result = h.task[t].result
  /\ q \in Promise /\ h.status[q] = "pending" /\ g.status = h.status
  /\ \A u \in Task \ {t, m} : SameDuty(h.task[u], g.task[u])
LEMMA FollowsStep ==
  ASSUME SchedulerInv, PromisesInv, NEW h, h = Heap, NEW g, Heap' = g,
         NEW t \in Held, NEW m, NEW q, TakesOver(h, t, m, q, g), HeldOn(h, g)
  PROVE  MovesOn /\ PromisesInv'
<1>1. PICK p, r, k, K, P, n : /\ p = h.task[t].result /\ k = h.task[t]
                              /\ r = [kind |-> "then", of |-> <<q>>, handled |-> {}]
                              /\ K = Held /\ P = Pooled /\ n = nextTimer
  OBVIOUS
<1>2. /\ HeapInv(h, K, P, n) /\ h \in HeapType /\ LiveInv(h) /\ t \in K /\ Running(h, t)
  BY <1>1, InvIs DEF Held, PromisesInv, PromiseInv
<1>3. /\ t \in Task /\ Alive(h.task[t]) /\ k.kind = "then" /\ ~Alive(g.task[t])
      /\ m \in Task \ {t} /\ ~Alive(h.task[m]) /\ Alive(g.task[m])
      /\ g.task[m].kind = "then" /\ g.task[m].items = <<q>>
      /\ g.task[m].onFulfilled = "none" /\ g.task[m].onRejected = "none"
      /\ g.task[m].result = p
      /\ q \in Promise /\ h.status[q] = "pending" /\ g.status = h.status
      /\ \A u \in Task \ {t, m} : SameDuty(h.task[u], g.task[u])
  BY <1>1 DEF TakesOver
<1>4. /\ p \in Promise /\ h.status[p] = "pending"
      /\ \A u \in Task \ {t} : ~(Alive(h.task[u]) /\ h.task[u].result = p)
      /\ RuleIn(h, p) = RuleFrom(k)
  <2>1. t \in Task /\ Alive(h.task[t]) /\ h.task[t].kind # "timer"
    BY <1>1, <1>3
  <2>2. QED
    BY <2>1, <1>1, <1>2, OneSettles
<1>5. RuleIn(g, p) = r
  <2>1. \A u \in Task \ {m} : ~(Alive(g.task[u]) /\ g.task[u].result = p)
    BY <1>3, <1>4 DEF SameDuty
  <2>2. RuleIn(g, p) = RuleFrom(g.task[m])
    BY <2>1, <1>3, <1>4, OnlySettler
  <2>3. HandledBy(g.task[m]) = {}
    BY <1>3 DEF HandledBy
  <2>4. QED
    BY <2>2, <2>3, <1>1, <1>3 DEF RuleFrom
<1>6. ASSUME NEW o \in Promise \ {p} PROVE RuleIn(g, o) = RuleIn(h, o)
  <2>1. ASSUME NEW u \in Task PROVE DutyFor(h, g, u, o)
    <3>1. CASE u \in {t, m}
      <4>1. u \notin Settlers(h, o) /\ u \notin Settlers(g, o)
        BY <3>1, <1>1, <1>3 DEF Settlers
      <4>2. QED
        BY <4>1 DEF DutyFor
    <3>2. CASE u \notin {t, m}
      BY <3>2, <1>3, DutyStays
    <3>3. QED
      BY <3>1, <3>2
  <2>2. QED
    BY <2>1, <1>3, RuleStays
<1>7. RulesIn(g) = [RulesIn(h) EXCEPT ![p] = r]
  BY <1>4, <1>5, <1>6 DEF RulesIn
<1>8. Contract!Inputs(p) \subseteq HandledBy(k)
  <2>1. PICK source, on : /\ source = StatusIn(h, k.items[1])
                          /\ on = IF k.kind = "then" /\ source = "rejected" THEN k.onRejected
                                  ELSE k.onFulfilled
    OBVIOUS
  <2>2. source \in {"fulfilled", "rejected"} /\ HandlerOf(h, t) = "fn"
    BY <2>1, <1>1, <1>2, <1>3 DEF Running, Reactions
  <2>3. on # "none"
    BY <2>1, <2>2, <1>1, <1>3 DEF HandlerOf
  <2>4. k \in TaskType /\ k.kind \in Reactions /\ Len(k.items) = 1
    <3>1. WaitingInv(h, t, K)
      BY <1>2, <1>3 DEF HeapInv, TaskInv
    <3>2. QED
      BY <3>1, <1>1, <1>2, <1>3, HeapIs DEF WaitingInv, Reactions
  <2>5. source = source \/ (on # "none" /\ (k.kind = "then" \/ source = "rejected"))
    OBVIOUS
  <2>6. QED
    BY <2>1, <2>2, <2>3, <2>4, <2>5, <1>3, <1>4, ReactionAllowed
<1>9. MovesOn
  <2>1. PICK R, S : /\ R = [o \in Promise |-> RuleOf(o)]
                    /\ S = [o \in Promise |-> RuleOf(o)]'
    OBVIOUS
  <2>2. R = RulesIn(h) /\ S = RulesIn(g) /\ status = h.status /\ status' = g.status
    BY <2>1, RulesMove
  <2>3. R[p] = RuleFrom(k)
    BY <2>2, <1>4 DEF RulesIn
  <2>4. R[p].kind = "then" /\ R[p].handled = HandledBy(k)
    BY <2>3, <1>3 DEF RuleFrom
  <2>5. S = [R EXCEPT ![p] = [kind |-> "then", of |-> <<q>>, handled |-> {}]]
    BY <2>2, <1>1, <1>7
  <2>6. status[p] = "pending" /\ status[q] = "pending" /\ status' = status
    BY <2>2, <1>3, <1>4
  <2>7. \E o \in Promise :
          /\ status[o] = "pending"
          /\ S = [R EXCEPT ![p] = [kind |-> "then", of |-> <<o>>, handled |-> {}]]
    BY <2>5, <2>6, <1>3
  <2>8. Contract!Inputs(p) \subseteq R[p].handled
    BY <2>4, <1>8
  <2>9. Contract!Follow(p)
    BY <2>1, <2>4, <2>6, <2>7, <2>8 DEF Contract!Follow
  <2>10. QED
    BY <2>9, <1>4 DEF MovesOn, Contract!Next
<1>10. SettledStays(h, g) /\ PendingStays(h, g)
  BY <1>3 DEF SettledStays, PendingStays
<1>11. LiveInv(g)
  <2> SUFFICES ASSUME NEW u \in Task, Alive(g.task[u])
               PROVE  IF g.task[u].kind = "timer" THEN g.task[u].result = Plain
                      ELSE g.status[g.task[u].result] = "pending"
    BY DEF LiveInv
  <2>1. u # t
    BY <1>3
  <2>2. CASE u = m
    BY <2>2, <1>3, <1>4
  <2>3. CASE u # m
    <3>1. SameDuty(h.task[u], g.task[u])
      BY <2>1, <2>3, <1>3
    <3>2. QED
      BY <3>1, <1>2, <1>10, LiveStays
  <2>4. QED
    BY <2>2, <2>3
<1>12. \A u \in Held' : Running(g, u)
  BY <1>10, HeldRuns
<1>13. QED
  BY <1>9, <1>11, <1>12 DEF PromisesInv, PromiseInv

(* A step in which no task begins or ends.                                 *)
LEMMA LivesStep ==
  ASSUME SchedulerInv, PromisesInv, NEW h, h = Heap, NEW g, Heap' = g,
         g.status = h.status, Lives(h, g), \A t \in Held' : t \in Held \/ Running(g, t)
  PROVE  MovesOn /\ PromisesInv'
<1>1. Unmoved(h, g)
  BY DEF Unmoved, Lives
<1>2. HeldOn(h, g)
  <2>1. Held \subseteq Task
    BY InvIs DEF Held
  <2>2. QED
    BY <2>1 DEF HeldOn, GoesOn, Lives
<1>3. QED
  BY <1>1, <1>2, UnmovedStep

(* A step that leaves the heap alone, and holds nothing new.               *)
LEMMA StillStep ==
  ASSUME SchedulerInv, PromisesInv, Heap' = Heap, Held' \subseteq Held
  PROVE  MovesOn /\ PromisesInv'
<1>1. PICK h : h = Heap
  OBVIOUS
<1>2. h.status = h.status /\ Lives(h, h)
  BY DEF Lives, SameDuty
<1>3. Heap' = h /\ \A t \in Held' : t \in Held \/ Running(h, t)
  BY <1>1
<1>4. QED
  BY <1>1, <1>2, <1>3, LivesStep

----------------------------------------------------------------------------
(* A drain's turn holds what was held.                                     *)
LEMMA HeldTurned ==
  ASSUME SchedulerInv, stack # <<>>, stack' = Turned
  PROVE  Held' = Held
<1>1. PICK h, w : h = Heap /\ w = stack'
  OBVIOUS
<1>2. FramesOf(stack, h) /\ w = [stack EXCEPT ![1].turns = @ + 1]
  BY <1>1, InvIs DEF Turned
<1>3. HeldIn(w) = HeldIn(stack)
  BY <1>2, FramesTurned
<1>4. QED
  BY <1>1, <1>3 DEF Held

(* A call back adds the task called.                                       *)
LEMMA HeldCalled ==
  ASSUME SchedulerInv, stack # <<>>, NEW t \in Task, stack' = <<Callback(t)>> \o Turned
  PROVE  Held' \subseteq Held \cup {t}
<1>1. PICK h, s, f, w : h = Heap /\ s = Turned /\ f = Callback(t) /\ w = <<f>> \o s
  OBVIOUS
<1>2. FramesOf(s, h) /\ HeldIn(s) = Held
  <2>1. FramesOf(stack, h) /\ s = [stack EXCEPT ![1].turns = @ + 1]
    BY <1>1, InvIs DEF Turned
  <2>2. FramesOf(s, h) /\ HeldIn(s) = HeldIn(stack)
    BY <2>1, FramesTurned
  <2>3. QED
    BY <2>2 DEF Held
<1>3. s \in Seq(FrameType) /\ f.task = t
  BY <1>1, <1>2 DEF FramesOf, Callback
<1>4. ASSUME NEW i \in 1..Len(w) PROVE w[i].task = t \/ \E j \in 1..Len(s) : w[i].task = s[j].task
  <2>1. Len(w) = Len(s) + 1 /\ w[1] = f
    BY <1>1, <1>3
  <2>2. CASE i = 1
    BY <2>1, <2>2, <1>3
  <2>3. CASE i # 1
    <3>1. i - 1 \in 1..Len(s) /\ w[i] = s[i - 1]
      BY <2>1, <2>3, <1>1, <1>3
    <3>2. QED
      BY <3>1
  <2>4. QED
    BY <2>2, <2>3
<1>5. HeldIn(w) \subseteq HeldIn(s) \cup {t}
  BY <1>4 DEF HeldIn
<1>6. QED
  BY <1>1, <1>2, <1>5 DEF Held

(* The end of the frame on top takes its task off.                         *)
LEMMA HeldPopped ==
  ASSUME SchedulerInv, NEW t, TopHolds(t), stack' = Tail(stack)
  PROVE  Held' = Held \ {t}
BY TopIs DEF Held

(***************************************************************************)
(* The actions, and what they are for the contract.                        *)
(***************************************************************************)

(* What a turn finds: a task that is to settle a pending promise.          *)
Settling(h, g, t) ==
  /\ t \in Task /\ h.status = g.status /\ Alive(h.task[t]) /\ Alive(g.task[t])
  /\ SameDuty(h.task[t], g.task[t])
  /\ g.task[t] \in TaskType /\ CreatedInv(g, t)
  /\ g.task[t].kind \in Reactions => Len(g.task[t].items) = 1
  /\ g.task[t].kind # "timer" =>
       g.task[t].result \in Promise /\ RuleIn(h, g.task[t].result) = RuleFrom(g.task[t])
(* The tasks that are held settle theirs.                                  *)
LEMMA SettlingIs ==
  ASSUME SchedulerInv, PromisesInv, NEW h, h = Heap, NEW g, NEW K, NEW P, NEW n,
         HeapInv(g, K, P, n), NEW t \in K, t \in Task, Same(h, g)
  PROVE  Settling(h, g, t) /\ g \in HeapType
<1>1. /\ g \in HeapType /\ FreeInv(g, t, K) /\ FinishedInv(g, t, K)
      /\ WaitingInv(g, t, K) /\ CreatedInv(g, t)
  BY DEF HeapInv, TaskInv
<1>2. g.task[t] \in TaskType /\ Alive(g.task[t])
  BY <1>1, HeapIs DEF FreeInv, FinishedInv, Alive
<1>3. SameDuty(h.task[t], g.task[t]) /\ h.status = g.status
  BY DEF Same, Lives
<1>4. /\ Alive(h.task[t]) /\ g.task[t].kind = h.task[t].kind
      /\ g.task[t].items = h.task[t].items /\ g.task[t].result = h.task[t].result
      /\ g.task[t].onFulfilled = h.task[t].onFulfilled
      /\ g.task[t].onRejected = h.task[t].onRejected
  BY <1>2, <1>3 DEF SameDuty
<1>5. RuleFrom(g.task[t]) = RuleFrom(h.task[t])
  BY <1>4 DEF RuleFrom, HandledBy
<1>6. ASSUME g.task[t].kind # "timer"
      PROVE  g.task[t].result \in Promise /\ RuleIn(h, g.task[t].result) = RuleFrom(g.task[t])
  <2>1. PICK p, L, Q, m : p = g.task[t].result /\ L = Held /\ Q = Pooled /\ m = nextTimer
    OBVIOUS
  <2>2. HeapInv(h, L, Q, m) /\ LiveInv(h)
    BY <2>1, InvIs DEF Held, PromisesInv, PromiseInv
  <2>3. p = h.task[t].result /\ h.task[t].kind # "timer"
    BY <2>1, <1>4, <1>6
  <2>4. p \in Promise /\ RuleIn(h, p) = RuleFrom(h.task[t])
    BY <2>2, <2>3, <1>4, OneSettles
  <2>5. QED
    BY <2>1, <2>4, <1>5
<1>7. g.task[t].kind \in Reactions => Len(g.task[t].items) = 1
  BY <1>1 DEF WaitingInv
<1>8. QED
  BY <1>1, <1>2, <1>3, <1>4, <1>6, <1>7 DEF Settling

(* What a turn settles.                                                    *)
LEMMA TurnFinds ==
  ASSUME SchedulerInv, PromisesInv, NEW h, h = Heap, NEW kinds, NEW t, NEW g,
         TurnOf(kinds, t, g)
  PROVE  /\ Settling(h, g, t) /\ g \in HeapType /\ Same(h, g) /\ stack # <<>>
         /\ g.task[t].kind \in kinds
<1>1. PICK K, P, n : K = HeldIn(stack) \cup {t} /\ P = Pooled /\ n = nextTimer
  OBVIOUS
<1>2. /\ HeapInv(g, K, P, n) /\ Same(h, g) /\ t \in Task /\ t \in K
      /\ g.task[t].kind \in kinds /\ stack # <<>>
  BY <1>1, TurnTakes
<1>3. QED
  BY <1>2, SettlingIs

(* A task found so settles its promise.                                    *)
LEMMA FoundSettles ==
  ASSUME SchedulerInv, PromisesInv, NEW h, h = Heap, NEW g, NEW t, Settling(h, g, t),
         g.task[t].kind # "timer", Same(h, g),
         NEW x, Heap' = x, NEW s \in {"fulfilled", "rejected"}, SettlesFor(g, t, s, x),
         s \in Contract!Allowed(g.task[t].result), Held' \subseteq Held \ {t}
  PROVE  MovesOn /\ PromisesInv'
<1>1. /\ t \in Task /\ h.status = g.status /\ Alive(h.task[t])
      /\ h.task[t].kind = g.task[t].kind /\ h.task[t].result = g.task[t].result
  BY DEF Settling, SameDuty
<1>2. Lives(h, g)
  BY DEF Same
<1>3. \A u \in Task \ {t} : SameDuty(h.task[u], x.task[u])
  <2> TAKE u \in Task \ {t}
  <2>1. SameDuty(h.task[u], g.task[u]) /\ SameDuty(g.task[u], x.task[u])
    BY <1>2 DEF Lives, SettlesFor
  <2>2. QED
    BY <2>1 DEF SameDuty
<1>4. SettlesFor(h, t, s, x)
  BY <1>1, <1>3 DEF SettlesFor
<1>5. HeldOn(h, x)
  <2>1. Held \subseteq Task
    BY InvIs DEF Held
  <2>2. QED
    BY <2>1, <1>3 DEF HeldOn, GoesOn
<1>6. s \in Contract!Allowed(h.task[t].result) /\ h.task[t].kind # "timer"
  BY <1>1
<1>7. QED
  BY <1>1, <1>4, <1>5, <1>6, SettledStep

(* A turn that settles the promise of the task that it takes.              *)
LEMMA TurnSettledStep ==
  ASSUME SchedulerInv, PromisesInv, NEW kinds, NEW t, NEW g, TurnOf(kinds, t, g),
         "timer" \notin kinds, NEW s \in {"fulfilled", "rejected"},
         Becomes(SettledBy(g, t, s)), stack' = Turned,
         s \in Contract!Allowed(g.task[t].result)
  PROVE  MovesOn /\ PromisesInv'
<1>1. PICK h, K, L, x, P, n : /\ h = Heap /\ K = HeldIn(stack) /\ L = K \cup {t}
                              /\ x = SettledBy(g, t, s) /\ P = Pooled /\ n = nextTimer
  OBVIOUS
<1>2. /\ HeapInv(g, L, P, n) /\ t \in Task /\ t \notin K
      /\ \A u \in K : g.task[u].kind \notin Combinators
  BY <1>1, TurnTakes
<1>3. Settling(h, g, t) /\ Same(h, g) /\ stack # <<>> /\ g.task[t].kind # "timer"
  BY <1>1, TurnFinds
<1>4. SettlesFor(g, t, s, x) /\ x \in HeapType
  <2>1. /\ t \in L /\ n \in Int /\ s \in StatusName /\ s # "absent"
        /\ \A u \in (L \cap Task) \ {t} : g.task[u].kind \notin Combinators
    BY <1>1, <1>2, InvIs DEF StatusName
  <2>2. HeapInv(x, L \ {t}, P, n) /\ SettlesFor(g, t, s, x)
    BY <2>1, <1>1, <1>2, <1>3, SettledByKeeps
  <2>3. QED
    BY <2>2 DEF HeapInv
<1>5. Heap' = x
  BY <1>1, <1>4, BecomesIs
<1>6. Held' \subseteq Held \ {t}
  <2>1. Held' = Held
    BY <1>3, HeldTurned
  <2>2. QED
    BY <2>1, <1>1, <1>2 DEF Held
<1>7. QED
  BY <1>1, <1>3, <1>4, <1>5, <1>6, FoundSettles

(* A turn that calls back.                                                 *)
LEMMA TurnCalledStep ==
  ASSUME SchedulerInv, PromisesInv, NEW kinds, NEW t, NEW g, TurnOf(kinds, t, g),
         Becomes(g), stack' = <<Callback(t)>> \o Turned, Running(g, t)
  PROVE  MovesOn /\ PromisesInv'
<1>1. PICK h : h = Heap
  OBVIOUS
<1>2. Settling(h, g, t) /\ Same(h, g) /\ stack # <<>> /\ g \in HeapType
  BY <1>1, TurnFinds
<1>3. Heap' = g /\ g.status = h.status /\ Lives(h, g) /\ t \in Task
  BY <1>2, BecomesIs DEF Same, Settling
<1>4. \A u \in Held' : u \in Held \/ Running(g, u)
  BY <1>2, <1>3, HeldCalled
<1>5. QED
  BY <1>1, <1>3, <1>4, LivesStep

(* An operation ends either way, a sleep well, and a timer is nobody's     *)
(* rule.                                                                   *)
LEMMA TurnIoMoves ==
  ASSUME SchedulerInv, PromisesInv, TurnIo \/ TurnSleep \/ TurnTimer
  PROVE  MovesOn /\ PromisesInv'
<1>1. PICK t, g, h, k, p, A :
        /\ t = Dequeue(Heap).task /\ g = Dequeue(Heap).heap /\ h = Heap
        /\ k = g.task[t] /\ p = k.result /\ A = Contract!Allowed(p)
  OBVIOUS
<1>2. CASE TurnIo
  <2>1. /\ TurnOf({"io"}, t, g) /\ stack' = Turned
        /\ \E s \in {"fulfilled", "rejected"} : Becomes(SettledBy(g, t, s))
    BY <1>1, <1>2 DEF TurnIo, TurnOf
  <2>2. PICK s \in {"fulfilled", "rejected"} : Becomes(SettledBy(g, t, s))
    BY <2>1
  <2>3. k.kind = "io" /\ p \in Promise /\ RuleIn(h, p) = RuleFrom(k)
    BY <2>1, <1>1, TurnFinds DEF Settling
  <2>4. A = {"fulfilled", "rejected"}
    BY <2>3, <1>1, AllowedIs
  <2>5. QED
    BY <2>1, <2>2, <2>4, <1>1, TurnSettledStep
<1>3. CASE TurnSleep
  <2>1. /\ TurnOf({"sleep"}, t, g) /\ stack' = Turned
        /\ Becomes(SettledBy(g, t, "fulfilled"))
    BY <1>1, <1>3 DEF TurnSleep, TurnOf
  <2>2. k.kind = "sleep" /\ p \in Promise /\ RuleIn(h, p) = RuleFrom(k)
    BY <2>1, <1>1, TurnFinds DEF Settling
  <2>3. A = {"fulfilled"}
    BY <2>2, <1>1, AllowedIs
  <2>4. QED
    BY <2>1, <2>3, <1>1, TurnSettledStep
<1>4. CASE TurnTimer
  <2>1. TurnOf({"timer"}, t, g) /\ Becomes(g) /\ stack' = <<Callback(t)>> \o Turned
    BY <1>1, <1>4 DEF TurnTimer, TurnOf
  <2>2. Running(g, t)
    BY <2>1, <1>1, TurnFinds DEF Running, Reactions
  <2>3. QED
    BY <2>1, <2>2, TurnCalledStep
<1>5. QED
  BY <1>2, <1>3, <1>4

(* A turn that finds nothing to run settles nothing.                       *)
LEMMA TurnIdleMoves ==
  ASSUME SchedulerInv, PromisesInv, TurnIdle
  PROVE  MovesOn /\ PromisesInv'
<1>1. PICK h, d, x, K, P, n : /\ h = Heap /\ d = Dequeue(h) /\ x = d.heap /\ K = HeldIn(stack)
                              /\ P = Pooled /\ n = nextTimer
  OBVIOUS
<1>2. stack # <<>> /\ d.task = NoTask /\ Becomes(x) /\ stack' = Turned
  BY <1>1 DEF TurnIdle, Turning, InDrain
<1>3. HeapInv(h, K, P, n) /\ n \in Int
  BY <1>1, InvIs
<1>4. x \in HeapType /\ Same(h, x)
  <2>1. HeapInv(x, K, P, n) /\ Same(h, x)
    BY <1>1, <1>2, <1>3, DequeueKeeps
  <2>2. QED
    BY <2>1 DEF HeapInv
<1>5. Heap' = x /\ x.status = h.status /\ Lives(h, x)
  BY <1>2, <1>4, BecomesIs DEF Same
<1>6. Held' = Held
  BY <1>2, HeldTurned
<1>7. QED
  BY <1>1, <1>5, <1>6, LivesStep

(* A combinator settles as its inputs are, or waits on.                    *)
LEMMA TurnCombinatorMoves ==
  ASSUME SchedulerInv, PromisesInv, TurnCombinator
  PROVE  MovesOn /\ PromisesInv'
<1>1. PICK t, g, v, h, k, p : /\ t = Dequeue(Heap).task /\ g = Dequeue(Heap).heap
                              /\ v = Verdict(g, t) /\ h = Heap /\ k = g.task[t]
                              /\ p = k.result
  OBVIOUS
<1>2. /\ TurnOf(Combinators, t, g) /\ stack' = Turned
      /\ Becomes(IF v = "pending" THEN Wait(g, t) ELSE SettledBy(g, t, v))
  BY <1>1 DEF TurnCombinator, TurnOf
<1>3. "timer" \notin Combinators
  BY DEF Combinators
<1>4. PICK K, L, P, n, x : /\ K = HeldIn(stack) /\ L = K \cup {t} /\ P = Pooled
                           /\ n = nextTimer /\ x = Wait(g, t)
  OBVIOUS
<1>5. /\ HeapInv(g, L, P, n) /\ t \in L /\ t \in Task /\ n \in Int
  BY <1>2, <1>4, TurnTakes, InvIs
<1>6. /\ Settling(h, g, t) /\ g \in HeapType /\ Same(h, g) /\ stack # <<>>
      /\ k.kind \in Combinators
  BY <1>1, <1>2, TurnFinds
<1>7. p \in Promise /\ RuleIn(h, p) = RuleFrom(k) /\ h.status = g.status /\ CreatedInv(g, t)
  BY <1>1, <1>3, <1>6 DEF Settling
<1>8. CASE v = "pending"
  <2>1. x \in HeapType /\ Same(g, x)
    <3>1. HeapInv(x, L \ {t}, P, n) /\ Same(g, x)
      BY <1>1, <1>4, <1>5, <1>6, WaitKeeps
    <3>2. QED
      BY <3>1 DEF HeapInv
  <2>2. Heap' = x /\ Same(h, x)
    BY <2>1, <1>2, <1>4, <1>6, <1>8, BecomesIs, SameOn
  <2>3. Held' = Held
    BY <1>2, <1>6, HeldTurned
  <2>4. QED
    BY <2>2, <2>3, <1>1, LivesStep DEF Same
<1>9. CASE v # "pending"
  <2>1. v \in StatusName \ {"absent", "pending"}
    <3>1. k.kind # "free"
      BY <1>6 DEF Combinators
    <3>2. QED
      BY <3>1, <1>1, <1>5, <1>6, <1>7, <1>9, VerdictIs
  <2>2. v \in Contract!Allowed(p)
    BY <2>1, <1>1, <1>5, <1>6, <1>7, VerdictAllowed
  <2>3. v \in {"fulfilled", "rejected"} /\ Becomes(SettledBy(g, t, v))
    BY <2>1, <1>2, <1>9 DEF StatusName
  <2>4. QED
    BY <2>2, <2>3, <1>1, <1>2, <1>3, TurnSettledStep
<1>10. QED
  BY <1>8, <1>9

(* A reaction calls back, or settles as its source did.                    *)
LEMMA TurnReactionMoves ==
  ASSUME SchedulerInv, PromisesInv, TurnReaction
  PROVE  MovesOn /\ PromisesInv'
<1>1. PICK t, g, source, on, h, k, p :
        /\ t = Dequeue(Heap).task /\ g = Dequeue(Heap).heap
        /\ source = StatusIn(g, g.task[t].items[1]) /\ on = HandlerOf(g, t)
        /\ h = Heap /\ k = g.task[t] /\ p = k.result
  OBVIOUS
<1>2. TurnOf({"then", "finally"}, t, g) /\ source # "pending"
  BY <1>1 DEF TurnReaction, TurnOf
<1>3. \/ on = "fn" /\ Becomes(g) /\ stack' = <<Callback(t)>> \o Turned
      \/ /\ on # "fn" /\ Becomes(SettledBy(g, t, IF on = "bad" THEN "rejected" ELSE source))
         /\ stack' = Turned
  BY <1>1 DEF TurnReaction
<1>4. Settling(h, g, t) /\ g \in HeapType /\ k.kind \in {"then", "finally"}
  BY <1>1, <1>2, TurnFinds
<1>5. /\ t \in Task /\ CreatedInv(g, t) /\ k \in TaskType /\ Len(k.items) = 1
      /\ p \in Promise /\ RuleIn(h, p) = RuleFrom(k) /\ h.status = g.status
  BY <1>1, <1>4 DEF Settling, Reactions
<1>6. source \in {"fulfilled", "rejected"}
  <2>1. 1 \in 1..Len(g.task[t].items) /\ g.task[t].kind # "free"
    BY <1>1, <1>4, <1>5
  <2>2. source \in StatusName \ {"absent"}
    BY <2>1, <1>1, <1>4, <1>5, InputStatus
  <2>3. QED
    BY <2>2, <1>2 DEF StatusName
<1>7. CASE on = "fn" /\ Becomes(g) /\ stack' = <<Callback(t)>> \o Turned
  <2>1. Running(g, t)
    BY <1>1, <1>6, <1>7 DEF Running
  <2>2. QED
    BY <2>1, <1>2, <1>7, TurnCalledStep
<1>8. CASE /\ Becomes(SettledBy(g, t, IF on = "bad" THEN "rejected" ELSE source))
           /\ stack' = Turned
  <2>1. PICK s : s = IF on = "bad" THEN "rejected" ELSE source
    OBVIOUS
  <2>2. s \in {"fulfilled", "rejected"} /\ Becomes(SettledBy(g, t, s))
    BY <2>1, <1>6, <1>8
  <2>3. s = source \/ (on # "none" /\ (k.kind = "then" \/ s = "rejected"))
    BY <2>1
  <2>4. on = IF k.kind = "then" /\ source = "rejected" THEN k.onRejected ELSE k.onFulfilled
    BY <1>1 DEF HandlerOf
  <2>5. source = StatusIn(h, k.items[1]) /\ k.kind \in Reactions
    BY <1>1, <1>4, <1>5 DEF StatusIn, Reactions
  <2>6. s \in Contract!Allowed(p)
    <3>1. h = Heap
      BY <1>1
    <3>2. QED
      BY <2>2, <2>3, <2>4, <2>5, <3>1, <1>5, <1>6, ReactionAllowed
  <2>7. "timer" \notin {"then", "finally"}
    OBVIOUS
  <2>8. QED
    BY <2>2, <2>6, <2>7, <1>1, <1>2, <1>8, TurnSettledStep
<1>9. QED
  BY <1>3, <1>7, <1>8

(* What the task of the frame on top is to settle.                         *)
LEMMA TopFinds ==
  ASSUME SchedulerInv, PromisesInv, NEW h, h = Heap, NEW t, TopHolds(t)
  PROVE  /\ Settling(h, h, t) /\ h \in HeapType /\ Same(h, h) /\ Running(h, t)
         /\ t \in Held
<1>1. PICK K, P, n : K = Held /\ P = Pooled /\ n = nextTimer
  OBVIOUS
<1>2. HeapInv(h, K, P, n) /\ \A u \in K : Running(h, u)
  BY <1>1, InvIs DEF Held, PromisesInv, PromiseInv
<1>3. t \in Task /\ t \in K
  BY <1>1, TopIs DEF Held
<1>4. Same(h, h)
  BY DEF Same, Lives, SameDuty
<1>5. Settling(h, h, t) /\ h \in HeapType
  BY <1>2, <1>3, <1>4, SettlingIs
<1>6. QED
  BY <1>1, <1>2, <1>3, <1>4, <1>5

(* Its source is settled, and its callback may settle with what it was     *)
(* settled with, with a rejection and, as a then, with anything.           *)
Answers(t, s) ==
  s = SourceStatus(t) \/ task[t].kind = "then" \/ s = "rejected"
LEMMA TopAllowed ==
  ASSUME SchedulerInv, PromisesInv, NEW t, TopHolds(t), task[t].kind \in Reactions
  PROVE  /\ SourceStatus(t) \in {"fulfilled", "rejected"}
         /\ \A s \in {"fulfilled", "rejected"} :
              Answers(t, s) => s \in Contract!Allowed(task[t].result)
<1>1. PICK h, k, p, source, on :
        /\ h = Heap /\ k = h.task[t] /\ p = k.result /\ source = StatusIn(h, k.items[1])
        /\ on = IF k.kind = "then" /\ source = "rejected" THEN k.onRejected ELSE k.onFulfilled
  OBVIOUS
<1>2. h.task = task /\ k = task[t]
  BY <1>1, InvIs
<1>3. Settling(h, h, t) /\ Running(h, t)
  BY <1>1, TopFinds
<1>4. /\ k \in TaskType /\ k.kind \in Reactions /\ Len(k.items) = 1
      /\ p \in Promise /\ RuleIn(h, p) = RuleFrom(k)
  BY <1>1, <1>2, <1>3 DEF Settling, Reactions
<1>5. source \in {"fulfilled", "rejected"} /\ HandlerOf(h, t) = "fn"
  BY <1>1, <1>3, <1>4 DEF Running
<1>6. on # "none"
  BY <1>1, <1>5 DEF HandlerOf
<1>7. SourceStatus(t) = source
  BY <1>1, <1>2 DEF SourceStatus
<1>8. ASSUME NEW s \in {"fulfilled", "rejected"}, Answers(t, s) PROVE s \in Contract!Allowed(p)
  <2>1. s = source \/ (on # "none" /\ (k.kind = "then" \/ s = "rejected"))
    BY <1>2, <1>6, <1>7, <1>8 DEF Answers
  <2>2. h = Heap /\ source = StatusIn(h, k.items[1])
        /\ on = IF k.kind = "then" /\ source = "rejected" THEN k.onRejected ELSE k.onFulfilled
    BY <1>1
  <2>3. QED
    BY <2>1, <2>2, <1>4, <1>5, ReactionAllowed
<1>9. p = task[t].result
  BY <1>1, <1>2
<1>10. QED
  BY <1>5, <1>7, <1>8, <1>9

(* The frame on top goes, and its task settles its promise.                *)
LEMMA PopSettledStep ==
  ASSUME SchedulerInv, PromisesInv, NEW t, TopHolds(t), task[t].kind \in Reactions,
         NEW s \in {"fulfilled", "rejected"}, Becomes(SettledBy(Heap, t, s)),
         stack' = Tail(stack), Answers(t, s)
  PROVE  MovesOn /\ PromisesInv'
<1>1. PICK h, K, x, P, n : /\ h = Heap /\ K = HeldIn(stack) /\ x = SettledBy(h, t, s)
                           /\ P = Pooled /\ n = nextTimer
  OBVIOUS
<1>2. HeapInv(h, K, P, n) /\ n \in Int /\ h.task = task
  BY <1>1, InvIs
<1>3. t \in Task /\ t \in K /\ \A u \in K : task[u].kind \notin Combinators
  BY <1>1, TopIs
<1>4. Settling(h, h, t) /\ Same(h, h)
  BY <1>1, TopFinds
<1>5. h.task[t].kind # "timer"
  BY <1>2 DEF Reactions
<1>6. x \in HeapType /\ SettlesFor(h, t, s, x)
  <2>1. /\ s \in StatusName /\ s # "absent"
        /\ \A u \in (K \cap Task) \ {t} : h.task[u].kind \notin Combinators
    BY <1>2, <1>3 DEF StatusName
  <2>2. HeapInv(x, K \ {t}, P, n) /\ SettlesFor(h, t, s, x)
    BY <2>1, <1>1, <1>2, <1>3, <1>5, SettledByKeeps
  <2>3. QED
    BY <2>2 DEF HeapInv
<1>7. Heap' = x
  BY <1>1, <1>6, BecomesIs
<1>8. Held' \subseteq Held \ {t}
  BY HeldPopped
<1>9. s \in Contract!Allowed(h.task[t].result)
  BY <1>2, TopAllowed
<1>10. QED
  BY <1>1, <1>4, <1>5, <1>6, <1>7, <1>8, <1>9, FoundSettles

(* A callback that returns a plain value or throws.                        *)
LEMMA ReactionReturnsMoves ==
  ASSUME SchedulerInv, PromisesInv, ReactionReturns
  PROVE  MovesOn /\ PromisesInv'
<1>1. PICK t, s : /\ t = Head(stack).task
                  /\ s = CASE exception -> "rejected"
                           [] ~exception /\ task[t].kind = "then" -> "fulfilled"
                           [] OTHER -> SourceStatus(t)
  OBVIOUS
<1>2. /\ TopHolds(t) /\ task[t].kind \in Reactions
      /\ Becomes(SettledBy(Heap, t, s)) /\ stack' = Tail(stack)
  BY <1>1 DEF ReactionReturns, Returning, Top, TopHolds, Reactions
<1>3. s \in {"fulfilled", "rejected"} /\ Answers(t, s)
  <2>1. SourceStatus(t) \in {"fulfilled", "rejected"}
    BY <1>2, TopAllowed
  <2>2. QED
    BY <2>1, <1>1 DEF Answers
<1>4. QED
  BY <1>2, <1>3, PopSettledStep

(* A finally callback's promise was waited for: settled or not.            *)
LEMMA FinallyEndsMoves ==
  ASSUME SchedulerInv, PromisesInv, FinallyEnds
  PROVE  MovesOn /\ PromisesInv'
<1>1. PICK h, K, t, p, x, P, n :
        /\ h = Heap /\ K = HeldIn(stack) /\ t = Head(stack).task /\ p = Head(stack).on
        /\ x = AddDependent(h, p, t) /\ P = Pooled /\ n = nextTimer
  OBVIOUS
<1>2. /\ TopHolds(t) /\ Head(stack).kind = "finally"
      /\ Becomes(CASE status[p] = "pending" -> x
                   [] status[p] = "rejected" -> SettledBy(Heap, t, "rejected")
                   [] OTHER -> SettledBy(Heap, t, SourceStatus(t)))
      /\ stack' = Tail(stack)
  BY <1>1 DEF FinallyEnds, DrainEnds, InDrain, Top, TopHolds
<1>3. /\ HeapInv(h, K, P, n) /\ n \in Int /\ h.task = task /\ h.status = status
  BY <1>1, InvIs
<1>4. t \in Task /\ t \in K /\ p \in Promise /\ task[t].kind = "finally"
  BY <1>1, <1>2, TopIs DEF Reactions
<1>5. task[t].kind \in Reactions
  BY <1>4 DEF Reactions
<1>6. CASE status[p] = "pending"
  <2>1. h.status[p] = "pending" /\ h.task[t].kind \in Reactions \cup Combinators
        /\ h.task[t].kind \notin Combinators
    BY <1>3, <1>4, <1>6 DEF Reactions, Combinators
  <2>2. HeapInv(x, K \ {t}, P, n) /\ Same(h, x)
    BY <2>1, <1>1, <1>3, <1>4, LinkKeeps
  <2>3. Heap' = x /\ x.status = h.status /\ Lives(h, x)
    BY <2>2, <1>2, <1>6, BecomesIs DEF HeapInv, Same
  <2>4. \A u \in Held' : u \in Held \/ Running(x, u)
    BY <1>2, HeldPopped
  <2>5. QED
    BY <2>3, <2>4, <1>1, LivesStep
<1>7. CASE status[p] # "pending"
  <2>1. PICK s : s = IF status[p] = "rejected" THEN "rejected" ELSE SourceStatus(t)
    OBVIOUS
  <2>2. s \in {"fulfilled", "rejected"} /\ Answers(t, s)
    <3>1. SourceStatus(t) \in {"fulfilled", "rejected"}
      BY <1>2, <1>5, TopAllowed
    <3>2. QED
      BY <2>1, <3>1 DEF Answers
  <2>3. Becomes(SettledBy(Heap, t, s))
    BY <2>1, <1>2, <1>7
  <2>4. QED
    BY <2>2, <2>3, <1>2, <1>5, PopSettledStep
<1>8. QED
  BY <1>6, <1>7

(* A then callback's promise was waited for: settled, or followed.         *)
LEMMA ThenEndsMoves ==
  ASSUME SchedulerInv, PromisesInv, ThenEnds
  PROVE  MovesOn /\ PromisesInv'
<1>1. PICK h, K, t, p, m, k, x, P, n :
        /\ h = Heap /\ K = HeldIn(stack) /\ t = Head(stack).task /\ p = Head(stack).on
        /\ m = NextTask
        /\ k = [Reaction("then", <<p>>, "none", "none") EXCEPT !.result = task[t].result]
        /\ x = Done(Wait(WithTask(h, m, k), m), t) /\ P = Pooled /\ n = nextTimer
  OBVIOUS
<1>2. /\ TopHolds(t) /\ Head(stack).kind = "then"
      /\ Becomes(IF status[p] = "pending" THEN x ELSE SettledBy(Heap, t, status[p]))
      /\ stack' = Tail(stack)
  BY <1>1 DEF ThenEnds, DrainEnds, InDrain, Top, TopHolds, AddTask, WithTask
<1>3. /\ HeapInv(h, K, P, n) /\ n \in Int /\ n \in 1..(MaxTimers + 1) /\ h \in HeapType
      /\ h.task = task /\ h.status = status
  BY <1>1, InvIs
<1>4. t \in Task /\ t \in K /\ p \in Promise /\ task[t].kind = "then" /\ status[p] # "absent"
  BY <1>1, <1>2, TopIs DEF Reactions
<1>5. CASE status[p] = "pending"
  <2>1. Becomes(x)
    BY <1>2, <1>5
  <2>2. m \in Task /\ h.task[m].kind = "free"
    BY <1>1, <1>3, NextTaskIs
  <2>3. Follows(k, h, t, p)
    BY <1>1, <1>3, <1>4, FollowerIs
  <2>4. /\ x.status = h.status /\ \A u \in Task \ {t, m} : x.task[u] = h.task[u]
        /\ m \notin K /\ x.task[t] = Blank /\ x.task[m] = OneMore(k) /\ x \in HeapType
    <3>1. /\ h.task[t].kind = "then" /\ h.status[p] = "pending" /\ n \in Int
          /\ HeapInv(h, K, P, n) /\ t \in K /\ t \in Task /\ p \in Promise
      BY <1>3, <1>4, <1>5
    <3>2. PICK y : y = Done(Wait(WithTask(h, m, k), m), t)
      OBVIOUS
    <3>3. /\ HeapInv(y, K \ {t}, P, n) /\ y.status = h.status
          /\ \A u \in Task \ {t, m} : y.task[u] = h.task[u]
          /\ y.task[m].kind = "then" /\ m \notin K
          /\ y.task[t] = Blank /\ y.task[m] = OneMore(k) /\ y \in HeapType
      BY <2>2, <2>3, <3>1, <3>2, FollowsKeeps
    <3>4. y = x
      BY <3>2, <1>1
    <3>5. QED
      BY <3>3, <3>4
  <2>5. TakesOver(h, t, m, p, x)
    <3>1. Settling(h, h, t)
      BY <1>1, <1>2, TopFinds
    <3>2. Alive(h.task[t]) /\ h.task[t].kind = "then" /\ ~Alive(h.task[m]) /\ m # t
      BY <3>1, <2>2, <2>4, <1>3, <1>4 DEF Settling, Alive
    <3>3. ~Alive(x.task[t])
      BY <2>4 DEF Alive, Blank
    <3>4. /\ k \in TaskType /\ k.kind = "then" /\ k.items = <<p>> /\ ~k.finished
          /\ k.result = h.task[t].result /\ k.onFulfilled = "none" /\ k.onRejected = "none"
      BY <2>3 DEF Follows
    <3>5. PICK j : j = OneMore(k)
      OBVIOUS
    <3>6. /\ j.kind = "then" /\ j.items = <<p>> /\ ~j.finished
          /\ j.result = h.task[t].result /\ j.onFulfilled = "none" /\ j.onRejected = "none"
      BY <3>4, <3>5, TaskIs DEF OneMore
    <3>7. Alive(j) /\ x.task[m] = j
      BY <2>4, <3>5, <3>6 DEF Alive
    <3>8. \A u \in Task \ {t, m} : SameDuty(h.task[u], x.task[u])
      BY <2>4 DEF SameDuty
    <3>9. h.status[p] = "pending" /\ x.status = h.status
      BY <2>4, <1>3, <1>5
    <3>10. QED
      BY <3>2, <3>3, <3>6, <3>7, <3>8, <3>9, <2>2, <1>4 DEF TakesOver
  <2>6. Heap' = x
    BY <2>1, <2>4, BecomesIs
  <2>7. t \in Held /\ HeldOn(h, x)
    <3>1. Held' = Held \ {t} /\ K = Held /\ Held \subseteq Task
      BY <1>1, <1>2, HeldPopped, InvIs DEF Held
    <3>2. ASSUME NEW u \in Held' PROVE GoesOn(h, x, Held, u)
      <4>1. u \in Held /\ u \in Task \ {t, m}
        BY <3>1, <2>4
      <4>2. QED
        BY <4>1, <2>4 DEF GoesOn, SameDuty
    <3>3. QED
      BY <3>1, <3>2, <1>4 DEF HeldOn
  <2>8. QED
    BY <2>5, <2>6, <2>7, <1>1, FollowsStep
<1>6. CASE status[p] # "pending"
  <2>1. PICK s : s = status[p]
    OBVIOUS
  <2>2. s \in {"fulfilled", "rejected"}
    <3>1. h.status \in [Promise -> StatusName]
      BY <1>3, HeapIs
    <3>2. s \in StatusName
      BY <3>1, <2>1, <1>3, <1>4
    <3>3. QED
      BY <3>2, <2>1, <1>4, <1>6 DEF StatusName
  <2>3. Becomes(SettledBy(Heap, t, s)) /\ Answers(t, s) /\ task[t].kind \in Reactions
    BY <2>1, <1>2, <1>4, <1>6 DEF Answers, Reactions
  <2>4. QED
    BY <2>2, <2>3, <1>2, PopSettledStep
<1>7. QED
  BY <1>5, <1>6

(* A timer's callback has returned, and its task is freed.                 *)
LEMMA TimerReturnsMoves ==
  ASSUME SchedulerInv, PromisesInv, TimerReturns
  PROVE  MovesOn /\ PromisesInv'
<1>1. PICK h, K, t, x, P, n : /\ h = Heap /\ K = HeldIn(stack) /\ t = Head(stack).task
                              /\ x = Release(h, t) /\ P = Pooled /\ n = nextTimer
  OBVIOUS
<1>2. TopHolds(t) /\ task[t].kind = "timer" /\ Becomes(x) /\ stack' = Tail(stack)
  BY <1>1 DEF TimerReturns, Returning, Top, TopHolds
<1>3. h \in HeapType /\ h.task = task /\ LiveInv(h)
  BY <1>1, InvIs DEF PromisesInv, PromiseInv
<1>4. t \in Task
  BY <1>2, TopIs
<1>5. /\ x \in HeapType /\ x.status = h.status /\ x.task[t] = Blank
      /\ \A u \in Task \ {t} : x.task[u] = h.task[u]
  <2>1. x = WithTask(h, t, Blank) /\ Blank \in TaskType
    BY <1>1, BlankIs DEF Release, WithTask
  <2>2. QED
    BY <2>1, <1>3, <1>4, TaskSetIs
<1>6. Heap' = x
  BY <1>2, <1>5, BecomesIs
<1>7. Unmoved(h, x)
  <2>1. TimerDuty(h.task[t], x.task[t])
    <3>1. ~Alive(x.task[t])
      BY <1>5 DEF Alive, Blank
    <3>2. Alive(h.task[t]) => h.task[t].result = Plain
      BY <1>2, <1>3, <1>4 DEF LiveInv
    <3>3. QED
      BY <3>1, <3>2 DEF TimerDuty
  <2>2. \A u \in Task \ {t} : SameDuty(h.task[u], x.task[u])
    BY <1>5 DEF SameDuty
  <2>3. QED
    BY <2>1, <2>2, <1>5 DEF Unmoved
<1>8. HeldOn(h, x)
  <2>1. Held' = Held \ {t} /\ Held \subseteq Task
    BY <1>2, HeldPopped, InvIs DEF Held
  <2>2. QED
    BY <2>1, <1>5 DEF HeldOn, GoesOn, SameDuty
<1>9. QED
  BY <1>1, <1>6, <1>7, <1>8, UnmovedStep

(* A call that opens a promise.                                            *)
LEMMA OpensMoves ==
  ASSUME SchedulerInv, PromisesInv, Opens
  PROVE  MovesOn /\ PromisesInv'
<1>1. PICK h, p, t, g : h = Heap /\ Heap' = g /\ Creates(h, p, t, g) /\ stack' = stack
  BY DEF Opens
<1>2. HeldOn(h, g)
  <2>1. PICK K, P, n : K = Held /\ P = Pooled /\ n = nextTimer
    OBVIOUS
  <2>2. Held' = K /\ K \subseteq Task /\ HeapInv(h, K, P, n)
    BY <2>1, <1>1, InvIs DEF Held
  <2>3. ASSUME NEW u \in K PROVE GoesOn(h, g, K, u)
    <3>1. u \in Task /\ FreeInv(h, u, K) /\ FinishedInv(h, u, K)
      BY <2>2, <2>3 DEF HeapInv, TaskInv
    <3>2. Alive(h.task[u])
      BY <2>3, <3>1 DEF FreeInv, FinishedInv, Alive
    <3>3. SameDuty(h.task[u], g.task[u])
      BY <3>1, <3>2, <1>1 DEF Creates
    <3>4. QED
      BY <2>3, <3>3 DEF GoesOn
  <2>4. QED
    BY <2>1, <2>2, <2>3 DEF HeldOn
<1>3. QED
  BY <1>1, <1>2, CreatesStep

(* Promise.resolve and Promise.reject.                                     *)
LEMMA CallSettledMoves ==
  ASSUME SchedulerInv, PromisesInv, CallSettled
  PROVE  MovesOn /\ PromisesInv'
<1>1. PICK s \in {"fulfilled", "rejected"} : status' = [status EXCEPT ![NextPromise] = s]
  BY DEF CallSettled
<1>2. PICK h, p, g : h = Heap /\ p = NextPromise /\ g = Heap'
  OBVIOUS
<1>3. p \in Promise /\ status[p] = "absent"
  <2>1. Created # Promise
    BY DEF CallSettled
  <2>2. QED
    BY <2>1, <1>2, NextPromiseIs
<1>4. g.status = status' /\ g.task = task' /\ h.status = status /\ h.task = task
  BY <1>2 DEF Heap
<1>5. task' = task /\ stack' = stack
  BY DEF CallSettled
<1>6. Settled(h, p, s, g)
  BY <1>1, <1>2, <1>3, <1>4, <1>5 DEF Settled
<1>7. HeldOn(h, g)
  BY <1>4, <1>5 DEF HeldOn, GoesOn, SameDuty, Held
<1>8. QED
  BY <1>2, <1>3, <1>6, <1>7, SettledFromStart

(* setTimeout makes a task without a promise.                              *)
LEMMA CallSetTimeoutMoves ==
  ASSUME SchedulerInv, PromisesInv, CallSetTimeout
  PROVE  MovesOn /\ PromisesInv'
<1>1. PICK h, t, g : h = Heap /\ Heap' = g /\ Times(h, t, g) /\ stack' = stack
  BY CallSetTimeoutKeeps
<1>2. /\ g.status = h.status /\ (\A u \in Task \ {t} : g.task[u] = h.task[u])
      /\ h.task[t].kind = "free" /\ g.task[t].kind = "timer" /\ g.task[t].result = Plain
  BY <1>1 DEF Times, OnlyTask
<1>3. \A u \in Task \ {t} : SameDuty(h.task[u], g.task[u])
  BY <1>2 DEF SameDuty
<1>4. Unmoved(h, g)
  <2>1. TimerDuty(h.task[t], g.task[t])
    BY <1>2 DEF TimerDuty, Alive
  <2>2. QED
    BY <2>1, <1>2, <1>3 DEF Unmoved
<1>5. HeldOn(h, g)
  <2>1. PICK K, P, n : K = Held /\ P = Pooled /\ n = nextTimer
    OBVIOUS
  <2>2. Held' = K /\ K \subseteq Task /\ HeapInv(h, K, P, n)
    BY <2>1, <1>1, InvIs DEF Held
  <2>3. t \notin K
    BY <2>2, <1>2 DEF HeapInv, TaskInv, FreeInv
  <2>4. QED
    BY <2>1, <2>2, <2>3, <1>3 DEF HeldOn, GoesOn
<1>6. QED
  BY <1>1, <1>4, <1>5, UnmovedStep

(* clearTimeout takes a timer away, or a sleep.                            *)
LEMMA CallClearTimeoutMoves ==
  ASSUME SchedulerInv, PromisesInv, CallClearTimeout
  PROVE  MovesOn /\ PromisesInv'
<1>1. PICK h, K, t, g : h = Heap /\ K = Held /\ Heap' = g /\ Clears(h, K, t, g) /\ stack' = stack
  BY CallClearTimeoutKeeps
<1>2. /\ t \in Task /\ t \notin K /\ Alive(h.task[t]) /\ h.task[t].kind \in {"timer", "sleep"}
      /\ g.status = h.status /\ ~Alive(g.task[t])
      /\ \A u \in Task \ {t} : SameDuty(h.task[u], g.task[u])
  BY <1>1 DEF Clears
<1>3. HeldOn(h, g)
  <2>1. Held' = K /\ K \subseteq Task
    BY <1>1, InvIs DEF Held
  <2>2. QED
    BY <2>1, <1>1, <1>2 DEF HeldOn, GoesOn
<1>4. CASE h.task[t].kind = "timer"
  <2>1. LiveInv(h)
    BY <1>1 DEF PromisesInv, PromiseInv
  <2>2. TimerDuty(h.task[t], g.task[t])
    BY <2>1, <1>2, <1>4 DEF TimerDuty, LiveInv
  <2>3. Unmoved(h, g)
    BY <2>2, <1>2 DEF Unmoved
  <2>4. QED
    BY <2>3, <1>1, <1>3, UnmovedStep
<1>5. CASE h.task[t].kind = "sleep"
  BY <1>1, <1>2, <1>3, <1>5, LosesStep
<1>6. QED
  BY <1>2, <1>4, <1>5

(* A thread of the pool completes its operation.                           *)
LEMMA RunTaskMoves ==
  ASSUME SchedulerInv, PromisesInv, NEW w \in IoThread, RunTask(w)
  PROVE  MovesOn /\ PromisesInv'
<1>1. PICK h, g : h = Heap /\ Heap' = g /\ Same(h, g) /\ stack' = stack
  BY RunTaskKeeps
<1>2. g.status = h.status /\ Lives(h, g) /\ Held' = Held
  BY <1>1 DEF Same, Held
<1>3. QED
  BY <1>1, <1>2, LivesStep

(* Steps that leave promises and tasks alone.                              *)
LEMMA StillMoves ==
  ASSUME SchedulerInv, PromisesInv,
         \/ CallAwait \/ Throw \/ Catch \/ LeaveMain
         \/ AwaitEnds \/ ExitDrainEnds \/ ReactionReturnsPromise
         \/ \E w \in IoThread : PopTask(w) \/ LeavePool(w)
         \/ StopPool \/ JoinPool \/ Tick
  PROVE  MovesOn /\ PromisesInv'
<1>1. Still
  BY CallAwaitKeeps, ThrowKeeps, LeaveMainKeeps, AwaitEndsKeeps, ReactionReturnsPromiseKeeps,
     PopTaskKeeps, LeavePoolKeeps, StopPoolKeeps, JoinPoolKeeps
<1>2. QED
  BY <1>1, StillStep DEF Still

(* Every step of the scheduler is one of the contract's, or is none of its *)
(* business.                                                               *)
LEMMA SchedulerMoves ==
  ASSUME SchedulerInv, PromisesInv, [SchedulerNext]_schedulerVars
  PROVE  MovesOn /\ PromisesInv'
<1>1. CASE UNCHANGED schedulerVars
  <2>1. Heap' = Heap /\ Held' \subseteq Held
    BY <1>1 DEF schedulerVars, heapVars, Heap, Held
  <2>2. QED
    BY <2>1, StillStep
<1>2. CASE ProgramCalls
  <2>1. CASE CallThen \/ CallFinally \/ CallCombinator \/ CallSleepAsync \/ CallIo
    <3>1. Opens
      BY <2>1, CallThenKeeps, CallFinallyKeeps, CallCombinatorKeeps, CallSleepAsyncKeeps,
         CallIoKeeps
    <3>2. QED
      BY <3>1, OpensMoves
  <2>2. QED
    BY <1>2, <2>1, CallSettledMoves, CallSetTimeoutMoves, CallClearTimeoutMoves, StillMoves
    DEF ProgramCalls
<1>3. CASE Turns
  BY <1>3, TurnIdleMoves, TurnCombinatorMoves, TurnIoMoves, TurnReactionMoves DEF Turns
<1>4. CASE Ends
  BY <1>4, StillMoves, ThenEndsMoves, FinallyEndsMoves DEF Ends
<1>5. CASE Returns
  BY <1>5, TimerReturnsMoves, ReactionReturnsMoves, StillMoves DEF Returns
<1>6. CASE \E w \in IoThread : PopTask(w) \/ RunTask(w) \/ LeavePool(w)
  BY <1>6, RunTaskMoves, StillMoves
<1>7. CASE StopPool \/ JoinPool \/ Tick
  BY <1>7, StillMoves
<1>8. QED
  BY <1>1, <1>2, <1>3, <1>4, <1>5, <1>6, <1>7 DEF SchedulerNext

(* At the start there is neither promise nor task.                         *)
LEMMA PromisesInitial ==
  ASSUME SchedulerInit
  PROVE  PromisesInv /\ Contract!Init
<1>1. /\ status = [p \in Promise |-> "absent"] /\ task = [t \in Task |-> Blank]
      /\ stack = <<>> /\ Heap.task = task /\ Heap.status = status
  BY DEF SchedulerInit, Heap
<1>2. LiveInv(Heap)
  BY <1>1 DEF LiveInv, Alive, Blank
<1>3. Held = {}
  BY <1>1 DEF Held, HeldIn
<1>4. \A p \in Promise : RuleOf(p) = Contract!NoRule
  BY <1>1 DEF RuleOf, NoRule, Contract!NoRule
<1>5. QED
  BY <1>1, <1>2, <1>3, <1>4 DEF PromisesInv, PromiseInv, Contract!Init

(* Every reachable state satisfies what the refinement rests on.           *)
LEMMA PromisesInvariant == SchedulerSpec => [](SchedulerInv /\ PromisesInv)
<1>1. SchedulerInit => SchedulerInv /\ PromisesInv
  BY SchedulerInitial, PromisesInitial
<1>2. (SchedulerInv /\ PromisesInv) /\ [SchedulerNext]_schedulerVars => (SchedulerInv /\ PromisesInv)'
  BY SchedulerInductive, SchedulerMoves
<1>3. QED
  BY <1>1, <1>2, PTL DEF SchedulerSpec

(* jayess_settle and all that calls it settle each promise once, with what *)
(* the promises it was made from allow, whatever the program calls, the    *)
(* threads of the pool do and the clock shows.                             *)
THEOREM SchedulerRefinement == SchedulerSpec => ImplementsPromises
<1>1. SchedulerInit => Contract!Init
  BY PromisesInitial
<1>2. SchedulerInv /\ PromisesInv /\ [SchedulerNext]_schedulerVars =>
        [Contract!Next]_<<status, [p \in Promise |-> RuleOf(p)]>>
  BY SchedulerMoves DEF MovesOn
<1>3. QED
  BY <1>1, <1>2, PromisesInvariant, PTL DEF SchedulerSpec, ImplementsPromises, Contract!Spec
====
