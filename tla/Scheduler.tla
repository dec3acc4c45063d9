---- MODULE Scheduler ----
(***************************************************************************)
(* old_version/runtime/jayess_runtime.c: the scheduler of the previous     *)
(* runtime, its promises, timers and I/O worker pool.                      *)
(*                                                                         *)
(* One thread runs the program.  It creates promises and tasks, and runs   *)
(* the queued tasks in jayess_run_microtasks when it awaits, when a        *)
(* callback answers with a promise, and when main is over; such calls      *)
(* nest, and stack holds them.  The threads of the pool run file and       *)
(* network operations and set a task's completed flag, which is all that   *)
(* passes between the threads.  Allocation does not fail, and what a       *)
(* promise is settled with is left out: only its state is kept.            *)
(***************************************************************************)
EXTENDS Integers, Sequences, FiniteSets, SequencesExt

CONSTANTS
  MaxPromises, (* promises created over a behaviour                         *)
  MaxTimers,   (* calls of setTimeout over a behaviour                      *)
  MaxNow,      (* the last value of the clock                               *)
  GuardLimit,  (* turns of one drain, 100000 in the code                    *)
  MaxAwaits,   (* awaits in one callback                                    *)
  MaxItems,    (* inputs of a combinator                                    *)
  IoThreads,   (* JAYESS_IO_WORKER_COUNT                                    *)
  Delays,      (* delays passed to setTimeout and sleepAsync                *)
  Programs,    (* the calls that a program makes: any one of these sets     *)
  Handlers     (* pairs of handlers passed to then: none, fn or bad         *)

ASSUME SchedulerAssumption ==
  /\ {MaxPromises, MaxTimers, MaxNow, MaxAwaits, MaxItems} \subseteq Nat
  /\ {GuardLimit, IoThreads} \subseteq Nat \ {0}
  /\ Delays \subseteq Nat
  /\ Handlers \subseteq {"none", "fn", "bad"} \X {"none", "fn", "bad"}

VARIABLES
  (* --- promise objects --- *)
  status,     (* __jayess_promise_state                                     *)
  dependents, (* promise_dependents, the newest first                       *)
  (* --- jayess_microtask objects and jayess_runtime_scheduler --- *)
  task, queues,
  now, nextTimer,
  (* --- the program's thread --- *)
  uses,       (* the calls the program makes; never changed                 *)
  stack,      (* the drains and callbacks under way, the innermost first    *)
  exception,  (* jayess_has_exception()                                     *)
  phase,      (* main, draining, stopping, joining or stopped               *)
  (* --- jayess_runtime_io_pool --- *)
  pool, hand  (* hand: the task a thread of the pool has taken              *)

heapVars == <<status, dependents, task, queues>>
poolVars == <<pool, hand>>
schedulerVars == <<heapVars, now, nextTimer, uses, stack, exception, phase, poolVars>>

Promise == 1..MaxPromises
IoThread == 1..IoThreads
Plain == 0     (* an input that is no promise; also: no promise             *)
NoTask == 0
Absent == -1   (* hand: the thread does not run                             *)
Idle == 0

(* Each pending promise has one unfinished task, each settled one at most  *)
(* one that lives on, and one task may be exchanged for another.           *)
Task == 1..(MaxPromises + MaxTimers + 1)

Combinators == {"all", "race", "allSettled", "any"}
Blank == [kind |-> "free", items |-> <<>>, onFulfilled |-> "none", onRejected |-> "none",
          result |-> Plain, due |-> 0, id |-> 0,
          deps |-> 0, queued |-> FALSE, finished |-> FALSE, completed |-> FALSE]

QueueOf(kind) ==
  CASE kind \in Combinators \union {"then", "finally"} -> "callbacks"
    [] kind \in {"timer", "sleep"} -> "timers"
    [] OTHER -> "io"

Created == {p \in Promise : status[p] # "absent"}

SchedulerInit ==
  /\ status = [p \in Promise |-> "absent"]
  /\ dependents = [p \in Promise |-> <<>>]
  /\ task = [t \in Task |-> Blank]
  /\ queues = [callbacks |-> <<>>, timers |-> <<>>, io |-> <<>>, done |-> <<>>]
  /\ now = 0 /\ nextTimer = 1 /\ uses \in Programs
  /\ stack = <<>> /\ exception = FALSE /\ phase = "main"
  /\ pool = [started |-> FALSE, stopping |-> FALSE, queue |-> <<>>]
  /\ hand = [w \in IoThread |-> Absent]

(***************************************************************************)
(* What the functions of the scheduler do to a heap h of promises, tasks   *)
(* and queues.                                                             *)
(***************************************************************************)
Heap == [status |-> status, dependents |-> dependents, task |-> task, queues |-> queues]

Becomes(h) ==
  /\ status' = h.status /\ dependents' = h.dependents
  /\ task' = h.task /\ queues' = h.queues

StatusIn(h, i) == IF i = Plain THEN "fulfilled" ELSE h.status[i]

(* The status of the first input that is not s.                            *)
FirstNot(h, t, s, otherwise) ==
  LET items == h.task[t].items
      I == {i \in DOMAIN items : StatusIn(h, items[i]) # s}
  IN IF I = {} THEN otherwise ELSE StatusIn(h, items[Min(I)])

(* jayess_promise_combinator_ready.  A ready any may have a pending input  *)
(* before the fulfilled one.                                               *)
Ready(h, t) ==
  LET S == {StatusIn(h, i) : i \in ToSet(h.task[t].items)}
  IN CASE h.task[t].kind \in {"then", "finally"} -> "pending" \notin S
       [] h.task[t].kind = "race" -> S # {"pending"}
       [] h.task[t].kind = "any" -> "fulfilled" \in S \/ "pending" \notin S
       [] h.task[t].kind = "all" -> FirstNot(h, t, "fulfilled", "fulfilled") # "pending"
       [] OTHER -> "pending" \notin S

AppendTask(h, t) ==
  [h EXCEPT !.queues[QueueOf(h.task[t].kind)] = Append(@, t), !.task[t].queued = TRUE]

AddDependent(h, p, t) ==
  IF StatusIn(h, p) # "pending" THEN h
  ELSE [h EXCEPT !.dependents[p] = <<t>> \o @,
                 !.task[t].deps = @ + 1, !.task[t].queued = FALSE]

(* A task that is not ready waits at its pending inputs, any other is      *)
(* queued.                                                                 *)
Wait(h, t) ==
  LET items == h.task[t].items
      waiting[i \in 0..Len(items)] ==
        IF i = 0 THEN h ELSE AddDependent(waiting[i - 1], items[i], t)
  IN IF Ready(h, t) THEN AppendTask(h, t) ELSE waiting[Len(items)]

Release(h, t) == [h EXCEPT !.task[t] = Blank]

Wake(h, t) ==
  LET left == IF h.task[t].deps > 0 THEN h.task[t].deps - 1 ELSE 0
      g == [h EXCEPT !.task[t].deps = left]
  IN CASE h.task[t].finished -> IF left = 0 THEN Release(g, t) ELSE g
       [] ~h.task[t].finished /\ ~h.task[t].queued -> AppendTask(g, t)
       [] OTHER -> g

Settle(h, p, s) ==
  LET tasks == h.dependents[p]
      woken[i \in 0..Len(tasks)] ==
        IF i = 0 THEN [h EXCEPT !.status[p] = s, !.dependents[p] = <<>>]
        ELSE Wake(woken[i - 1], tasks[i])
  IN woken[Len(tasks)]

(* Mutant: a task that has been run is freed, others pointing to it or not.*)
DoneAtOnce(h, t) == Release(h, t)

(* A task that has been run: others may still point to it.                 *)
Done(h, t) ==
  IF h.task[t].deps > 0 THEN [h EXCEPT !.task[t].finished = TRUE] ELSE Release(h, t)

Take(h, queue, i) ==
  [h EXCEPT !.queues[queue] = RemoveAt(@, i), !.task[h.queues[queue][i]].queued = FALSE]

(* The tasks of a queue that are in S.                                     *)
Only(queue, S) ==
  LET kept[i \in 0..Len(queue)] ==
        IF i = 0 THEN <<>>
        ELSE IF queue[i] \in S THEN Append(kept[i - 1], queue[i]) ELSE kept[i - 1]
  IN kept[Len(queue)]

Promoted(h) ==
  LET completed == {t \in Task : h.task[t].completed}
  IN [h EXCEPT !.queues.done = @ \o Only(h.queues.io, completed),
               !.queues.io = Only(@, Task \ completed)]

(* The places of the callbacks that are ready and of the timers due.       *)
ReadyAt(h) == {i \in DOMAIN h.queues.callbacks : Ready(h, h.queues.callbacks[i])}
DueAt(h) == {i \in DOMAIN h.queues.timers : h.task[h.queues.timers[i]].due <= now}

(* jayess_dequeue_microtask: a ready callback, else a completed operation, *)
(* else a due timer, else a callback that is not ready.                    *)
Dequeue(h) ==
  LET Taken(g, queue, i) == [task |-> g.queues[queue][i], heap |-> Take(g, queue, i)]
      g == Promoted(h)
  IN CASE ReadyAt(h) # {} -> Taken(h, "callbacks", Min(ReadyAt(h)))
       [] ReadyAt(h) = {} /\ g.queues.done # <<>> -> Taken(g, "done", 1)
       [] ReadyAt(h) = {} /\ g.queues.done = <<>> /\ DueAt(g) # {} ->
            Taken(g, "timers", Min(DueAt(g)))
       [] OTHER -> IF g.queues.callbacks # <<>> THEN Taken(g, "callbacks", 1)
                   ELSE [task |-> NoTask, heap |-> g]

HasTasks == \E q \in DOMAIN queues : queues[q] # <<>>

NextPromise == Min(Promise \ Created)
NextTask == Min({t \in Task : task[t].kind = "free"})

(***************************************************************************)
(* Calls of the program, from main or from a callback.                     *)
(***************************************************************************)
Drain(why, p, t) == [kind |-> why, on |-> p, task |-> t, turns |-> 0]
Callback(t) == [kind |-> "callback", on |-> Plain, task |-> t, turns |-> 0]
Top == Head(stack)

InUserCode == IF stack = <<>> THEN phase = "main" ELSE Top.kind = "callback"
Calls(what) == InUserCode /\ ~exception /\ what \in uses

AddTask(fields) == [Heap EXCEPT !.task[NextTask] = fields]

(* A new pending promise and the task that will settle it.                 *)
AddPending(fields) ==
  LET h == AddTask([fields EXCEPT !.result = NextPromise])
  IN [h EXCEPT !.status[NextPromise] = "pending"]

Reaction(kind, items, onFulfilled, onRejected) ==
  [Blank EXCEPT !.kind = kind, !.items = items,
                !.onFulfilled = onFulfilled, !.onRejected = onRejected]

Register(fields) ==
  /\ Calls(fields.kind) /\ Created # Promise
  /\ Becomes(Wait(AddPending(fields), NextTask))
  /\ UNCHANGED <<now, nextTimer, stack, exception, phase, poolVars>>

CallThen ==
  \E p \in Created, on \in Handlers : Register(Reaction("then", <<p>>, on[1], on[2]))

CallFinally ==
  \E p \in Created, on \in {on[1] : on \in Handlers} :
    Register(Reaction("finally", <<p>>, on, "none"))

CallCombinator ==
  \E kind \in Combinators, n \in 0..MaxItems :
    \E items \in [1..n -> Created \union {Plain}] :
      Register(Reaction(kind, items, "none", "none"))

(* Promise.resolve and Promise.reject.                                     *)
CallSettled ==
  /\ Calls("settled") /\ Created # Promise
  /\ \E s \in {"fulfilled", "rejected"} : status' = [status EXCEPT ![NextPromise] = s]
  /\ UNCHANGED <<dependents, task, queues, now, nextTimer, stack, exception, phase, poolVars>>

TimerTask(d) == [Blank EXCEPT !.kind = "timer", !.due = now + d, !.id = nextTimer]
SleepTask(d) == [Blank EXCEPT !.kind = "sleep", !.due = now + d]

CallSetTimeout ==
  /\ Calls("timer") /\ nextTimer <= MaxTimers
  /\ \E d \in Delays : Becomes(AppendTask(AddTask(TimerTask(d)), NextTask))
  /\ nextTimer' = nextTimer + 1
  /\ UNCHANGED <<now, stack, exception, phase, poolVars>>

CallSleepAsync ==
  /\ Calls("sleep") /\ Created # Promise
  /\ \E d \in Delays : Becomes(AppendTask(AddPending(SleepTask(d)), NextTask))
  /\ UNCHANGED <<now, nextTimer, stack, exception, phase, poolVars>>

(* The first timer with that number: the tasks of sleepAsync all have 0.   *)
CallClearTimeout ==
  /\ Calls("clear")
  /\ \E id \in 0..MaxTimers :
       LET I == {i \in DOMAIN queues.timers : task[queues.timers[i]].id = id}
       IN /\ I # {}
          /\ Becomes(Release(Take(Heap, "timers", Min(I)), queues.timers[Min(I)]))
  /\ UNCHANGED <<now, nextTimer, stack, exception, phase, poolVars>>

(* The threads there are once jayess_io_pool_start has returned: it may    *)
(* start only some of them, or none.                                       *)
PoolStarts == IF pool.started THEN {IoThreads} ELSE 0..IoThreads
PoolPush(t) == [pool EXCEPT !.started = TRUE, !.queue = Append(@, t)]

(* Without a pool the task counts as completed.                            *)
IoTask(threads) == [Blank EXCEPT !.kind = "io", !.completed = threads = 0]

(* readFileAsync and the other operations of the pool.                     *)
CallIo ==
  /\ Calls("io") /\ Created # Promise
  /\ \E n \in PoolStarts :
       /\ Becomes(AppendTask(AddPending(IoTask(n)), NextTask))
       /\ pool' = IF n = 0 THEN pool ELSE PoolPush(NextTask)
       /\ hand' = IF pool.started THEN hand
                  ELSE [w \in IoThread |-> IF w <= n THEN Idle ELSE Absent]
  /\ UNCHANGED <<now, nextTimer, stack, exception, phase>>

CallAwait ==
  /\ Calls("await")
  /\ stack # <<>> => Top.turns < MaxAwaits
  /\ \E p \in Created :
       stack' = <<Drain("await", p, NoTask)>>
                \o (IF stack = <<>> THEN stack ELSE [stack EXCEPT ![1].turns = @ + 1])
  /\ UNCHANGED <<heapVars, now, nextTimer, exception, phase, poolVars>>

Throw ==
  /\ Calls("throw")
  /\ exception' = TRUE
  /\ UNCHANGED <<heapVars, now, nextTimer, stack, phase, poolVars>>

Catch ==
  /\ InUserCode /\ exception
  /\ exception' = FALSE
  /\ UNCHANGED <<heapVars, now, nextTimer, stack, phase, poolVars>>

(* main is over, with or without an exception.                             *)
LeaveMain ==
  /\ stack = <<>> /\ phase = "main"
  /\ phase' = "draining"
  /\ stack' = <<Drain("exit", Plain, NoTask)>>
  /\ UNCHANGED <<heapVars, now, nextTimer, exception, poolVars>>

(***************************************************************************)
(* jayess_run_microtasks.                                                  *)
(***************************************************************************)
InDrain == stack # <<>> /\ Top.kind # "callback"
Turning == InDrain /\ HasTasks /\ Top.turns < GuardLimit /\ ~exception
(* Mutant: the counter starts over before it reaches the limit.            *)
TurnedOver == [stack EXCEPT ![1].turns = (@ + 1) % GuardLimit]
Turned == [stack EXCEPT ![1].turns = @ + 1]

(* A turn that runs a task of one of these kinds.                          *)
Turn(kinds) ==
  /\ Turning
  /\ Dequeue(Heap).task # NoTask
  /\ task[Dequeue(Heap).task].kind \in kinds
  /\ UNCHANGED <<now, nextTimer, exception, phase, poolVars>>

(* Nothing to run: the thread sleeps.                                      *)
TurnIdle ==
  /\ Turning
  /\ Dequeue(Heap).task = NoTask
  /\ Becomes(Dequeue(Heap).heap)
  /\ stack' = Turned
  /\ UNCHANGED <<now, nextTimer, exception, phase, poolVars>>

SettledBy(h, t, s) == Done(Settle(h, h.task[t].result, s), t)

(* Mutant: a combinator that was woken is taken for one that is ready.     *)
VerdictWhenWoken(h, t) ==
  IF "rejected" \in {StatusIn(h, i) : i \in ToSet(h.task[t].items)} THEN "rejected"
  ELSE "fulfilled"

(* The run functions of the four combinators: what to settle with, or that *)
(* it is too early.                                                        *)
AllVerdict(h, t) == FirstNot(h, t, "fulfilled", "fulfilled")
RaceVerdict(h, t) ==
  FirstNot(h, t, "pending", IF h.task[t].items = <<>> THEN "fulfilled" ELSE "pending")
AllSettledVerdict(h, t) ==
  IF \E i \in ToSet(h.task[t].items) : StatusIn(h, i) = "pending" THEN "pending"
  ELSE "fulfilled"
AnyVerdict(h, t) == FirstNot(h, t, "rejected", "rejected")

Verdict(h, t) ==
  CASE h.task[t].kind = "all" -> AllVerdict(h, t)
    [] h.task[t].kind = "race" -> RaceVerdict(h, t)
    [] h.task[t].kind = "allSettled" -> AllSettledVerdict(h, t)
    [] OTHER -> AnyVerdict(h, t)

TurnCombinator ==
  /\ Turn(Combinators)
  /\ LET d == Dequeue(Heap)
         v == Verdict(d.heap, d.task)
     IN Becomes(IF v = "pending" THEN Wait(d.heap, d.task)
                ELSE SettledBy(d.heap, d.task, v))
  /\ stack' = Turned

(* A listener of the socket or server may throw once the operation is over.*)
TurnIo ==
  /\ Turn({"io"})
  /\ \E s \in {"fulfilled", "rejected"} :
       Becomes(SettledBy(Dequeue(Heap).heap, Dequeue(Heap).task, s))
  /\ stack' = Turned

TurnSleep ==
  /\ Turn({"sleep"})
  /\ Becomes(SettledBy(Dequeue(Heap).heap, Dequeue(Heap).task, "fulfilled"))
  /\ stack' = Turned

TurnTimer ==
  /\ Turn({"timer"})
  /\ Becomes(Dequeue(Heap).heap)
  /\ stack' = <<Callback(Dequeue(Heap).task)>> \o Turned

(* The handler that a then or finally calls.                               *)
HandlerOf(h, t) ==
  IF h.task[t].kind = "then" /\ StatusIn(h, h.task[t].items[1]) = "rejected"
  THEN h.task[t].onRejected ELSE h.task[t].onFulfilled

(* The code queues the task again when its source is pending.  That never  *)
(* comes up, for a task is queued when its source is settled: here it would*)
(* be a drain that cannot go on (DrainsEnd).                               *)
TurnReaction ==
  /\ Turn({"then", "finally"})
  /\ LET d == Dequeue(Heap)
         source == StatusIn(d.heap, d.heap.task[d.task].items[1])
         on == HandlerOf(d.heap, d.task)
     IN \/ /\ source # "pending" /\ on = "fn"
           /\ Becomes(d.heap)
           /\ stack' = <<Callback(d.task)>> \o Turned
        \/ /\ source # "pending" /\ on # "fn"
           /\ Becomes(SettledBy(d.heap, d.task, IF on = "bad" THEN "rejected" ELSE source))
           /\ stack' = Turned

(***************************************************************************)
(* The end of a callback and of a drain.                                   *)
(***************************************************************************)
Returning == stack # <<>> /\ Top.kind = "callback"

SourceStatus(t) == StatusIn(Heap, task[t].items[1])

TimerReturns ==
  /\ Returning /\ task[Top.task].kind = "timer"
  /\ Becomes(Release(Heap, Top.task))
  /\ stack' = Tail(stack)
  /\ UNCHANGED <<now, nextTimer, exception, phase, poolVars>>

(* The callback of a then or finally answers with no promise, or throws.   *)
ReactionReturns ==
  /\ Returning /\ task[Top.task].kind \in {"then", "finally"}
  /\ Becomes(SettledBy(Heap, Top.task,
                       CASE exception -> "rejected"
                         [] ~exception /\ task[Top.task].kind = "then" -> "fulfilled"
                         [] OTHER -> SourceStatus(Top.task)))
  /\ exception' = FALSE
  /\ stack' = Tail(stack)
  /\ UNCHANGED <<now, nextTimer, phase, poolVars>>

(* It answers with a promise: everything queued is run first.              *)
ReactionReturnsPromise ==
  /\ Returning /\ task[Top.task].kind \in {"then", "finally"} /\ ~exception
  /\ \E q \in Created :
       stack' = <<Drain(task[Top.task].kind, q, Top.task)>> \o Tail(stack)
  /\ UNCHANGED <<heapVars, now, nextTimer, exception, phase, poolVars>>

DrainEnds(why) ==
  /\ InDrain /\ Top.kind = why
  /\ exception \/ ~HasTasks \/ Top.turns >= GuardLimit
  /\ stack' = Tail(stack)
  /\ UNCHANGED <<now, nextTimer, poolVars>>

(* "microtask queue did not settle"                                        *)
Tripped == exception \/ Top.turns >= GuardLimit

AwaitEnds ==
  /\ DrainEnds("await")
  /\ exception' = (Tripped \/ status[Top.on] # "fulfilled")
  /\ UNCHANGED <<heapVars, phase>>

ExitDrainEnds ==
  /\ DrainEnds("exit")
  /\ exception' = Tripped
  /\ phase' = "stopping"
  /\ UNCHANGED heapVars

(* A pending answer is followed by a new task for the same promise.        *)
ThenEnds ==
  /\ DrainEnds("then")
  /\ exception' = Tripped
  /\ LET t == Top.task
         next == [Reaction("then", <<Top.on>>, "none", "none") EXCEPT !.result = task[t].result]
     IN Becomes(IF status[Top.on] = "pending" THEN Done(Wait(AddTask(next), NextTask), t)
                ELSE SettledBy(Heap, t, status[Top.on]))
  /\ UNCHANGED phase

(* A pending answer wakes the same task again, callback and all.           *)
FinallyEnds ==
  /\ DrainEnds("finally")
  /\ exception' = Tripped
  /\ LET t == Top.task
     IN Becomes(CASE status[Top.on] = "pending" -> AddDependent(Heap, Top.on, t)
                  [] status[Top.on] = "rejected" -> SettledBy(Heap, t, "rejected")
                  [] OTHER -> SettledBy(Heap, t, SourceStatus(t)))
  /\ UNCHANGED phase

(***************************************************************************)
(* The threads of the pool, the end of the process, and time.              *)
(***************************************************************************)
PopTask(w) ==
  /\ hand[w] = Idle /\ pool.queue # <<>>
  /\ hand' = [hand EXCEPT ![w] = Head(pool.queue)]
  /\ pool' = [pool EXCEPT !.queue = Tail(@)]
  /\ UNCHANGED <<heapVars, now, nextTimer, stack, exception, phase>>

RunTask(w) ==
  /\ hand[w] \in Task
  /\ task' = [task EXCEPT ![hand[w]].completed = TRUE]
  /\ hand' = [hand EXCEPT ![w] = Idle]
  /\ UNCHANGED <<status, dependents, queues, now, nextTimer, stack, exception, phase, pool>>

LeavePool(w) ==
  /\ hand[w] = Idle /\ pool.queue = <<>> /\ pool.stopping
  /\ hand' = [hand EXCEPT ![w] = Absent]
  /\ UNCHANGED <<heapVars, now, nextTimer, stack, exception, phase, pool>>

StopPool ==
  /\ phase = "stopping"
  /\ phase' = IF pool.started THEN "joining" ELSE "stopped"
  /\ pool' = [pool EXCEPT !.stopping = pool.started]
  /\ UNCHANGED <<heapVars, now, nextTimer, stack, exception, hand>>

JoinPool ==
  /\ phase = "joining" /\ \A w \in IoThread : hand[w] = Absent
  /\ phase' = "stopped"
  /\ pool' = [started |-> FALSE, stopping |-> FALSE, queue |-> <<>>]
  /\ UNCHANGED <<heapVars, now, nextTimer, stack, exception, hand>>

Tick ==
  /\ now < MaxNow /\ phase # "stopped"
  /\ now' = now + 1
  /\ UNCHANGED <<heapVars, nextTimer, stack, exception, phase, poolVars>>

ProgramCalls ==
  \/ CallThen \/ CallFinally \/ CallCombinator \/ CallSettled \/ CallSetTimeout
  \/ CallSleepAsync \/ CallClearTimeout \/ CallIo \/ CallAwait \/ Throw \/ Catch \/ LeaveMain

Turns == TurnIdle \/ TurnCombinator \/ TurnIo \/ TurnSleep \/ TurnTimer \/ TurnReaction
Ends == AwaitEnds \/ ExitDrainEnds \/ ThenEnds \/ FinallyEnds
Returns == TimerReturns \/ ReactionReturns \/ ReactionReturnsPromise

SchedulerNext ==
  /\ UNCHANGED uses
  /\ \/ ProgramCalls \/ Turns \/ Ends \/ Returns
     \/ \E w \in IoThread : PopTask(w) \/ RunTask(w) \/ LeavePool(w)
     \/ StopPool \/ JoinPool \/ Tick

(* Weak fairness of Turns \/ Ends and of Returns: the program's thread     *)
(* goes on as long as it can, and a callback ends sooner or later.  One of *)
(* Turns and Ends can be taken in every state InDrain, and no other step   *)
(* from such a state changes stack; one of Returns in every state in a     *)
(* callback, where calls that change stack make it longer.  Nothing is     *)
(* assumed of the pool's threads, of time and of the end of main.          *)
SchedulerFairness ==
  /\ []<>(~InDrain) \/ []<><<InDrain>>_stack
  /\ []<>(~Returning) \/ []<><<Returning /\ Len(stack') <= Len(stack)>>_stack

(***************************************************************************)
(* Properties.                                                             *)
(***************************************************************************)
Frames == {Drain(why, p, t) : why \in {"await", "exit", "then", "finally"},
                              p \in Promise \union {Plain}, t \in Task \union {NoTask}}
          \union {Callback(t) : t \in Task}

TaskType ==
  [kind : {"free", "then", "finally", "timer", "sleep", "io"} \union Combinators,
   items : Seq(Promise \union {Plain}),
   onFulfilled : {"none", "fn", "bad"}, onRejected : {"none", "fn", "bad"},
   result : Promise \union {Plain}, due : Nat, id : 0..MaxTimers, deps : Nat,
   queued : BOOLEAN, finished : BOOLEAN, completed : BOOLEAN]

SchedulerTypeOK ==
  /\ status \in [Promise -> {"absent", "pending", "fulfilled", "rejected"}]
  /\ dependents \in [Promise -> Seq(Task)]
  /\ task \in [Task -> TaskType]
  /\ queues \in [{"callbacks", "timers", "io", "done"} -> Seq(Task)]
  /\ now \in 0..MaxNow /\ nextTimer \in 1..(MaxTimers + 1)
  /\ \A i \in DOMAIN stack : stack[i].turns \in Nat /\ [stack[i] EXCEPT !.turns = 0] \in Frames
  /\ exception \in BOOLEAN
  /\ phase \in {"main", "draining", "stopping", "joining", "stopped"}
  /\ pool \in [started : BOOLEAN, stopping : BOOLEAN, queue : Seq(Task)]
  /\ hand \in [IoThread -> Task \union {Idle, Absent}]

(* Where the sequences of f hold t.                                        *)
PlacesIn(f, t) == UNION {{x} \X {i \in DOMAIN f[x] : f[x][i] = t} : x \in DOMAIN f}

OnStack(t) == \E i \in DOMAIN stack : stack[i].task = t
InPool(t) == t \in ToSet(pool.queue) \union ToSet(hand)

(* jayess_settle, jayess_run_microtasks and clearTimeout free task records *)
(* that queues, promises, callbacks under way and the threads of the pool  *)
(* point to.  A freed task is pointed to by nobody; a task that is still   *)
(* to be run is held by somebody, once by the queues at most; and the      *)
(* counter that decides over freeing a finished task counts right.         *)
TasksOwned ==
  \A t \in Task :
    /\ task[t].deps = Cardinality(PlacesIn(dependents, t))
    /\ Cardinality(PlacesIn(queues, t)) = (IF task[t].queued THEN 1 ELSE 0)
    /\ task[t].kind = "free" => ~task[t].queued /\ ~OnStack(t) /\ ~InPool(t)
    /\ task[t].finished => task[t].deps > 0 /\ ~task[t].queued /\ ~OnStack(t)
    /\ task[t].kind # "free" /\ ~task[t].finished =>
         task[t].queued \/ task[t].deps > 0 \/ OnStack(t)
    /\ InPool(t) => ~task[t].completed /\ t \in ToSet(queues.io)

NoRule == [kind |-> "none", of |-> <<>>, handled |-> {}]

(* The rule of a pending promise is its task's.                            *)
RuleOf(p) ==
  LET T == {t \in Task : task[t].kind # "free" /\ ~task[t].finished /\ task[t].result = p}
      handled(t) ==
        CASE task[t].kind = "then" ->
               {s \in {"fulfilled", "rejected"} :
                  "none" # IF s = "fulfilled" THEN task[t].onFulfilled ELSE task[t].onRejected}
          [] task[t].kind = "finally" /\ task[t].onFulfilled # "none" -> {"fulfilled", "rejected"}
          [] OTHER -> {}
  IN IF status[p] # "pending" THEN NoRule
     ELSE IF T = {} THEN [NoRule EXCEPT !.kind = "lost"]
     ELSE LET t == Min(T)
          IN [kind |-> task[t].kind, of |-> task[t].items, handled |-> handled(t)]

Contract == INSTANCE Promises WITH rule <- [p \in Promise |-> RuleOf(p)]

(* Through tasks that wait, are woken, run again, follow other promises or *)
(* are freed, each promise is settled once, as its inputs allow, and only  *)
(* clearTimeout(0) can leave one without the task that would settle it.    *)
ImplementsPromises == Contract!Spec

(* Every drain comes to an end, the callbacks it runs included, and so     *)
(* control is back in main, whatever callbacks queue, answer and throw,    *)
(* and also when an operation of the pool never completes; unless          *)
(* callbacks nest drains for ever.  An await in a callback, or a callback  *)
(* that answers with a promise, opens a drain inside the one under way,    *)
(* with a guard of its own, and a guard counts the turns of its own drain  *)
(* only.                                                                   *)
Nests == Returning /\ InDrain' /\ Len(stack') >= Len(stack)
DrainsEnd == []<>(stack = <<>>) \/ []<><<Nests>>_stack

SchedulerSpec == SchedulerInit /\ [][SchedulerNext]_schedulerVars /\ SchedulerFairness

====
