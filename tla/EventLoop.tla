---- MODULE EventLoop ----
(***************************************************************************)
(* runtime/event_loop_internal.go: the event loop behind queueMicrotask,   *)
(* setTimeout, setInterval, clearTimeout and clearInterval.                *)
(*                                                                         *)
(* The loop is single-threaded.  Its callbacks are user code: while one    *)
(* runs, and while the owner of the loop has control, any of the loop's    *)
(* operations may be called, in any order.  A call into the loop           *)
(* (Advance, RunReady, RunMicrotasks) is made by the owner, not by a       *)
(* callback; it runs step by step, and pc says which statement is next.    *)
(***************************************************************************)
EXTENDS Integers, Sequences, FiniteSets

CONSTANTS
  MaxTimers,       (* timers created over a behaviour                       *)
  MaxMicrotasks,   (* microtasks queued over a behaviour                    *)
  MaxNow,          (* the last value of the virtual clock                   *)
  TimeoutDelays,   (* delays passed to SetTimeout, negative ones included   *)
  IntervalDelays   (* delays passed to SetInterval                          *)

ASSUME LoopAssumption ==
  /\ MaxTimers \in Nat
  /\ MaxMicrotasks \in Nat
  /\ MaxNow \in Nat
  /\ TimeoutDelays \subseteq Int
  /\ IntervalDelays \subseteq Int

VARIABLES
  (* --- EventLoop's fields --- *)
  now,        (* loop.now                                                   *)
  nextID,     (* loop.nextID: the last handle given out                     *)
  microtasks, (* loop.microtasks, each task named by its place in the order
                 of the calls of QueueMicrotask                             *)
  timers,     (* the keys of the map loop.timers                            *)
  (* --- the scheduledTimer objects, by handle ID --- *)
  due, delay, repeat,
  canceled,   (* the timers whose handle.Canceled is set                    *)
  (* --- RunReady's and RunMicrotasks' local state --- *)
  pc,
  ready,      (* the rest of the slice readyTimers returned; the slice is
                 sorted, so the set and the order Before determine it       *)
  current,    (* the timer of the loop body's turn, NoTimer outside it      *)
  return,     (* the statement after the running call of RunMicrotasks      *)
  (* --- history; only the bound on queued is read by an action --- *)
  queued, ran,  (* microtasks queued and started so far                     *)
  fired,        (* timers whose task has been started at least once         *)
  lastDue,      (* the due time of the timer started last                   *)
  cleared,      (* timers for which ClearTimer answered true                *)
  clearCalled   (* timers for which ClearTimer was called                   *)

loopVars == <<now, nextID, microtasks, timers>>
timerVars == <<due, delay, repeat, canceled>>
runVars == <<pc, ready, current, return>>
history == <<queued, ran, fired, lastDue, cleared, clearCalled>>
vars == <<loopVars, timerVars, runVars, history>>

TimerIDs == 1..MaxTimers
NoTimer == 0

(* "owner", "task" and "microtask": user code has control.                 *)
PCs == {"owner", "task", "microtask", "drain", "rearm", "scan", "batch"}
UserHasControl == pc \in {"owner", "task", "microtask"}

Init ==
  /\ now = 0
  /\ nextID = 0
  /\ microtasks = <<>>
  /\ timers = {}
  /\ due = [id \in TimerIDs |-> 0]
  /\ delay = [id \in TimerIDs |-> 0]
  /\ repeat = [id \in TimerIDs |-> FALSE]
  /\ canceled = {}
  /\ pc = "owner"
  /\ ready = {}
  /\ current = NoTimer
  /\ return = "owner"
  /\ queued = 0
  /\ ran = 0
  /\ fired = {}
  /\ lastDue = 0
  /\ cleared = {}
  /\ clearCalled = {}

----------------------------------------------------------------------------
(* Operations user code calls.                                             *)

QueueMicrotask ==
  /\ UserHasControl
  /\ queued < MaxMicrotasks
  /\ microtasks' = Append(microtasks, queued + 1)
  /\ queued' = queued + 1
  /\ UNCHANGED <<now, nextID, timers, timerVars, runVars,
                 ran, fired, lastDue, cleared, clearCalled>>

(* Mutant: negative delays are kept.                                       *)
NegativeKept(d) == d

NonNegative(d) == IF d < 0 THEN 0 ELSE d

ScheduleTimer(d, r) ==
  /\ nextID < MaxTimers
  /\ nextID' = nextID + 1
  /\ due' = [due EXCEPT ![nextID'] = now + NonNegative(d)]
  /\ delay' = [delay EXCEPT ![nextID'] = NonNegative(d)]
  /\ repeat' = [repeat EXCEPT ![nextID'] = r]
  /\ timers' = timers \cup {nextID'}
  /\ UNCHANGED <<now, microtasks, canceled, runVars, history>>

SetTimeout(d) == UserHasControl /\ ScheduleTimer(d, FALSE)
SetInterval(d) == UserHasControl /\ ScheduleTimer(d, TRUE)

(* Mutant: the timer is marked and stays in the map.                       *)
ClearTimerMarksOnly(id) ==
  /\ UserHasControl
  /\ id <= nextID
  /\ canceled' = IF id \in timers THEN canceled \cup {id} ELSE canceled
  /\ cleared' = IF id \in timers THEN cleared \cup {id} ELSE cleared
  /\ clearCalled' = clearCalled \cup {id}
  /\ UNCHANGED <<loopVars, due, delay, repeat, runVars,
                 queued, ran, fired, lastDue>>

ClearTimer(id) ==
  /\ UserHasControl
  /\ id <= nextID
  /\ IF id \in timers
     THEN /\ canceled' = canceled \cup {id}
          /\ timers' = timers \ {id}
          /\ cleared' = cleared \cup {id}
     ELSE UNCHANGED <<canceled, timers, cleared>>
  /\ clearCalled' = clearCalled \cup {id}
  /\ UNCHANGED <<now, nextID, microtasks, due, delay, repeat, runVars,
                 queued, ran, fired, lastDue>>

----------------------------------------------------------------------------
(* The owner drives the loop.                                              *)

(* Advance(delta), and RunReady as Advance(0): a delta that is not         *)
(* positive leaves the clock alone.                                        *)
Advance(delta) ==
  /\ pc = "owner"
  /\ now + delta <= MaxNow
  /\ now' = now + delta
  /\ pc' = "drain"
  /\ return' = "scan"
  /\ UNCHANGED <<nextID, microtasks, timers, timerVars, ready, current, history>>

RunMicrotasks ==
  /\ pc = "owner"
  /\ pc' = "drain"
  /\ return' = "owner"
  /\ UNCHANGED <<loopVars, timerVars, ready, current, history>>

(* Mutant: the newest task is taken.                                       *)
StartNewestMicrotask ==
  /\ pc = "drain"
  /\ microtasks # <<>>
  /\ microtasks' = SubSeq(microtasks, 1, Len(microtasks) - 1)
  /\ ran' = microtasks[Len(microtasks)]
  /\ pc' = "microtask"
  /\ UNCHANGED <<now, nextID, timers, timerVars, ready, current, return,
                 queued, fired, lastDue, cleared, clearCalled>>

(* One turn of RunMicrotasks' loop: take the oldest task out, then run it. *)
StartMicrotask ==
  /\ pc = "drain"
  /\ microtasks # <<>>
  /\ microtasks' = Tail(microtasks)
  /\ ran' = Head(microtasks)
  /\ pc' = "microtask"
  /\ UNCHANGED <<now, nextID, timers, timerVars, ready, current, return,
                 queued, fired, lastDue, cleared, clearCalled>>

EndMicrotask ==
  /\ pc = "microtask"
  /\ pc' = "drain"
  /\ UNCHANGED <<loopVars, timerVars, ready, current, return, history>>

Drained ==
  /\ pc = "drain"
  /\ microtasks = <<>>
  /\ pc' = return
  /\ UNCHANGED <<loopVars, timerVars, ready, current, return, history>>

(* Mutant: a timer due exactly now is left for later.                      *)
IsOverdue(id) == due[id] < now

IsDue(id) == due[id] <= now

(* readyTimers: every due timer leaves the map at once.                    *)
ReadyTimers ==
  /\ pc = "scan"
  /\ ready' = {id \in timers : IsDue(id)}
  /\ timers' = timers \ ready'
  /\ pc' = IF ready' = {} THEN "owner" ELSE "batch"
  /\ UNCHANGED <<now, nextID, microtasks, timerVars, current, return, history>>

(* The order readyTimers sorts by.                                         *)
Before(a, b) == due[a] < due[b] \/ (due[a] = due[b] /\ a < b)

(* Mutant: the batch is taken in the order of the map's iteration.         *)
StartTimerUnsorted(id) ==
  /\ pc = "batch"
  /\ id \in ready
  /\ ready' = ready \ {id}
  /\ current' = id
  /\ pc' = "task"
  /\ fired' = fired \cup {id}
  /\ lastDue' = due[id]
  /\ UNCHANGED <<loopVars, timerVars, return, queued, ran, cleared, clearCalled>>

StartTimer(id) ==
  /\ pc = "batch"
  /\ id \in ready
  /\ \A other \in ready \ {id} : Before(id, other)
  /\ ready' = ready \ {id}
  /\ current' = id
  /\ pc' = "task"
  /\ fired' = fired \cup {id}
  /\ lastDue' = due[id]
  /\ UNCHANGED <<loopVars, timerVars, return, queued, ran, cleared, clearCalled>>

(* Mutant: the microtasks of the task wait for the end of the batch.       *)
EndTimerUndrained ==
  /\ pc = "task"
  /\ pc' = "rearm"
  /\ return' = "rearm"
  /\ UNCHANGED <<loopVars, timerVars, ready, current, history>>

EndTimer ==
  /\ pc = "task"
  /\ pc' = "drain"
  /\ return' = "rearm"
  /\ UNCHANGED <<loopVars, timerVars, ready, current, history>>

(* Where an interval that has run is armed again.                          *)
(* Mutants: one delay after it was due; as soon as it has run.             *)
NextDueFromDue(id) == due[id] + delay[id]
NextDueAtOnce(id) == now
NextDue(id) == now + delay[id]

(* Mutant: timeouts are put back too.                                      *)
IsRearmedAlways(id) == id \notin canceled
IsRearmed(id) == repeat[id] /\ id \notin canceled

(* After the microtasks of a timer's task: an interval whose handle is not *)
(* marked goes back into the map, one delay from now.                      *)
Rearm ==
  /\ pc = "rearm"
  /\ IF IsRearmed(current)
     THEN /\ due' = [due EXCEPT ![current] = NextDue(current)]
          /\ timers' = timers \cup {current}
     ELSE UNCHANGED <<due, timers>>
  /\ current' = NoTimer
  /\ pc' = IF ready = {} THEN "scan" ELSE "batch"
  /\ UNCHANGED <<now, nextID, microtasks, delay, repeat, canceled,
                 ready, return, history>>

----------------------------------------------------------------------------
UserStep ==
  \/ QueueMicrotask
  \/ \E d \in TimeoutDelays : SetTimeout(d)
  \/ \E d \in IntervalDelays : SetInterval(d)
  \/ \E id \in TimerIDs : ClearTimer(id)

OwnerStep == RunMicrotasks \/ \E delta \in 0..MaxNow : Advance(delta)

TaskReturns == EndMicrotask \/ EndTimer

LoopStep ==
  \/ StartMicrotask
  \/ Drained
  \/ ReadyTimers
  \/ \E id \in TimerIDs : StartTimer(id)
  \/ Rearm

Next == UserStep \/ OwnerStep \/ TaskReturns \/ LoopStep

Spec == Init /\ [][Next]_vars

(* The loop's own statements are executed once it is called, and the       *)
(* callbacks return.  Nobody is obliged to drive the loop.                 *)
FairSpec == Spec /\ WF_vars(LoopStep) /\ WF_vars(TaskReturns)

----------------------------------------------------------------------------
(* Properties.                                                             *)

TypeOK ==
  /\ now \in 0..MaxNow
  /\ nextID \in 0..MaxTimers
  /\ microtasks \in Seq(1..MaxMicrotasks)
  /\ timers \subseteq TimerIDs
  /\ due \in [TimerIDs -> Nat]
  /\ delay \in [TimerIDs -> Nat]
  /\ repeat \in [TimerIDs -> BOOLEAN]
  /\ canceled \subseteq TimerIDs
  /\ pc \in PCs
  /\ ready \subseteq TimerIDs
  /\ current \in TimerIDs \cup {NoTimer}
  /\ return \in {"owner", "scan", "rearm"}
  /\ queued \in 0..MaxMicrotasks
  /\ ran \in 0..MaxMicrotasks
  /\ fired \subseteq TimerIDs
  /\ lastDue \in Nat
  /\ cleared \subseteq TimerIDs
  /\ clearCalled \subseteq TimerIDs

(* The microtask queue holds exactly the tasks queued and not yet started, *)
(* oldest first: queueing from inside a running microtask, which shifts    *)
(* the same slice, loses none, repeats none and reorders none.             *)
MicrotasksInOrder ==
  /\ ran + Len(microtasks) = queued
  /\ \A i \in 1..Len(microtasks) : microtasks[i] = ran + i

(* "Microtasks run before due timers.  Microtasks queued by a timer run    *)
(* before the next due timer is processed": no microtask waits when the    *)
(* loop looks for due timers, starts one or re-arms one.                   *)
MicrotasksFirst == pc \in {"rearm", "scan", "batch"} => microtasks = <<>>

(* ClearTimer's TRUE is a promise: a timer it answered TRUE for is not     *)
(* armed, not in the batch being run and not running, ever again; the      *)
(* re-arming of an interval cannot bring it back.                          *)
ClearedNeverFires == cleared \cap (timers \cup ready \cup {current}) = {}

(* Every timer is in exactly one place: armed, in the batch, running,      *)
(* cleared, or a timeout that has fired.  None is lost between the map and *)
(* the batch, no interval dies unless it is cleared, and no timeout fires  *)
(* twice.                                                                  *)
Finished == {id \in fired : ~repeat[id] /\ id # current}

EveryTimerAccountedFor ==
  /\ 1..nextID = timers \cup ready \cup ({current} \ {NoTimer}) \cup cleared \cup Finished
  /\ timers \cap ready = {}
  /\ current \notin timers \cup ready
  /\ Finished \cap (timers \cup ready \cup cleared) = {}

(* Over the whole life of the loop timers start in the order of their due  *)
(* times: across batches, across calls of Advance, and whatever callbacks  *)
(* schedule in between.                                                    *)
DueOrder ==
  [][current' # current /\ current' # NoTimer => lastDue <= due[current']]_vars

(* When RunReady hands control back, no timer is due and no microtask      *)
(* waits.                                                                  *)
QuiescentOnReturn ==
  [][pc = "scan" /\ pc' = "owner" =>
       microtasks' = <<>> /\ \A id \in timers' : now' < due'[id]]_vars

(* RunReady and RunMicrotasks return, but for two things.  An interval of  *)
(* delay zero that stays armed is due again as soon as it has run, so the  *)
(* loop never finds an empty batch.  And callbacks may go on for ever      *)
(* queueing microtasks, or scheduling timers that are due at once: nothing *)
(* in the loop bounds such a chain.                                        *)
ZeroInterval == \E id \in 1..nextID \ cleared : repeat[id] /\ delay[id] = 0
Spawns ==
  /\ pc \in {"microtask", "task"}
  /\ queued' # queued \/ (nextID' # nextID /\ delay'[nextID'] = 0)
RunReadyReturns == []<>(pc = "owner" \/ ZeroInterval) \/ []<><<Spawns>>_vars

(* The loop implements the timer service: the batch is part of what is     *)
(* pending, and a timer runs until the microtasks after its task are done. *)
Service == INSTANCE TimerService WITH
  Delays <- TimeoutDelays \cup IntervalDelays,
  issued <- nextID,
  pending <- timers \cup ready,
  running <- current
ImplementsTimerService == Service!Spec

(* docs/async_runtime.md:30, "clearTimeout(handle) and                     *)
(* clearInterval(handle) cancel scheduled handles": no task starts after   *)
(* its timer was cleared.                                                  *)
ClearCancels ==
  [][current' # current /\ current' # NoTimer => current' \notin clearCalled]_vars
====
