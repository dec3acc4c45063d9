---- MODULE EventLoopProofs ----
(***************************************************************************)
(* The event loop's safety for every number of timers and microtasks and   *)
(* every set of delays: type correctness, the order of the microtask       *)
(* queue, the fate of a cleared timer, the order of firings, and the       *)
(* refinement of the timer service.                                        *)
(***************************************************************************)
EXTENDS EventLoop, SequenceTheorems, TLAPS

(* The control points and what RunReady's locals hold at each of them: the *)
(* current timer lives from the start of its task to its re-arming, and    *)
(* only inside a batch is the batch not empty.                             *)
ControlInv ==
  /\ pc \in {"task", "rearm"} => current # NoTimer
  /\ pc \in {"owner", "scan", "batch"} => current = NoTimer
  /\ pc \in {"drain", "microtask"} => (return = "rearm" <=> current # NoTimer)
  /\ current = NoTimer /\ pc # "batch" => ready = {}

(* ClearTimer only ever marks a timer it takes out of the map, so a timer  *)
(* that has left the map for a batch is never marked: the test of Canceled *)
(* before an interval is re-armed is always true.                          *)
HandleInv ==
  /\ canceled = cleared
  /\ fired \subseteq 1..nextID
  /\ current # NoTimer => current \in fired

(* While a batch is run nothing in the map is due before now, so whatever  *)
(* callbacks schedule comes after what is left of the batch.               *)
DueInv ==
  /\ lastDue <= now
  /\ \A id \in timers \cup ready : lastDue <= due[id]
  /\ \A id \in ready : due[id] <= now
  /\ current # NoTimer \/ pc = "batch" => \A id \in timers : now <= due[id]

(* The inductive invariant.                                                *)
Inv ==
  /\ TypeOK
  /\ ControlInv
  /\ MicrotasksInOrder
  /\ MicrotasksFirst
  /\ HandleInv
  /\ ClearedNeverFires
  /\ EveryTimerAccountedFor
  /\ DueInv

USE LoopAssumption DEF LoopAssumption, TimerIDs, NoTimer, PCs

(* A normalised delay is a natural number.                                 *)
LEMMA NonNegativeNat == ASSUME NEW d \in Int PROVE NonNegative(d) \in Nat
BY DEF NonNegative

(* The two ways of scheduling a timer are one action to every invariant.   *)
LEMMA SchedulesATimer ==
  ASSUME \/ \E d \in TimeoutDelays : SetTimeout(d)
         \/ \E d \in IntervalDelays : SetInterval(d)
  PROVE  \E d \in Int, r \in BOOLEAN : UserHasControl /\ ScheduleTimer(d, r)
BY DEF SetTimeout, SetInterval

(* TypeOK: every field of the loop keeps its type, whatever user code      *)
(* calls and in whatever order.                                            *)
LEMMA TypeInductive == TypeOK /\ ControlInv /\ [Next]_vars => TypeOK'
<1> SUFFICES ASSUME TypeOK, ControlInv, [Next]_vars PROVE TypeOK'
  OBVIOUS
<1> USE DEF TypeOK
<1>1. CASE QueueMicrotask
  <2>1. queued + 1 \in 1..MaxMicrotasks /\ queued + 1 \in 0..MaxMicrotasks
    BY <1>1 DEF QueueMicrotask
  <2>2. microtasks' \in Seq(1..MaxMicrotasks)
    BY <1>1, <2>1 DEF QueueMicrotask
  <2>3. /\ queued' = queued + 1
        /\ UNCHANGED <<now, nextID, timers, due, delay, repeat, canceled, pc, ready,
                       current, return, ran, fired, lastDue, cleared, clearCalled>>
    BY <1>1 DEF QueueMicrotask, timerVars, runVars
  <2>4. QED
    BY Zenon, <2>1, <2>2, <2>3
<1>2. ASSUME NEW d \in Int, NEW r \in BOOLEAN, ScheduleTimer(d, r) PROVE TypeOK'
  <2>1. nextID' = nextID + 1 /\ nextID + 1 \in TimerIDs
    BY <1>2 DEF ScheduleTimer
  <2>2. NonNegative(d) \in Nat
    BY NonNegativeNat
  <2>3. now + NonNegative(d) \in Nat
    BY <2>2
  <2>4. /\ due' \in [TimerIDs -> Nat]
        /\ delay' \in [TimerIDs -> Nat]
        /\ repeat' \in [TimerIDs -> BOOLEAN]
        /\ timers' \subseteq TimerIDs
    <3>1. /\ due' = [due EXCEPT ![nextID + 1] = now + NonNegative(d)]
          /\ delay' = [delay EXCEPT ![nextID + 1] = NonNegative(d)]
          /\ repeat' = [repeat EXCEPT ![nextID + 1] = r]
          /\ timers' = timers \cup {nextID + 1}
      BY <1>2, <2>1 DEF ScheduleTimer
    <3>2. QED
      BY <3>1, <2>1, <2>2, <2>3
  <2>5. UNCHANGED <<now, microtasks, canceled, pc, ready, current, return, queued, ran,
                    fired, lastDue, cleared, clearCalled>>
    BY <1>2 DEF ScheduleTimer, runVars, history
  <2>6. nextID' \in 0..MaxTimers
    BY <2>1
  <2>7. QED
    BY Zenon, <2>4, <2>5, <2>6
<1>3. ASSUME NEW id \in TimerIDs, ClearTimer(id) PROVE TypeOK'
  BY <1>3 DEF ClearTimer, runVars
<1>4. CASE RunMicrotasks
  BY <1>4 DEF RunMicrotasks, loopVars, timerVars, history
<1>5. ASSUME NEW delta \in 0..MaxNow, Advance(delta) PROVE TypeOK'
  BY <1>5 DEF Advance, timerVars, history
<1>6. CASE EndMicrotask
  BY <1>6 DEF EndMicrotask, loopVars, timerVars, history
<1>7. CASE EndTimer
  BY <1>7 DEF EndTimer, loopVars, timerVars, history
<1>8. CASE StartMicrotask
  <2>1. /\ ran' \in 1..MaxMicrotasks /\ ran' \in 0..MaxMicrotasks
        /\ microtasks' \in Seq(1..MaxMicrotasks)
    BY <1>8, HeadTailProperties DEF StartMicrotask
  <2>2. /\ pc' = "microtask"
        /\ UNCHANGED <<now, nextID, timers, due, delay, repeat, canceled, ready, current,
                       return, queued, fired, lastDue, cleared, clearCalled>>
    BY <1>8 DEF StartMicrotask, timerVars
  <2>3. pc' \in PCs
    BY <2>2
  <2>4. QED
    BY Zenon, <2>1, <2>2, <2>3
<1>9. CASE Drained
  BY <1>9 DEF Drained, loopVars, timerVars, history
<1>10. CASE ReadyTimers
  BY <1>10 DEF ReadyTimers, timerVars, history
<1>11. ASSUME NEW id \in TimerIDs, StartTimer(id) PROVE TypeOK'
  BY <1>11 DEF StartTimer, loopVars, timerVars
<1>12. CASE Rearm
  <2>1. due' \in [TimerIDs -> Nat] /\ timers' \subseteq TimerIDs
    <3>1. current \in TimerIDs
      BY <1>12 DEF Rearm, ControlInv
    <3>2. now + delay[current] \in Nat
      BY <3>1
    <3>3. \/ /\ due' = [due EXCEPT ![current] = now + delay[current]]
             /\ timers' = timers \cup {current}
          \/ UNCHANGED <<due, timers>>
      BY <1>12 DEF Rearm, NextDue
    <3>4. QED
      BY <3>1, <3>2, <3>3
  <2>2. QED
    BY <1>12, <2>1 DEF Rearm, history
<1>13. CASE UNCHANGED vars
  BY <1>13 DEF vars, loopVars, timerVars, runVars, history
<1>14. QED
  BY <1>1, <1>2, <1>3, <1>4, <1>5, <1>6, <1>7, <1>8, <1>9, <1>10, <1>11, <1>12, <1>13,
     SchedulesATimer DEF Next, UserStep, OwnerStep, TaskReturns, LoopStep

(* ControlInv: each statement leaves RunReady's locals as the next one     *)
(* expects them, and no operation of user code touches them.               *)
LEMMA ControlInductive == TypeOK /\ ControlInv /\ [Next]_vars => ControlInv'
<1> SUFFICES ASSUME TypeOK, ControlInv, [Next]_vars PROVE ControlInv'
  OBVIOUS
<1> USE DEF ControlInv
<1>1. CASE UserStep
  <2>1. UNCHANGED runVars
    BY <1>1 DEF UserStep, QueueMicrotask, SetTimeout, SetInterval, ScheduleTimer, ClearTimer
  <2>2. QED
    BY <2>1 DEF runVars
<1>2. CASE OwnerStep
  BY <1>2 DEF OwnerStep, RunMicrotasks, Advance
<1>3. CASE TaskReturns
  BY <1>3 DEF TaskReturns, EndMicrotask, EndTimer
<1>4. CASE StartMicrotask
  BY <1>4 DEF StartMicrotask
<1>5. CASE Drained
  BY <1>5 DEF Drained, TypeOK
<1>6. CASE ReadyTimers
  BY <1>6 DEF ReadyTimers
<1>7. ASSUME NEW id \in TimerIDs, StartTimer(id) PROVE ControlInv'
  BY <1>7 DEF StartTimer
<1>8. CASE Rearm
  BY <1>8 DEF Rearm
<1>9. CASE UNCHANGED vars
  BY <1>9 DEF vars, runVars
<1>10. QED
  BY <1>1, <1>2, <1>3, <1>4, <1>5, <1>6, <1>7, <1>8, <1>9 DEF Next, LoopStep

(* Type correctness of the event loop.                                     *)
THEOREM TypeCorrect == Spec => []TypeOK
<1>1. Init => TypeOK /\ ControlInv
  BY DEF Init, TypeOK, ControlInv
<1>2. QED
  BY <1>1, TypeInductive, ControlInductive, PTL DEF Spec

----------------------------------------------------------------------------
(* The microtask queue.                                                    *)

(* Every step but QueueMicrotask and StartMicrotask leaves the queue and   *)
(* its history alone.                                                      *)
LEMMA MicrotaskFrame ==
  ASSUME [Next]_vars, ~QueueMicrotask, ~StartMicrotask
  PROVE  UNCHANGED <<microtasks, queued, ran>>
<1>1. CASE UserStep
  BY <1>1 DEF UserStep, SetTimeout, SetInterval, ScheduleTimer, ClearTimer, history
<1>2. CASE OwnerStep \/ TaskReturns
  BY <1>2 DEF OwnerStep, RunMicrotasks, Advance, TaskReturns, EndMicrotask, EndTimer,
              loopVars, history
<1>3. CASE LoopStep
  BY <1>3 DEF LoopStep, Drained, ReadyTimers, StartTimer, Rearm, loopVars, history
<1>4. CASE UNCHANGED vars
  BY <1>4 DEF vars, loopVars, history
<1>5. QED
  BY <1>1, <1>2, <1>3, <1>4 DEF Next

(* Appending at one end and taking at the other keeps the queue equal to   *)
(* the tasks queued and not started, in order.                             *)
LEMMA OrderInductive == TypeOK /\ MicrotasksInOrder /\ [Next]_vars => MicrotasksInOrder'
<1> SUFFICES ASSUME TypeOK, MicrotasksInOrder, [Next]_vars PROVE MicrotasksInOrder'
  OBVIOUS
<1>0. microtasks \in Seq(1..MaxMicrotasks) /\ ran \in Nat /\ queued \in Nat
  BY DEF TypeOK
<1>1. CASE QueueMicrotask
  <2>1. /\ microtasks' = Append(microtasks, queued + 1)
        /\ queued' = queued + 1
        /\ ran' = ran
    BY <1>1 DEF QueueMicrotask
  <2>2. Len(microtasks') = Len(microtasks) + 1
    BY <1>0, <2>1
  <2>3. ASSUME NEW i \in 1..Len(microtasks') PROVE microtasks'[i] = ran + i
    <3>1. CASE i \in 1..Len(microtasks)
      <4>1. microtasks'[i] = microtasks[i]
        BY <1>0, <2>1, <3>1
      <4>2. QED
        BY <4>1, <2>1, <3>1 DEF MicrotasksInOrder
    <3>2. CASE i = Len(microtasks) + 1
      <4>1. microtasks'[i] = queued + 1
        BY <1>0, <2>1, <3>2
      <4>2. ran + Len(microtasks) = queued
        BY DEF MicrotasksInOrder
      <4>3. ran \in Nat /\ Len(microtasks) \in Nat
        BY <1>0
      <4> HIDE DEF TypeOK, MicrotasksInOrder
      <4>4. queued + 1 = ran + i
        BY <4>2, <4>3, <3>2
      <4>5. QED
        BY <4>1, <4>4
    <3>3. QED
      BY <1>0, <2>2, <3>1, <3>2
  <2>4. ran' + Len(microtasks') = queued'
    BY <1>0, <2>1, <2>2 DEF MicrotasksInOrder
  <2>5. QED
    BY <2>1, <2>3, <2>4 DEF MicrotasksInOrder
<1>2. CASE StartMicrotask
  <2>1. /\ microtasks # <<>>
        /\ microtasks' = Tail(microtasks)
        /\ ran' = Head(microtasks)
        /\ queued' = queued
    BY <1>2 DEF StartMicrotask
  <2>2. /\ Len(microtasks) \in Nat \ {0}
        /\ Len(microtasks') = Len(microtasks) - 1
        /\ \A i \in 1..Len(microtasks') : microtasks'[i] = microtasks[i + 1]
    BY <1>0, <2>1, HeadTailProperties
  <2>3. ran' = ran + 1
    BY <1>0, <2>1, <2>2 DEF MicrotasksInOrder
  <2>4. ran' + Len(microtasks') = queued'
    BY <1>0, <2>1, <2>2, <2>3 DEF MicrotasksInOrder
  <2>5. ASSUME NEW i \in 1..Len(microtasks') PROVE microtasks'[i] = ran' + i
    <3>1. i + 1 \in 1..Len(microtasks) /\ microtasks'[i] = microtasks[i + 1]
      BY <2>2
    <3>2. microtasks[i + 1] = ran + (i + 1)
      BY <3>1 DEF MicrotasksInOrder
    <3>3. QED
      BY <1>0, <2>3, <3>1, <3>2
  <2>6. QED
    BY <2>4, <2>5 DEF MicrotasksInOrder
<1>3. CASE ~QueueMicrotask /\ ~StartMicrotask
  BY <1>3, MicrotaskFrame DEF MicrotasksInOrder
<1>4. QED
  BY <1>1, <1>2, <1>3

(* The loop looks for due timers, starts one or re-arms one only after it  *)
(* has found the queue empty, and none of these steps queues anything.     *)
LEMMA FirstInductive == MicrotasksFirst /\ [Next]_vars => MicrotasksFirst'
<1> SUFFICES ASSUME MicrotasksFirst, [Next]_vars PROVE MicrotasksFirst'
  OBVIOUS
<1> USE DEF MicrotasksFirst
<1>1. CASE UserStep
  BY <1>1 DEF UserStep, QueueMicrotask, SetTimeout, SetInterval, ScheduleTimer, ClearTimer,
              UserHasControl, runVars
<1>2. CASE OwnerStep \/ TaskReturns
  <2>1. CASE OwnerStep
    BY <2>1 DEF OwnerStep, RunMicrotasks, Advance
  <2>2. CASE EndMicrotask \/ EndTimer
    BY <2>2 DEF EndMicrotask, EndTimer
  <2>3. QED
    BY <1>2, <2>1, <2>2 DEF TaskReturns
<1>3. CASE StartMicrotask
  BY <1>3 DEF StartMicrotask
<1>4. CASE Drained
  BY <1>4 DEF Drained, loopVars
<1>5. CASE ReadyTimers
  BY <1>5 DEF ReadyTimers
<1>6. ASSUME NEW id \in TimerIDs, StartTimer(id) PROVE MicrotasksFirst'
  BY <1>6 DEF StartTimer
<1>7. CASE Rearm
  BY <1>7 DEF Rearm
<1>8. CASE UNCHANGED vars
  BY <1>8 DEF vars, loopVars, runVars
<1>9. QED
  BY <1>1, <1>2, <1>3, <1>4, <1>5, <1>6, <1>7, <1>8 DEF Next, LoopStep

----------------------------------------------------------------------------
(* Where the timers are.                                                   *)

TimerFate == HandleInv /\ ClearedNeverFires /\ EveryTimerAccountedFor

(* Scheduling adds one fresh handle to the map; clearing moves one from    *)
(* the map to the cleared ones.                                            *)
LEMMA FateOfUserStep == TypeOK /\ TimerFate /\ UserStep => TimerFate'
<1> SUFFICES ASSUME TypeOK, TimerFate, UserStep PROVE TimerFate'
  OBVIOUS
<1> USE DEF TimerFate, HandleInv, ClearedNeverFires, EveryTimerAccountedFor, Finished
<1>1. CASE QueueMicrotask
  BY <1>1 DEF QueueMicrotask, timerVars, runVars
<1>2. ASSUME NEW d \in Int, NEW r \in BOOLEAN, ScheduleTimer(d, r) PROVE TimerFate'
  <2>1. /\ nextID' = nextID + 1
        /\ nextID + 1 \in TimerIDs
        /\ repeat' = [repeat EXCEPT ![nextID + 1] = r]
        /\ timers' = timers \cup {nextID + 1}
        /\ UNCHANGED <<canceled, ready, current, fired, cleared>>
    BY <1>2 DEF ScheduleTimer, runVars, history, TypeOK
  <2>2. /\ nextID + 1 \notin 1..nextID
        /\ 1..nextID' = (1..nextID) \cup {nextID + 1}
        /\ nextID + 1 # NoTimer
    BY <2>1 DEF TypeOK
  <2>3. Finished' = Finished
    BY <2>1, <2>2 DEF TypeOK
  <2>4. nextID + 1 \notin timers \cup ready \cup {current} \cup cleared \cup Finished
    BY <2>2
  <2>5. HandleInv'
    BY <2>1, <2>2
  <2>6. ClearedNeverFires'
    BY <2>1, <2>4
  <2>7. EveryTimerAccountedFor'
    BY <2>1, <2>2, <2>3, <2>4
  <2>8. QED
    BY <2>5, <2>6, <2>7
<1>3. ASSUME NEW id \in TimerIDs, ClearTimer(id) PROVE TimerFate'
  <2>1. UNCHANGED <<nextID, repeat, ready, current, fired>>
    BY <1>3 DEF ClearTimer, runVars
  <2>2. CASE /\ id \in timers
             /\ canceled' = canceled \cup {id}
             /\ timers' = timers \ {id}
             /\ cleared' = cleared \cup {id}
    BY <2>1, <2>2
  <2>3. CASE UNCHANGED <<canceled, timers, cleared>>
    BY <2>1, <2>3
  <2>4. QED
    BY <1>3, <2>2, <2>3 DEF ClearTimer
<1>4. QED
  BY <1>1, <1>2, <1>3, SchedulesATimer DEF UserStep

(* A batch takes its timers out of the map; a timer leaves the batch when  *)
(* it starts; an interval returns to the map and a timeout is finished     *)
(* when the microtasks after its task have run.                            *)
LEMMA FateInductive == TypeOK /\ ControlInv /\ TimerFate /\ [Next]_vars => TimerFate'
<1> SUFFICES ASSUME TypeOK, ControlInv, TimerFate, [Next]_vars PROVE TimerFate'
  OBVIOUS
<1>1. CASE UserStep
  BY <1>1, FateOfUserStep
<1> USE DEF TimerFate, HandleInv, ClearedNeverFires, EveryTimerAccountedFor, Finished
<1>2. CASE OwnerStep
  BY <1>2 DEF OwnerStep, RunMicrotasks, Advance, loopVars, timerVars, history
<1>3. CASE TaskReturns \/ StartMicrotask \/ Drained
  <2>1. UNCHANGED <<nextID, timers, repeat, canceled, ready, current, fired, cleared>>
    BY <1>3 DEF TaskReturns, EndMicrotask, EndTimer, StartMicrotask, Drained,
                loopVars, timerVars, history
  <2>2. QED
    BY <2>1
<1>4. CASE ReadyTimers
  <2>1. ready = {} /\ current = NoTimer
    BY <1>4 DEF ReadyTimers, ControlInv
  <2>2. /\ timers' \cup ready' = timers
        /\ timers' \cap ready' = {}
        /\ UNCHANGED <<nextID, repeat, canceled, current, fired, cleared>>
    BY <1>4 DEF ReadyTimers, timerVars, history
  <2>3. QED
    BY <2>1, <2>2
<1>5. ASSUME NEW id \in TimerIDs, StartTimer(id) PROVE TimerFate'
  <2>1. /\ current = NoTimer
        /\ id \in ready
        /\ ready' = ready \ {id}
        /\ current' = id
        /\ fired' = fired \cup {id}
        /\ UNCHANGED <<nextID, timers, repeat, canceled, cleared>>
    BY <1>5 DEF StartTimer, ControlInv, loopVars, timerVars
  <2>2. Finished' = Finished
    BY <2>1
  <2>3. id # NoTimer
    OBVIOUS
  <2>4. QED
    BY <2>1, <2>2, <2>3
<1>6. CASE Rearm
  <2>1. /\ current \in TimerIDs
        /\ current \in fired
        /\ current \notin canceled
    BY <1>6 DEF Rearm, ControlInv, TypeOK
  <2>2. /\ current' = NoTimer
        /\ timers' = IF repeat[current] THEN timers \cup {current} ELSE timers
        /\ UNCHANGED <<nextID, ready, repeat, canceled, fired, cleared>>
    BY <1>6, <2>1 DEF Rearm, IsRearmed, history
  <2>3. CASE repeat[current]
    <3>1. Finished' = Finished
      BY <2>1, <2>2, <2>3 DEF TypeOK
    <3>2. QED
      BY <2>1, <2>2, <2>3, <3>1 DEF TypeOK
  <2>4. CASE ~repeat[current]
    <3>1. Finished' = Finished \cup {current}
      <4>1. Finished = {i \in fired : ~repeat[i] /\ i # current}
        BY DEF Finished
      <4>2. Finished' = {i \in fired : ~repeat[i] /\ i # NoTimer}
        BY <2>2 DEF Finished
      <4>3. current \in fired /\ \A i \in fired : i # NoTimer
        BY <2>1, <2>2 DEF TypeOK
      <4>4. \A i : i \in Finished' <=> i \in Finished \/ i = current
        BY <2>4, <4>1, <4>2, <4>3
      <4>5. QED
        BY <4>4
    <3>2. /\ current \in TimerIDs /\ current # NoTimer /\ current' = NoTimer
          /\ timers' = timers
          /\ UNCHANGED <<nextID, ready, canceled, cleared, fired, repeat>>
      BY <2>1, <2>2, <2>4
    <3>3. HandleInv' /\ ClearedNeverFires'
      BY <2>1, <3>2
    <3> HIDE DEF Finished
    <3>4. EveryTimerAccountedFor'
      BY <2>1, <3>1, <3>2
    <3>5. QED
      BY <3>3, <3>4
  <2>5. QED
    BY <2>3, <2>4
<1>7. CASE UNCHANGED vars
  BY <1>7 DEF vars, loopVars, timerVars, runVars, history
<1>8. QED
  BY <1>1, <1>2, <1>3, <1>4, <1>5, <1>6, <1>7 DEF Next, LoopStep

----------------------------------------------------------------------------
(* The order of due times.                                                 *)

(* Nothing is ever armed in the past, a batch takes everything that is     *)
(* due, and its earliest timer starts first: so what has started is never  *)
(* later than what is still to start.                                      *)
LEMMA DueInductive ==
  TypeOK /\ ControlInv /\ EveryTimerAccountedFor /\ DueInv /\ [Next]_vars => DueInv'
<1> SUFFICES ASSUME TypeOK, ControlInv, EveryTimerAccountedFor, DueInv, [Next]_vars
             PROVE  DueInv'
  OBVIOUS
<1>0. /\ now \in Nat /\ lastDue \in Nat
      /\ due \in [TimerIDs -> Nat] /\ delay \in [TimerIDs -> Nat]
      /\ timers \subseteq TimerIDs /\ ready \subseteq TimerIDs
  BY DEF TypeOK
<1>1. CASE QueueMicrotask
  BY <1>1 DEF QueueMicrotask, timerVars, runVars, DueInv
<1>2. ASSUME NEW d \in Int, NEW r \in BOOLEAN, ScheduleTimer(d, r) PROVE DueInv'
  <2>1. /\ nextID + 1 \in TimerIDs
        /\ due' = [due EXCEPT ![nextID + 1] = now + NonNegative(d)]
        /\ timers' = timers \cup {nextID + 1}
        /\ UNCHANGED <<now, ready, current, pc, lastDue>>
    BY <1>2 DEF ScheduleTimer, runVars, history, TypeOK
  <2>2. due'[nextID + 1] \in Nat /\ due'[nextID + 1] >= now
    <3>1. NonNegative(d) \in Nat
      BY NonNegativeNat
    <3>2. due'[nextID + 1] = now + NonNegative(d)
      BY <1>0, <2>1
    <3>3. QED
      BY <1>0, <3>1, <3>2
  <2>3. \A id \in TimerIDs : id # nextID + 1 => due'[id] = due[id]
    BY <1>0, <2>1
  <2>4. nextID + 1 \notin ready
    BY <2>1 DEF EveryTimerAccountedFor, TypeOK
  <2>5. \A id \in timers' : \/ due'[id] = due[id] /\ id \in timers
                            \/ due'[id] >= now /\ due'[id] \in Nat
    BY <1>0, <2>1, <2>2, <2>3
  <2>6. \A id \in ready : due'[id] = due[id]
    BY <1>0, <2>3, <2>4
  <2> HIDE DEF TypeOK
  <2>7. ASSUME NEW id \in timers'
        PROVE  lastDue <= due'[id]
    <3>1. CASE due'[id] = due[id] /\ id \in timers
      BY <3>1 DEF DueInv
    <3>2. CASE due'[id] >= now /\ due'[id] \in Nat
      <4>1. lastDue <= now
        BY DEF DueInv
      <4>2. QED
        BY <1>0, <3>2, <4>1
    <3>3. QED
      BY <2>5, <3>1, <3>2
  <2>8. (current # NoTimer \/ pc = "batch") => \A id \in timers' : now <= due'[id]
    BY <1>0, <2>5 DEF DueInv
  <2>9. lastDue <= now /\ \A id \in ready : lastDue <= due'[id] /\ due'[id] <= now
    BY <2>6 DEF DueInv
  <2>10. QED
    BY <2>1, <2>7, <2>8, <2>9 DEF DueInv
<1>3. ASSUME NEW id \in TimerIDs, ClearTimer(id) PROVE DueInv'
  BY <1>3 DEF ClearTimer, runVars, DueInv
<1>4. CASE RunMicrotasks \/ TaskReturns \/ StartMicrotask
  BY <1>4 DEF RunMicrotasks, TaskReturns, EndMicrotask, EndTimer, StartMicrotask,
              loopVars, timerVars, history, DueInv, ControlInv
<1>5. ASSUME NEW delta \in 0..MaxNow, Advance(delta) PROVE DueInv'
  BY <1>0, <1>5 DEF Advance, timerVars, history, DueInv, ControlInv
<1>6. CASE Drained
  <2>1. /\ pc' \in {"owner", "scan", "rearm"}
        /\ UNCHANGED <<now, timers, due, ready, current, lastDue>>
    BY <1>6 DEF Drained, loopVars, timerVars, history, TypeOK
  <2>2. QED
    BY <2>1 DEF DueInv
<1>7. CASE ReadyTimers
  <2>1. /\ ready' = {id \in timers : due[id] <= now}
        /\ timers' = timers \ ready'
        /\ UNCHANGED <<now, due, lastDue, current>>
        /\ pc = "scan"
    BY <1>7 DEF ReadyTimers, IsDue, timerVars, history
  <2>2. current' = NoTimer
    BY <2>1 DEF ControlInv
  <2>3. \A id \in timers' : now <= due[id]
    BY <1>0, <2>1
  <2>4. \A id \in timers' \cup ready' : id \in timers
    BY <2>1
  <2>5. QED
    BY <2>1, <2>2, <2>3, <2>4 DEF DueInv
<1>8. ASSUME NEW id \in TimerIDs, StartTimer(id) PROVE DueInv'
  <2>1. /\ pc = "batch" /\ id \in ready
        /\ \A other \in ready \ {id} : Before(id, other)
        /\ ready' = ready \ {id} /\ lastDue' = due[id]
        /\ UNCHANGED <<now, timers, due>>
    BY <1>8 DEF StartTimer, loopVars, timerVars
  <2>2. \A other \in ready' : due[id] <= due[other] /\ due[other] <= now
    BY <1>0, <2>1 DEF Before, DueInv
  <2>3. due[id] <= now /\ \A other \in timers : now <= due[other]
    BY <2>1 DEF DueInv
  <2>4. \A other \in timers : due[id] <= due[other]
    BY <1>0, <2>1, <2>3
  <2> HIDE DEF TypeOK
  <2>5. QED
    BY <2>1, <2>2, <2>3, <2>4 DEF DueInv
<1>9. CASE Rearm
  <2>1. /\ current \in TimerIDs \ ready
        /\ current' = NoTimer
        /\ UNCHANGED <<now, ready, lastDue>>
    BY <1>9 DEF Rearm, history, ControlInv, EveryTimerAccountedFor, TypeOK
  <2>2. \A id \in timers : now <= due[id]
    BY <1>9, <2>1 DEF Rearm, DueInv
  <2>3. CASE UNCHANGED <<due, timers>>
    BY <2>1, <2>2, <2>3 DEF DueInv
  <2>4. CASE /\ due' = [due EXCEPT ![current] = now + delay[current]]
             /\ timers' = timers \cup {current}
    <3>1. due'[current] \in Nat /\ now <= due'[current]
      BY <1>0, <2>1, <2>4
    <3>2. \A id \in TimerIDs : id # current => due'[id] = due[id]
      BY <1>0, <2>4
    <3>3. QED
      BY <1>0, <2>1, <2>2, <2>4, <3>1, <3>2 DEF DueInv
  <2>5. QED
    BY <1>9, <2>3, <2>4 DEF Rearm, NextDue
<1>10. CASE UNCHANGED vars
  BY <1>10 DEF vars, loopVars, timerVars, runVars, history, DueInv
<1>11. QED
  BY <1>1, <1>2, <1>3, <1>4, <1>5, <1>6, <1>7, <1>8, <1>9, <1>10, SchedulesATimer
  DEF Next, UserStep, OwnerStep, LoopStep

----------------------------------------------------------------------------
(* The invariant, and what follows from it.                                *)

(* Inv holds in every reachable state.                                     *)
THEOREM Invariance == Spec => []Inv
<1>1. Init => Inv
  <2>1. Init => TypeOK /\ ControlInv
    BY DEF Init, TypeOK, ControlInv
  <2>2. Init => MicrotasksInOrder /\ MicrotasksFirst
    BY DEF Init, MicrotasksInOrder, MicrotasksFirst
  <2>3. Init => TimerFate
    BY DEF Init, TimerFate, HandleInv, ClearedNeverFires, EveryTimerAccountedFor, Finished
  <2>4. Init => DueInv
    BY DEF Init, DueInv
  <2>5. QED
    BY <2>1, <2>2, <2>3, <2>4 DEF Inv, TimerFate
<1>2. Inv /\ [Next]_vars => Inv'
  BY TypeInductive, ControlInductive, OrderInductive, FirstInductive, FateInductive,
     DueInductive DEF Inv, TimerFate
<1>3. QED
  BY <1>1, <1>2, PTL DEF Spec

(* The microtask queue is first in, first out, without loss or repetition. *)
THEOREM MicrotaskOrder == Spec => []MicrotasksInOrder
BY Invariance, PTL DEF Inv

(* No timer is started, re-armed or collected while a microtask waits.     *)
THEOREM MicrotaskPriority == Spec => []MicrotasksFirst
BY Invariance, PTL DEF Inv

(* A timer for which ClearTimer answered TRUE never runs again.            *)
THEOREM Cancellation == Spec => []ClearedNeverFires
BY Invariance, PTL DEF Inv

(* No timer is lost, and no timeout runs twice.                            *)
THEOREM Accounting == Spec => []EveryTimerAccountedFor
BY Invariance, PTL DEF Inv

(* Timers start in the order of their due times, over the whole life of    *)
(* the loop.                                                               *)
THEOREM FiringOrder == Spec => DueOrder
<1>1. Inv /\ [Next]_vars =>
        [current' # current /\ current' # NoTimer => lastDue <= due[current']]_vars
  <2> SUFFICES ASSUME Inv, Next, current' # current, current' # NoTimer
               PROVE  lastDue <= due[current']
    OBVIOUS
  <2>1. \E id \in TimerIDs : StartTimer(id)
    BY DEF Next, UserStep, QueueMicrotask, SetTimeout, SetInterval, ScheduleTimer,
           ClearTimer, OwnerStep, RunMicrotasks, Advance, TaskReturns, EndMicrotask,
           EndTimer, LoopStep, StartMicrotask, Drained, ReadyTimers, Rearm, runVars
  <2>2. QED
    BY <2>1 DEF StartTimer, Inv, DueInv
<1>2. QED
  BY <1>1, Invariance, PTL DEF Spec, DueOrder

(* When RunReady returns nothing is left to do: no timer is due and no     *)
(* microtask waits.                                                        *)
THEOREM Quiescence == Spec => QuiescentOnReturn
<1>1. Inv /\ [Next]_vars =>
        [pc = "scan" /\ pc' = "owner" =>
           microtasks' = <<>> /\ \A id \in timers' : now' < due'[id]]_vars
  <2> SUFFICES ASSUME Inv, Next, pc = "scan", pc' = "owner"
               PROVE  microtasks' = <<>> /\ \A id \in timers' : now' < due'[id]
    OBVIOUS
  <2>1. ReadyTimers
    BY DEF Next, UserStep, QueueMicrotask, SetTimeout, SetInterval, ClearTimer,
           UserHasControl, OwnerStep, RunMicrotasks, Advance, TaskReturns, EndMicrotask,
           EndTimer, LoopStep, StartMicrotask, Drained, StartTimer, Rearm
  <2>2. \A id \in timers' : ~IsDue(id)
    BY <2>1 DEF ReadyTimers
  <2>3. QED
    BY <2>1, <2>2 DEF ReadyTimers, IsDue, timerVars, Inv, MicrotasksFirst, TypeOK
<1>2. QED
  BY <1>1, Invariance, PTL DEF Spec, QuiescentOnReturn

----------------------------------------------------------------------------
(* The refinement of the timer service.                                    *)

(* Each step of the loop is a step of the service or leaves it alone.      *)
LEMMA StepSimulation == Inv /\ [Next]_vars => [Service!Next]_Service!vars
<1> SUFFICES ASSUME Inv, [Next]_vars PROVE [Service!Next]_Service!vars
  OBVIOUS
<1> USE DEF Service!vars, Service!TimerIDs
<1>1. ASSUME UNCHANGED <<now, nextID, due, delay, repeat, timers, ready, current>>
      PROVE  UNCHANGED Service!vars
  BY <1>1
<1>2. CASE QueueMicrotask \/ RunMicrotasks \/ TaskReturns \/ StartMicrotask \/ Drained
           \/ UNCHANGED vars
  <2>1. UNCHANGED <<now, nextID, due, delay, repeat, timers, ready, current>>
    BY <1>2 DEF QueueMicrotask, RunMicrotasks, TaskReturns, EndMicrotask, EndTimer,
                StartMicrotask, Drained, vars, loopVars, timerVars, runVars
  <2>2. QED
    BY <1>1, <2>1
<1>3. ASSUME NEW d \in TimeoutDelays \cup IntervalDelays, NEW r \in BOOLEAN,
             ScheduleTimer(d, r)
      PROVE  Service!Schedule(d, r)
  BY <1>3 DEF ScheduleTimer, runVars, Service!Schedule, Service!Normalised, NonNegative
<1>4. ASSUME NEW id \in TimerIDs, ClearTimer(id) PROVE [Service!Cancel(id)]_Service!vars
  <2>1. CASE id \in timers
    BY <1>4, <2>1 DEF ClearTimer, runVars, Service!Cancel, Inv, EveryTimerAccountedFor
  <2>2. CASE id \notin timers
    BY <1>1, <1>4, <2>2 DEF ClearTimer, runVars
  <2>3. QED
    BY <2>1, <2>2
<1>5. ASSUME NEW delta \in 0..MaxNow, Advance(delta) PROVE [Service!Elapse]_Service!vars
  BY <1>5 DEF Advance, timerVars, Service!Elapse, Inv, TypeOK, ControlInv
<1>6. CASE ReadyTimers
  BY <1>6 DEF ReadyTimers, timerVars, Inv, ControlInv
<1>7. ASSUME NEW id \in TimerIDs, StartTimer(id) PROVE Service!Fire(id)
  <2>1. /\ current = NoTimer
        /\ id \in ready
        /\ ready' = ready \ {id}
        /\ current' = id
        /\ UNCHANGED <<now, nextID, due, delay, repeat, timers>>
    BY <1>7 DEF StartTimer, loopVars, timerVars, Inv, ControlInv
  <2>2. due[id] <= now
    BY <2>1 DEF Inv, DueInv
  <2>3. ASSUME NEW other \in timers \cup ready PROVE due[id] <= due[other]
    <3>1. now \in Nat /\ due[id] \in Nat /\ due[other] \in Nat
      BY DEF Inv, TypeOK
    <3>2. CASE other = id
      BY <3>1, <3>2
    <3>3. CASE other \in ready \ {id}
      <4>1. Before(id, other)
        BY <1>7, <3>3 DEF StartTimer
      <4>2. QED
        BY <3>1, <4>1 DEF Before
    <3>4. CASE other \in timers
      <4>1. now <= due[other]
        BY <1>7, <3>4 DEF StartTimer, Inv, DueInv
      <4>2. QED
        BY <2>2, <3>1, <4>1
    <3>5. QED
      BY <3>2, <3>3, <3>4
  <2>4. timers' \cup ready' = (timers \cup ready) \ {id}
    BY <2>1 DEF Inv, EveryTimerAccountedFor
  <2>5. QED
    BY <2>1, <2>2, <2>3, <2>4 DEF Service!Fire
<1>8. ASSUME Rearm PROVE Service!Finish
  <2>1. /\ current # NoTimer
        /\ current \notin canceled
        /\ current' = NoTimer
        /\ UNCHANGED <<now, nextID, delay, repeat, ready>>
    BY <1>8 DEF Rearm, history, Inv, ControlInv, HandleInv, ClearedNeverFires
  <2>2. CASE repeat[current]
    <3>1. /\ due' = [due EXCEPT ![current] = now + delay[current]]
          /\ timers' \cup ready' = (timers \cup ready) \cup {current}
      BY <1>8, <2>1, <2>2 DEF Rearm, IsRearmed, NextDue
    <3>2. QED
      BY <2>1, <2>2, <3>1 DEF Service!Finish
  <2>3. CASE ~repeat[current]
    <3>1. UNCHANGED <<due, timers>>
      BY <1>8, <2>3 DEF Rearm, IsRearmed
    <3>2. QED
      BY <2>1, <2>3, <3>1 DEF Service!Finish
  <2>4. QED
    BY <2>2, <2>3 DEF Service!Finish
<1>9. QED
  BY <1>2, <1>3, <1>4, <1>5, <1>6, <1>7, <1>8
  DEF Next, UserStep, SetTimeout, SetInterval, OwnerStep, LoopStep, Service!Next

(* The event loop implements the timer service.                            *)
THEOREM Refinement == Spec => ImplementsTimerService
<1>1. Init => Service!Init
  BY DEF Init, Service!Init, Service!TimerIDs
<1>2. QED
  BY <1>1, Invariance, StepSimulation, PTL DEF Spec, ImplementsTimerService, Service!Spec
====
