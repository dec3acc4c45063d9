---- MODULE TimerService ----
(***************************************************************************)
(* What the timers of the Jayess runtime promise, whatever the event loop  *)
(* does inside: a timer fires at or after its due time, timers fire in the *)
(* order of their due times, a timeout fires once, an interval is armed    *)
(* again one delay after the firing that has just ended, and a timer that  *)
(* was cancelled while it was pending never fires.                         *)
(*                                                                         *)
(* There are no batches, no microtasks and no control points here: the     *)
(* module EventLoop is shown to implement this specification.              *)
(***************************************************************************)
EXTENDS Integers

CONSTANTS
  MaxTimers,  (* timers created over a behaviour: bounds the handles        *)
  MaxNow,     (* the clock's last value                                     *)
  Delays      (* the delays user code asks for, negative ones included      *)

VARIABLES
  now,       (* virtual time                                                *)
  issued,    (* handles 1..issued have been given out                       *)
  due,       (* when each timer is due                                      *)
  delay,     (* the delay each timer was created with                       *)
  repeat,    (* TRUE for an interval                                        *)
  pending,   (* the timers that are armed                                   *)
  running    (* the timer whose callback is running, 0 for none             *)

vars == <<now, issued, due, delay, repeat, pending, running>>

TimerIDs == 1..MaxTimers

(* A negative delay counts as none.                                        *)
Normalised(d) == IF d < 0 THEN 0 ELSE d

Init ==
  /\ now = 0
  /\ issued = 0
  /\ due = [id \in TimerIDs |-> 0]
  /\ delay = [id \in TimerIDs |-> 0]
  /\ repeat = [id \in TimerIDs |-> FALSE]
  /\ pending = {}
  /\ running = 0

Schedule(d, r) ==
  /\ issued < MaxTimers
  /\ issued' = issued + 1
  /\ due' = [due EXCEPT ![issued + 1] = now + Normalised(d)]
  /\ delay' = [delay EXCEPT ![issued + 1] = Normalised(d)]
  /\ repeat' = [repeat EXCEPT ![issued + 1] = r]
  /\ pending' = pending \cup {issued + 1}
  /\ UNCHANGED <<now, running>>

Cancel(id) ==
  /\ id \in pending
  /\ pending' = pending \ {id}
  /\ UNCHANGED <<now, issued, due, delay, repeat, running>>

(* Time does not move while a callback runs.                               *)
Elapse ==
  /\ running = 0
  /\ now' \in (now + 1)..MaxNow
  /\ UNCHANGED <<issued, due, delay, repeat, pending, running>>

(* Earliest due first, and never before it is due.                         *)
Fire(id) ==
  /\ running = 0
  /\ id \in pending
  /\ due[id] <= now
  /\ \A other \in pending : due[id] <= due[other]
  /\ pending' = pending \ {id}
  /\ running' = id
  /\ UNCHANGED <<now, issued, due, delay, repeat>>

Finish ==
  /\ running # 0
  /\ running' = 0
  /\ IF repeat[running]
     THEN /\ due' = [due EXCEPT ![running] = now + delay[running]]
          /\ pending' = pending \cup {running}
     ELSE UNCHANGED <<due, pending>>
  /\ UNCHANGED <<now, issued, delay, repeat>>

Next ==
  \/ \E d \in Delays, r \in BOOLEAN : Schedule(d, r)
  \/ \E id \in TimerIDs : Cancel(id)
  \/ Elapse
  \/ \E id \in TimerIDs : Fire(id)
  \/ Finish

Spec == Init /\ [][Next]_vars
====
