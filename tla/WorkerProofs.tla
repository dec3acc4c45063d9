---- MODULE WorkerProofs ----
(***************************************************************************)
(* The worker's safety for every number of goroutines, messages, replies   *)
(* and callbacks and every capacity of its channels: type correctness,     *)
(* the fate of the messages, what the callbacks hear, and the error that   *)
(* is set before the worker closes.                                        *)
(***************************************************************************)
EXTENDS Worker, SequenceTheorems, FiniteSetTheorems, TLAPS

(* The worker's goroutine is never outside; the others only make calls.    *)
(* During a dispatch, and only then, there is a message; the handler's     *)
(* calls are made outside of one, the parent's in a callback.              *)
ControlInv ==
  /\ \A p \in Parents : pc[p] \in {"user", "check", "post", "next"}
  /\ pc[Runner] # "user"
  /\ pc[Runner] \in {"handler", "receive", "checkReply", "reply"} => message = NoMessage
  /\ pc[Runner] \in {"dispatch", "calling", "callback", "check", "post", "next"} =>
       message # NoMessage
  /\ message # NoMessage => message = replied
  /\ pc[Runner] \in {"checkReply", "reply"} => replied < MaxReplies

(* Where dispatch's loop is.                                               *)
LoopInv ==
  /\ pc[Runner] = "calling" => 1 <= turn /\ turn <= snapshot + 1
  /\ pc[Runner] \in {"callback", "check", "post", "next"} => 1 <= turn /\ turn <= snapshot
  /\ snapshot <= callbacks /\ known <= callbacks

(* The calls of PostMessage under way and the messages accepted stay       *)
(* within the bound, for any number of goroutines.                         *)
RoomInv ==
  /\ IsFiniteSet(Posting)
  /\ posted + Cardinality(Posting) <= MaxPosts

USE WorkerAssumption DEF WorkerAssumption, Goroutines, Callbacks, NoMessage, PCs, Selects,
                         channels, dispatching, history

(* A channel of natural numbers in order: what is appended is the number   *)
(* after the last one, what is taken the number after those taken before.  *)
LEMMA InOrderAppend ==
  ASSUME NEW q \in Seq(Nat), NEW taken \in Nat, NEW e \in Nat,
         e = taken + Len(q) + 1,
         \A i \in 1..Len(q) : q[i] = taken + i
  PROVE  /\ Len(Append(q, e)) = Len(q) + 1
         /\ \A i \in 1..Len(Append(q, e)) : Append(q, e)[i] = taken + i
BY AppendProperties

(* Taking the first number of a channel in order leaves it in order.       *)
LEMMA InOrderTail ==
  ASSUME NEW S, NEW q \in Seq(S), NEW taken \in Nat, q # <<>>,
         \A i \in 1..Len(q) : q[i] = taken + i
  PROVE  /\ Tail(q) \in Seq(S)
         /\ Len(Tail(q)) = Len(q) - 1
         /\ Head(q) = taken + 1 /\ Head(q) \in S
         /\ \A i \in 1..Len(Tail(q)) : Tail(q)[i] = Head(q) + i
<1>1. /\ Head(q) \in S
      /\ Tail(q) \in Seq(S)
      /\ Len(Tail(q)) = Len(q) - 1
      /\ \A i \in 1..Len(Tail(q)) : Tail(q)[i] = q[i + 1]
  BY HeadTailProperties
<1>2. Len(q) \in Nat \ {0}
  BY EmptySeq
<1>3. Head(q) = q[1] /\ q[1] = taken + 1
  BY <1>2
<1>4. ASSUME NEW i \in 1..Len(Tail(q)) PROVE Tail(q)[i] = Head(q) + i
  <2>1. i + 1 \in 1..Len(q)
    BY <1>1, <1>2
  <2>2. QED
    BY <1>1, <1>3, <2>1
<1>5. QED
  BY <1>1, <1>3, <1>4

(* Control does not depend on what the channels hold.                      *)
LEMMA ControlInductive == TypeOK /\ ControlInv /\ [Next]_vars => ControlInv'
<1> SUFFICES ASSUME TypeOK, ControlInv, [Next]_vars PROVE ControlInv'
  OBVIOUS
<1> USE DEF ControlInv, GoesTo
<1>0. pc \in [Goroutines -> PCs] /\ replied \in Nat /\ Runner \notin Parents
  BY DEF TypeOK
<1>1. ASSUME NEW g \in Goroutines, PostMessage(g) PROVE ControlInv'
  BY <1>0, <1>1 DEF PostMessage, ParentHasControl
<1>2. ASSUME NEW g \in Goroutines, OnMessage(g) PROVE ControlInv'
  BY <1>2 DEF OnMessage
<1>3. ASSUME NEW g \in Goroutines, NextMessage(g) PROVE ControlInv'
  BY <1>0, <1>3 DEF NextMessage, ParentHasControl
<1>4. ASSUME NEW g \in Goroutines, Close(g) PROVE ControlInv'
  BY <1>4 DEF Close
<1>5. ASSUME NEW g \in Goroutines, CheckPost(g) PROVE ControlInv'
  BY <1>0, <1>5 DEF CheckPost, Caller
<1>6. ASSUME NEW g \in Goroutines, AcceptPost(g) PROVE ControlInv'
  BY <1>0, <1>6 DEF AcceptPost, Caller
<1>7. ASSUME NEW g \in Goroutines, TakeReply(g) PROVE ControlInv'
  BY <1>0, <1>7 DEF TakeReply, Caller
<1>8. ASSUME NEW g \in Goroutines, AbandonSelect(g) PROVE ControlInv'
  BY <1>0, <1>8 DEF AbandonSelect, GivesUp, Caller
<1>9. CASE Receive \/ PostToParent \/ Return
  BY <1>0, <1>9 DEF Receive, PostToParent, Return
<1>10. CASE EndCallback \/ StartCallback \/ Dispatch
  BY <1>0, <1>10 DEF EndCallback, StartCallback, Dispatch
<1>11. CASE Panic \/ Recover \/ EndRun
  BY <1>0, <1>11 DEF Panic, AfterPanic, Recover, EndRun
<1>12. CASE TakeMessage \/ CheckReply
  BY <1>0, <1>12 DEF TakeMessage, CheckReply
<1>13. CASE AcceptReply
  BY <1>0, <1>13 DEF AcceptReply
<1>14. CASE EndDispatch
  BY <1>0, <1>14 DEF EndDispatch
<1>15. CASE UNCHANGED vars
  BY <1>15 DEF vars
<1>16. QED
  BY <1>1, <1>2, <1>3, <1>4, <1>5, <1>6, <1>7, <1>8, <1>9, <1>10, <1>11, <1>12, <1>13, <1>14,
     <1>15 DEF Next, UserStep, CallStep, RunnerStep

(* PostMessage is called while there is room for one more message; every   *)
(* other step keeps the calls under way, ends one, or turns one into a     *)
(* message.                                                                *)
LEMMA RoomInductive ==
  TypeOK /\ ControlInv /\ RoomInv /\ [Next]_vars => RoomInv'
<1> SUFFICES ASSUME TypeOK, ControlInv, RoomInv, [Next]_vars PROVE RoomInv'
  OBVIOUS
<1>0. /\ pc \in [Goroutines -> PCs] /\ posted \in Nat /\ Runner \in Goroutines
      /\ IsFiniteSet(Posting) /\ Cardinality(Posting) \in Nat
      /\ posted + Cardinality(Posting) <= MaxPosts
  BY FS_CardinalityType DEF TypeOK, RoomInv
<1>1. ASSUME NEW g \in Goroutines, PostMessage(g) PROVE RoomInv'
  <2>1. Posting' = Posting \union {g} /\ posted' = posted
    BY <1>0, <1>1 DEF PostMessage, Posting
  <2>2. IsFiniteSet(Posting') /\ Cardinality(Posting') <= Cardinality(Posting) + 1
    BY <1>0, <2>1, FS_AddElement
  <2>3. Cardinality(Posting') \in Nat
    BY <2>2, FS_CardinalityType
  <2>4. posted + Cardinality(Posting) < MaxPosts
    BY <1>1 DEF PostMessage
  <2>5. QED
    BY <1>0, <2>1, <2>2, <2>3, <2>4 DEF RoomInv
<1>2. ASSUME NEW g \in Goroutines, AcceptPost(g) PROVE RoomInv'
  <2>1. g \in Posting /\ Posting' = Posting \ {g} /\ posted' = posted + 1
    BY <1>0, <1>2 DEF AcceptPost, GoesTo, Caller, Posting
  <2>2. IsFiniteSet(Posting') /\ Cardinality(Posting') = Cardinality(Posting) - 1
    BY <1>0, <2>1, FS_RemoveElement
  <2>3. QED
    BY <1>0, <2>1, <2>2 DEF RoomInv
<1>3. ASSUME Posting' \subseteq Posting, posted' = posted PROVE RoomInv'
  <2>1. /\ IsFiniteSet(Posting') /\ Cardinality(Posting') <= Cardinality(Posting)
        /\ Cardinality(Posting') \in Nat
    BY <1>0, <1>3, FS_Subset, FS_CardinalityType
  <2>2. QED
    BY <1>0, <1>3, <2>1 DEF RoomInv
<1>4. ASSUME NEW g \in Goroutines, CheckPost(g) \/ TakeReply(g) \/ AbandonSelect(g)
      PROVE  RoomInv'
  <2>1. Posting' \subseteq Posting /\ posted' = posted
    BY <1>0, <1>4 DEF CheckPost, TakeReply, AbandonSelect, GivesUp, GoesTo, Caller, Posting
  <2>2. QED
    BY <1>3, <2>1
<1>5. ASSUME NEW g \in Goroutines, OnMessage(g) \/ NextMessage(g) \/ Close(g)
      PROVE  RoomInv'
  <2>1. Posting' \subseteq Posting /\ posted' = posted
    BY <1>0, <1>5 DEF OnMessage, NextMessage, Close, Posting
  <2>2. QED
    BY <1>3, <2>1
<1>6. CASE Receive \/ PostToParent \/ EndCallback \/ Return \/ Panic
  <2>1. Posting' \subseteq Posting /\ posted' = posted
    BY <1>0, <1>6 DEF Receive, PostToParent, EndCallback, Return, Panic, AfterPanic, GoesTo,
                      Posting
  <2>2. QED
    BY <1>3, <2>1
<1>7. CASE RunnerStep
  <2>1. Posting' \subseteq Posting /\ posted' = posted
    BY <1>0, <1>7 DEF RunnerStep, TakeMessage, CheckReply, AcceptReply, Dispatch, StartCallback,
                      EndDispatch, Recover, EndRun, GoesTo, Posting
  <2>2. QED
    BY <1>3, <2>1
<1>8. CASE UNCHANGED vars
  BY <1>3, <1>8 DEF vars, Posting
<1>9. QED
  BY <1>1, <1>2, <1>3, <1>4, <1>5, <1>6, <1>7, <1>8 DEF Next, UserStep, CallStep

(* dispatch's loop variable stays within the copy it was started with,     *)
(* whatever callbacks are registered while it runs.                        *)
LEMMA LoopInductive ==
  TypeOK /\ ControlInv /\ LoopInv /\ [Next]_vars => LoopInv'
<1> SUFFICES ASSUME TypeOK, ControlInv, LoopInv, [Next]_vars PROVE LoopInv'
  OBVIOUS
<1> USE DEF LoopInv, GoesTo
<1>0. /\ pc \in [Goroutines -> PCs] /\ {callbacks, known, snapshot, turn} \subseteq Nat
      /\ Runner \in Goroutines /\ pc[Runner] # "user"
      /\ message = NoMessage => pc[Runner] \notin {"check", "post", "next"}
  BY DEF TypeOK, ControlInv
<1>1. ASSUME NEW g \in Goroutines,
             PostMessage(g) \/ OnMessage(g) \/ NextMessage(g) \/ Close(g)
      PROVE  LoopInv'
  <2>1. CASE PostMessage(g)
    BY <1>0, <2>1 DEF PostMessage, ParentHasControl
  <2>2. CASE OnMessage(g)
    BY <1>0, <2>2 DEF OnMessage
  <2>3. CASE NextMessage(g)
    BY <1>0, <2>3 DEF NextMessage, ParentHasControl
  <2>4. CASE Close(g)
    BY <1>0, <2>4 DEF Close
  <2>5. QED
    BY <1>1, <2>1, <2>2, <2>3, <2>4
<1>2. ASSUME NEW g \in Goroutines, CallStep(g) PROVE LoopInv'
  <2>1. /\ UNCHANGED <<callbacks, known, snapshot, turn>>
        /\ \/ pc'[Runner] = pc[Runner]
           \/ pc'[Runner] = "handler"
           \/ pc[Runner] \in {"check", "post", "next"}
    BY <1>0, <1>2
       DEF CallStep, CheckPost, AcceptPost, TakeReply, AbandonSelect, GivesUp, Caller, ControlInv
  <2>2. QED
    BY <1>0, <1>2, <2>1
       DEF CallStep, CheckPost, AcceptPost, TakeReply, AbandonSelect, Caller, ControlInv
<1>3. CASE Receive \/ PostToParent \/ EndCallback \/ Return \/ Panic
  BY <1>0, <1>3 DEF Receive, PostToParent, EndCallback, Return, Panic, AfterPanic
<1>4. CASE RunnerStep
  BY <1>0, <1>4 DEF RunnerStep, TakeMessage, CheckReply, AcceptReply, Dispatch, Copied,
                    StartCallback, EndDispatch, Recover, EndRun
<1>5. CASE UNCHANGED vars
  BY <1>5 DEF vars
<1>6. QED
  BY <1>1, <1>2, <1>3, <1>4, <1>5 DEF Next, UserStep

(* TypeOK: the channels stay within their capacity and hold messages, and  *)
(* every field and local keeps its type.                                   *)
LEMMA TypeInductive ==
  TypeOK /\ ControlInv /\ LoopInv /\ RoomInv /\ RoomInv' /\ [Next]_vars => TypeOK'
<1> SUFFICES ASSUME TypeOK, ControlInv, LoopInv, RoomInv, RoomInv', [Next]_vars PROVE TypeOK'
  OBVIOUS
<1> USE DEF TypeOK, GoesTo
<1>1. ASSUME NEW g \in Goroutines,
             PostMessage(g) \/ OnMessage(g) \/ NextMessage(g) \/ Close(g)
      PROVE  TypeOK'
  <2>1. CASE PostMessage(g)
    BY <2>1 DEF PostMessage
  <2>2. CASE OnMessage(g)
    BY <2>2 DEF OnMessage
  <2>3. CASE NextMessage(g)
    BY <2>3 DEF NextMessage
  <2>4. CASE Close(g)
    BY <2>4 DEF Close
  <2>5. QED
    BY <1>1, <2>1, <2>2, <2>3, <2>4
<1>2. ASSUME NEW g \in Goroutines PROVE Caller(g) \in PCs
  BY DEF Caller
<1>3. ASSUME NEW g \in Goroutines, CheckPost(g) \/ AbandonSelect(g) PROVE TypeOK'
  <2>1. CASE CheckPost(g)
    BY <1>2, <2>1 DEF CheckPost
  <2>2. CASE AbandonSelect(g)
    BY <1>2, <2>2 DEF AbandonSelect
  <2>3. QED
    BY <1>3, <2>1, <2>2
<1>4. ASSUME NEW g \in Goroutines, AcceptPost(g) PROVE TypeOK'
  <2>1. posted' = posted + 1 /\ posted + 1 \in 1..MaxPosts
    <3>1. g \in Posting /\ IsFiniteSet(Posting) /\ posted + Cardinality(Posting) <= MaxPosts
      BY <1>4 DEF AcceptPost, Posting, RoomInv
    <3>2. Cardinality(Posting) \in Nat /\ Cardinality(Posting) # 0
      BY <3>1, FS_CardinalityType, FS_EmptySet
    <3>3. QED
      BY <1>4, <3>1, <3>2 DEF AcceptPost
  <2>2. inbox' \in Seq(1..MaxPosts) /\ Len(inbox') <= Capacity
    BY <1>4, <2>1, AppendProperties DEF AcceptPost, HasRoom
  <2>3. /\ pc' \in [Goroutines -> PCs] /\ lateAccepted' \in BOOLEAN
        /\ UNCHANGED <<outbox, done, callbacks, err, dispatching, received, replied, late,
                       known, heard, panicked, userClosed>>
    BY <1>2, <1>4 DEF AcceptPost
  <2>4. QED
    BY <2>1, <2>2, <2>3
<1>5. ASSUME NEW g \in Goroutines, TakeReply(g) PROVE TypeOK'
  <2>1. outbox' \in Seq(1..MaxReplies) /\ Len(outbox') <= Capacity
    BY <1>5, HeadTailProperties DEF TakeReply
  <2>2. pc' \in [Goroutines -> PCs]
    BY <1>2, <1>5 DEF TakeReply
  <2>3. QED
    BY <1>5, <2>1, <2>2 DEF TakeReply
<1>6. CASE Receive \/ PostToParent \/ Return \/ Panic \/ Recover \/ EndRun \/ CheckReply
  BY <1>6 DEF Receive, PostToParent, Return, Panic, AfterPanic, Recover, EndRun, CheckReply
<1>7. CASE TakeMessage
  <2>1. /\ inbox' \in Seq(1..MaxPosts) /\ Len(inbox') <= Capacity
        /\ received' \in 0..MaxPosts
    BY <1>7, HeadTailProperties DEF TakeMessage
  <2>2. QED
    BY <1>7, <2>1 DEF TakeMessage
<1>8. CASE AcceptReply
  <2>1. replied + 1 \in 1..MaxReplies
    BY <1>8 DEF AcceptReply, ControlInv
  <2>2. outbox' \in Seq(1..MaxReplies) /\ Len(outbox') <= Capacity
    BY <1>8, <2>1, AppendProperties DEF AcceptReply, HasRoom
  <2>3. QED
    BY <1>8, <2>1, <2>2 DEF AcceptReply
<1>9. CASE Dispatch
  BY <1>9 DEF Dispatch, Copied
<1>10. CASE StartCallback
  BY <1>10 DEF StartCallback
<1>11. CASE EndCallback
  BY <1>11 DEF EndCallback, LoopInv
<1>12. CASE EndDispatch
  BY <1>12 DEF EndDispatch
<1>13. CASE UNCHANGED vars
  BY <1>13 DEF vars
<1>14. QED
  BY <1>1, <1>3, <1>4, <1>5, <1>6, <1>7, <1>8, <1>9, <1>10, <1>11, <1>12, <1>13
     DEF Next, UserStep, CallStep, RunnerStep

(* The three parts and the types, all of which each other needs.           *)
BaseInv == TypeOK /\ ControlInv /\ LoopInv /\ RoomInv

(* NewWorker's state has the types, and nobody is in the middle of a call. *)
LEMMA BaseInitial == Init => BaseInv
<1> SUFFICES ASSUME Init PROVE BaseInv
  OBVIOUS
<1> USE DEF Init
<1>1. TypeOK
  <2>1. inbox \in Seq(1..MaxPosts) /\ outbox \in Seq(1..MaxReplies)
    BY EmptySeq
  <2>2. Len(inbox) <= Capacity /\ Len(outbox) <= Capacity
    OBVIOUS
  <2>3. pc \in [Goroutines -> PCs]
    OBVIOUS
  <2>4. late \in [Goroutines -> BOOLEAN] /\ heard \in [Callbacks -> 0..MaxReplies]
    OBVIOUS
  <2>5. /\ callbacks \in 0..MaxCallbacks /\ snapshot \in 0..MaxCallbacks
        /\ known \in 0..MaxCallbacks /\ turn \in 0..(MaxCallbacks + 1)
        /\ message \in 0..MaxReplies /\ replied \in 0..MaxReplies
        /\ posted \in 0..MaxPosts /\ received \in 0..MaxPosts
    OBVIOUS
  <2>6. /\ done \in BOOLEAN /\ err \in BOOLEAN /\ lateAccepted \in BOOLEAN
        /\ panicked \in BOOLEAN /\ userClosed \in BOOLEAN
    OBVIOUS
  <2>7. QED
    BY Zenon, <2>1, <2>2, <2>3, <2>4, <2>5, <2>6 DEF TypeOK
<1>2. ControlInv /\ LoopInv
  BY DEF ControlInv, LoopInv
<1>3. Posting = {}
  BY DEF Posting
<1>4. RoomInv
  BY <1>3, FS_EmptySet DEF RoomInv
<1>5. QED
  BY <1>1, <1>2, <1>4 DEF BaseInv

(* Every step of the runner and of the parents keeps the four.             *)
LEMMA BaseInductive == BaseInv /\ [Next]_vars => BaseInv'
BY ControlInductive, LoopInductive, RoomInductive, TypeInductive DEF BaseInv

(* Type correctness of the worker.                                         *)
THEOREM TypeCorrect == Spec => []TypeOK
<1>1. BaseInv => TypeOK
  BY DEF BaseInv
<1>2. QED
  BY <1>1, BaseInitial, BaseInductive, PTL DEF Spec

----------------------------------------------------------------------------
(* The fate of the messages.                                               *)

(* A call of PostMessage that was made too late is not in its select.      *)
LateInv ==
  /\ \A g \in Goroutines : late[g] => done
  /\ \A g \in Goroutines : pc[g] = "post" => ~late[g]

KeepInv == LateInv /\ MessagesKept

(* Only AcceptPost and TakeMessage touch the inbox and its history, and    *)
(* only PostMessage and CheckPost lead to the select.                      *)
LEMMA InboxFrame ==
  ASSUME TypeOK, ControlInv, [Next]_vars, ~TakeMessage,
         \A g \in Goroutines : ~PostMessage(g) /\ ~CheckPost(g) /\ ~AcceptPost(g)
  PROVE  /\ UNCHANGED <<inbox, posted, received, late, lateAccepted>>
         /\ done => done'
         /\ \A g \in Goroutines : pc'[g] = "post" => pc[g] = "post"
<1> USE DEF GoesTo
<1>0. pc \in [Goroutines -> PCs]
  BY DEF TypeOK
<1>1. ASSUME NEW g \in Goroutines, OnMessage(g) \/ NextMessage(g) \/ Close(g)
      PROVE  /\ UNCHANGED <<inbox, posted, received, late, lateAccepted>>
             /\ done => done'
             /\ \A h \in Goroutines : pc'[h] = "post" => pc[h] = "post"
  BY <1>0, <1>1 DEF OnMessage, NextMessage, Close
<1>2. ASSUME NEW g \in Goroutines, TakeReply(g) \/ AbandonSelect(g)
      PROVE  /\ UNCHANGED <<inbox, posted, received, late, lateAccepted>>
             /\ done => done'
             /\ \A h \in Goroutines : pc'[h] = "post" => pc[h] = "post"
  BY <1>0, <1>2 DEF TakeReply, AbandonSelect, Caller
<1>3. CASE Receive \/ PostToParent \/ EndCallback \/ Return \/ Panic
  BY <1>0, <1>3 DEF Receive, PostToParent, EndCallback, Return, Panic, AfterPanic
<1>4. CASE RunnerStep
  BY <1>0, <1>4 DEF RunnerStep, CheckReply, AcceptReply, Dispatch, StartCallback, EndDispatch,
                    Recover, EndRun
<1>5. CASE UNCHANGED vars
  BY <1>5 DEF vars
<1>6. QED
  BY <1>1, <1>2, <1>3, <1>4, <1>5 DEF Next, UserStep, CallStep

(* Each step that touches a channel keeps its messages in order:           *)
(* AcceptPost appends the next number, TakeMessage takes the oldest, and   *)
(* the same for the outbox.                                                *)
LEMMA KeepInductive == BaseInv /\ KeepInv /\ [Next]_vars => KeepInv'
<1> SUFFICES ASSUME TypeOK, ControlInv, LateInv, MessagesKept, [Next]_vars
             PROVE  LateInv' /\ MessagesKept'
  BY DEF BaseInv, KeepInv
<1> USE DEF GoesTo
<1>0. /\ pc \in [Goroutines -> PCs] /\ late \in [Goroutines -> BOOLEAN] /\ done \in BOOLEAN
      /\ inbox \in Seq(1..MaxPosts) /\ received \in Nat /\ posted \in Nat
  BY DEF TypeOK
<1>1. ASSUME NEW g \in Goroutines, PostMessage(g) PROVE LateInv' /\ MessagesKept'
  BY <1>0, <1>1 DEF PostMessage, LateInv, MessagesKept
<1>2. ASSUME NEW g \in Goroutines, CheckPost(g) PROVE LateInv' /\ MessagesKept'
  BY <1>0, <1>2 DEF CheckPost, Passes, Caller, LateInv, MessagesKept
<1>3. ASSUME NEW g \in Goroutines, AcceptPost(g) PROVE LateInv' /\ MessagesKept'
  <2>1. LateInv' /\ ~lateAccepted'
    BY <1>0, <1>3 DEF AcceptPost, Caller, LateInv, MessagesKept
  <2>2. /\ inbox' = Append(inbox, posted + 1) /\ posted' = posted + 1 /\ received' = received
        /\ posted + 1 = received + Len(inbox) + 1
    BY <1>0, <1>3 DEF AcceptPost, MessagesKept
  <2>3. /\ Len(inbox') = Len(inbox) + 1
        /\ \A i \in 1..Len(inbox') : inbox'[i] = received + i
    <3>1. inbox \in Seq(Nat) /\ posted + 1 \in Nat
      BY <1>0, SeqMonotonic
    <3>2. \A i \in 1..Len(inbox) : inbox[i] = received + i
      BY DEF MessagesKept
    <3>3. /\ Len(Append(inbox, posted + 1)) = Len(inbox) + 1
          /\ \A i \in 1..Len(Append(inbox, posted + 1)) :
               Append(inbox, posted + 1)[i] = received + i
      BY ONLY <1>0, <2>2, <3>1, <3>2, InOrderAppend
    <3>4. QED
      BY <2>2, <3>3
  <2>4. Len(inbox) \in Nat
    BY <1>0
  <2>5. received' + Len(inbox') = posted'
    BY <1>0, <2>2, <2>3, <2>4
  <2>6. QED
    BY <2>1, <2>2, <2>3, <2>5 DEF MessagesKept
<1>4. CASE TakeMessage
  <2>1. LateInv' /\ ~lateAccepted'
    BY <1>0, <1>4 DEF TakeMessage, LateInv, MessagesKept
  <2>2. /\ inbox # <<>> /\ inbox' = Tail(inbox) /\ received' = Head(inbox)
        /\ posted' = posted
    BY <1>4 DEF TakeMessage
  <2>3. /\ Len(inbox') = Len(inbox) - 1 /\ received' = received + 1
        /\ \A i \in 1..Len(inbox') : inbox'[i] = received' + i
    <3>1. \A i \in 1..Len(inbox) : inbox[i] = received + i
      BY DEF MessagesKept
    <3>2. QED
      BY <1>0, <2>2, <3>1, InOrderTail
  <2>4. Len(inbox) \in Nat /\ received + Len(inbox) = posted
    BY <1>0 DEF MessagesKept
  <2>5. received' + Len(inbox') = posted'
    BY <1>0, <2>2, <2>3, <2>4
  <2>6. QED
    BY <2>1, <2>3, <2>5 DEF MessagesKept
<1>5. CASE ~TakeMessage /\ \A g \in Goroutines : ~PostMessage(g) /\ ~CheckPost(g) /\ ~AcceptPost(g)
  BY <1>0, <1>5, InboxFrame DEF LateInv, MessagesKept
<1>6. QED
  BY <1>1, <1>2, <1>3, <1>4, <1>5

(* No accepted message is lost, overtaken or accepted too late.            *)
THEOREM MessagesAreKept == Spec => []MessagesKept
<1>1. Init => KeepInv
  BY DEF Init, KeepInv, LateInv, MessagesKept
<1>2. KeepInv => MessagesKept
  BY DEF KeepInv
<1>3. QED
  BY <1>1, <1>2, BaseInitial, BaseInductive, KeepInductive, PTL DEF Spec

----------------------------------------------------------------------------
(* What the callbacks hear.                                                *)

(* Only the callbacks of the last copy have heard anything, and those      *)
(* before the loop's place in it have heard the last message; the others   *)
(* of the copy heard the message before it.  Outside of a dispatch the     *)
(* copy held all that were known when the message was accepted.            *)
HearInv ==
  /\ \A c \in Callbacks : c > snapshot => heard[c] = NoMessage
  /\ message = NoMessage => known <= snapshot /\ \A c \in 1..snapshot : heard[c] = replied
  /\ pc[Runner] = "dispatch" => \A c \in 1..snapshot : heard[c] = replied - 1
  /\ pc[Runner] = "calling" =>
       /\ known <= snapshot
       /\ \A c \in 1..(turn - 1) : heard[c] = replied
       /\ \A c \in Callbacks : c >= turn => heard[c] = NoMessage \/ heard[c] = replied - 1
  /\ pc[Runner] \in {"callback", "check", "post", "next"} =>
       /\ known <= snapshot
       /\ \A c \in 1..turn : heard[c] = replied
       /\ \A c \in Callbacks : c > turn => heard[c] = NoMessage \/ heard[c] = replied - 1

(* The steps of a dispatch are the only ones that change what is in        *)
(* HearInv; a call made from a callback returns to it.                     *)
LEMMA HearFrame ==
  ASSUME BaseInv, [Next]_vars,
         ~AcceptReply, ~Dispatch, ~StartCallback, ~EndCallback, ~EndDispatch
  PROVE  /\ UNCHANGED <<message, snapshot, turn, known, heard, replied>>
         /\ \/ pc'[Runner] = pc[Runner]
            \/ {pc[Runner], pc'[Runner]} \subseteq {"callback", "check", "post", "next"}
            \/ {pc[Runner], pc'[Runner]} \subseteq {"handler", "receive", "checkReply", "reply"}
            \/ pc'[Runner] \in {"recover", "closing", "ended"}
<1> USE DEF GoesTo
<1>0. /\ pc \in [Goroutines -> PCs] /\ pc[Runner] # "user" /\ Runner \in Goroutines
      /\ pc[Runner] \in {"handler", "receive", "checkReply", "reply"} => message = NoMessage
      /\ pc[Runner] \in {"dispatch", "calling", "callback", "check", "post", "next"} =>
           message # NoMessage
  BY DEF TypeOK, ControlInv, BaseInv
<1>1. ASSUME NEW g \in Goroutines, PostMessage(g) \/ NextMessage(g)
      PROVE  /\ UNCHANGED <<message, snapshot, turn, known, heard, replied>>
             /\ \/ pc'[Runner] = pc[Runner]
                \/ {pc[Runner], pc'[Runner]} \subseteq {"callback", "check", "post", "next"}
  BY <1>0, <1>1 DEF PostMessage, NextMessage, ParentHasControl
<1>2. ASSUME NEW g \in Goroutines, OnMessage(g) \/ Close(g)
      PROVE  UNCHANGED <<message, snapshot, turn, known, heard, replied, pc>>
  BY <1>2 DEF OnMessage, Close
<1>3. ASSUME NEW g \in Goroutines, CallStep(g)
      PROVE  /\ UNCHANGED <<message, snapshot, turn, known, heard, replied>>
             /\ \/ pc'[Runner] = pc[Runner]
                \/ {pc[Runner], pc'[Runner]} \subseteq {"callback", "check", "post", "next"}
                \/ {pc[Runner], pc'[Runner]} \subseteq {"handler", "receive", "checkReply", "reply"}
  <2>1. CASE g = Runner
    BY <1>0, <1>3, <2>1
       DEF CallStep, CheckPost, AcceptPost, TakeReply, AbandonSelect, GivesUp, Caller
  <2>2. CASE g # Runner
    BY <1>0, <1>3, <2>2
       DEF CallStep, CheckPost, AcceptPost, TakeReply, AbandonSelect, GivesUp
  <2>3. QED
    BY <2>1, <2>2
<1>4. CASE Receive \/ PostToParent \/ Return \/ Panic
  BY <1>0, <1>4 DEF Receive, PostToParent, Return, Panic, AfterPanic
<1>5. CASE TakeMessage \/ CheckReply \/ Recover \/ EndRun
  BY <1>0, <1>5 DEF TakeMessage, CheckReply, Recover, EndRun
<1>6. CASE UNCHANGED vars
  BY <1>6 DEF vars
<1>7. QED
  BY <1>1, <1>2, <1>3, <1>4, <1>5, <1>6 DEF Next, UserStep, RunnerStep

(* A dispatch tells the callbacks of its copy one after the other; a       *)
(* callback registered meanwhile is told from the next dispatch on.        *)
LEMMA HearInductive == BaseInv /\ HearInv /\ [Next]_vars => HearInv'
<1> SUFFICES ASSUME BaseInv, HearInv, [Next]_vars PROVE HearInv'
  OBVIOUS
<1>0. /\ pc \in [Goroutines -> PCs] /\ heard \in [Callbacks -> 0..MaxReplies]
      /\ replied \in Nat /\ snapshot \in Nat /\ known \in Nat /\ callbacks \in 0..MaxCallbacks
      /\ turn \in Nat /\ message \in Nat /\ snapshot <= callbacks /\ known <= callbacks
      /\ Runner \in Goroutines
  BY DEF BaseInv, TypeOK, LoopInv
<1>1. CASE AcceptReply
  <2>1. /\ pc[Runner] = "reply" /\ pc'[Runner] = "dispatch" /\ replied' = replied + 1
        /\ message' = replied + 1 /\ UNCHANGED <<snapshot, turn, heard>>
    BY <1>0, <1>1 DEF AcceptReply, GoesTo
  <2>2. message = NoMessage
    BY <2>1 DEF BaseInv, ControlInv
  <2>3. QED
    BY <1>0, <2>1, <2>2 DEF HearInv
<1>2. CASE Dispatch
  <2>1. /\ pc[Runner] = "dispatch" /\ pc'[Runner] = "calling" /\ snapshot' = callbacks
        /\ turn' = 1 /\ UNCHANGED <<message, heard, known, replied>>
    BY <1>0, <1>2 DEF Dispatch, GoesTo, Copied
  <2>2. message # NoMessage
    BY <2>1 DEF BaseInv, ControlInv
  <2>3. \A c \in Callbacks : heard[c] = NoMessage \/ heard[c] = replied - 1
    BY <1>0, <2>1 DEF HearInv
  <2>4. \A c \in Callbacks : c > callbacks => heard[c] = NoMessage
    BY <1>0 DEF HearInv
  <2>5. QED
    BY <1>0, <2>1, <2>2, <2>3, <2>4 DEF HearInv
<1>3. CASE StartCallback
  <2>1. /\ pc[Runner] = "calling" /\ pc'[Runner] = "callback" /\ turn <= snapshot
        /\ heard' = [heard EXCEPT ![turn] = message]
        /\ UNCHANGED <<message, snapshot, turn, known, replied>>
    BY <1>0, <1>3 DEF StartCallback, GoesTo
  <2>2. message # NoMessage /\ message = replied /\ 1 <= turn
    BY <2>1 DEF BaseInv, ControlInv, LoopInv
  <2>3. turn \in Callbacks
    BY <1>0, <2>1, <2>2
  <2>4. QED
    BY <1>0, <2>1, <2>2, <2>3 DEF HearInv
<1>4. CASE EndCallback
  <2>1. /\ pc[Runner] = "callback" /\ pc'[Runner] = "calling" /\ turn' = turn + 1
        /\ UNCHANGED <<message, snapshot, known, replied, heard>>
    BY <1>0, <1>4 DEF EndCallback, GoesTo
  <2>2. message # NoMessage
    BY <2>1 DEF BaseInv, ControlInv
  <2>3. QED
    BY <1>0, <2>1, <2>2 DEF HearInv
<1>5. CASE EndDispatch
  <2>1. /\ pc[Runner] = "calling" /\ pc'[Runner] = "handler" /\ message' = NoMessage
        /\ turn > snapshot /\ UNCHANGED <<snapshot, turn, known, replied, heard>>
    BY <1>0, <1>5 DEF EndDispatch, GoesTo
  <2>2. QED
    BY <1>0, <2>1 DEF HearInv
<1>6. CASE ~AcceptReply /\ ~Dispatch /\ ~StartCallback /\ ~EndCallback /\ ~EndDispatch
  <2>1. /\ UNCHANGED <<message, snapshot, turn, known, heard, replied>>
        /\ \/ pc'[Runner] = pc[Runner]
           \/ {pc[Runner], pc'[Runner]} \subseteq {"callback", "check", "post", "next"}
           \/ {pc[Runner], pc'[Runner]} \subseteq {"handler", "receive", "checkReply", "reply"}
           \/ pc'[Runner] \in {"recover", "closing", "ended"}
    BY <1>6, HearFrame
  <2>2. QED
    BY <2>1 DEF HearInv
<1>7. QED
  BY <1>1, <1>2, <1>3, <1>4, <1>5, <1>6

(* The types that the steps of a dispatch need.                            *)
LEMMA BaseNumbers ==
  ASSUME BaseInv
  PROVE  /\ heard \in [Callbacks -> 0..MaxReplies] /\ replied \in Nat /\ turn \in Nat
         /\ snapshot \in 0..MaxCallbacks
BY DEF BaseInv, TypeOK

(* Every callback hears the messages in order and, from its first one on,  *)
(* all of them; and PostToParent returns when all it found have heard.     *)
THEOREM CallbacksAreTold == Spec => CallbacksHear
<1> DEFINE Hears ==
      /\ \A c \in Callbacks :
           heard'[c] # heard[c] => heard[c] = NoMessage \/ heard'[c] = heard[c] + 1
      /\ pc'[Runner] = "handler" => \A c \in 1..known' : heard'[c] = replied'
<1>1. Init => HearInv
  BY DEF Init, HearInv
<1>2. BaseInv /\ HearInv /\ BaseInv' /\ HearInv' /\ [Next]_vars => [Hears]_vars
  <2> SUFFICES ASSUME BaseInv, HearInv, BaseInv', HearInv', [Next]_vars PROVE Hears
    OBVIOUS
  <2>0. /\ heard \in [Callbacks -> 0..MaxReplies] /\ replied \in Nat /\ turn \in Nat
        /\ snapshot \in 0..MaxCallbacks
    BY BaseNumbers
  <2>4. snapshot' \in Nat /\ known' \in Nat
    BY BaseInv' DEF BaseInv, TypeOK
  <2>1. ASSUME NEW c \in Callbacks, heard'[c] # heard[c]
        PROVE  heard[c] = NoMessage \/ heard'[c] = heard[c] + 1
    <3>1. StartCallback
      <4>1. AcceptReply \/ Dispatch \/ EndCallback \/ EndDispatch => heard' = heard
        BY DEF AcceptReply, Dispatch, EndCallback, EndDispatch
      <4>2. QED
        BY <2>1, <4>1, HearFrame
    <3>2. /\ pc[Runner] = "calling" /\ turn <= snapshot
          /\ heard' = [heard EXCEPT ![turn] = message]
      BY <3>1 DEF StartCallback, GoesTo
    <3>3. message = replied
      BY <3>2 DEF BaseInv, ControlInv
    <3>4. c = turn /\ heard'[c] = replied
      BY <2>0, <2>1, <3>2, <3>3
    <3>5. QED
      BY <2>0, <3>2, <3>4 DEF HearInv
  <2>2. ASSUME pc'[Runner] = "handler" PROVE \A c \in 1..known' : heard'[c] = replied'
    <3>1. message' = NoMessage
      BY <2>2 DEF BaseInv, ControlInv
    <3>2. QED
      BY <2>4, <3>1 DEF HearInv
  <2>3. QED
    BY <2>1, <2>2
<1>3. QED
  BY <1>1, <1>2, BaseInitial, BaseInductive, HearInductive, PTL DEF Spec, CallbacksHear

----------------------------------------------------------------------------
(* The error of a handler that panicked.                                   *)

(* Unless user code closes it, the worker is closed by the last step of    *)
(* its goroutine, and a panic is recovered before.                         *)
EndInv ==
  /\ done /\ ~userClosed => pc[Runner] = "ended"
  /\ panicked => pc[Runner] \in {"recover", "closing", "ended"}
  /\ panicked /\ pc[Runner] # "recover" => err

(* The recovery sets the error before it closes the channel.               *)
LEMMA EndInductive == BaseInv /\ EndInv /\ [Next]_vars => EndInv'
<1> SUFFICES ASSUME BaseInv, EndInv, [Next]_vars PROVE EndInv'
  OBVIOUS
<1> USE DEF EndInv, GoesTo
<1>0. /\ pc \in [Goroutines -> PCs] /\ pc[Runner] # "user" /\ Runner \in Goroutines
  BY DEF BaseInv, TypeOK, ControlInv
<1>1. ASSUME NEW g \in Goroutines, PostMessage(g) \/ NextMessage(g) PROVE EndInv'
  BY <1>0, <1>1 DEF PostMessage, NextMessage, ParentHasControl
<1>2. ASSUME NEW g \in Goroutines, OnMessage(g) \/ Close(g) PROVE EndInv'
  BY <1>2 DEF OnMessage, Close
<1>3. ASSUME NEW g \in Goroutines, CallStep(g) PROVE EndInv'
  BY <1>0, <1>3 DEF CallStep, CheckPost, AcceptPost, TakeReply, AbandonSelect, GivesUp
<1>4. CASE Receive \/ PostToParent \/ EndCallback \/ Return
  BY <1>0, <1>4 DEF Receive, PostToParent, EndCallback, Return
<1>5. CASE Panic
  BY <1>0, <1>5 DEF Panic, AfterPanic
<1>6. CASE Recover
  BY <1>0, <1>6 DEF Recover
<1>7. CASE EndRun
  BY <1>0, <1>7 DEF EndRun
<1>8. CASE TakeMessage \/ CheckReply \/ AcceptReply
  BY <1>0, <1>8 DEF TakeMessage, CheckReply, AcceptReply
<1>9. CASE Dispatch \/ StartCallback \/ EndDispatch
  BY <1>0, <1>9 DEF Dispatch, StartCallback, EndDispatch
<1>10. CASE UNCHANGED vars
  BY <1>10 DEF vars
<1>11. QED
  BY <1>1, <1>2, <1>3, <1>4, <1>5, <1>6, <1>7, <1>8, <1>9, <1>10 DEF Next, UserStep, RunnerStep

(* Whoever sees a worker closed by a panic finds the error.                *)
THEOREM ErrorIsSetBeforeClose == Spec => []ErrorBeforeClose
<1>1. Init => EndInv
  BY DEF Init, EndInv
<1>2. EndInv => ErrorBeforeClose
  BY DEF EndInv, ErrorBeforeClose
<1>3. QED
  BY <1>1, <1>2, BaseInitial, BaseInductive, EndInductive, PTL DEF Spec
====
