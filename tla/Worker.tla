---- MODULE Worker ----
(***************************************************************************)
(* runtime/worker_internal.go: a worker goroutine, its bounded inbox and   *)
(* outbox, the parent's message callbacks, and Close.                      *)
(*                                                                         *)
(* The goroutine NewWorker starts executes the handler, which is user      *)
(* code, and also the parent's callbacks: PostToParent calls them.  Any    *)
(* number of other goroutines use the worker from outside.  A select that  *)
(* can go on in several ways goes on in any of them.                       *)
(***************************************************************************)
EXTENDS Integers, Sequences, FiniteSets

CONSTANTS
  Parents,       (* goroutines that use the worker from outside             *)
  Runner,        (* the goroutine that NewWorker starts                     *)
  Surface,       (* what user code calls besides PostMessage and OnMessage:
                    "next" (NextMessage), "close" (Close)                   *)
  Capacity,      (* of the inbox and of the outbox: 32 in NewWorker         *)
  MaxPosts,      (* calls of PostMessage that are not refused, at most      *)
  MaxReplies,    (* messages the handler posts to the parent                *)
  MaxCallbacks   (* callbacks registered over a behaviour                   *)

ASSUME WorkerAssumption ==
  /\ Runner \notin Parents
  /\ Surface \subseteq {"next", "close"}
  /\ Capacity \in Nat \ {0}
  /\ MaxPosts \in Nat
  /\ MaxReplies \in Nat
  /\ MaxCallbacks \in Nat

VARIABLES
  (* --- Worker's fields --- *)
  inbox, outbox,  (* messages, each named by its place in the order in
                     which its channel accepted them                        *)
  done,           (* the channel done is closed                             *)
  callbacks,      (* callbacks 1..callbacks are registered                  *)
  err,            (* worker.err is set                                      *)
  (* --- where each goroutine is --- *)
  pc,
  message,        (* dispatch's parameter, NoMessage outside it             *)
  snapshot,       (* dispatch's copy: callbacks 1..snapshot                 *)
  turn,           (* the callback of dispatch's loop                        *)
  (* --- history --- *)
  posted, received, replied,  (* messages accepted, and received, so far    *)
  late,           (* the running or last PostMessage of each goroutine was
                     called when the worker was closed already              *)
  lateAccepted,   (* such a call has had its message accepted               *)
  known,          (* callbacks registered when the last reply was accepted  *)
  heard,          (* the last message each callback was called with         *)
  panicked, userClosed

channels == <<inbox, outbox, done, callbacks, err>>
dispatching == <<message, snapshot, turn>>
history == <<posted, received, replied, late, lateAccepted, known, heard,
             panicked, userClosed>>
vars == <<channels, pc, dispatching, history>>

Goroutines == Parents \cup {Runner}
Callbacks == 1..MaxCallbacks
NoMessage == 0

(* "user", "handler" and "callback": user code has control.  "post",       *)
(* "receive", "reply" and "next" are the selects of the four calls.        *)
Selects == {"post", "receive", "reply", "next"}
PCs == {"user", "handler", "callback", "check", "checkReply", "dispatch",
        "calling", "recover", "closing", "ended"} \cup Selects

(* A nil handler: run goes straight to its deferred Close.                 *)
Init ==
  /\ inbox = <<>>
  /\ outbox = <<>>
  /\ done = FALSE
  /\ callbacks = 0
  /\ err = FALSE
  /\ \E start \in {"handler", "closing"} :
       pc = [g \in Goroutines |-> IF g = Runner THEN start ELSE "user"]
  /\ message = NoMessage
  /\ snapshot = 0
  /\ turn = 0
  /\ posted = 0
  /\ received = 0
  /\ replied = 0
  /\ late = [g \in Goroutines |-> FALSE]
  /\ lateAccepted = FALSE
  /\ known = 0
  /\ heard = [c \in Callbacks |-> NoMessage]
  /\ panicked = FALSE
  /\ userClosed = FALSE

(* Where a call returns to: the worker's goroutine calls from the handler  *)
(* or, during a dispatch, from a callback.                                 *)
Caller(g) ==
  IF g \in Parents THEN "user"
  ELSE IF message = NoMessage THEN "handler" ELSE "callback"

GoesTo(g, from, to) == pc[g] = from /\ pc' = [pc EXCEPT ![g] = to]

(* Parent's code: outside the worker, and in the callbacks.                *)
ParentHasControl(g) == pc[g] \in {"user", "callback"}

----------------------------------------------------------------------------
(* PostMessage: the closed check, then the select.                         *)

Posting == {g \in Goroutines : pc[g] \in {"check", "post"}}

PostMessage(g) ==
  /\ ParentHasControl(g)
  /\ posted + Cardinality(Posting) < MaxPosts
  /\ pc' = [pc EXCEPT ![g] = "check"]
  /\ late' = [late EXCEPT ![g] = done]
  /\ UNCHANGED <<channels, dispatching, posted, received, replied, lateAccepted,
                 known, heard, panicked, userClosed>>

Passes == ~done

CheckPost(g) ==
  /\ GoesTo(g, "check", IF Passes THEN "post" ELSE Caller(g))
  /\ UNCHANGED <<channels, dispatching, history>>

(* Mutant: a channel without a limit.                                      *)
HasRoomAlways(channel) == TRUE

HasRoom(channel) == Len(channel) < Capacity

(* Mutant: the select has a default case, which drops the message.         *)
AcceptPostOrDrop(g) ==
  /\ GoesTo(g, "post", Caller(g))
  /\ inbox' = IF HasRoom(inbox) THEN Append(inbox, posted + 1) ELSE inbox
  /\ posted' = posted + 1
  /\ lateAccepted' = (lateAccepted \/ late[g])
  /\ UNCHANGED <<outbox, done, callbacks, err, dispatching, received, replied, late,
                 known, heard, panicked, userClosed>>

AcceptPost(g) ==
  /\ GoesTo(g, "post", Caller(g))
  /\ HasRoom(inbox)
  /\ inbox' = Append(inbox, posted + 1)
  /\ posted' = posted + 1
  /\ lateAccepted' = (lateAccepted \/ late[g])
  /\ UNCHANGED <<outbox, done, callbacks, err, dispatching, received, replied, late,
                 known, heard, panicked, userClosed>>

(* Every select also waits for done.                                       *)
(* Mutant: a sender or receiver waits for its channel only.                *)
GivesUpNever(g) == FALSE

GivesUp(g) == done /\ pc[g] \in Selects

AbandonSelect(g) ==
  /\ GivesUp(g)
  /\ pc' = [pc EXCEPT ![g] = Caller(g)]
  /\ UNCHANGED <<channels, dispatching, history>>

----------------------------------------------------------------------------
(* The handler's calls.                                                    *)

Receive ==
  /\ GoesTo(Runner, "handler", "receive")
  /\ UNCHANGED <<channels, dispatching, history>>

TakeMessage ==
  /\ GoesTo(Runner, "receive", "handler")
  /\ inbox # <<>>
  /\ inbox' = Tail(inbox)
  /\ received' = Head(inbox)
  /\ UNCHANGED <<outbox, done, callbacks, err, dispatching, posted, replied, late,
                 lateAccepted, known, heard, panicked, userClosed>>

PostToParent ==
  /\ replied < MaxReplies
  /\ GoesTo(Runner, "handler", "checkReply")
  /\ UNCHANGED <<channels, dispatching, history>>

CheckReply ==
  /\ GoesTo(Runner, "checkReply", IF Passes THEN "reply" ELSE "handler")
  /\ UNCHANGED <<channels, dispatching, history>>

AcceptReply ==
  /\ GoesTo(Runner, "reply", "dispatch")
  /\ HasRoom(outbox)
  /\ outbox' = Append(outbox, replied + 1)
  /\ replied' = replied + 1
  /\ message' = replied + 1
  /\ known' = callbacks
  /\ UNCHANGED <<inbox, done, callbacks, err, snapshot, turn, posted, received, late,
                 lateAccepted, heard, panicked, userClosed>>

(* Mutant: the copy is made once, when the first message is dispatched.    *)
CopiedOnce == IF snapshot = 0 THEN callbacks ELSE snapshot

Copied == callbacks

(* dispatch copies the callbacks under the lock and calls the copies.      *)
Dispatch ==
  /\ GoesTo(Runner, "dispatch", "calling")
  /\ snapshot' = Copied
  /\ turn' = 1
  /\ UNCHANGED <<channels, message, history>>

StartCallback ==
  /\ turn <= snapshot
  /\ GoesTo(Runner, "calling", "callback")
  /\ heard' = [heard EXCEPT ![turn] = message]
  /\ UNCHANGED <<channels, dispatching, posted, received, replied, late,
                 lateAccepted, known, panicked, userClosed>>

EndCallback ==
  /\ GoesTo(Runner, "callback", "calling")
  /\ turn' = turn + 1
  /\ UNCHANGED <<channels, message, snapshot, history>>

EndDispatch ==
  /\ turn > snapshot
  /\ GoesTo(Runner, "calling", "handler")
  /\ message' = NoMessage
  /\ UNCHANGED <<channels, snapshot, turn, history>>

----------------------------------------------------------------------------
(* The parent's other calls.                                               *)

OnMessage(g) ==
  /\ ParentHasControl(g)
  /\ callbacks < MaxCallbacks
  /\ callbacks' = callbacks + 1
  /\ UNCHANGED <<inbox, outbox, done, err, pc, dispatching, history>>

NextMessage(g) ==
  /\ "next" \in Surface
  /\ ParentHasControl(g)
  /\ pc' = [pc EXCEPT ![g] = "next"]
  /\ UNCHANGED <<channels, dispatching, history>>

TakeReply(g) ==
  /\ GoesTo(g, "next", Caller(g))
  /\ outbox # <<>>
  /\ outbox' = Tail(outbox)
  /\ UNCHANGED <<inbox, done, callbacks, err, dispatching, history>>

Close(g) ==
  /\ "close" \in Surface
  /\ pc[g] \in {"user", "callback", "handler"}
  /\ ~done
  /\ done' = TRUE
  /\ userClosed' = TRUE
  /\ UNCHANGED <<inbox, outbox, callbacks, err, pc, dispatching, posted, received,
                 replied, late, lateAccepted, known, heard, panicked>>

----------------------------------------------------------------------------
(* The end of run: a panic is recovered and recorded, then Close runs.     *)

Return ==
  /\ GoesTo(Runner, "handler", "closing")
  /\ UNCHANGED <<channels, dispatching, history>>

(* Of the handler, or of a callback: it is on the same stack.              *)
(* Mutant: Close is deferred last and so runs first.                       *)
AfterPanicClose == "closing"

AfterPanic == "recover"

Panic ==
  /\ pc[Runner] \in {"handler", "callback"}
  /\ pc' = [pc EXCEPT ![Runner] = AfterPanic]
  /\ panicked' = TRUE
  /\ UNCHANGED <<channels, dispatching, posted, received, replied, late,
                 lateAccepted, known, heard, userClosed>>

Recover ==
  /\ GoesTo(Runner, "recover", "closing")
  /\ err' = TRUE
  /\ UNCHANGED <<inbox, outbox, done, callbacks, dispatching, history>>

EndRun ==
  /\ GoesTo(Runner, "closing", "ended")
  /\ done' = TRUE
  /\ UNCHANGED <<inbox, outbox, callbacks, err, dispatching, history>>

----------------------------------------------------------------------------
(* What user code decides, and what follows from it.                       *)

UserStep ==
  \/ \E g \in Goroutines :
       PostMessage(g) \/ OnMessage(g) \/ NextMessage(g) \/ Close(g)
  \/ Receive
  \/ PostToParent
  \/ EndCallback
  \/ Return
  \/ Panic

CallStep(g) == CheckPost(g) \/ AcceptPost(g) \/ TakeReply(g) \/ AbandonSelect(g)

RunnerStep ==
  \/ TakeMessage
  \/ CheckReply
  \/ AcceptReply
  \/ Dispatch
  \/ StartCallback
  \/ EndDispatch
  \/ Recover
  \/ EndRun

Next == UserStep \/ (\E g \in Goroutines : CallStep(g)) \/ RunnerStep

Spec == Init /\ [][Next]_vars

(* A goroutine that can go on does.  User code need not call anything, and *)
(* its callbacks and its handler need not return.                          *)
FairSpec ==
  /\ Spec
  /\ \A p \in Parents : WF_vars(CallStep(p))
  /\ WF_vars(CallStep(Runner) \/ RunnerStep)

----------------------------------------------------------------------------
(* Properties.                                                             *)

TypeOK ==
  /\ inbox \in Seq(1..MaxPosts) /\ Len(inbox) <= Capacity
  /\ outbox \in Seq(1..MaxReplies) /\ Len(outbox) <= Capacity
  /\ done \in BOOLEAN
  /\ callbacks \in 0..MaxCallbacks
  /\ err \in BOOLEAN
  /\ pc \in [Goroutines -> PCs]
  /\ message \in 0..MaxReplies
  /\ snapshot \in 0..MaxCallbacks
  /\ turn \in 0..(MaxCallbacks + 1)
  /\ posted \in 0..MaxPosts
  /\ received \in 0..MaxPosts
  /\ replied \in 0..MaxReplies
  /\ late \in [Goroutines -> BOOLEAN]
  /\ lateAccepted \in BOOLEAN
  /\ known \in 0..MaxCallbacks
  /\ heard \in [Callbacks -> 0..MaxReplies]
  /\ panicked \in BOOLEAN
  /\ userClosed \in BOOLEAN

(* A nil error from PostMessage means the message waits in the inbox or    *)
(* has been received: with several goroutines posting, with the inbox full *)
(* and with Close at any moment, none is dropped and none is overtaken.  A *)
(* call made after the worker was closed never has that answer, though its *)
(* select might find room in the inbox as well as done closed.             *)
MessagesKept ==
  /\ received + Len(inbox) = posted
  /\ \A i \in 1..Len(inbox) : inbox[i] = received + i
  /\ ~lateAccepted

(* A callback is called with the messages in the order they were posted    *)
(* and, from its first one on, with every one of them; and when            *)
(* PostToParent has returned, every callback that was registered when the  *)
(* message was accepted has been called with it, whatever other goroutines *)
(* and the callbacks themselves registered meanwhile.                      *)
CallbacksHear ==
  [][/\ \A c \in Callbacks :
          heard'[c] # heard[c] => heard[c] = NoMessage \/ heard'[c] = heard[c] + 1
     /\ pc'[Runner] = "handler" => \A c \in 1..known' : heard'[c] = replied']_vars

(* Whoever sees a worker closed by the end of a handler that panicked      *)
(* finds the error in LastError.                                           *)
ErrorBeforeClose == panicked /\ done /\ ~userClosed => err

(* Nobody is left waiting in a call when the worker is closed or its       *)
(* handler has ended, by a return or a panic.                              *)
Ending == done \/ pc[Runner] \in {"recover", "closing", "ended"}

WaitersReleased ==
  \A g \in Goroutines : (Ending /\ pc[g] \in Selects) ~> pc[g] \notin Selects

----------------------------------------------------------------------------
(* What the repository says and the code does not do.                      *)

(* docs/workers.md:12 offers "message callbacks registered by the parent"  *)
(* as the way to get messages, and the worker.* surface has no other one:  *)
(* a message that the handler posts reaches the outbox and the callbacks.  *)
RepliesGoOut == pc[Runner] = "reply" ~> pc[Runner] # "reply"
====
