---- MODULE ThreadWorker ----
(***************************************************************************)
(* old_version/runtime/jayess_runtime_process.c: worker.create of the      *)
(* previous runtime.  A worker is a thread with an inbound and an outbound *)
(* queue under one lock; the thread that created it posts messages, waits  *)
(* for answers with or without a timeout, and terminates it.  A message is *)
(* named by its place in the order in which messages were accepted, and    *)
(* its answer by the same number; whether the handler answered or threw,   *)
(* each message makes one envelope, so the two are not told apart.         *)
(***************************************************************************)
EXTENDS Integers, Sequences, SequencesExt

CONSTANT MaxMessages (* messages accepted over a behaviour                  *)

ASSUME ThreadWorkerAssumption == MaxMessages \in Nat

VARIABLES
  (* --- jayess_worker_state --- *)
  inbound, outbound, terminateRequested, closed,
  handle,    (* object->native_handle is there                              *)
  thread,    (* waiting, handling, answering or exited                      *)
  inHand,    (* the message the thread has taken                            *)
  (* --- the thread of the owner --- *)
  owner,     (* running, receiving, receivingTimed or terminating           *)
  (* --- history --- *)
  posted,    (* messages accepted                                           *)
  answered,  (* messages the handler has been run for                       *)
  received   (* the answers handed out                                      *)

workerVars == <<inbound, outbound, terminateRequested, closed, handle, thread, inHand,
                owner, posted, answered, received>>

Message == 1..MaxMessages
Nothing == <<>>

ThreadWorkerInit ==
  /\ inbound = <<>> /\ outbound = <<>> /\ terminateRequested = FALSE /\ closed = FALSE
  /\ handle = TRUE /\ thread = "waiting" /\ inHand = Nothing
  /\ owner = "running"
  /\ posted = 0 /\ answered = 0 /\ received = <<>>

(* postMessage.  A value that cannot be cloned, a terminated worker and    *)
(* a closed one are refused and change nothing.                            *)
PostMessage ==
  /\ owner = "running" /\ handle /\ ~closed /\ ~terminateRequested
  /\ posted < MaxMessages
  /\ posted' = posted + 1
  /\ inbound' = Append(inbound, posted + 1)
  /\ UNCHANGED <<outbound, terminateRequested, closed, handle, thread, inHand, owner,
                 answered, received>>

(* receive: the wait begins.                                               *)
Receive ==
  /\ owner = "running" /\ handle
  /\ owner' \in {"receiving", "receivingTimed"}
  /\ UNCHANGED <<inbound, outbound, terminateRequested, closed, handle, thread, inHand,
                 posted, answered, received>>

ReceiveAnswer ==
  /\ owner \in {"receiving", "receivingTimed"}
  /\ outbound # <<>>
  /\ received' = Append(received, Head(outbound))
  /\ outbound' = Tail(outbound)
  /\ owner' = "running"
  /\ UNCHANGED <<inbound, terminateRequested, closed, handle, thread, inHand, posted, answered>>

(* The wait is over with nothing: the worker is closed, or the time is up. *)
(* The Windows build answers with nothing then even if an answer is there. *)
ReceiveNothing ==
  /\ owner \in {"receiving", "receivingTimed"}
  /\ owner = "receiving" => closed /\ outbound = <<>>
  /\ owner' = "running"
  /\ UNCHANGED <<inbound, outbound, terminateRequested, closed, handle, thread, inHand,
                 posted, answered, received>>

(* terminate asks the thread to stop and joins it.                         *)
Terminate ==
  /\ owner = "running" /\ handle
  /\ terminateRequested' = TRUE
  /\ owner' = "terminating"
  /\ UNCHANGED <<inbound, outbound, closed, handle, thread, inHand, posted, answered, received>>

TerminateJoined ==
  /\ owner = "terminating" /\ thread = "exited"
  /\ closed' = TRUE /\ handle' = FALSE
  /\ inbound' = <<>> /\ outbound' = <<>>
  /\ owner' = "running"
  /\ UNCHANGED <<terminateRequested, thread, inHand, posted, answered, received>>

(* jayess_worker_thread_main.                                              *)
TakeMessage ==
  /\ thread = "waiting" /\ inbound # <<>>
  /\ inHand' = <<Head(inbound)>>
  /\ inbound' = Tail(inbound)
  /\ thread' = "handling"
  /\ UNCHANGED <<outbound, terminateRequested, closed, handle, owner, posted, answered, received>>

(* Mutant: the handler is run again for the message in hand.              *)
HandleMessageAgain ==
  /\ thread = "handling"
  /\ answered' = answered + 1
  /\ UNCHANGED <<inbound, outbound, terminateRequested, closed, handle, thread, inHand, owner,
                 posted, received>>

HandleMessage ==
  /\ thread = "handling"
  /\ answered' = answered + 1
  /\ thread' = "answering"
  /\ UNCHANGED <<inbound, outbound, terminateRequested, closed, handle, inHand, owner,
                 posted, received>>

PushAnswer ==
  /\ thread = "answering"
  /\ outbound' = outbound \o inHand
  /\ inHand' = Nothing
  /\ thread' = "waiting"
  /\ UNCHANGED <<inbound, terminateRequested, closed, handle, owner, posted, answered, received>>

(* Mutant: the thread stops at terminate, whatever waits in its queue.     *)
ThreadExitsAtOnce ==
  /\ thread = "waiting" /\ terminateRequested
  /\ closed' = TRUE
  /\ thread' = "exited"
  /\ UNCHANGED <<inbound, outbound, terminateRequested, handle, inHand, owner,
                 posted, answered, received>>

ThreadExits ==
  /\ thread = "waiting" /\ terminateRequested /\ inbound = <<>>
  /\ closed' = TRUE
  /\ thread' = "exited"
  /\ UNCHANGED <<inbound, outbound, terminateRequested, handle, inHand, owner,
                 posted, answered, received>>

ThreadWorkerNext ==
  \/ PostMessage \/ Receive \/ ReceiveAnswer \/ ReceiveNothing \/ Terminate \/ TerminateJoined
  \/ TakeMessage \/ HandleMessage \/ PushAnswer \/ ThreadExits

ThreadWorkerTypeOK ==
  /\ inbound \in Seq(Message) /\ outbound \in Seq(Message)
  /\ terminateRequested \in BOOLEAN /\ closed \in BOOLEAN /\ handle \in BOOLEAN
  /\ thread \in {"waiting", "handling", "answering", "exited"}
  /\ inHand \in {Nothing} \union {<<m>> : m \in Message}
  /\ owner \in {"running", "receiving", "receivingTimed", "terminating"}
  /\ posted \in 0..MaxMessages /\ answered \in 0..MaxMessages /\ received \in Seq(Message)

(* Between postMessage, the worker's thread, receive with timeouts that    *)
(* race the answers, and terminate: the answers handed out, those that     *)
(* wait, the message in hand and those that wait for it are all accepted   *)
(* messages, each once and in the order of posting.  terminate throws away *)
(* what was not received, but only after every accepted message has been   *)
(* handled, and when the thread is gone.                                   *)
AnswersInOrder ==
  LET accepted == [m \in 1..posted |-> m]
  IN /\ handle => received \o outbound \o inHand \o inbound = accepted
     /\ ~handle => IsPrefix(received, accepted) /\ thread = "exited"
     /\ thread = "exited" => answered = posted

ThreadWorkerSpec == ThreadWorkerInit /\ [][ThreadWorkerNext]_workerVars

====
