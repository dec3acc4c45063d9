---- MODULE Services ----
(***************************************************************************)
(* Seven services that share no state: the scheduler, the worker threads,  *)
(* the streams, the shared memory and the bigints of the previous runtime, *)
(* and the storage and the HTTP server of the new one.  No step of one     *)
(* depends on another's, so their interleavings show nothing that each of  *)
(* them does not show by itself: a behaviour is one of one service, chosen *)
(* at the start, and the others stay as they are.                          *)
(***************************************************************************)
EXTENDS Scheduler, ThreadWorker, Streams, SharedBuffer, BigInt, Storage, HttpServer

VARIABLE service

ServiceNames == {"scheduler", "worker", "streams", "memory", "bigint", "storage", "http"}

servicesVars == <<service, schedulerVars, workerVars, streamVars, bufferVars, bigintVars,
                  storageVars, httpVars>>

(* What another service's program would be is fixed, and not a choice.     *)
ServicesInit ==
  /\ service \in ServiceNames
  /\ IF service = "scheduler" THEN TRUE ELSE uses = CHOOSE p \in Programs : TRUE
  /\ IF service = "streams" THEN TRUE ELSE script = CHOOSE s \in Scripts : TRUE
  /\ IF service = "bigint" THEN TRUE ELSE operation = CHOOSE o \in Operations : TRUE
  /\ IF service = "http" THEN TRUE ELSE program = CHOOSE p \in ServerPrograms : TRUE
  /\ SchedulerInit /\ ThreadWorkerInit /\ StreamsInit /\ SharedBufferInit /\ BigIntInit
  /\ StorageInit /\ HttpServerInit

ServicesNext ==
  /\ UNCHANGED service
  /\ IF service = "scheduler" THEN SchedulerNext ELSE UNCHANGED schedulerVars
  /\ IF service = "worker" THEN ThreadWorkerNext ELSE UNCHANGED workerVars
  /\ IF service = "streams" THEN StreamsNext ELSE UNCHANGED streamVars
  /\ IF service = "memory" THEN SharedBufferNext ELSE UNCHANGED bufferVars
  /\ IF service = "bigint" THEN Evaluate ELSE UNCHANGED bigintVars
  /\ IF service = "storage" THEN StorageNext ELSE UNCHANGED storageVars
  /\ IF service = "http" THEN HttpServerNext ELSE UNCHANGED httpVars

ServicesSpec == ServicesInit /\ [][ServicesNext]_servicesVars /\ SchedulerFairness

(* Promises, tasks, queues, the pool, a worker's two queues, the listeners *)
(* of a stream or a server, shared bytes, stores and the file hold what    *)
(* their code can put there, whatever is called.                           *)
ServicesTypeOK ==
  /\ service \in ServiceNames
  /\ SchedulerTypeOK /\ ThreadWorkerTypeOK /\ StreamsTypeOK /\ SharedBufferTypeOK
  /\ BigIntTypeOK /\ StorageTypeOK /\ HttpServerTypeOK
====
