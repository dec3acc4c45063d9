---- MODULE ServicesProofs ----
(***************************************************************************)
(* Theorems about the storage, for every number of stores, clients, keys,  *)
(* values, calls and crashes; about the previous runtime's worker threads  *)
(* and shared memory, for every number of messages, threads, bytes and     *)
(* accesses; and about the services side by side: putting them into one    *)
(* specification, of which a behaviour is one of one service, gives none   *)
(* of them a step, or a start, that it does not have by itself.            *)
(***************************************************************************)
EXTENDS Services, SchedulerProofs, StreamProofs, HttpServerProofs

----------------------------------------------------------------------------
(* Storage.                                                                *)

(* A call in progress is one of an open store.  It holds its store's lock  *)
(* from the change of the map to the end of the write, and what it is      *)
(* about to write is what the store has in memory.                         *)
CallInv ==
  \A c \in Clients :
    /\ calls[c].step # "none" => calls[c].store \in Stores /\ opened[calls[c].store]
    /\ calls[c].step = "none" => calls[c].store = NoStore
    /\ calls[c].step \in {"locked", "truncated"} =>
         /\ mu[calls[c].store] = c
         /\ calls[c].data = values[calls[c].store]
         /\ calls[c].key # None => calls[c].data[calls[c].key] = calls[c].value

(* Who holds a lock is between the change of the map and the end of the    *)
(* write, in that store.                                                   *)
LockInv ==
  \A s \in Stores, c \in Clients :
    mu[s] = c => calls[c].store = s /\ calls[c].step \in {"locked", "truncated"}

(* The file and the memory of the store that wrote it last agree while no  *)
(* call is at work on that store, if no other store wrote in between.      *)
WriterInv ==
  writer # NoStore =>
    /\ opened[writer]
    /\ mu[writer] = NoClient => file = Holds(values[writer])

(* What is owed for a key is in the file, unless a write is under way that *)
(* has truncated it, and in the memory of the store opened last.           *)
OwedInv ==
  \A k \in Keys :
    owed[k] # Free =>
      /\ \/ file.kind = "map" /\ file.map[k] = owed[k]
         \/ file.kind = "empty" /\ \E c \in Clients : calls[c].step = "truncated"
      /\ newest # NoStore => values[newest][k] = owed[k]

(* The inductive invariant.                                                *)
StorageInv ==
  StorageTypeOK /\ CallInv /\ LockInv /\ WriterInv /\ OwedInv

USE StorageAssumption DEF StorageAssumption, storeVars, Map

(* A call as putting its fields together can make it.                      *)
CallType ==
  [step : {"none", "checked", "locked", "truncated"}, store : Stores \union {NoStore},
   op : {"none", "put", "delete", "close"}, key : Keys \union {None},
   value : Values \union {None}, data : Map]

(* What a store's map becomes under the lock is a map with the change.     *)
LEMMA Changed ==
  ASSUME NEW m \in Map, NEW k \in Keys, NEW v \in Values \union {None}
  PROVE  /\ [m EXCEPT ![k] = v] \in Map
         /\ [m EXCEPT ![k] = v][k] = v
         /\ \A j \in Keys \ {k} : [m EXCEPT ![k] = v][j] = m[j]
OBVIOUS

(* Opening a store that is not open touches no call in progress.           *)
LEMMA OpenKeeps ==
  ASSUME StorageInv, NEW s \in Stores, StorageOpen(s)
  PROVE  StorageInv'
<1>0. /\ StorageTypeOK /\ CallInv /\ LockInv /\ WriterInv /\ OwedInv
  BY DEF StorageInv
<1>1. /\ ~opened[s] /\ opened' = [opened EXCEPT ![s] = TRUE]
      /\ values' = [values EXCEPT ![s] = file.map] /\ newest' = s
      /\ owed' = IF \E other \in Stores \ {s} : InUse(other) THEN NothingOwed ELSE owed
      /\ UNCHANGED <<file, shut, mu, calls, writer, made, crashes>>
  BY DEF StorageOpen
<1>2. StorageTypeOK'
  BY <1>0, <1>1 DEF StorageTypeOK, NothingOwed
<1>3. CallInv' /\ LockInv'
  BY <1>0, <1>1 DEF StorageTypeOK, CallInv, LockInv
<1>4. WriterInv'
  BY <1>0, <1>1 DEF StorageTypeOK, WriterInv
<1>5. OwedInv'
  <2> SUFFICES ASSUME NEW k \in Keys, owed'[k] # Free
               PROVE  /\ file.kind = "map" /\ file.map[k] = owed'[k]
                      /\ values'[s][k] = owed'[k]
    BY <1>1 DEF OwedInv
  <2>1. owed' = owed /\ \A other \in Stores \ {s} : ~InUse(other)
    BY <1>1 DEF NothingOwed
  <2>2. values'[s] = file.map
    BY <1>0, <1>1 DEF StorageTypeOK
  <2>3. ASSUME NEW c \in Clients PROVE calls[c].step # "truncated"
    <3>1. CASE calls[c].step = "truncated"
      <4>1. calls[c].store \in Stores \ {s} /\ InUse(calls[c].store)
        BY <1>0, <1>1, <3>1 DEF CallInv, InUse
      <4>2. QED
        BY <2>1, <4>1
    <3>2. QED
      BY <3>1
  <2>4. file.kind = "map" /\ file.map[k] = owed[k]
    BY <1>0, <2>1, <2>3 DEF OwedInv
  <2>5. QED
    BY <2>1, <2>2, <2>4
<1>6. QED
  BY <1>2, <1>3, <1>4, <1>5 DEF StorageInv

(* A call begins, or a second close is refused: only calls changes.        *)
LEMMA BeginKeeps ==
  ASSUME StorageInv, NEW c \in Clients, NEW s \in Stores,
         NEW op \in {"put", "delete", "close"}, NEW k \in Keys \union {None},
         NEW v \in Values \union {None}, Begin(c, s, op, k, v)
  PROVE  StorageInv'
<1>0. /\ StorageTypeOK /\ CallInv /\ LockInv /\ WriterInv /\ OwedInv
  BY DEF StorageInv
<1>1. /\ calls[c] = NoCall /\ opened[s] /\ made < MaxCalls /\ made' = made + 1
      /\ UNCHANGED <<file, storeVars, newest, writer, owed, crashes>>
  BY DEF Begin
<1>2. DEFINE call == [NoCall EXCEPT !.step = "checked", !.store = s, !.op = op,
                                    !.key = k, !.value = v]
<1>3. /\ calls' = [calls EXCEPT ![c] = call]
      /\ call \in CallType /\ call.step = "checked" /\ call.store = s
  BY DEF Begin, NoCall, EmptyMap, CallType
<1> HIDE DEF call
<1>4. calls \in [Clients -> CallType]
  BY <1>0 DEF StorageTypeOK, CallType
<1>5. StorageTypeOK'
  <2>1. calls' \in [Clients -> CallType] /\ made' \in 0..MaxCalls
    BY <1>0, <1>1, <1>3, <1>4 DEF StorageTypeOK
  <2>2. QED
    BY <1>0, <1>1, <2>1 DEF StorageTypeOK, CallType
<1>6. /\ calls'[c] = call
      /\ \A d \in Clients \ {c} : calls'[d] = calls[d]
  BY <1>3, <1>4
<1>7. CallInv' /\ LockInv'
  BY <1>0, <1>1, <1>3, <1>6 DEF CallInv, LockInv, NoCall
<1>8. WriterInv'
  BY <1>0, <1>1 DEF WriterInv
<1>9. OwedInv'
  <2>1. calls[c].step # "truncated"
    BY <1>1 DEF NoCall
  <2>2. QED
    BY <1>0, <1>1, <1>6, <2>1 DEF OwedInv
<1>10. QED
  BY <1>5, <1>7, <1>8, <1>9 DEF StorageInv

(* What the other clients have in hand while c makes a step under the      *)
(* lock of its store: no other call holds that lock.                       *)
LEMMA OneWriter ==
  ASSUME StorageInv, NEW c \in Clients, calls[c].step \in {"locked", "truncated"}
  PROVE  /\ calls[c].store \in Stores /\ opened[calls[c].store] /\ mu[calls[c].store] = c
         /\ calls[c].data = values[calls[c].store]
         /\ calls[c] \in CallType
         /\ \A d \in Clients \ {c} :
              calls[d].step \in {"locked", "truncated"} => calls[d].store # calls[c].store
BY DEF StorageInv, CallInv, StorageTypeOK, CallType

(* The change of the map: nothing is owed for its key, and nobody else is  *)
(* between the change and the end of a write of this store.                *)
LEMMA LockKeeps ==
  ASSUME StorageInv, NEW c \in Clients, Lock(c)
  PROVE  StorageInv'
<1>0. /\ StorageTypeOK /\ CallInv /\ LockInv /\ WriterInv /\ OwedInv
  BY DEF StorageInv
<1> DEFINE s == calls[c].store
           k == calls[c].key
           after == IF k = None THEN values[s] ELSE [values[s] EXCEPT ![k] = calls[c].value]
<1>1. /\ calls[c].step = "checked" /\ mu[s] = NoClient
      /\ mu' = [mu EXCEPT ![s] = c]
      /\ values' = [values EXCEPT ![s] = after]
      /\ calls' = [calls EXCEPT ![c].step = "locked", ![c].data = after]
      /\ owed' = IF k = None THEN owed ELSE [owed EXCEPT ![k] = Free]
      /\ UNCHANGED <<file, opened, shut, newest, writer, made, crashes>>
  BY DEF Lock, Unlocked
<1>2. /\ calls \in [Clients -> CallType] /\ s \in Stores /\ opened[s]
      /\ k \in Keys \union {None} /\ calls[c].value \in Values \union {None}
      /\ values \in [Stores -> Map] /\ mu \in [Stores -> Clients \union {NoClient}]
      /\ owed \in [Keys -> Values \union {None, Free}]
  BY <1>0, <1>1 DEF StorageTypeOK, CallType, CallInv
<1>3. /\ after \in Map
      /\ k # None => after[k] = calls[c].value
      /\ \A j \in Keys : j # k => after[j] = values[s][j]
      /\ k = None => after = values[s]
  BY <1>2, Changed
<1> HIDE DEF after
<1>4. /\ calls' \in [Clients -> CallType]
      /\ calls'[c].step = "locked" /\ calls'[c].data = after
      /\ calls'[c].store = s /\ calls'[c].key = k /\ calls'[c].value = calls[c].value
      /\ \A d \in Clients \ {c} : calls'[d] = calls[d]
  <2>1. /\ calls'[c] = [calls[c] EXCEPT !.step = "locked", !.data = after]
        /\ \A d \in Clients \ {c} : calls'[d] = calls[d]
        /\ calls' \in [Clients -> {calls[d] : d \in Clients}
                                   \union {[calls[c] EXCEPT !.step = "locked", !.data = after]}]
    BY <1>1, <1>2
  <2>2. calls[c] \in CallType
    BY <1>2
  <2>3. /\ [calls[c] EXCEPT !.step = "locked", !.data = after] \in CallType
        /\ calls'[c].step = "locked" /\ calls'[c].data = after
        /\ calls'[c].store = s /\ calls'[c].key = k /\ calls'[c].value = calls[c].value
    BY <1>3, <2>1, <2>2 DEF CallType
  <2>4. calls' \in [Clients -> CallType]
    BY <1>2, <2>1, <2>3
  <2>5. QED
    BY <2>1, <2>3, <2>4
<1>5. /\ values' \in [Stores -> Map] /\ values'[s] = after
      /\ \A r \in Stores \ {s} : values'[r] = values[r]
      /\ mu' \in [Stores -> Clients \union {NoClient}] /\ mu'[s] = c
      /\ \A r \in Stores \ {s} : mu'[r] = mu[r]
  BY <1>1, <1>2, <1>3
<1>6. /\ owed' \in [Keys -> Values \union {None, Free}]
      /\ \A j \in Keys : owed'[j] = Free \/ (owed'[j] = owed[j] /\ (k # None => j # k))
  BY <1>1, <1>2
<1> HIDE DEF s, k
<1>7. StorageTypeOK'
  BY <1>0, <1>1, <1>4, <1>5, <1>6 DEF StorageTypeOK, CallType
<1>8. CallInv'
  <2>1. ASSUME NEW d \in Clients \ {c}, calls[d].step \in {"locked", "truncated"}
        PROVE  calls[d].store # s
    BY <1>0, <1>1, <2>1 DEF CallInv, s
  <2>2. QED
    BY <1>0, <1>1, <1>2, <1>3, <1>4, <1>5, <2>1 DEF CallInv
<1>9. LockInv'
  <2> SUFFICES ASSUME NEW r \in Stores, NEW d \in Clients, mu'[r] = d
               PROVE  calls'[d].store = r /\ calls'[d].step \in {"locked", "truncated"}
    BY DEF LockInv
  <2>1. CASE r = s
    BY <1>4, <1>5, <2>1
  <2>2. CASE r # s
    <3>1. mu[r] = d /\ calls[d].store = r /\ calls[d].step \in {"locked", "truncated"}
      BY <1>0, <1>5, <2>2 DEF LockInv
    <3>2. d # c
      BY <1>1, <3>1
    <3>3. QED
      BY <1>4, <3>1, <3>2
  <2>3. QED
    BY <2>1, <2>2
<1>10. WriterInv'
  BY <1>0, <1>1, <1>2, <1>5 DEF WriterInv, StorageTypeOK
<1>11. OwedInv'
  <2> SUFFICES ASSUME NEW j \in Keys, owed'[j] # Free
               PROVE  /\ \/ file.kind = "map" /\ file.map[j] = owed'[j]
                         \/ file.kind = "empty" /\ \E d \in Clients : calls'[d].step = "truncated"
                      /\ newest # NoStore => values'[newest][j] = owed'[j]
    BY <1>1 DEF OwedInv
  <2>1. owed'[j] = owed[j] /\ (k # None => j # k)
    BY <1>6
  <2>2. newest # NoStore => values'[newest][j] = values[newest][j]
    BY <1>0, <1>3, <1>5, <2>1 DEF StorageTypeOK
  <2>3. \A d \in Clients : calls[d].step = "truncated" => calls'[d].step = "truncated"
    BY <1>1, <1>4
  <2>4. QED
    BY <1>0, <2>1, <2>2, <2>3 DEF OwedInv
<1>12. QED
  BY <1>7, <1>8, <1>9, <1>10, <1>11 DEF StorageInv

(* A second close ends the call and changes nothing else.                  *)
LEMMA CloseRefusedKeeps ==
  ASSUME StorageInv, NEW c \in Clients, CloseRefused(c)
  PROVE  StorageInv'
<1>0. /\ StorageTypeOK /\ CallInv /\ LockInv /\ WriterInv /\ OwedInv
  BY DEF StorageInv
<1>1. /\ calls[c].step = "checked" /\ calls' = [calls EXCEPT ![c] = NoCall]
      /\ UNCHANGED <<file, storeVars, newest, writer, owed, made, crashes>>
  BY DEF CloseRefused
<1>2. NoCall \in CallType /\ NoCall.step = "none" /\ NoCall.store = NoStore
  BY DEF NoCall, CallType, EmptyMap
<1>3. calls \in [Clients -> CallType] /\ calls' \in [Clients -> CallType]
  BY <1>0, <1>1, <1>2 DEF StorageTypeOK, CallType
<1>4. /\ calls'[c] = NoCall
      /\ \A d \in Clients \ {c} : calls'[d] = calls[d]
  BY <1>1, <1>3
<1>5. StorageTypeOK'
  BY <1>0, <1>1, <1>3 DEF StorageTypeOK, CallType
<1>6. CallInv' /\ LockInv'
  BY <1>0, <1>1, <1>2, <1>4 DEF CallInv, LockInv
<1>7. WriterInv'
  BY <1>0, <1>1 DEF WriterInv
<1>8. OwedInv'
  BY <1>0, <1>1, <1>4 DEF OwedInv
<1>9. QED
  BY <1>5, <1>6, <1>7, <1>8 DEF StorageInv

(* From here on the file is no map until the write is over.                *)
LEMMA TruncateKeeps ==
  ASSUME StorageInv, NEW c \in Clients, Truncate(c)
  PROVE  StorageInv'
<1>0. /\ StorageTypeOK /\ CallInv /\ LockInv /\ WriterInv /\ OwedInv
  BY DEF StorageInv
<1>1. /\ calls[c].step = "locked" /\ file' = Is("empty") /\ writer' = NoStore
      /\ calls' = [calls EXCEPT ![c].step = "truncated"]
      /\ UNCHANGED <<storeVars, newest, owed, made, crashes>>
  BY DEF Truncate
<1>2. calls \in [Clients -> CallType]
  BY <1>0 DEF StorageTypeOK, CallType
<1>3. /\ calls' \in [Clients -> CallType]
      /\ calls'[c].step = "truncated" /\ calls'[c].data = calls[c].data
      /\ calls'[c].store = calls[c].store /\ calls'[c].key = calls[c].key
      /\ calls'[c].value = calls[c].value
      /\ \A d \in Clients \ {c} : calls'[d] = calls[d]
  BY <1>1, <1>2 DEF CallType
<1>4. /\ file' \in [kind : {"missing", "empty", "torn", "map"}, map : Map]
      /\ file'.kind = "empty"
  BY <1>1 DEF Is, EmptyMap
<1>5. StorageTypeOK'
  BY <1>0, <1>1, <1>3, <1>4 DEF StorageTypeOK, CallType
<1>6. CallInv' /\ LockInv'
  BY <1>0, <1>1, <1>3 DEF CallInv, LockInv
<1>7. WriterInv'
  BY <1>1 DEF WriterInv
<1>8. OwedInv'
  BY <1>0, <1>1, <1>3, <1>4 DEF OwedInv
<1>9. QED
  BY <1>5, <1>6, <1>7, <1>8 DEF StorageInv

(* The end of a write, well or not: the call is over, its lock is free.    *)
LEMMA UnlockKeeps ==
  ASSUME StorageInv, NEW c \in Clients, calls[c].step \in {"locked", "truncated"},
         Unlock(c), opened' = opened, values' = values
  PROVE  /\ CallInv' /\ LockInv'
         /\ calls' \in [Clients -> CallType] /\ mu' \in [Stores -> Clients \union {NoClient}]
         /\ \A d \in Clients \ {c} : calls'[d] = calls[d]
         /\ \A s \in Stores \ {calls[c].store} : mu'[s] = mu[s]
<1>0. StorageTypeOK /\ CallInv /\ LockInv
  BY DEF StorageInv
<1>1. NoCall \in CallType /\ NoCall.step = "none" /\ NoCall.store = NoStore
  BY DEF NoCall, CallType, EmptyMap
<1>2. calls \in [Clients -> CallType] /\ mu \in [Stores -> Clients \union {NoClient}]
  BY <1>0 DEF StorageTypeOK, CallType
<1>3. /\ calls' = [calls EXCEPT ![c] = NoCall]
      /\ mu' = [mu EXCEPT ![calls[c].store] = NoClient]
  BY DEF Unlock
<1>4. /\ calls' \in [Clients -> CallType] /\ mu' \in [Stores -> Clients \union {NoClient}]
      /\ calls'[c] = NoCall
      /\ \A d \in Clients \ {c} : calls'[d] = calls[d]
      /\ \A s \in Stores \ {calls[c].store} : mu'[s] = mu[s]
  BY <1>1, <1>2, <1>3
<1>5. /\ calls[c].store \in Stores
      /\ \A d \in Clients \ {c} :
           calls[d].step \in {"locked", "truncated"} => calls[d].store # calls[c].store
  BY OneWriter
<1>6. mu'[calls[c].store] = NoClient
  BY <1>2, <1>3, <1>5
<1>7. CallInv'
  BY <1>0, <1>1, <1>4, <1>5 DEF CallInv
<1>8. LockInv'
  BY <1>0, <1>4, <1>5, <1>6 DEF LockInv
<1>9. QED
  BY <1>4, <1>7, <1>8

(* A write that went well.  If nobody wrote since the truncation the file  *)
(* holds the memory of this store, which is that of the store opened last, *)
(* or nothing is owed any more; otherwise it may be torn, and nothing is   *)
(* owed and no store counts as its writer.                                 *)
LEMMA WriteKeeps ==
  ASSUME StorageInv, NEW c \in Clients, Write(c)
  PROVE  StorageInv'
<1>0. /\ StorageTypeOK /\ CallInv /\ LockInv /\ WriterInv /\ OwedInv
  BY DEF StorageInv
<1> DEFINE s == calls[c].store
           k == calls[c].key
<1>1. /\ calls[c].step = "truncated"
      /\ file' \in {Holds(calls[c].data), Is("torn")}
      /\ Undisturbed => file' = Holds(calls[c].data)
      /\ writer' = IF Undisturbed THEN s ELSE NoStore
      /\ shut' = IF calls[c].op = "close" THEN [shut EXCEPT ![s] = TRUE] ELSE shut
      /\ owed' = CASE s # newest \/ ~Undisturbed -> NothingOwed
                   [] s = newest /\ Undisturbed /\ k # None -> [owed EXCEPT ![k] = calls[c].value]
                   [] OTHER -> owed
      /\ Unlock(c)
      /\ UNCHANGED <<values, opened, newest, made, crashes>>
  BY DEF Write
<1>2. /\ s \in Stores /\ opened[s] /\ calls[c].data = values[s] /\ calls[c] \in CallType
      /\ k # None => calls[c].data[k] = calls[c].value
  BY <1>0, <1>1, OneWriter DEF CallInv
<1>3. /\ CallInv' /\ LockInv'
      /\ calls' \in [Clients -> CallType] /\ mu' \in [Stores -> Clients \union {NoClient}]
  BY <1>1, UnlockKeeps
<1>4. /\ file' \in [kind : {"missing", "empty", "torn", "map"}, map : Map]
      /\ Undisturbed => file'.kind = "map" /\ file'.map = values[s] /\ file' = Holds(values[s])
  <2>1. Holds(calls[c].data) \in [kind : {"missing", "empty", "torn", "map"}, map : Map]
    BY <1>2 DEF Holds, CallType
  <2>2. Is("torn") \in [kind : {"missing", "empty", "torn", "map"}, map : Map]
    BY DEF Is, EmptyMap
  <2>3. QED
    BY <1>1, <1>2, <2>1, <2>2 DEF Holds
<1>5. /\ owed \in [Keys -> Values \union {None, Free}]
      /\ k \in Keys \union {None} /\ calls[c].value \in Values \union {None}
  BY <1>0, <1>2 DEF StorageTypeOK, CallType
<1>6. /\ owed' \in [Keys -> Values \union {None, Free}]
      /\ \A j \in Keys : owed'[j] # Free =>
            /\ s = newest /\ Undisturbed
            /\ owed'[j] = owed[j] \/ (k # None /\ j = k /\ owed'[j] = calls[c].value)
  <2>1. CASE s # newest \/ ~Undisturbed
    <3>1. owed' = NothingOwed
      BY <1>1, <2>1
    <3>2. QED
      BY <3>1 DEF NothingOwed
  <2>2. CASE s = newest /\ Undisturbed /\ k # None
    <3>1. owed' = [owed EXCEPT ![k] = calls[c].value]
      BY <1>1, <2>2
    <3>2. QED
      BY <1>5, <2>2, <3>1
  <2>3. CASE s = newest /\ Undisturbed /\ k = None
    <3>1. owed' = owed
      BY <1>1, <2>3
    <3>2. QED
      BY <1>5, <2>3, <3>1
  <2>4. QED
    BY <2>1, <2>2, <2>3
<1> HIDE DEF s, k
<1>7. StorageTypeOK'
  <2>1. shut' \in [Stores -> BOOLEAN]
    BY <1>0, <1>1, <1>2 DEF StorageTypeOK
  <2>2. writer' \in Stores \union {NoStore}
    BY <1>1, <1>2
  <2>3. QED
    BY <1>0, <1>1, <1>3, <1>4, <1>6, <2>1, <2>2 DEF StorageTypeOK, CallType
<1>8. WriterInv'
  BY <1>1, <1>2, <1>4 DEF WriterInv
<1>9. OwedInv'
  <2> SUFFICES ASSUME NEW j \in Keys, owed'[j] # Free
               PROVE  values[s][j] = owed'[j] /\ s = newest /\ Undisturbed
    BY <1>1, <1>4 DEF OwedInv
  <2>1. s = newest /\ newest # NoStore /\ Undisturbed
    BY <1>2, <1>6
  <2>2. owed[j] # Free => values[s][j] = owed[j]
    BY <1>0, <2>1 DEF OwedInv
  <2>3. QED
    BY <1>2, <1>6, <2>1, <2>2
<1>10. QED
  BY <1>3, <1>7, <1>8, <1>9 DEF StorageInv

(* A write that could not begin leaves the file; no store counts as its    *)
(* last writer any more.                                                   *)
LEMMA FailToOpenKeeps ==
  ASSUME StorageInv, NEW c \in Clients, FailToOpen(c)
  PROVE  StorageInv'
<1>0. /\ StorageTypeOK /\ CallInv /\ LockInv /\ WriterInv /\ OwedInv
  BY DEF StorageInv
<1>1. /\ calls[c].step = "locked" /\ writer' = NoStore /\ Unlock(c)
      /\ UNCHANGED <<file, values, opened, shut, newest, owed, made, crashes>>
  BY DEF FailToOpen
<1>2. /\ CallInv' /\ LockInv'
      /\ calls' \in [Clients -> CallType] /\ mu' \in [Stores -> Clients \union {NoClient}]
      /\ \A d \in Clients \ {c} : calls'[d] = calls[d]
  BY <1>1, UnlockKeeps
<1>3. StorageTypeOK'
  BY <1>0, <1>1, <1>2 DEF StorageTypeOK, CallType
<1>4. WriterInv'
  BY <1>1 DEF WriterInv
<1>5. OwedInv'
  <2>1. \A d \in Clients : calls[d].step = "truncated" => calls'[d].step = "truncated"
    BY <1>1, <1>2
  <2>2. QED
    BY <1>0, <1>1, <2>1 DEF OwedInv
<1>6. QED
  BY <1>2, <1>3, <1>4, <1>5 DEF StorageInv

(* Whatever writes cut short leave is a file.                              *)
LEMMA CutShortType ==
  ASSUME StorageTypeOK, NEW W \in SUBSET Clients
  PROVE  CutShort(W) \subseteq [kind : {"missing", "empty", "torn", "map"}, map : Map]
<1>1. EmptyMap \in Map
  BY DEF EmptyMap
<1>2. file \in [kind : {"missing", "empty", "torn", "map"}, map : Map]
  BY DEF StorageTypeOK
<1>3. Is("torn") \in [kind : {"missing", "empty", "torn", "map"}, map : Map]
  BY <1>1 DEF Is
<1>4. \A m \in Map : Holds(m) \in [kind : {"missing", "empty", "torn", "map"}, map : Map]
  BY DEF Holds
<1>5. \A c \in W : calls[c].data \in Map
  BY DEF StorageTypeOK
<1>6. QED
  BY <1>2, <1>3, <1>4, <1>5 DEF CutShort

(* A write that failed after the truncation leaves whatever it has         *)
(* written, and nothing is owed.                                           *)
LEMMA FailToWriteKeeps ==
  ASSUME StorageInv, NEW c \in Clients, FailToWrite(c)
  PROVE  StorageInv'
<1>0. /\ StorageTypeOK /\ CallInv /\ LockInv /\ WriterInv /\ OwedInv
  BY DEF StorageInv
<1>1. /\ calls[c].step = "truncated" /\ writer' = NoStore /\ Unlock(c) /\ owed' = NothingOwed
      /\ file' \in CutShort({c})
      /\ UNCHANGED <<values, opened, shut, newest, made, crashes>>
  BY DEF FailToWrite
<1>2. /\ CallInv' /\ LockInv'
      /\ calls' \in [Clients -> CallType] /\ mu' \in [Stores -> Clients \union {NoClient}]
  BY <1>1, UnlockKeeps
<1>3. file' \in [kind : {"missing", "empty", "torn", "map"}, map : Map]
  BY <1>0, <1>1, CutShortType
<1>4. owed' \in [Keys -> Values \union {None, Free}] /\ \A k \in Keys : owed'[k] = Free
  BY <1>1 DEF NothingOwed
<1>5. StorageTypeOK'
  BY <1>0, <1>1, <1>2, <1>3, <1>4 DEF StorageTypeOK, CallType
<1>6. WriterInv' /\ OwedInv'
  BY <1>1, <1>4 DEF WriterInv, OwedInv
<1>7. QED
  BY <1>2, <1>5, <1>6 DEF StorageInv

(* A crash leaves the file, or what a write under way made of it; it ends  *)
(* every call and closes every store.                                      *)
LEMMA CrashKeeps ==
  ASSUME StorageInv, Crash
  PROVE  StorageInv'
<1>0. /\ StorageTypeOK /\ CallInv /\ LockInv /\ WriterInv /\ OwedInv
  BY DEF StorageInv
<1> DEFINE Writing == {c \in Clients : calls[c].step = "truncated"}
<1>1. /\ crashes < MaxCrashes /\ crashes' = crashes + 1
      /\ file' \in IF Writing # {} THEN CutShort(Writing) ELSE {file}
      /\ owed' = IF Writing # {} THEN NothingOwed ELSE owed
      /\ writer' = NoStore /\ newest' = NoStore
      /\ values' = [s \in Stores |-> EmptyMap]
      /\ opened' = [s \in Stores |-> FALSE] /\ shut' = [s \in Stores |-> FALSE]
      /\ mu' = [s \in Stores |-> NoClient]
      /\ calls' = [c \in Clients |-> NoCall]
      /\ UNCHANGED made
  BY DEF Crash
<1>2. NoCall \in CallType /\ NoCall.step = "none" /\ NoCall.store = NoStore /\ EmptyMap \in Map
  BY DEF NoCall, CallType, EmptyMap
<1>3. file' \in [kind : {"missing", "empty", "torn", "map"}, map : Map]
  <2>1. CASE Writing # {}
    BY <1>0, <1>1, <2>1, CutShortType
  <2>2. CASE Writing = {}
    BY <1>0, <1>1, <2>2 DEF StorageTypeOK
  <2>3. QED
    BY <2>1, <2>2
<1>4. owed' \in [Keys -> Values \union {None, Free}]
  BY <1>0, <1>1 DEF StorageTypeOK, NothingOwed
<1>5. StorageTypeOK'
  <2>1. crashes' \in 0..MaxCrashes
    BY <1>0, <1>1 DEF StorageTypeOK
  <2>2. QED
    BY <1>0, <1>1, <1>2, <1>3, <1>4, <2>1 DEF StorageTypeOK, CallType
<1>6. CallInv' /\ LockInv' /\ WriterInv'
  BY <1>1, <1>2 DEF CallInv, LockInv, WriterInv
<1>7. OwedInv'
  <2>1. CASE Writing # {}
    BY <1>1, <2>1 DEF OwedInv, NothingOwed
  <2>2. CASE Writing = {}
    BY <1>0, <1>1, <2>2 DEF OwedInv
  <2>3. QED
    BY <2>1, <2>2
<1>8. QED
  BY <1>5, <1>6, <1>7 DEF StorageInv

(* No store is open, no call made and no file there.                       *)
LEMMA StorageInitial == StorageInit => StorageInv
<1> SUFFICES ASSUME StorageInit PROVE StorageInv
  OBVIOUS
<1>1. NoCall \in CallType /\ NoCall.step = "none" /\ NoCall.store = NoStore /\ EmptyMap \in Map
  BY DEF NoCall, CallType, EmptyMap
<1>2. Is("missing") \in [kind : {"missing", "empty", "torn", "map"}, map : Map]
  BY <1>1 DEF Is
<1>3. StorageTypeOK
  BY <1>1, <1>2 DEF StorageInit, StorageTypeOK, NothingOwed, CallType
<1>4. CallInv /\ LockInv /\ WriterInv
  BY <1>1 DEF StorageInit, CallInv, LockInv, WriterInv
<1>5. OwedInv
  BY DEF StorageInit, OwedInv, NothingOwed
<1>6. QED
  BY <1>3, <1>4, <1>5 DEF StorageInv

(* Every step of a client, an opening or a crash keeps the invariant.      *)
LEMMA StorageInductive == StorageInv /\ [StorageNext]_storageVars => StorageInv'
<1> SUFFICES ASSUME StorageInv, [StorageNext]_storageVars PROVE StorageInv'
  OBVIOUS
<1>1. ASSUME NEW s \in Stores, StorageOpen(s) PROVE StorageInv'
  BY <1>1, OpenKeeps
<1>2. ASSUME NEW c \in Clients, NEW s \in Stores,
             StoragePut(c, s) \/ StorageDelete(c, s) \/ StorageClose(c, s)
      PROVE  StorageInv'
  BY <1>2, BeginKeeps DEF StoragePut, StorageDelete, StorageClose
<1>3. ASSUME NEW c \in Clients,
             Lock(c) \/ CloseRefused(c) \/ Truncate(c) \/ Write(c) \/ FailToOpen(c)
               \/ FailToWrite(c)
      PROVE  StorageInv'
  BY <1>3, LockKeeps, CloseRefusedKeeps, TruncateKeeps, WriteKeeps, FailToOpenKeeps,
     FailToWriteKeeps
<1>4. CASE UNCHANGED storageVars
  BY <1>4 DEF storageVars, StorageInv, StorageTypeOK, CallInv, LockInv, WriterInv, OwedInv
<1>5. QED
  BY <1>1, <1>2, <1>3, <1>4, CrashKeeps DEF StorageNext

(* The stores, the calls and the file hold what the code can put there.    *)
THEOREM StorageTypeCorrect == StorageSpec => []StorageTypeOK
<1>1. StorageInv => StorageTypeOK
  BY DEF StorageInv
<1>2. QED
  BY <1>1, StorageInitial, StorageInductive, PTL DEF StorageSpec

(* The file is what the store that wrote it last has in memory, if no      *)
(* other store wrote over it or under it; and what was acknowledged and is *)
(* still owed is in the file, or is being written to it, and in memory.    *)
THEOREM AcknowledgedIsKept == StorageSpec => []AcknowledgedKept
<1>1. StorageInv => AcknowledgedKept
  BY DEF StorageInv, WriterInv, OwedInv, AcknowledgedKept, Undisturbed
<1>2. QED
  BY <1>1, StorageInitial, StorageInductive, PTL DEF StorageSpec

HIDE StorageAssumption DEF StorageAssumption, storeVars, Map

----------------------------------------------------------------------------
(* Worker threads.                                                         *)

(* q holds the numbers that come after n, in order.                        *)
Continues(q, n) == \A i \in 1..Len(q) : q[i] = n + i

(* Appending the next number leaves a queue in order.                      *)
LEMMA ContinuesAppend ==
  ASSUME NEW q \in Seq(Nat), NEW n \in Nat, Continues(q, n)
  PROVE  /\ Append(q, n + Len(q) + 1) \in Seq(Nat)
         /\ Len(Append(q, n + Len(q) + 1)) = Len(q) + 1
         /\ Continues(Append(q, n + Len(q) + 1), n)
BY AppendProperties DEF Continues

(* Taking the first one leaves those after it.                             *)
LEMMA ContinuesTail ==
  ASSUME NEW q \in Seq(Nat), NEW n \in Nat, Continues(q, n), q # <<>>
  PROVE  /\ Tail(q) \in Seq(Nat) /\ Len(Tail(q)) = Len(q) - 1
         /\ Head(q) = n + 1
         /\ Continues(Tail(q), n + 1)
<1>1. /\ Tail(q) \in Seq(Nat) /\ Len(Tail(q)) = Len(q) - 1
      /\ \A i \in 1..Len(Tail(q)) : Tail(q)[i] = q[i + 1]
  BY HeadTailProperties
<1>2. Len(q) \in Nat \ {0}
  BY EmptySeq
<1>3. Head(q) = n + 1
  BY <1>2 DEF Continues
<1>4. ASSUME NEW i \in 1..Len(Tail(q)) PROVE Tail(q)[i] = n + 1 + i
  <2>1. i + 1 \in 1..Len(q)
    BY <1>1, <1>2
  <2>2. QED
    BY <1>1, <2>1 DEF Continues
<1>5. QED
  BY <1>1, <1>3, <1>4 DEF Continues

(* Two queues of which one goes on where the other ends are one.           *)
LEMMA ContinuesConcat ==
  ASSUME NEW q \in Seq(Nat), NEW r \in Seq(Nat), NEW n \in Nat,
         NEW k \in Nat, k = n + Len(q), Continues(q, n), Continues(r, k)
  PROVE  /\ q \o r \in Seq(Nat) /\ Len(q \o r) = Len(q) + Len(r)
         /\ Continues(q \o r, n)
<1>1. /\ q \o r \in Seq(Nat) /\ Len(q \o r) = Len(q) + Len(r)
      /\ \A i \in 1..Len(q) + Len(r) :
           (q \o r)[i] = IF i <= Len(q) THEN q[i] ELSE r[i - Len(q)]
  BY ConcatProperties
<1>2. Len(q) \in Nat /\ Len(r) \in Nat
  BY LenProperties
<1>3. ASSUME NEW i \in 1..Len(q \o r) PROVE (q \o r)[i] = n + i
  <2>1. CASE i <= Len(q)
    BY <1>1, <1>2, <2>1 DEF Continues
  <2>2. CASE i > Len(q)
    <3>1. i - Len(q) \in 1..Len(r)
      BY <1>1, <1>2, <2>2
    <3>2. QED
      BY <1>1, <1>2, <2>2, <3>1 DEF Continues
  <2>3. QED
    BY <1>2, <2>1, <2>2
<1>4. QED
  BY <1>1, <1>3 DEF Continues

(* A queue of the numbers from one on is what AnswersInOrder calls         *)
(* accepted.                                                               *)
LEMMA ContinuesFromOne ==
  ASSUME NEW q \in Seq(Nat), Continues(q, 0)
  PROVE  q = [m \in 1..Len(q) |-> m]
<1>1. q \in [1..Len(q) -> Nat]
  BY LenProperties
<1>2. \A i \in 1..Len(q) : q[i] = i
  BY DEF Continues
<1>3. QED
  BY <1>1, <1>2

(* Where a message can be: received, waiting to be received, in hand, or   *)
(* waiting for the handler; these follow one another in the order of       *)
(* posting, and the handler has run for all but those that wait for it.    *)
(* terminate throws away what was not received, and nothing else does.     *)
QueueInv ==
  /\ inbound \in Seq(Nat) /\ outbound \in Seq(Nat) /\ received \in Seq(Nat)
  /\ inHand \in Seq(Nat)
  /\ Continues(received, 0)
  /\ Continues(outbound, Len(received))
  /\ Continues(inHand, Len(received) + Len(outbound))
  /\ Continues(inbound, Len(received) + Len(outbound) + Len(inHand))

(* Together they are all that was posted, until terminate drops the rest. *)
CountInv ==
  /\ posted \in 0..MaxMessages /\ answered \in Nat
  /\ Len(received) + Len(outbound) + Len(inHand) + Len(inbound) <= posted
  /\ handle => Len(received) + Len(outbound) + Len(inHand) + Len(inbound) = posted
  /\ thread = "handling" => answered + Len(inbound) + 1 = posted
  /\ thread # "handling" => answered + Len(inbound) = posted

(* Who may do what: the thread has a message in hand only while it handles *)
(* and answers it; it exits only when asked to, and then nothing waits for *)
(* it; the owner waits only for a worker that is there, and one that was   *)
(* asked to stop is being waited for or gone.                              *)
StateInv ==
  /\ thread \in {"waiting", "handling", "answering", "exited"}
  /\ Len(inHand) = IF thread \in {"handling", "answering"} THEN 1 ELSE 0
  /\ owner \in {"running", "receiving", "receivingTimed", "terminating"}
  /\ terminateRequested \in BOOLEAN /\ closed \in BOOLEAN /\ handle \in BOOLEAN
  /\ thread = "exited" => terminateRequested /\ inbound = <<>>
  /\ closed <=> thread = "exited"
  /\ owner # "running" => handle
  /\ ~handle => thread = "exited" /\ outbound = <<>>

ThreadInv == QueueInv /\ CountInv /\ StateInv

(* No message has been posted yet.                                         *)
LEMMA ThreadInitial == ThreadWorkerInit => ThreadInv
<1> SUFFICES ASSUME ThreadWorkerInit PROVE ThreadInv
  OBVIOUS
<1> USE DEF ThreadWorkerInit
<1>1. <<>> \in Seq(Nat) /\ Len(<<>>) = 0 /\ \A n : Continues(<<>>, n)
  BY EmptySeq DEF Continues
<1>2. QueueInv /\ CountInv
  BY <1>1, ThreadWorkerAssumption DEF QueueInv, CountInv, Nothing, ThreadWorkerAssumption
<1>3. StateInv
  <2>1. Len(inHand) = 0
    BY <1>1 DEF Nothing
  <2>2. closed <=> thread = "exited"
    OBVIOUS
  <2>3. QED
    BY <2>1, <2>2 DEF StateInv
<1>4. QED
  BY <1>2, <1>3 DEF ThreadInv

(* The message in hand as a queue.                                         *)
LEMMA InHand ==
  ASSUME ThreadInv
  PROVE  /\ inHand \in Seq(Nat) /\ Len(inHand) \in 0..1
         /\ thread \in {"waiting", "exited"} => Len(inHand) = 0 /\ inHand = <<>>
         /\ thread \in {"handling", "answering"} => Len(inHand) = 1
         /\ Len(received) \in Nat /\ Len(outbound) \in Nat /\ Len(inbound) \in Nat
         /\ inbound = <<>> <=> Len(inbound) = 0
         /\ outbound = <<>> <=> Len(outbound) = 0
BY EmptySeq, LenProperties DEF ThreadInv, QueueInv, CountInv, StateInv

(* postMessage is refused by a worker that was asked to stop, so the       *)
(* number it appends is that of the next message accepted.                 *)
LEMMA PostKeeps == ThreadInv /\ PostMessage => ThreadInv'
<1> SUFFICES ASSUME ThreadInv, PostMessage PROVE ThreadInv'
  OBVIOUS
<1>0. /\ QueueInv /\ CountInv /\ StateInv
      /\ Len(received) \in Nat /\ Len(outbound) \in Nat
      /\ Len(inHand) \in Nat /\ Len(inbound) \in Nat
  BY InHand DEF ThreadInv
<1>1. /\ handle /\ ~closed /\ posted < MaxMessages /\ posted' = posted + 1
      /\ UNCHANGED <<outbound, terminateRequested, closed, handle, thread, inHand, owner,
                     answered, received>>
  BY DEF PostMessage
<1>2. inbound' = Append(inbound, posted + 1)
  BY DEF PostMessage
<1>3. posted = Len(received) + Len(outbound) + Len(inHand) + Len(inbound)
  BY <1>0, <1>1 DEF CountInv
<1>4. /\ inbound' \in Seq(Nat) /\ Len(inbound') = Len(inbound) + 1
      /\ Continues(inbound', Len(received) + Len(outbound) + Len(inHand))
      /\ thread # "exited"
  <2>1. PICK m : m = Len(received) + Len(outbound) + Len(inHand)
    OBVIOUS
  <2>2. m \in Nat /\ inbound \in Seq(Nat) /\ Continues(inbound, m) /\ posted = m + Len(inbound)
    BY <1>0, <1>3, <2>1 DEF QueueInv
  <2>3. /\ Append(inbound, posted + 1) \in Seq(Nat)
        /\ Len(Append(inbound, posted + 1)) = Len(inbound) + 1
        /\ Continues(Append(inbound, posted + 1), m)
    <3>1. /\ Append(inbound, m + Len(inbound) + 1) \in Seq(Nat)
          /\ Len(Append(inbound, m + Len(inbound) + 1)) = Len(inbound) + 1
          /\ Continues(Append(inbound, m + Len(inbound) + 1), m)
      BY <2>2, ContinuesAppend
    <3>2. QED
      BY <2>2, <3>1
  <2>4. thread # "exited"
    BY <1>0, <1>1 DEF StateInv
  <2>5. QED
    BY <2>1, <2>3, <2>4, <1>2
<1>5. QueueInv'
  BY <1>0, <1>1, <1>3, <1>4 DEF QueueInv
<1>6. CountInv'
  <2>1. posted' \in 0..MaxMessages
    <3>1. posted \in Nat /\ MaxMessages \in Nat
      BY <1>0, ThreadWorkerAssumption DEF CountInv, ThreadWorkerAssumption
    <3>2. QED
      BY <3>1, <1>1
  <2>2. /\ Len(received) + Len(outbound) + Len(inHand) + Len(inbound') = posted'
        /\ answered + Len(inbound') = answered + Len(inbound) + 1
    BY <1>0, <1>1, <1>3, <1>4 DEF CountInv
  <2>3. posted \in Nat /\ posted' = posted + 1 /\ answered' = answered /\ answered \in Nat
    BY <1>0, <1>1 DEF CountInv
  <2>4. /\ thread' = "handling" => answered' + Len(inbound') + 1 = posted'
        /\ thread' # "handling" => answered' + Len(inbound') = posted'
    BY <1>0, <1>1, <2>2, <2>3 DEF CountInv
  <2>5. received' = received /\ outbound' = outbound /\ inHand' = inHand
    BY <1>1
  <2>6. Len(received') + Len(outbound') + Len(inHand') + Len(inbound') = posted'
    BY <2>2, <2>5
  <2>7. Len(received') + Len(outbound') + Len(inHand') + Len(inbound') <= posted'
    BY <2>3, <2>6
  <2>8. QED
    BY <2>1, <2>3, <2>4, <2>6, <2>7 DEF CountInv
<1>7. StateInv'
  BY <1>0, <1>1, <1>3, <1>4 DEF StateInv
<1>8. QED
  BY <1>5, <1>6, <1>7 DEF ThreadInv

(* receive takes the oldest answer.                                        *)
LEMMA ReceiveKeeps == ThreadInv /\ ReceiveAnswer => ThreadInv'
<1> SUFFICES ASSUME ThreadInv, ReceiveAnswer PROVE ThreadInv'
  OBVIOUS
<1>0. /\ QueueInv /\ CountInv /\ StateInv
      /\ Len(received) \in Nat /\ Len(outbound) \in Nat
      /\ Len(inHand) \in Nat /\ Len(inbound) \in Nat
  BY InHand DEF ThreadInv
<1>1. /\ owner # "running" /\ outbound # <<>> /\ owner' = "running"
      /\ UNCHANGED <<inbound, terminateRequested, closed, handle, thread, inHand, posted, answered>>
  BY DEF ReceiveAnswer
<1>2. received' = Append(received, Head(outbound)) /\ outbound' = Tail(outbound)
  BY DEF ReceiveAnswer
<1>3. /\ outbound' \in Seq(Nat) /\ Len(outbound') = Len(outbound) - 1
      /\ Head(outbound) = 0 + Len(received) + 1
      /\ Continues(outbound', Len(received) + 1)
      /\ handle
  BY <1>0, <1>1, <1>2, ContinuesTail DEF QueueInv, StateInv
<1>4. /\ received' \in Seq(Nat) /\ Len(received') = Len(received) + 1
      /\ Continues(received', 0)
  BY <1>0, <1>2, <1>3, ContinuesAppend DEF QueueInv
<1>5. QueueInv'
  BY <1>0, <1>1, <1>3, <1>4 DEF QueueInv
<1>6. CountInv'
  BY <1>0, <1>1, <1>3, <1>4, SMTT(30) DEF CountInv
<1>7. StateInv'
  BY <1>0, <1>1, <1>3, <1>4 DEF StateInv
<1>8. QED
  BY <1>5, <1>6, <1>7 DEF ThreadInv

(* The thread takes the oldest message.                                    *)
LEMMA TakeKeeps == ThreadInv /\ TakeMessage => ThreadInv'
<1> SUFFICES ASSUME ThreadInv, TakeMessage PROVE ThreadInv'
  OBVIOUS
<1>0. /\ QueueInv /\ CountInv /\ StateInv
      /\ Len(received) \in Nat /\ Len(outbound) \in Nat
      /\ Len(inHand) \in Nat /\ Len(inbound) \in Nat
  BY InHand DEF ThreadInv
<1>1. /\ thread = "waiting" /\ inbound # <<>> /\ thread' = "handling"
      /\ UNCHANGED <<outbound, terminateRequested, closed, handle, owner, posted, answered,
                     received>>
  BY DEF TakeMessage
<1>2. inHand' = <<Head(inbound)>> /\ inbound' = Tail(inbound)
  BY DEF TakeMessage
<1>3. Len(inHand) = 0
  BY <1>0, <1>1 DEF StateInv
<1>4. /\ inbound' \in Seq(Nat) /\ Len(inbound') = Len(inbound) - 1
      /\ Head(inbound) = Len(received) + Len(outbound) + 1
      /\ Continues(inbound', Len(received) + Len(outbound) + 1)
  <2>1. PICK m : m = Len(received) + Len(outbound)
    OBVIOUS
  <2>2. m \in Nat /\ inbound \in Seq(Nat) /\ Continues(inbound, m)
    BY <1>0, <1>3, <2>1 DEF QueueInv
  <2>3. /\ Tail(inbound) \in Seq(Nat) /\ Len(Tail(inbound)) = Len(inbound) - 1
        /\ Head(inbound) = m + 1 /\ Continues(Tail(inbound), m + 1)
    BY <1>1, <2>2, ContinuesTail
  <2>4. QED
    BY <2>1, <2>3, <1>2
<1>5. /\ inHand' \in Seq(Nat) /\ Len(inHand') = 1
      /\ Continues(inHand', Len(received) + Len(outbound))
  BY <1>0, <1>2, <1>4 DEF Continues
<1>6. QueueInv'
  BY <1>0, <1>1, <1>3, <1>4, <1>5 DEF QueueInv
<1>7. CountInv'
  BY <1>0, <1>1, <1>3, <1>4, <1>5 DEF CountInv
<1>8. StateInv'
  BY <1>0, <1>1, <1>3, <1>4, <1>5 DEF StateInv
<1>9. QED
  BY <1>6, <1>7, <1>8 DEF ThreadInv

(* The answer goes behind those that wait.                                 *)
LEMMA PushKeeps == ThreadInv /\ PushAnswer => ThreadInv'
<1> SUFFICES ASSUME ThreadInv, PushAnswer PROVE ThreadInv'
  OBVIOUS
<1>0. /\ QueueInv /\ CountInv /\ StateInv
      /\ Len(received) \in Nat /\ Len(outbound) \in Nat
      /\ Len(inHand) \in Nat /\ Len(inbound) \in Nat
  BY InHand DEF ThreadInv
<1>1. /\ thread = "answering" /\ thread' = "waiting"
      /\ UNCHANGED <<inbound, terminateRequested, closed, handle, owner, posted, answered,
                     received>>
  BY DEF PushAnswer
<1>2. outbound' = outbound \o inHand /\ inHand' = <<>>
  BY DEF PushAnswer, Nothing
<1>3. Len(inHand) = 1
  BY <1>0, <1>1 DEF StateInv
<1>4. /\ outbound' \in Seq(Nat) /\ Len(outbound') = Len(outbound) + 1
      /\ Continues(outbound', Len(received))
  <2>1. PICK k \in Nat : k = Len(received) + Len(outbound)
    BY <1>0
  <2>2. /\ outbound \in Seq(Nat) /\ inHand \in Seq(Nat)
        /\ Continues(outbound, Len(received)) /\ Continues(inHand, k)
    BY <1>0, <2>1 DEF QueueInv
  <2>3. /\ outbound \o inHand \in Seq(Nat)
        /\ Len(outbound \o inHand) = Len(outbound) + Len(inHand)
        /\ Continues(outbound \o inHand, Len(received))
    BY <1>0, <2>1, <2>2, ContinuesConcat
  <2>4. QED
    BY <1>0, <1>2, <1>3, <2>3
<1>5. /\ inHand' \in Seq(Nat) /\ Len(inHand') = 0
      /\ Continues(inHand', Len(received) + Len(outbound'))
  BY <1>2, EmptySeq DEF Continues
<1>6. QueueInv'
  BY <1>0, <1>1, <1>3, <1>4, <1>5 DEF QueueInv
<1>7. CountInv'
  BY <1>0, <1>1, <1>3, <1>4, <1>5 DEF CountInv
<1>8. StateInv'
  BY <1>0, <1>1, <1>3, <1>4, <1>5 DEF StateInv
<1>9. QED
  BY <1>6, <1>7, <1>8 DEF ThreadInv

(* terminate, joined, throws away the answers that were not received; the  *)
(* thread has left nothing else.                                           *)
LEMMA JoinKeeps == ThreadInv /\ TerminateJoined => ThreadInv'
<1> SUFFICES ASSUME ThreadInv, TerminateJoined PROVE ThreadInv'
  OBVIOUS
<1>0. /\ QueueInv /\ CountInv /\ StateInv
      /\ Len(received) \in Nat /\ Len(outbound) \in Nat
      /\ Len(inHand) \in Nat /\ Len(inbound) \in Nat
  BY InHand DEF ThreadInv
<1>1. /\ owner = "terminating" /\ thread = "exited" /\ closed' = TRUE /\ handle' = FALSE
      /\ owner' = "running"
      /\ UNCHANGED <<terminateRequested, thread, inHand, posted, answered, received>>
  BY DEF TerminateJoined
<1>2. inbound' = <<>> /\ outbound' = <<>>
  BY DEF TerminateJoined
<1>3. /\ <<>> \in Seq(Nat) /\ Len(<<>>) = 0
      /\ \A n : Continues(<<>>, n)
  BY EmptySeq DEF Continues
<1>4. /\ Len(inHand) = 0 /\ inHand = <<>> /\ Len(inbound) = 0
      /\ inbound' = <<>> /\ Len(inbound') = 0 /\ outbound' = <<>> /\ Len(outbound') = 0
  BY <1>0, <1>1, <1>2, <1>3, InHand DEF StateInv
<1>5. QueueInv'
  BY <1>0, <1>1, <1>3, <1>4 DEF QueueInv
<1>6. CountInv'
  BY <1>0, <1>1, <1>3, <1>4 DEF CountInv
<1>7. StateInv'
  BY <1>0, <1>1, <1>3, <1>4 DEF StateInv
<1>8. QED
  BY <1>5, <1>6, <1>7 DEF ThreadInv

(* The other steps move no message.                                        *)
LEMMA QuietKeeps ==
  ThreadInv /\ (Receive \/ ReceiveNothing \/ Terminate \/ HandleMessage \/ ThreadExits)
    => ThreadInv'
<1> SUFFICES ASSUME ThreadInv,
                    Receive \/ ReceiveNothing \/ Terminate \/ HandleMessage \/ ThreadExits
             PROVE  ThreadInv'
  OBVIOUS
<1>0. /\ QueueInv /\ CountInv /\ StateInv
      /\ Len(received) \in Nat /\ Len(outbound) \in Nat
      /\ Len(inHand) \in Nat /\ Len(inbound) \in Nat
  BY InHand DEF ThreadInv
<1>1. UNCHANGED <<inbound, outbound, inHand, handle, posted, received>>
  BY DEF Receive, ReceiveNothing, Terminate, HandleMessage, ThreadExits
<1>2. QueueInv'
  BY <1>0, <1>1 DEF QueueInv
<1>3. CountInv'
  <2>1. CASE UNCHANGED <<answered, thread>>
    BY <1>0, <1>1, <2>1 DEF CountInv
  <2>2. CASE HandleMessage
    <3>1. thread = "handling" /\ answered' = answered + 1 /\ thread' = "answering"
      BY <2>2 DEF HandleMessage
    <3>2. QED
      BY <1>0, <1>1, <3>1 DEF CountInv
  <2>3. CASE ThreadExits
    <3>1. thread = "waiting" /\ thread' = "exited" /\ answered' = answered
      BY <2>3 DEF ThreadExits
    <3>2. QED
      BY <1>0, <1>1, <3>1 DEF CountInv
  <2>4. QED
    BY <2>1, <2>2, <2>3 DEF Receive, ReceiveNothing, Terminate
<1>4. StateInv'
  <2>1. CASE Receive
    BY <1>0, <2>1 DEF Receive, StateInv
  <2>4. CASE ReceiveNothing
    BY <1>0, <2>4 DEF ReceiveNothing, StateInv
  <2>5. CASE Terminate
    BY <1>0, <2>5 DEF Terminate, StateInv
  <2>2. CASE HandleMessage
    BY <1>0, <2>2 DEF HandleMessage, StateInv
  <2>3. CASE ThreadExits
    BY <1>0, <2>3 DEF ThreadExits, StateInv
  <2>6. QED
    BY <2>1, <2>2, <2>3, <2>4, <2>5
<1>5. QED
  BY <1>2, <1>3, <1>4 DEF ThreadInv

(* Every step of the owner and of the worker's thread keeps both.          *)
LEMMA ThreadInductive == ThreadInv /\ [ThreadWorkerNext]_workerVars => ThreadInv'
<1> SUFFICES ASSUME ThreadInv, [ThreadWorkerNext]_workerVars PROVE ThreadInv'
  OBVIOUS
<1>1. CASE UNCHANGED workerVars
  BY <1>1 DEF ThreadInv, QueueInv, CountInv, StateInv, workerVars
<1>2. QED
  BY <1>1, PostKeeps, ReceiveKeeps, TakeKeeps, PushKeeps, JoinKeeps, QuietKeeps
     DEF ThreadWorkerNext

(* Messages are the numbers up to the last one accepted.                   *)
LEMMA MessagesOnly ==
  ASSUME NEW q \in Seq(Nat), NEW n \in Nat, Continues(q, n), n + Len(q) <= MaxMessages
  PROVE  q \in Seq(Message)
<1>1. \A i \in 1..Len(q) : q[i] \in Message
  BY LenProperties, ThreadWorkerAssumption DEF Continues, Message, ThreadWorkerAssumption
<1>2. q \in [1..Len(q) -> Message] /\ Len(q) \in Nat
  BY <1>1, LenProperties
<1>3. QED
  BY <1>2

(* Type correctness of the worker thread.                                  *)
THEOREM ThreadWorkerTypeCorrect == ThreadWorkerSpec => []ThreadWorkerTypeOK
<1>1. ASSUME ThreadInv PROVE ThreadWorkerTypeOK
  <2>0. /\ QueueInv /\ CountInv /\ StateInv
        /\ Len(received) \in Nat /\ Len(outbound) \in Nat
        /\ Len(inHand) \in Nat /\ Len(inbound) \in Nat
    BY <1>1, InHand DEF ThreadInv
  <2>1. inbound \in Seq(Message) /\ outbound \in Seq(Message) /\ received \in Seq(Message)
    <3>1. PICK k2 \in Nat, k3 \in Nat :
             /\ k2 = Len(received) + Len(outbound)
             /\ k3 = Len(received) + Len(outbound) + Len(inHand)
      BY <2>0
    <3>2. /\ Len(received) <= MaxMessages
          /\ Len(received) + Len(outbound) <= MaxMessages
          /\ k3 + Len(inbound) <= MaxMessages
      BY <2>0, <3>1, ThreadWorkerAssumption DEF CountInv, ThreadWorkerAssumption
    <3>3. Continues(inbound, k3)
      BY <2>0, <3>1 DEF QueueInv
    <3>4. inbound \in Seq(Message)
      BY <2>0, <3>2, <3>3, MessagesOnly DEF QueueInv
    <3>5. outbound \in Seq(Message)
      BY <2>0, <3>2, MessagesOnly DEF QueueInv
    <3>6. received \in Seq(Message)
      BY <2>0, <3>2, MessagesOnly DEF QueueInv
    <3>7. QED
      BY <3>4, <3>5, <3>6
  <2>2. inHand \in {Nothing} \union {<<m>> : m \in Message}
    <3>1. CASE inHand = Nothing
      BY <3>1
    <3>2. CASE inHand # Nothing
      <4>1. Len(inHand) = 1
        BY <1>1, <2>0, <3>2, InHand DEF Nothing, StateInv
      <4>2. inHand[1] = Len(received) + Len(outbound) + 1
        BY <2>0, <4>1 DEF QueueInv, CountInv, Continues
      <4>3. inHand[1] \in Message
        BY <2>0, <4>1, <4>2, ThreadWorkerAssumption DEF CountInv, Message, ThreadWorkerAssumption
      <4>4. inHand = <<inHand[1]>>
        BY <2>0, <4>1, LenProperties DEF QueueInv, CountInv
      <4>5. QED
        BY <4>3, <4>4
    <3>3. QED
      BY <3>1, <3>2
  <2>3. posted \in 0..MaxMessages /\ answered \in 0..MaxMessages
    BY <2>0, ThreadWorkerAssumption DEF CountInv, ThreadWorkerAssumption
  <2>4. QED
    BY <2>0, <2>1, <2>2, <2>3 DEF ThreadWorkerTypeOK, StateInv
<1>2. QED
  BY <1>1, ThreadInitial, ThreadInductive, PTL DEF ThreadWorkerSpec

(* No answer is lost, repeated or out of order while the worker lives, and *)
(* terminate joins a thread that has handled every accepted message.       *)
THEOREM AnswersAreInOrder == ThreadWorkerSpec => []AnswersInOrder
<1>1. ASSUME ThreadInv PROVE AnswersInOrder
  <2>0. /\ QueueInv /\ CountInv /\ StateInv
        /\ Len(received) \in Nat /\ Len(outbound) \in Nat
        /\ Len(inHand) \in Nat /\ Len(inbound) \in Nat
    BY <1>1, InHand DEF ThreadInv
  <2> DEFINE accepted == [m \in 1..posted |-> m]
             all == received \o outbound \o inHand \o inbound
  <2>10. PICK k2 \in Nat, k3 \in Nat :
            /\ k2 = Len(received) + Len(outbound)
            /\ k3 = Len(received) + Len(outbound) + Len(inHand)
    BY <2>0
  <2>11. /\ Continues(received, 0) /\ Continues(outbound, Len(received))
         /\ Continues(inHand, k2) /\ Continues(inbound, k3)
         /\ received \in Seq(Nat) /\ outbound \in Seq(Nat)
         /\ inHand \in Seq(Nat) /\ inbound \in Seq(Nat)
    BY <2>0, <2>10 DEF QueueInv
  <2>1. PICK two \in Seq(Nat) :
          two = received \o outbound /\ Len(two) = k2 /\ Continues(two, 0)
    <3>1. PICK k1 \in Nat : k1 = Len(received)
      BY <2>0
    <3>2. Continues(outbound, k1) /\ k1 = 0 + Len(received)
      BY <2>11, <3>1
    <3>3. /\ received \o outbound \in Seq(Nat) /\ Continues(received \o outbound, 0)
          /\ Len(received \o outbound) = Len(received) + Len(outbound)
      BY <2>11, <3>2, ContinuesConcat
    <3>4. QED
      BY <2>10, <3>3
  <2>2. PICK three \in Seq(Nat) :
          three = two \o inHand /\ Len(three) = k3 /\ Continues(three, 0)
    <3>1. k2 = 0 + Len(two) /\ k3 = k2 + Len(inHand)
      BY <2>0, <2>1, <2>10
    <3>2. two \o inHand \in Seq(Nat) /\ Len(two \o inHand) = k3 /\ Continues(two \o inHand, 0)
      BY <2>1, <2>11, <3>1, ContinuesConcat
    <3>3. QED
      BY <3>2
  <2>3. /\ all \in Seq(Nat) /\ Continues(all, 0)
        /\ Len(all) = Len(received) + Len(outbound) + Len(inHand) + Len(inbound)
    <3>1. k3 = 0 + Len(three)
      BY <2>2
    <3>2. /\ three \o inbound \in Seq(Nat) /\ Continues(three \o inbound, 0)
          /\ Len(three \o inbound) = k3 + Len(inbound)
      BY <2>2, <2>11, <3>1, ContinuesConcat
    <3>3. all = three \o inbound
      BY <2>1, <2>2
    <3>4. QED
      BY <2>0, <2>10, <3>2, <3>3
  <2>4. handle => all = accepted
    BY <2>0, <2>3, ContinuesFromOne DEF QueueInv, CountInv
  <2>5. IsPrefix(received, accepted)
    <3>1. accepted \in Seq(Nat) /\ Len(accepted) = posted /\ Len(received) <= posted
      BY <2>0 DEF QueueInv, CountInv
    <3>2. \A i \in 1..Len(received) : accepted[i] \in Nat
      BY <2>0, <3>1 DEF QueueInv, CountInv
    <3>3. /\ SubSeq(accepted, 1, Len(received)) \in Seq(Nat)
          /\ Len(SubSeq(accepted, 1, Len(received))) = Len(received)
          /\ \A i \in 1..Len(received) : SubSeq(accepted, 1, Len(received))[i] = accepted[i]
      <4>1. PICK l : l = Len(received) /\ l \in Int /\ 1 \in Int
        BY <2>0 DEF QueueInv
      <4>2. \A i \in 1..l : accepted[i] \in Nat
        BY <3>2, <4>1
      <4>3. l >= 0
        BY <4>1, <2>0 DEF QueueInv
      <4>4. /\ SubSeq(accepted, 1, l) \in Seq(Nat)
            /\ Len(SubSeq(accepted, 1, l)) = IF 1 <= l THEN l - 1 + 1 ELSE 0
            /\ \A i \in 1..(l - 1 + 1) : SubSeq(accepted, 1, l)[i] = accepted[1 + i - 1]
        <5>1. PICK a : a = accepted
          OBVIOUS
        <5>2. \A i \in 1..l : a[i] \in Nat
          BY <4>2, <5>1
        <5>3. /\ SubSeq(a, 1, l) \in Seq(Nat)
              /\ Len(SubSeq(a, 1, l)) = IF 1 <= l THEN l - 1 + 1 ELSE 0
              /\ \A i \in 1..(l - 1 + 1) : SubSeq(a, 1, l)[i] = a[1 + i - 1]
          BY <4>1, <5>2, SubSeqProperties
        <5>4. QED
          BY <5>1, <5>3
      <4>5. QED
        BY <4>1, <4>3, <4>4
    <3>4. SubSeq(received, 1, Len(received)) = received
      BY <2>0, SubSeqFull DEF QueueInv, CountInv
    <3>5. \A i \in 1..Len(received) : received[i] = accepted[i]
      BY <2>0, <3>1 DEF QueueInv, CountInv, Continues
    <3>6. SubSeq(accepted, 1, Len(received)) = received
      BY <2>0, <3>3, <3>5, SeqEqual DEF QueueInv
    <3>7. QED
      BY <3>1, <3>4, <3>6 DEF IsPrefix
  <2>6. thread = "exited" => answered = posted
    BY <2>0 DEF QueueInv, CountInv, StateInv
  <2>7. QED
    BY <2>0, <2>4, <2>5, <2>6 DEF AnswersInOrder, StateInv
<1>2. QED
  BY <1>1, ThreadInitial, ThreadInductive, PTL DEF ThreadWorkerSpec

----------------------------------------------------------------------------
(* Shared memory.                                                          *)

(* A byte of the buffer.                                                   *)
Bytes == 0..(BufferBytes - 1)

(* A buffer with the first n bytes of an element stored.                   *)
PartlyStored(bytes, place, element, n) ==
  [i \in Bytes |-> IF i \in place.at..(place.at + n - 1)
                   THEN ByteOf(element, i - place.at) ELSE bytes[i]]

(* An access is a record of the code's locals.                             *)
Fields(a) ==
  DOMAIN a = {"step", "op", "place", "operand", "expected", "previous", "next"}

(* An access in progress is of an element within the buffer, and the next  *)
(* byte it touches is one of the element's.                                *)
AccessInv ==
  /\ DOMAIN access = Threads
  /\ \A t \in Threads :
       LET a == access[t] IN
       /\ Fields(a)
       /\ a.step \in {"none", "bytes", "locked", "storing", "done"}
       /\ a.step # "none" => a.place \in Elements
       /\ a.step = "locked" => a.next = 0
       /\ a.step \in {"bytes", "storing"} => a.next \in 0..(a.place.size - 1)

(* Who holds the lock is in the middle of an operation of Atomics, and the *)
(* other way round.                                                        *)
BufferLockInv ==
  /\ bufferLock \in Threads \cup {NoThread}
  /\ \A t \in Threads : bufferLock = t <=> access[t].step \in {"locked", "storing", "done"}

(* The buffer is what it would be, were operations one step, but for the   *)
(* bytes that the operation under way has stored.                          *)
StoredInv ==
  /\ buffer = [i \in Bytes |-> buffer[i]] /\ updated = [i \in Bytes |-> updated[i]]
  /\ bufferLock = NoThread => buffer = updated
  /\ \A t \in Threads :
       LET a == access[t] IN
       /\ a.step = "locked" => buffer = updated
       /\ a.step \in {"storing", "done"} => a.previous = ElementOf(updated, a.place)
       /\ a.step = "storing" =>
            Writes(a) /\ buffer = PartlyStored(updated, a.place, Applied(a), a.next)
       /\ a.step = "done" =>
            buffer = IF Writes(a) THEN PartlyStored(updated, a.place, Applied(a), a.place.size)
                                  ELSE updated

BufferInv == AccessInv /\ BufferLockInv /\ StoredInv

(* An element begins and ends within the buffer.                           *)
LEMMA WithinBuffer ==
  ASSUME NEW place \in Elements
  PROVE  /\ place.at \in Nat /\ place.size \in Nat \ {0}
         /\ \A n \in 0..(place.size - 1) : place.at + n \in Bytes
<1>1. PICK s \in ElementSizes, i \in 0..(BufferBytes - 1) : place = [at |-> s * i, size |-> s]
  BY DEF Elements, Places
<1>2. s \in Nat \ {0} /\ i \in Nat /\ BufferBytes \in Nat
  BY <1>1, SharedBufferAssumption DEF SharedBufferAssumption
<1>3. s * i \in Nat
  BY <1>2
<1>4. place.at + place.size <= BufferBytes
  BY DEF Elements
<1>5. QED
  BY <1>1, <1>2, <1>3, <1>4 DEF Bytes

(* Nobody accesses the buffer, which is zero.                              *)
LEMMA BufferInitial == SharedBufferInit => BufferInv
<1> SUFFICES ASSUME SharedBufferInit PROVE BufferInv
  OBVIOUS
<1>1. NoAccess.step = "none" /\ Fields(NoAccess)
  BY DEF NoAccess, Fields
<1>2. QED
  BY <1>1, SharedBufferAssumption
     DEF SharedBufferInit, BufferInv, AccessInv, BufferLockInv, StoredInv, Bytes,
         SharedBufferAssumption

(* An operation of Atomics begins when nobody holds the lock, and then the *)
(* buffer is as it would be.                                               *)
LEMMA BeginAtomicKeeps ==
  ASSUME BufferInv, NEW t \in Threads, NEW op, NEW place \in Elements, NEW operand, NEW expected,
         BeginAtomic(t, op, place, operand, expected)
  PROVE  BufferInv'
<1> DEFINE a == [NoAccess EXCEPT !.step = "locked", !.op = op, !.place = place,
                                 !.operand = operand, !.expected = expected]
<1>0. AccessInv /\ BufferLockInv /\ StoredInv
  BY DEF BufferInv
<1>1. /\ bufferLock = NoThread /\ bufferLock' = t
      /\ access' = [access EXCEPT ![t] = a]
      /\ UNCHANGED <<buffer, updated>>
  BY DEF BeginAtomic, Begins
<1>2. Fields(a) /\ a.step = "locked" /\ a.place = place /\ a.next = 0
  BY DEF NoAccess, Fields
<1> HIDE DEF a
<1>3. /\ DOMAIN access' = Threads /\ access'[t] = a
      /\ \A d \in Threads \ {t} : access'[d] = access[d]
  BY <1>0, <1>1 DEF AccessInv
<1>4. AccessInv'
  BY <1>0, <1>2, <1>3 DEF AccessInv
<1>5. BufferLockInv'
  BY <1>0, <1>1, <1>2, <1>3, SharedBufferAssumption
     DEF BufferLockInv, SharedBufferAssumption
<1>6. StoredInv'
  BY <1>0, <1>1, <1>2, <1>3 DEF StoredInv, BufferLockInv, PartlyStored
<1>7. QED
  BY <1>4, <1>5, <1>6 DEF BufferInv

(* A plain access begins without the lock.                                 *)
LEMMA BeginPlainKeeps ==
  ASSUME BufferInv, NEW t \in Threads, NEW op, NEW place \in Elements, NEW operand,
         BeginPlain(t, op, place, operand)
  PROVE  BufferInv'
<1> DEFINE a == [NoAccess EXCEPT !.step = "bytes", !.op = op, !.place = place,
                                 !.operand = operand]
<1>0. AccessInv /\ BufferLockInv /\ StoredInv
  BY DEF BufferInv
<1>1. /\ access[t].step = "none" /\ access' = [access EXCEPT ![t] = a]
      /\ UNCHANGED <<buffer, bufferLock, updated>>
  BY DEF BeginPlain, Begins, Accessing
<1>2. Fields(a) /\ a.step = "bytes" /\ a.place = place /\ a.next = 0
  BY DEF NoAccess, Fields
<1> HIDE DEF a
<1>3. /\ DOMAIN access' = Threads /\ access'[t] = a
      /\ \A d \in Threads \ {t} : access'[d] = access[d]
  BY <1>0, <1>1 DEF AccessInv
<1>4. AccessInv'
  <2>1. a.next \in 0..(place.size - 1)
    BY <1>2, WithinBuffer
  <2>2. QED
    BY <1>0, <1>2, <1>3, <2>1 DEF AccessInv
<1>5. BufferLockInv'
  BY <1>0, <1>1, <1>2, <1>3 DEF BufferLockInv
<1>6. StoredInv'
  BY <1>0, <1>1, <1>2, <1>3 DEF StoredInv, PartlyStored
<1>7. QED
  BY <1>4, <1>5, <1>6 DEF BufferInv

(* The element is read while the buffer is as it would be.                 *)
LEMMA AtomicReadsKeeps ==
  ASSUME BufferInv, NEW t \in Threads, AtomicReads(t)
  PROVE  BufferInv'
<1> DEFINE r == [access[t] EXCEPT !.previous = ElementOf(buffer, access[t].place)]
           a == [r EXCEPT !.step = IF Writes(r) THEN "storing" ELSE "done"]
<1>0. AccessInv /\ BufferLockInv /\ StoredInv
  BY DEF BufferInv
<1>1. /\ access[t].step = "locked" /\ access' = [access EXCEPT ![t] = a]
      /\ UNCHANGED <<buffer, bufferLock, updated>>
  BY DEF AtomicReads, Accessing
<1>2. /\ Fields(access[t]) /\ access[t].place \in Elements /\ access[t].next = 0
      /\ buffer = updated
  BY <1>0, <1>1 DEF AccessInv, StoredInv
<1>3. /\ Fields(r) /\ r.previous = ElementOf(updated, access[t].place)
      /\ r.op = access[t].op /\ r.expected = access[t].expected /\ r.operand = access[t].operand
      /\ r.place = access[t].place /\ r.next = 0
  BY <1>2 DEF Fields
<1> HIDE DEF r
<1>4. /\ Fields(a) /\ a.previous = r.previous /\ a.op = r.op /\ a.expected = r.expected
      /\ a.operand = r.operand /\ a.place = r.place /\ a.next = 0
      /\ a.step = IF Writes(r) THEN "storing" ELSE "done"
  BY <1>3 DEF Fields
<1> HIDE DEF a
<1>5. Writes(a) <=> Writes(r)
  BY <1>4 DEF Writes
<1>6. /\ DOMAIN access' = Threads /\ access'[t] = a
      /\ \A d \in Threads \ {t} : access'[d] = access[d]
  BY <1>0, <1>1 DEF AccessInv
<1>7. AccessInv'
  <2>1. a.next \in 0..(a.place.size - 1) /\ a.place \in Elements
    BY <1>2, <1>3, <1>4, WithinBuffer
  <2>2. QED
    BY <1>0, <1>4, <1>6, <2>1 DEF AccessInv
<1>8. BufferLockInv'
  BY <1>0, <1>1, <1>4, <1>6 DEF BufferLockInv
<1>9. StoredInv'
  <2>1. PartlyStored(updated, a.place, Applied(a), 0) = updated
    <3>1. a.place.at \in Nat
      BY <1>2, <1>3, <1>4, WithinBuffer
    <3>2. \A i \in Bytes : i \notin a.place.at..(a.place.at + 0 - 1)
      BY <3>1, SharedBufferAssumption DEF Bytes, SharedBufferAssumption
    <3>3. updated = [i \in Bytes |-> updated[i]]
      BY <1>0 DEF StoredInv
    <3>4. QED
      BY <3>2, <3>3 DEF PartlyStored
  <2>2. \A d \in Threads \ {t} : access[d].step \notin {"locked", "storing", "done"}
    BY <1>0, <1>1 DEF BufferLockInv
  <2>3. bufferLock # NoThread
    BY <1>0, <1>1, SharedBufferAssumption DEF BufferLockInv, SharedBufferAssumption
  <2>4. QED
    BY <1>0, <1>1, <1>2, <1>3, <1>4, <1>5, <1>6, <2>1, <2>2, <2>3 DEF StoredInv, PartlyStored
<1>10. QED
  BY <1>7, <1>8, <1>9 DEF BufferInv

(* One more byte of the new element is stored.                             *)
LEMMA AtomicStoresKeeps ==
  ASSUME BufferInv, NEW t \in Threads, AtomicStores(t)
  PROVE  BufferInv'
<1> DEFINE a == access[t]
           b == access'[t]
<1>0. AccessInv /\ BufferLockInv /\ StoredInv
  BY DEF BufferInv
<1>1. /\ a.step = "storing"
      /\ buffer' = [buffer EXCEPT ![a.place.at + a.next] = ByteOf(Applied(a), a.next)]
      /\ access' = [access EXCEPT ![t].next = @ + 1,
                                  ![t].step = IF a.next + 1 = a.place.size THEN "done" ELSE @]
      /\ UNCHANGED <<bufferLock, updated>>
  BY DEF AtomicStores, Accessing
<1>2. /\ Fields(a) /\ a.place \in Elements /\ a.next \in 0..(a.place.size - 1)
      /\ a.previous = ElementOf(updated, a.place) /\ Writes(a)
      /\ buffer = PartlyStored(updated, a.place, Applied(a), a.next)
      /\ DOMAIN access = Threads
  BY <1>0, <1>1 DEF AccessInv, StoredInv
<1>3. /\ DOMAIN access' = Threads
      /\ \A d \in Threads \ {t} : access'[d] = access[d]
      /\ b = [a EXCEPT !.next = a.next + 1,
                       !.step = IF a.next + 1 = a.place.size THEN "done" ELSE "storing"]
  BY <1>1, <1>2 DEF Fields
<1>4. /\ Fields(b) /\ b.place = a.place /\ b.op = a.op /\ b.operand = a.operand
      /\ b.previous = a.previous /\ b.expected = a.expected /\ b.next = a.next + 1
      /\ b.step = IF a.next + 1 = a.place.size THEN "done" ELSE "storing"
  BY <1>2, <1>3 DEF Fields
<1>5. Writes(b) /\ Applied(b) = Applied(a)
  BY <1>2, <1>4 DEF Writes, Applied
<1> HIDE DEF a, b
<1>6. /\ a.place.at \in Nat /\ a.place.size \in Nat \ {0} /\ a.place.at + a.next \in Bytes
      /\ a.next \in Nat
  BY <1>2, WithinBuffer
<1>7. AccessInv'
  <2>1. b.step = "storing" => b.next \in 0..(b.place.size - 1)
    BY <1>2, <1>4, <1>6
  <2>2. QED
    BY <1>0, <1>2, <1>3, <1>4, <2>1 DEF AccessInv, b
<1>8. BufferLockInv'
  BY <1>0, <1>1, <1>3, <1>4 DEF BufferLockInv, a, b
<1>9. buffer' = PartlyStored(updated, a.place, Applied(a), a.next + 1)
  <2>1. buffer = [i \in Bytes |-> IF i \in a.place.at..(a.place.at + a.next - 1)
                                  THEN ByteOf(Applied(a), i - a.place.at) ELSE updated[i]]
    BY <1>2 DEF PartlyStored
  <2>2. buffer' = [i \in Bytes |-> IF i = a.place.at + a.next THEN ByteOf(Applied(a), a.next)
                                   ELSE buffer[i]]
    BY <1>1, <2>1
  <2>3. ASSUME NEW i \in Bytes
        PROVE  buffer'[i] = IF i \in a.place.at..(a.place.at + (a.next + 1) - 1)
                            THEN ByteOf(Applied(a), i - a.place.at) ELSE updated[i]
    <3>1. i \in Nat
      BY SharedBufferAssumption DEF Bytes, SharedBufferAssumption
    <3>2. CASE i = a.place.at + a.next
      BY <1>6, <2>2, <3>2
    <3>3. CASE i # a.place.at + a.next
      <4>1. i \in a.place.at..(a.place.at + (a.next + 1) - 1)
              <=> i \in a.place.at..(a.place.at + a.next - 1)
        BY <1>6, <3>1, <3>3
      <4>2. QED
        BY <2>1, <2>2, <3>3, <4>1
    <3>4. QED
      BY <3>2, <3>3
  <2>4. QED
    BY <2>2, <2>3 DEF PartlyStored
<1>10. StoredInv'
  <2>1. \A d \in Threads \ {t} : access[d].step \notin {"locked", "storing", "done"}
    BY <1>0, <1>1 DEF BufferLockInv, a
  <2>2. bufferLock # NoThread
    BY <1>0, <1>1, SharedBufferAssumption DEF BufferLockInv, SharedBufferAssumption, a
  <2>3. buffer' = [i \in Bytes |-> buffer'[i]]
    BY <1>9 DEF PartlyStored
  <2>4. buffer' = PartlyStored(updated, b.place, Applied(b), b.next)
    BY <1>4, <1>5, <1>9
  <2>5. b.step = "done" => b.next = b.place.size
    BY <1>4
  <2>6. b.step = "storing" =>
          Writes(b) /\ buffer' = PartlyStored(updated', b.place, Applied(b), b.next)
    BY <1>1, <1>5, <2>4 DEF PartlyStored
  <2>7. b.step = "done" =>
          buffer' = IF Writes(b) THEN PartlyStored(updated', b.place, Applied(b), b.place.size) ELSE updated'
    BY <1>1, <1>5, <2>4, <2>5 DEF PartlyStored
  <2>8. b.step \in {"storing", "done"} /\ b.previous = ElementOf(updated', b.place)
    BY <1>1, <1>2, <1>4
  <2>9. updated' = [i \in Bytes |-> updated'[i]]
    BY <1>0, <1>1 DEF StoredInv
  <2>10. \A d \in Threads \ {t} : access'[d].step \notin {"locked", "storing", "done"}
    BY <1>3, <2>1
  <2>11. bufferLock' # NoThread
    BY <1>1, <2>2
  <2> HIDE DEF b
  <2>12. QED
    BY <1>3, <2>3, <2>6, <2>7, <2>8, <2>9, <2>10, <2>11 DEF StoredInv, b
<1>11. QED
  BY <1>7, <1>8, <1>10 DEF BufferInv

(* The operation is over, and is counted as the one step it stands for.    *)
LEMMA AtomicReturnsKeeps ==
  ASSUME BufferInv, NEW t \in Threads, AtomicReturns(t)
  PROVE  BufferInv'
<1> DEFINE a == access[t]
<1>0. AccessInv /\ BufferLockInv /\ StoredInv
  BY DEF BufferInv
<1>1. /\ a.step = "done" /\ bufferLock' = NoThread
      /\ updated' = IF Writes(a) THEN WithElement(updated, a.place, Applied(a)) ELSE updated
      /\ access' = [access EXCEPT ![t] = NoAccess]
      /\ UNCHANGED buffer
  BY DEF AtomicReturns, Accessing
<1>2. Fields(NoAccess) /\ NoAccess.step = "none"
  BY DEF NoAccess, Fields
<1>3. /\ DOMAIN access' = Threads /\ access'[t] = NoAccess
      /\ \A d \in Threads \ {t} : access'[d] = access[d]
  BY <1>0, <1>1 DEF AccessInv
<1>4. \A d \in Threads \ {t} : access[d].step \notin {"locked", "storing", "done"}
  BY <1>0, <1>1 DEF BufferLockInv
<1>5. AccessInv'
  BY <1>0, <1>2, <1>3 DEF AccessInv
<1>6. BufferLockInv'
  BY <1>0, <1>1, <1>2, <1>3, <1>4, SharedBufferAssumption
     DEF BufferLockInv, SharedBufferAssumption
<1>7. buffer = updated'
  <2>1. DOMAIN updated = Bytes
    BY <1>0 DEF StoredInv
  <2>2. CASE Writes(a)
    BY <1>0, <1>1, <2>1, <2>2 DEF StoredInv, PartlyStored, WithElement
  <2>3. CASE ~Writes(a)
    BY <1>0, <1>1, <2>3 DEF StoredInv
  <2>4. QED
    BY <2>2, <2>3
<1>8. StoredInv'
  BY <1>0, <1>1, <1>2, <1>3, <1>4, <1>7 DEF StoredInv
<1>9. QED
  BY <1>5, <1>6, <1>8 DEF BufferInv

(* A plain byte is touched while nobody holds the lock.                    *)
LEMMA PlainByteKeeps ==
  ASSUME BufferInv, NEW t \in Threads, PlainByte(t)
  PROVE  BufferInv'
<1> DEFINE a == access[t]
           b == access'[t]
<1>0. AccessInv /\ BufferLockInv /\ StoredInv
  BY DEF BufferInv
<1>1. /\ a.step = "bytes" /\ bufferLock = NoThread
      /\ \/ /\ buffer' = [buffer EXCEPT ![a.place.at + a.next] = ByteOf(a.operand, a.next)]
            /\ updated' = [updated EXCEPT ![a.place.at + a.next] = ByteOf(a.operand, a.next)]
         \/ UNCHANGED <<buffer, updated>>
      /\ access' = [access EXCEPT ![t] = IF a.next + 1 = a.place.size THEN NoAccess
                                         ELSE [a EXCEPT !.next = @ + 1]]
      /\ UNCHANGED bufferLock
  BY DEF PlainByte, Accessing, GetsLock
<1>2. /\ Fields(a) /\ a.place \in Elements /\ a.next \in 0..(a.place.size - 1)
      /\ DOMAIN access = Threads /\ buffer = updated
  BY <1>0, <1>1 DEF AccessInv, StoredInv
<1>3. /\ DOMAIN access' = Threads
      /\ \A d \in Threads \ {t} : access'[d] = access[d]
      /\ b = IF a.next + 1 = a.place.size THEN NoAccess ELSE [a EXCEPT !.next = a.next + 1]
  BY <1>1, <1>2 DEF Fields
<1>4. /\ Fields(b)
      /\ \/ b.step = "none"
         \/ b.step = "bytes" /\ b.place = a.place /\ b.next = a.next + 1
            /\ a.next + 1 # a.place.size
  BY <1>1, <1>2, <1>3 DEF Fields, NoAccess
<1> HIDE DEF b
<1>5. AccessInv'
  <2>1. a.place.size \in Nat
    BY <1>2, WithinBuffer
  <2>2. b.step = "bytes" => b.place \in Elements /\ b.next \in 0..(b.place.size - 1)
    BY <1>2, <1>4, <2>1
  <2>3. QED
    BY <1>0, <1>3, <1>4, <2>2 DEF AccessInv, b
<1>6. \A d \in Threads : access[d].step \notin {"locked", "storing", "done"}
  BY <1>0, <1>1, SharedBufferAssumption DEF BufferLockInv, SharedBufferAssumption
<1>7. BufferLockInv'
  BY <1>0, <1>1, <1>3, <1>4, <1>6, SharedBufferAssumption
     DEF BufferLockInv, SharedBufferAssumption, b
<1>8. buffer' = updated' /\ updated' = [i \in Bytes |-> updated'[i]]
  BY <1>0, <1>1, <1>2 DEF StoredInv
<1>9. StoredInv'
  BY <1>3, <1>4, <1>6, <1>8 DEF StoredInv, b
<1>10. QED
  BY <1>5, <1>7, <1>9 DEF BufferInv

(* Every step of a thread keeps the three.                                 *)
LEMMA BufferInductive == BufferInv /\ [SharedBufferNext]_bufferVars => BufferInv'
<1> SUFFICES ASSUME BufferInv, [SharedBufferNext]_bufferVars PROVE BufferInv'
  OBVIOUS
<1>1. CASE UNCHANGED bufferVars
  BY <1>1 DEF bufferVars, BufferInv, AccessInv, BufferLockInv, StoredInv, PartlyStored
<1>2. CASE SharedBufferNext
  BY <1>2, BeginAtomicKeeps, BeginPlainKeeps, AtomicReadsKeeps, AtomicStoresKeeps,
     AtomicReturnsKeeps, PlainByteKeeps DEF SharedBufferNext
<1>3. QED
  BY <1>1, <1>2

(* No update by Atomics is lost, and each answers what was there, for any  *)
(* number of threads and any kinds of typed arrays over one buffer.        *)
THEOREM UpdatesAreKept == SharedBufferSpec => []UpdatesKept
<1>1. BufferInv => UpdatesKept
  BY DEF BufferInv, StoredInv, UpdatesKept, Accessing
<1>2. QED
  BY <1>1, BufferInitial, BufferInductive, PTL DEF SharedBufferSpec

----------------------------------------------------------------------------
(* The services side by side.                                              *)

(* Every behaviour of the services is a behaviour of each of them, whose   *)
(* steps are its own or leave all that it knows as it is.                  *)
THEOREM EachServiceByItself ==
  ServicesSpec =>
    /\ SchedulerSpec /\ ThreadWorkerSpec /\ StreamsSpec /\ SharedBufferSpec
    /\ BigIntSpec /\ StorageSpec /\ HttpServerSpec
<1>1. ServicesInit =>
        /\ SchedulerInit /\ ThreadWorkerInit /\ StreamsInit /\ SharedBufferInit
        /\ BigIntInit /\ StorageInit /\ HttpServerInit
  BY DEF ServicesInit
<1>2. ASSUME [ServicesNext]_servicesVars
      PROVE  /\ [SchedulerNext]_schedulerVars /\ [ThreadWorkerNext]_workerVars
             /\ [StreamsNext]_streamVars /\ [SharedBufferNext]_bufferVars
             /\ [Evaluate]_bigintVars /\ [StorageNext]_storageVars
             /\ [HttpServerNext]_httpVars
  <2>1. CASE ServicesNext
    BY <2>1 DEF ServicesNext
  <2>2. CASE UNCHANGED servicesVars
    BY <2>2 DEF servicesVars
  <2>3. QED
    BY <1>2, <2>1, <2>2
<1>3. QED
  BY <1>1, <1>2, PTL DEF ServicesSpec, SchedulerSpec, ThreadWorkerSpec, StreamsSpec,
     SharedBufferSpec, BigIntSpec, StorageSpec, HttpServerSpec

(* What is proved of a service by itself holds of it among the others: the *)
(* scheduler's tasks have an owner, the worker's answers are in order, a   *)
(* stream's end is told once, no atomic update is lost, what a store       *)
(* acknowledged is kept, and the server tells its listeners and counts its *)
(* goroutines; and promises settle as the contract allows.                 *)
THEOREM ServicesKeepTheirs ==
  ServicesSpec =>
    /\ [](/\ TasksOwned /\ AnswersInOrder /\ EndsOnce /\ UpdatesKept
          /\ AcknowledgedKept /\ ServerKeeps)
    /\ ImplementsPromises
<1>1. ServicesSpec => [](/\ TasksOwned /\ AnswersInOrder /\ EndsOnce /\ UpdatesKept
                         /\ AcknowledgedKept /\ ServerKeeps)
  BY EachServiceByItself, TasksAreOwned, AnswersAreInOrder, StreamsEndOnce, UpdatesAreKept,
     AcknowledgedIsKept, ServerIsKept, PTL
<1>2. ServicesSpec => ImplementsPromises
  BY EachServiceByItself, SchedulerRefinement
<1>3. QED
  BY <1>1, <1>2
====
