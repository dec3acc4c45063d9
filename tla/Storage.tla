---- MODULE Storage ----
(***************************************************************************)
(* runtime/storage_internal.go: a key/value store kept in memory and       *)
(* written to one JSON file, as a whole, by every put, delete and close.   *)
(*                                                                         *)
(* Several goroutines call into a store, whose mutex covers memory and     *)
(* write but not the check that the store is open; several stores may be   *)
(* opened on the same file, with nothing between them.  A write truncates  *)
(* the file and then writes from its start, over what another store may    *)
(* have written in between.  It may fail before and in the middle, and the *)
(* process may crash at any point and be started again.  How long a        *)
(* content is is left out: of two contents either may be the longer one.   *)
(* Get and Scan change nothing and are left out, and so is the store       *)
(* without a path.                                                         *)
(***************************************************************************)
EXTENDS Integers, FiniteSets

CONSTANTS
  Keys, Values,
  Stores,     (* the results of StorageOpen                                 *)
  Clients,    (* goroutines                                                 *)
  MaxCalls,   (* calls of put, delete and close over a behaviour            *)
  MaxCrashes,
  None,       (* the value of a key that is not there                       *)
  Free,       (* history: nothing is owed for the key                       *)
  NoStore, NoClient

ASSUME StorageAssumption ==
  /\ MaxCalls \in Nat /\ MaxCrashes \in Nat
  /\ None \notin Values /\ Free \notin Values \union {None}
  /\ NoStore \notin Stores /\ NoClient \notin Clients

VARIABLES
  file,    (* the file's content, or empty, torn (no JSON) or missing       *)
  values, opened, shut, mu,  (* by store; opened: StorageOpen answered it,  *)
                             (* shut: its closed flag                       *)
  calls,   (* by client: the call in progress                               *)
  (* --- history --- *)
  newest,  (* the store opened last                                         *)
  writer,  (* the store whose write was the last, unless it failed or ran   *)
           (* over one of another store                                     *)
  owed,    (* by key: the value acknowledged last, see AcknowledgedKept     *)
  made, crashes

storeVars == <<values, opened, shut, mu>>
storageVars == <<file, storeVars, calls, newest, writer, owed, made, crashes>>

Map == [Keys -> Values \union {None}]
EmptyMap == [k \in Keys |-> None]
Holds(m) == [kind |-> "map", map |-> m]
Is(kind) == [kind |-> kind, map |-> EmptyMap]
NothingOwed == [k \in Keys |-> Free]

(* step: none, checked (the store was open), locked or truncated; data is  *)
(* what json.Marshal made of the map.                                      *)
NoCall == [step |-> "none", store |-> NoStore, op |-> "none", key |-> None, value |-> None,
           data |-> EmptyMap]

StorageInit ==
  /\ file = Is("missing")
  /\ values = [s \in Stores |-> EmptyMap]
  /\ opened = [s \in Stores |-> FALSE] /\ shut = [s \in Stores |-> FALSE]
  /\ mu = [s \in Stores |-> NoClient]
  /\ calls = [c \in Clients |-> NoCall]
  /\ newest = NoStore /\ writer = NoStore
  /\ owed = NothingOwed
  /\ made = 0 /\ crashes = 0

InUse(s) == (opened[s] /\ ~shut[s]) \/ \E c \in Clients : calls[c].store = s

(* A file that is missing or empty opens as an empty store; one that is no *)
(* JSON does not open.                                                     *)
StorageOpen(s) ==
  /\ ~opened[s] /\ file.kind # "torn"
  /\ opened' = [opened EXCEPT ![s] = TRUE]
  /\ values' = [values EXCEPT ![s] = file.map]
  /\ newest' = s
  /\ owed' = IF \E other \in Stores \ {s} : InUse(other) THEN NothingOwed ELSE owed
  /\ UNCHANGED <<file, shut, mu, calls, writer, made, crashes>>

(* The check of ensureStorageOpen, before the lock.                        *)
Begin(c, s, op, k, v) ==
  /\ calls[c] = NoCall /\ made < MaxCalls
  /\ opened[s]
  /\ op # "close" => ~shut[s]
  /\ calls' = [calls EXCEPT ![c] = [NoCall EXCEPT !.step = "checked", !.store = s, !.op = op,
                                                  !.key = k, !.value = v]]
  /\ made' = made + 1
  /\ UNCHANGED <<file, storeVars, newest, writer, owed, crashes>>

StoragePut(c, s) == \E k \in Keys, v \in Values : Begin(c, s, "put", k, v)
StorageDelete(c, s) == \E k \in Keys : Begin(c, s, "delete", k, None)
StorageClose(c, s) == Begin(c, s, "close", None, None)

(* Mutant: put and delete do not wait for the lock.                        *)
UnlockedAlways(s) == TRUE
Unlocked(s) == mu[s] = NoClient

(* The lock is taken, the map changed and marshalled.                      *)
Lock(c) ==
  LET s == calls[c].store  k == calls[c].key
      after == IF k = None THEN values[s] ELSE [values[s] EXCEPT ![k] = calls[c].value]
  IN /\ calls[c].step = "checked" /\ Unlocked(s)
     /\ calls[c].op = "close" => ~shut[s]
     /\ mu' = [mu EXCEPT ![s] = c]
     /\ values' = [values EXCEPT ![s] = after]
     /\ calls' = [calls EXCEPT ![c].step = "locked", ![c].data = after]
     /\ owed' = IF k = None THEN owed ELSE [owed EXCEPT ![k] = Free]
     /\ UNCHANGED <<file, opened, shut, newest, writer, made, crashes>>

(* A second close: ErrStorageClosed.                                       *)
CloseRefused(c) ==
  /\ calls[c].step = "checked" /\ Unlocked(calls[c].store)
  /\ calls[c].op = "close" /\ shut[calls[c].store]
  /\ calls' = [calls EXCEPT ![c] = NoCall]
  /\ UNCHANGED <<file, storeVars, newest, writer, owed, made, crashes>>

(* persistLocked: os.WriteFile truncates the file, then writes it.         *)
Truncate(c) ==
  /\ calls[c].step = "locked"
  /\ file' = Is("empty")
  /\ writer' = NoStore
  /\ calls' = [calls EXCEPT ![c].step = "truncated"]
  /\ UNCHANGED <<storeVars, newest, owed, made, crashes>>

Unlock(c) ==
  /\ mu' = [mu EXCEPT ![calls[c].store] = NoClient]
  /\ calls' = [calls EXCEPT ![c] = NoCall]

(* The file is as this call, or another one at this point, truncated it.   *)
Undisturbed == file.kind = "empty"

(* The call answers that all went well.  Another store may have written    *)
(* since this call truncated the file; if its content is longer, its tail  *)
(* stays behind this one's, and that is no JSON.  What was written by a    *)
(* store that is not the newest on the file, or over another's content,    *)
(* may undo what others acknowledged.                                      *)
Write(c) ==
  LET s == calls[c].store  k == calls[c].key
  IN /\ calls[c].step = "truncated"
     /\ \/ file' = Holds(calls[c].data)
        \/ ~Undisturbed /\ file # Holds(calls[c].data) /\ file' = Is("torn")
     /\ writer' = IF Undisturbed THEN s ELSE NoStore
     /\ shut' = IF calls[c].op = "close" THEN [shut EXCEPT ![s] = TRUE] ELSE shut
     /\ owed' = CASE s # newest \/ ~Undisturbed -> NothingOwed
                  [] s = newest /\ Undisturbed /\ k # None -> [owed EXCEPT ![k] = calls[c].value]
                  [] OTHER -> owed
     /\ Unlock(c)
     /\ UNCHANGED <<values, opened, newest, made, crashes>>

(* The directory or the file cannot be opened for writing: the file stays, *)
(* and so does the change in memory.                                       *)
FailToOpen(c) ==
  /\ calls[c].step = "locked"
  /\ writer' = NoStore
  /\ Unlock(c)
  /\ UNCHANGED <<file, values, opened, shut, newest, owed, made, crashes>>

(* What is in the file when these calls have written a part, or all.  The  *)
(* start of one content over another may be JSON of any map.               *)
CutShort(writing) ==
  {file, Is("torn")} \union
    IF Undisturbed /\ \E c \in writing : writing = {c}
    THEN {Holds(calls[c].data) : c \in writing}
    ELSE {Holds(m) : m \in Map}

FailToWrite(c) ==
  /\ calls[c].step = "truncated"
  /\ file' \in CutShort({c})
  /\ owed' = NothingOwed
  /\ writer' = NoStore
  /\ Unlock(c)
  /\ UNCHANGED <<values, opened, shut, newest, made, crashes>>

(* The process ends at any point, also in the middle of a write, and is    *)
(* started again: its stores are gone.                                     *)
Crash ==
  LET Writing == {c \in Clients : calls[c].step = "truncated"}
      cut == Writing # {}
  IN /\ crashes < MaxCrashes
     /\ crashes' = crashes + 1
     /\ file' \in IF cut THEN CutShort(Writing) ELSE {file}
     /\ owed' = IF cut THEN NothingOwed ELSE owed
     /\ writer' = NoStore /\ newest' = NoStore
     /\ values' = [s \in Stores |-> EmptyMap]
     /\ opened' = [s \in Stores |-> FALSE] /\ shut' = [s \in Stores |-> FALSE]
     /\ mu' = [s \in Stores |-> NoClient]
     /\ calls' = [c \in Clients |-> NoCall]
     /\ UNCHANGED made

StorageNext ==
  \/ \E s \in Stores : StorageOpen(s)
  \/ \E c \in Clients, s \in Stores :
       StoragePut(c, s) \/ StorageDelete(c, s) \/ StorageClose(c, s)
  \/ \E c \in Clients :
       Lock(c) \/ CloseRefused(c) \/ Truncate(c) \/ Write(c) \/ FailToOpen(c) \/ FailToWrite(c)
  \/ Crash

StorageTypeOK ==
  /\ file \in [kind : {"missing", "empty", "torn", "map"}, map : Map]
  /\ values \in [Stores -> Map]
  /\ opened \in [Stores -> BOOLEAN] /\ shut \in [Stores -> BOOLEAN]
  /\ mu \in [Stores -> Clients \union {NoClient}]
  /\ calls \in [Clients -> [step : {"none", "checked", "locked", "truncated"},
                            store : Stores \union {NoStore},
                            op : {"none", "put", "delete", "close"},
                            key : Keys \union {None}, value : Values \union {None},
                            data : Map]]
  /\ newest \in Stores \union {NoStore} /\ writer \in Stores \union {NoStore}
  /\ owed \in [Keys -> Values \union {None, Free}]
  /\ made \in 0..MaxCalls /\ crashes \in 0..MaxCrashes

(* Over concurrent calls, calls that outlive Close, failed writes, crashes *)
(* and reopening.  Once the last write went well, found the file as it had *)
(* truncated it, and its store is at rest, the file is what the store has  *)
(* in memory, failed changes included.  And what a put or delete           *)
(* acknowledged stays in the file, but for the moment in which a write has *)
(* truncated it, and in the memory of the store opened last, until the key *)
(* is changed again, a write is cut short, or a second store is at work on *)
(* the same file.                                                          *)
AcknowledgedKept ==
  /\ writer # NoStore /\ mu[writer] = NoClient => file = Holds(values[writer])
  /\ \A k \in Keys :
       owed[k] # Free =>
         /\ \/ file.kind = "map" /\ file.map[k] = owed[k]
            \/ Undisturbed /\ \E c \in Clients : calls[c].step = "truncated"
         /\ newest # NoStore => values[newest][k] = owed[k]

(* docs/storage.md:14, "storage.close(store) flushes pending state and     *)
(* closes the store"; runtime_storage_test.go:68 is named for rejecting    *)
(* its use after that: once Close has answered, its store touches the file *)
(* no more.                                                                *)
ClosedIsFinal ==
  [][\A c \in Clients : calls[c].step = "locked" /\ shut[calls[c].store] =>
       calls'[c].step # "truncated"]_storageVars

StorageSpec == StorageInit /\ [][StorageNext]_storageVars

====
