---- MODULE SharedBuffer ----
(***************************************************************************)
(* old_version/runtime/jayess_runtime_typed_arrays.c: one SharedArrayBuffer*)
(* that several worker threads see through typed arrays of integers.       *)
(*                                                                         *)
(* An operation of Atomics holds the buffer's lock from its first byte to  *)
(* its last.  A plain get or set takes the lock anew for every byte, so an *)
(* element of several bytes may be got or set in parts.  Elements are      *)
(* unsigned and of little-endian bytes; and, or and xor differ from add in *)
(* their arithmetic only, store from exchange in its answer only.  Sizes   *)
(* are those of Uint8Array and Uint16Array: for a result that does not fit *)
(* in four bytes C leaves the conversion undefined.                        *)
(***************************************************************************)
EXTENDS Integers, FiniteSetsExt

CONSTANTS
  Threads,      (* worker threads and the main thread                       *)
  BufferBytes,  (* bytes of the buffer                                      *)
  ByteValues,   (* values of a byte: 0..ByteValues - 1, 256 in the code     *)
  ElementSizes, (* bytes of an element, by the kind of typed array          *)
  MaxAccesses,  (* over a behaviour                                         *)
  NoThread

ASSUME SharedBufferAssumption ==
  /\ {BufferBytes, ByteValues} \cup ElementSizes \subseteq Nat \ {0}
  /\ MaxAccesses \in Nat /\ NoThread \notin Threads

VARIABLES
  buffer,      (* state->bytes                                              *)
  bufferLock,  (* state->lock: the thread that holds it                     *)
  access,      (* by thread: the access in progress                         *)
  (* --- history --- *)
  updated,     (* the bytes, were every operation of Atomics one step       *)
  accesses

bufferVars == <<buffer, bufferLock, access, updated, accesses>>

AtomicOps == {"load", "exchange", "add", "sub", "compareExchange"}
Places == {[at |-> s * i, size |-> s] : s \in ElementSizes, i \in 0..(BufferBytes - 1)}
Elements == {p \in Places : p.at + p.size <= BufferBytes}
Limit(place) == ByteValues^place.size

NoAccess ==
  [step |-> "none", op |-> "none", place |-> [at |-> 0, size |-> 1], operand |-> 0,
   expected |-> 0, previous |-> 0, next |-> 0]

SharedBufferInit ==
  /\ buffer = [i \in 0..(BufferBytes - 1) |-> 0]
  /\ updated = buffer
  /\ bufferLock = NoThread
  /\ access = [t \in Threads |-> NoAccess]
  /\ accesses = 0

ElementOf(bytes, place) ==
  MapThenSumSet(LAMBDA i : bytes[place.at + i] * ByteValues^i, 0..(place.size - 1))
ByteOf(n, i) == (n \div ByteValues^i) % ByteValues
WithElement(bytes, place, n) ==
  [i \in DOMAIN bytes |-> IF i \in place.at..(place.at + place.size - 1)
                          THEN ByteOf(n, i - place.at) ELSE bytes[i]]

(* The new element, what does not fit in it cut off.                       *)
Applied(a) ==
  CASE a.op = "exchange" -> a.operand
    [] a.op = "add" -> (a.previous + a.operand) % Limit(a.place)
    [] a.op = "sub" -> (a.previous - a.operand) % Limit(a.place)
    [] a.op = "compareExchange" -> a.operand
Writes(a) == a.op # "load" /\ (a.op = "compareExchange" => a.previous = a.expected)

Accessing(t, step) == access[t].step = step
Begins(t, a) ==
  /\ Accessing(t, "none") /\ accesses < MaxAccesses
  /\ access' = [access EXCEPT ![t] = a]
  /\ accesses' = accesses + 1

----------------------------------------------------------------------------
(* Atomics: lock, read the element, write its bytes, unlock.               *)
BeginAtomic(t, op, place, operand, expected) ==
  /\ bufferLock = NoThread
  /\ bufferLock' = t
  /\ Begins(t, [NoAccess EXCEPT !.step = "locked", !.op = op, !.place = place,
                                !.operand = operand, !.expected = expected])
  /\ UNCHANGED <<buffer, updated>>

AtomicReads(t) ==
  /\ Accessing(t, "locked")
  /\ LET a == [access[t] EXCEPT !.previous = ElementOf(buffer, access[t].place)]
     IN access' = [access EXCEPT ![t] = [a EXCEPT !.step = IF Writes(a) THEN "storing"
                                                                        ELSE "done"]]
  /\ UNCHANGED <<buffer, bufferLock, updated, accesses>>

AtomicStores(t) ==
  LET a == access[t] IN
  /\ Accessing(t, "storing")
  /\ buffer' = [buffer EXCEPT ![a.place.at + a.next] = ByteOf(Applied(a), a.next)]
  /\ access' = [access EXCEPT ![t].next = @ + 1,
                              ![t].step = IF a.next + 1 = a.place.size THEN "done" ELSE @]
  /\ UNCHANGED <<bufferLock, updated, accesses>>

AtomicReturns(t) ==
  LET a == access[t] IN
  /\ Accessing(t, "done")
  /\ bufferLock' = NoThread
  /\ updated' = IF Writes(a) THEN WithElement(updated, a.place, Applied(a)) ELSE updated
  /\ access' = [access EXCEPT ![t] = NoAccess]
  /\ UNCHANGED <<buffer, accesses>>

----------------------------------------------------------------------------
(* Plain accesses, byte by byte.                                           *)
BeginPlain(t, op, place, operand) ==
  /\ Begins(t, [NoAccess EXCEPT !.step = "bytes", !.op = op, !.place = place,
                                !.operand = operand])
  /\ UNCHANGED <<buffer, bufferLock, updated>>

(* A mistake: single bytes are touched without the lock.                   *)
GetsLockAlways(t) == TRUE

GetsLock(t) == bufferLock = NoThread

PlainByte(t) ==
  LET a == access[t]
      i == a.place.at + a.next
      b == ByteOf(a.operand, a.next)
  IN /\ Accessing(t, "bytes") /\ GetsLock(t)
     /\ \/ a.op = "set" /\ buffer' = [buffer EXCEPT ![i] = b]
                        /\ updated' = [updated EXCEPT ![i] = b]
        \/ a.op = "get" /\ UNCHANGED <<buffer, updated>>
     /\ access' = [access EXCEPT ![t] = IF a.next + 1 = a.place.size THEN NoAccess
                                        ELSE [a EXCEPT !.next = @ + 1]]
     /\ UNCHANGED <<bufferLock, accesses>>

SharedBufferNext ==
  \E t \in Threads :
    \/ \E place \in Elements : \E operand \in 0..(Limit(place) - 1) :
         \/ \E op \in AtomicOps \ {"load", "compareExchange"} :
              BeginAtomic(t, op, place, operand, 0)
         \/ \E expected \in 0..(Limit(place) - 1) :
              BeginAtomic(t, "compareExchange", place, operand, expected)
         \/ BeginPlain(t, "set", place, operand)
    \/ \E place \in Elements : BeginAtomic(t, "load", place, 0, 0) \/ BeginPlain(t, "get", place, 0)
    \/ AtomicReads(t) \/ AtomicStores(t) \/ AtomicReturns(t) \/ PlainByte(t)

SharedBufferSpec == SharedBufferInit /\ [][SharedBufferNext]_bufferVars

----------------------------------------------------------------------------
(* Bytes are bytes, and who is in the middle of an atomic access holds the *)
(* lock.                                                                   *)
SharedBufferTypeOK ==
  /\ buffer \in [0..(BufferBytes - 1) -> 0..(ByteValues - 1)]
  /\ updated \in [0..(BufferBytes - 1) -> 0..(ByteValues - 1)]
  /\ bufferLock \in Threads \cup {NoThread}
  /\ \A t \in Threads :
        /\ access[t].step \in {"none", "bytes", "locked", "storing", "done"}
        /\ access[t].step \in {"locked", "storing", "done"} => bufferLock = t
  /\ accesses \in 0..MaxAccesses

(* Every operation of Atomics is as if it were one step: no add, exchange  *)
(* or compareExchange is lost, and each answers what was there just before *)
(* it, whatever other threads do atomically and byte by byte, on the same  *)
(* element or on elements of another size over the same bytes.             *)
(* (jayess_atomics_apply, jayess_std_byte_read, jayess_std_byte_write)     *)
UpdatesKept ==
  /\ bufferLock = NoThread => buffer = updated
  /\ \A t \in Threads : Accessing(t, "storing") \/ Accessing(t, "done")
       => access[t].previous = ElementOf(updated, access[t].place)
====
