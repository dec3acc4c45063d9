---- MODULE Streams ----
(***************************************************************************)
(* old_version/runtime/jayess_runtime_streams.c and the parts of           *)
(* jayess_runtime_network.c that use it: one stream object (a file that is *)
(* read or written, a compression stream, a socket, a server or a          *)
(* watcher), its listeners, and the methods that call them.                *)
(*                                                                         *)
(* Everything is synchronous.  An emission calls listeners one by one, in  *)
(* the middle of the method that emits; a listener may call any method of  *)
(* the same object.  frames holds what is under way, innermost first: the  *)
(* callbacks, the emissions, and what a method has still to do after one.  *)
(***************************************************************************)
EXTENDS Integers, Sequences, FiniteSets, SequencesExt

CONSTANTS
  Callbacks,      (* functions passed to on, once and off                   *)
  Scripts,        (* what programs do: a kind of stream, the events they    *)
                  (* listen for, the calls they make                        *)
  MaxListeners,   (* listeners passed to on and once over a behaviour       *)
  MaxStreamCalls, (* calls of the stream's methods over a behaviour         *)
  MaxChunks,      (* chunks in a file                                       *)
  MaxBytes,       (* bytes written to a compression stream                  *)
  HighWaterMark   (* writableHighWaterMark                                  *)

ASSUME StreamsAssumption ==
  {MaxListeners, MaxStreamCalls, MaxChunks, MaxBytes, HighWaterMark} \subseteq Nat

VARIABLES
  script,
  (* --- the object --- *)
  book,      (* its keys for listeners: the arrays of an event, or 0        *)
  props,     (* its properties                                              *)
  held,      (* it has its FILE, its socket or its native state             *)
  (* --- memory, the operating system --- *)
  arrays,    (* the arrays of listeners; none is ever freed                 *)
  closes,    (* how often the file or socket was closed                     *)
  (* --- the thread --- *)
  frames,
  thrown,    (* jayess_has_exception()                                      *)
  (* --- history --- *)
  registry,  (* the listeners in the order of their registration            *)
  reentered, (* a listener closed what its method was about to close        *)
  streamCalls

streamVars == <<script, book, props, held, arrays, closes, frames, thrown,
                registry, reentered, streamCalls>>

StreamEvents == {"error", "finish", "end", "drain", "close", "connection", "change"}

(* The events that on and once of each kind of stream register for; data   *)
(* reads, connect and listening only call who registers.                   *)
EventsOf ==
  [WriteStream |-> {"error", "finish", "drain"}, ReadStream |-> {"error", "end"},
   CompressionStream |-> {"error", "end", "finish", "drain"},
   Socket |-> {"error", "close", "drain"}, Server |-> {"error", "close", "connection"},
   Watcher |-> {"error", "close", "change"}]

ASSUME ScriptsAssumption ==
  \A s \in Scripts : s.kind \in DOMAIN EventsOf /\ s.events \subseteq EventsOf[s.kind]

OfKind(kinds) == script.kind \in kinds

StreamsInit ==
  /\ script \in Scripts
  /\ book = [e \in StreamEvents |-> [once \in BOOLEAN |-> 0]]
  /\ props = [closed |-> FALSE, writableEnded |-> FALSE, readableEnded |-> FALSE,
              errored |-> FALSE, needDrain |-> FALSE, closeEmitted |-> FALSE,
              length |-> 0, count |-> 0, offset |-> 0, left |-> MaxChunks]
  /\ held = TRUE /\ closes = 0 /\ reentered = FALSE
  /\ arrays = <<>> /\ frames = <<>> /\ registry = <<>>
  /\ thrown = FALSE /\ streamCalls = 0

----------------------------------------------------------------------------
(* The object's properties and the frames, through the calls of a method.  *)
Object == [props |-> props, frames |-> frames]
ObjectBecomes(o) == props' = o.props /\ frames' = o.frames

InCallback == [at |-> "callback"]
Rest(what, n) == [at |-> what, n |-> n]
Emission(e) ==
  [at |-> "emit", event |-> e, list |-> book[e][FALSE], next |-> 1,
   once |-> FALSE, called |-> FALSE]

Then(o, frame) == [o EXCEPT !.frames = <<frame>> \o @]
Emit(o, e) == Then(o, Emission(e))
EmitError(o) == Emit([o EXCEPT !.props.errored = TRUE], "error")
NotePending(o, n) ==
  [o EXCEPT !.props.length = n, !.props.needDrain = @ \/ n > HighWaterMark]
MaybeDrain(o, n) ==
  LET noted == [o EXCEPT !.props.length = n]
  IN IF o.props.needDrain /\ n <= HighWaterMark
     THEN Emit([noted EXCEPT !.props.needDrain = FALSE], "drain")
     ELSE noted

EmitClose(o) ==
  IF o.props.closeEmitted THEN o ELSE Emit([o EXCEPT !.props.closeEmitted = TRUE], "close")

(* Properties a method sets after the emissions it makes are set by its    *)
(* later frames.                                                           *)
InProgram == frames # <<>> => Head(frames).at = "callback"
OnTop(what) == frames # <<>> /\ Head(frames).at = what
Popped == [Object EXCEPT !.frames = Tail(@)]

(* A call of one of the object's methods by the program.  Code that is     *)
(* being left by an exception makes none.                                  *)
Calling(method) ==
  /\ InProgram /\ ~thrown
  /\ method \in script.calls /\ streamCalls < MaxStreamCalls
  /\ streamCalls' = streamCalls + 1

KeepListeners == UNCHANGED <<script, book, arrays, thrown, registry>>
KeepHandle == UNCHANGED <<held, closes, reentered>>

(* Methods close the handle they read at their start.                      *)
CloseHandle ==
  /\ held' = FALSE
  /\ closes' = Min({closes + 1, 2})
  /\ reentered' = (reentered \/ ~held)

----------------------------------------------------------------------------
(* Listeners.  An array holds positions of the registry.                   *)
Listener(e, cb, once) ==
  [event |-> e, callback |-> cb, once |-> once, heard |-> 0,
   excused |-> \E i \in 1..Len(frames) : frames[i].at = "emit" /\ frames[i].event = e]

Heard(r) == [r EXCEPT !.heard = Min({@ + 1, 2})]
Excused(r, ids) == [i \in DOMAIN r |-> IF i \in ids THEN [r[i] EXCEPT !.excused = TRUE] ELSE r[i]]

(* What on calls the new listener for at once.                             *)
AlreadyFor(e) ==
  \/ e = "error" /\ props.errored
  \/ e = "finish" /\ OfKind({"WriteStream"}) /\ props.writableEnded /\ ~props.errored
  \/ e = "end" /\ OfKind({"ReadStream"}) /\ props.readableEnded
  \/ e = "close" /\ props.closed

(* What once calls the listener for without registering it.                *)
AlreadyForOnce(e) ==
  \/ AlreadyFor(e)
  \/ e = "finish" /\ OfKind({"CompressionStream"}) /\ props.writableEnded
  \/ e = "end" /\ OfKind({"CompressionStream"}) /\ props.readableEnded
  \/ e = "drain" /\ ~props.needDrain

Added(e, once, id) ==
  IF book[e][once] = 0
  THEN /\ arrays' = Append(arrays, <<id>>)
       /\ book' = [book EXCEPT ![e][once] = Len(arrays) + 1]
  ELSE /\ arrays' = [arrays EXCEPT ![book[e][once]] = Append(@, id)]
       /\ UNCHANGED book

AddListener(e, cb, once) ==
  LET atOnce == IF once THEN AlreadyForOnce(e) ELSE AlreadyFor(e)
      listener == Listener(e, cb, once)
  IN /\ InProgram /\ ~thrown
     /\ Len(registry) < MaxListeners
     /\ registry' = Append(registry, IF atOnce THEN Heard(listener) ELSE listener)
     /\ IF once /\ atOnce THEN UNCHANGED <<book, arrays>>
                          ELSE Added(e, once, Len(registry) + 1)
     /\ frames' = IF atOnce THEN <<InCallback>> \o frames ELSE frames
     /\ UNCHANGED <<script, props, thrown, streamCalls>> /\ KeepHandle

On(e, cb) == AddListener(e, cb, FALSE)
Once(e, cb) == AddListener(e, cb, TRUE)

(* Where an array has the callback, as zero or one position.               *)
FirstOf(list, cb) ==
  LET at == {i \in DOMAIN list : registry[list[i]].callback = cb}
  IN IF at = {} THEN {} ELSE {Min(at)}

(* Emissions do not notice: the listener that moves into the place of one  *)
(* that was called is not called.                                          *)
PassedOver(a, i) ==
  {arrays[a][f.next] : f \in {f \in Range(frames) :
     /\ f.at = "emit" /\ f.list = a
     /\ i < f.next /\ f.next <= Len(arrays[a])}}

Off(e, cb) ==
  LET lists == {book[e][FALSE], book[e][TRUE]} \ {0}
      found == [a \in lists |-> FirstOf(arrays[a], cb)]
      without(a) == IF found[a] = {} THEN arrays[a]
                    ELSE RemoveAt(arrays[a], CHOOSE i \in found[a] : TRUE)
  IN /\ Calling("off")
     /\ arrays' = [a \in DOMAIN arrays |-> IF a \in lists THEN without(a) ELSE arrays[a]]
     /\ book' = [book EXCEPT ![e] =
                   [once \in BOOLEAN |->
                      IF @[once] \in lists /\ without(@[once]) = <<>> THEN 0 ELSE @[once]]]
     /\ registry' = Excused(registry,
                      UNION {UNION {{arrays[a][i]} \union PassedOver(a, i) : i \in found[a]}
                              : a \in lists})
     /\ UNCHANGED <<script, props, frames, thrown>> /\ KeepHandle

OffAll(e) ==
  /\ Calling("off")
  /\ book' = [book EXCEPT ![e] = [once \in BOOLEAN |-> 0]]
  /\ registry' = Excused(registry, {i \in DOMAIN registry : registry[i].event = e})
  /\ UNCHANGED <<script, props, arrays, frames, thrown>> /\ KeepHandle

----------------------------------------------------------------------------
(* Emissions, callbacks, exceptions.                                       *)
Listening(f) == f.list # 0 /\ f.next <= Len(arrays[f.list])
CutOff(f) == f.called /\ thrown

EmitCalls ==
  LET f == Head(frames) IN
  /\ OnTop("emit") /\ ~CutOff(f) /\ Listening(f)
  /\ LET id == arrays[f.list][f.next]
     IN registry' = [registry EXCEPT ![id] = Heard(@)]
  /\ frames' = <<InCallback, [f EXCEPT !.next = @ + 1, !.called = TRUE]>> \o Tail(frames)
  /\ UNCHANGED <<script, book, props, arrays, thrown, streamCalls>> /\ KeepHandle

(* A mistake: the array is not taken out of the object before it is used.  *)
EmitTurnsToOnceKept ==
  LET f == Head(frames) IN
  /\ OnTop("emit") /\ ~CutOff(f) /\ ~Listening(f) /\ ~f.once
  /\ frames' = <<[f EXCEPT !.list = book[f.event][TRUE], !.next = 1, !.once = TRUE,
                           !.called = FALSE]>> \o Tail(frames)
  /\ UNCHANGED <<script, book, props, arrays, thrown, registry, streamCalls>> /\ KeepHandle

EmitTurnsToOnce ==
  LET f == Head(frames) IN
  /\ OnTop("emit") /\ ~CutOff(f) /\ ~Listening(f) /\ ~f.once
  /\ book' = [book EXCEPT ![f.event][TRUE] = 0]
  /\ frames' = <<[f EXCEPT !.list = book[f.event][TRUE], !.next = 1, !.once = TRUE,
                           !.called = FALSE]>> \o Tail(frames)
  /\ UNCHANGED <<script, props, arrays, thrown, registry, streamCalls>> /\ KeepHandle

EmitEnds ==
  LET f == Head(frames) IN
  /\ OnTop("emit")
  /\ CutOff(f) \/ (~Listening(f) /\ f.once)
  /\ frames' = Tail(frames)
  /\ registry' = IF CutOff(f)
                 THEN Excused(registry, {i \in DOMAIN registry : registry[i].event = f.event})
                 ELSE registry
  /\ UNCHANGED <<script, book, props, arrays, thrown, streamCalls>> /\ KeepHandle

CallbackReturns ==
  /\ OnTop("callback")
  /\ frames' = Tail(frames)
  /\ UNCHANGED <<script, book, props, arrays, thrown, registry, streamCalls>> /\ KeepHandle

CallbackThrows ==
  /\ OnTop("callback") /\ ~thrown /\ "throw" \in script.calls
  /\ frames' = Tail(frames) /\ thrown' = TRUE
  /\ UNCHANGED <<script, book, props, arrays, registry, streamCalls>> /\ KeepHandle

CatchThrown ==
  /\ InProgram /\ thrown
  /\ thrown' = FALSE
  /\ UNCHANGED <<script, book, props, arrays, frames, registry, streamCalls>> /\ KeepHandle

----------------------------------------------------------------------------
(* Writing.  A file's and a socket's bytes leave at once, so that a write  *)
(* above the mark is noted and drained by the same call; a compression     *)
(* stream keeps them until they are read.                                  *)
StreamWrite(n) ==
  /\ Calling("write") /\ OfKind({"WriteStream", "Socket"})
  /\ LET noted == NotePending(Object, n)
         drains == n > HighWaterMark \/ OfKind({"Socket"})
     IN IF ~held
        THEN ObjectBecomes([Object EXCEPT !.props.closed = TRUE])
        ELSE \/ OfKind({"WriteStream"}) /\ ObjectBecomes(EmitError(Object))
             \/ drains /\ ObjectBecomes(EmitError(noted))
             \/ ObjectBecomes(IF drains THEN MaybeDrain(noted, 0) ELSE noted)
  /\ KeepListeners /\ KeepHandle

CompressionWrite(n) ==
  /\ Calling("write") /\ OfKind({"CompressionStream"})
  /\ \/ ObjectBecomes(EmitError(Object))
     \/ /\ props.count + n <= MaxBytes
        /\ ObjectBecomes(NotePending([Object EXCEPT !.props.count = @ + n],
                                     props.count + n - props.offset))
  /\ KeepListeners /\ KeepHandle

----------------------------------------------------------------------------
(* Ending.  WriteStream.end flushes, drains and then closes the file it    *)
(* had at the start, whatever the listeners of error and drain did.        *)
End ==
  LET draining == Then(Object, Rest("draining", 0)) IN
  /\ Calling("end") /\ OfKind({"WriteStream"})
  /\ IF held
     THEN ObjectBecomes(draining) \/ ObjectBecomes(EmitError(draining))
     ELSE ObjectBecomes(Object)
  /\ KeepListeners /\ KeepHandle

EndDrains ==
  /\ OnTop("draining")
  /\ ObjectBecomes(MaybeDrain(Then(Popped, Rest("closing", 0)), 0))
  /\ KeepListeners /\ KeepHandle /\ UNCHANGED streamCalls

EndCloses ==
  LET ended == [Popped EXCEPT !.props.closed = TRUE, !.props.writableEnded = TRUE] IN
  /\ OnTop("closing")
  /\ CloseHandle
  /\ ObjectBecomes(IF props.errored THEN ended ELSE Emit(ended, "finish"))
  /\ KeepListeners /\ UNCHANGED streamCalls

CompressionEnd ==
  /\ Calling("end") /\ OfKind({"CompressionStream"})
  /\ ObjectBecomes(Emit(Then([Object EXCEPT !.props.writableEnded = TRUE],
                             Rest("ending", props.offset)), "finish"))
  /\ KeepListeners /\ KeepHandle

(* The end of a compression stream is told when everything is read, as of  *)
(* the offset from before the listeners of finish, or drain, were called.  *)
EndOfBytes(o, offset, ends) ==
  IF offset >= o.props.count /\ ends
  THEN Emit([o EXCEPT !.props.readableEnded = TRUE], "end")
  ELSE o

CompressionEnds ==
  /\ \/ OnTop("ending") /\ ObjectBecomes(EndOfBytes(Popped, Head(frames).n, TRUE))
     \/ OnTop("read") /\ ObjectBecomes(EndOfBytes(Popped, Head(frames).n, props.writableEnded))
  /\ KeepListeners /\ KeepHandle /\ UNCHANGED streamCalls

----------------------------------------------------------------------------
(* Reading.  What a read answers, as the objects it may leave.             *)
Gets(o, sizes) ==
  IF OfKind({"ReadStream"})
  THEN IF held /\ props.left > 0 THEN {[o EXCEPT !.props.left = @ - 1]} ELSE {}
  ELSE {LET after == props.offset + n
        IN MaybeDrain(Then([o EXCEPT !.props.offset = after], Rest("read", after)),
                      props.count - after)
          : n \in sizes \intersect (1..(props.count - props.offset))}

GetsNothing(o) ==
  LET marked == [o EXCEPT !.props.readableEnded = TRUE] IN
  CASE OfKind({"ReadStream"}) /\ ~held -> {[marked EXCEPT !.props.closed = TRUE]}
    [] OfKind({"ReadStream"}) /\ held ->
         {EmitError(o)} \union (IF props.left = 0 THEN {Emit(marked, "end")} ELSE {})
    [] OTHER -> IF props.offset < props.count THEN {}
                ELSE {IF props.writableEnded THEN marked ELSE o}

StreamRead ==
  /\ Calling("read") /\ OfKind({"ReadStream", "CompressionStream"})
  /\ \E o \in Gets(Object, 1..MaxBytes) \union GetsNothing(Object) : ObjectBecomes(o)
  /\ KeepListeners /\ KeepHandle

(* on("data") reads and gives until nothing is got; once("data") once.     *)
OnData(loops) ==
  /\ Calling("data") /\ OfKind({"ReadStream", "CompressionStream"})
  /\ ObjectBecomes(Then(Object, Rest("data", IF loops THEN 1 ELSE 0)))
  /\ KeepListeners /\ KeepHandle

DataReads ==
  /\ OnTop("data")
  /\ IF thrown
     THEN ObjectBecomes(Popped)
     ELSE \/ \E o \in Gets(Then(Popped, Rest("give", Head(frames).n)),
                           {props.count - props.offset}) : ObjectBecomes(o)
          \/ \E o \in GetsNothing(Popped) : ObjectBecomes(o)
  /\ KeepListeners /\ KeepHandle /\ UNCHANGED streamCalls

DataGives ==
  /\ OnTop("give")
  /\ ObjectBecomes(IF Head(frames).n = 1
                   THEN Then(Then(Popped, Rest("data", 1)), InCallback)
                   ELSE Then(Popped, InCallback))
  /\ KeepListeners /\ KeepHandle /\ UNCHANGED streamCalls

(* A socket that has no more bytes, or fails, is closed by the read.       *)
SocketRead ==
  LET dropping == Then(Object, Rest("dropping", 0)) IN
  /\ Calling("read") /\ OfKind({"Socket"})
  /\ \/ held /\ ObjectBecomes(Object)
     \/ held /\ ObjectBecomes(dropping)
     \/ held /\ ObjectBecomes(EmitError(dropping))
     \/ ~held /\ ObjectBecomes([Object EXCEPT !.props.closed = TRUE])
  /\ KeepListeners /\ KeepHandle

SocketDrops ==
  /\ OnTop("dropping")
  /\ CloseHandle
  /\ ObjectBecomes(EmitClose([Popped EXCEPT !.props.closed = TRUE]))
  /\ KeepListeners /\ UNCHANGED streamCalls

----------------------------------------------------------------------------
(* Closing, accepting, polling.                                            *)
StreamClose ==
  LET closed == [Object EXCEPT !.props.closed = TRUE] IN
  /\ Calling("close")
  /\ \/ /\ OfKind({"Socket", "Server", "Watcher"})
        /\ ObjectBecomes(EmitClose(closed))
     \/ /\ OfKind({"ReadStream"})
        /\ ObjectBecomes(IF held THEN [closed EXCEPT !.props.readableEnded = TRUE] ELSE Object)
  /\ IF held THEN CloseHandle ELSE KeepHandle
  /\ KeepListeners

Accept ==
  /\ Calling("accept") /\ OfKind({"Server"})
  /\ \/ held /\ ObjectBecomes(Emit(Object, "connection"))
     \/ held /\ ObjectBecomes(EmitError(Object))
     \/ ~held /\ ObjectBecomes([Object EXCEPT !.props.closed = TRUE])
  /\ KeepListeners /\ KeepHandle

Poll ==
  /\ Calling("poll") /\ OfKind({"Watcher"})
  /\ \/ ObjectBecomes(Object)
     \/ held /\ ObjectBecomes(Emit(Object, "change"))
  /\ KeepListeners /\ KeepHandle

StreamsNext ==
  \/ \E e \in script.events, cb \in Callbacks : On(e, cb) \/ Once(e, cb) \/ Off(e, cb)
  \/ \E e \in script.events : OffAll(e)
  \/ EmitCalls \/ EmitTurnsToOnce \/ EmitEnds
  \/ CallbackReturns \/ CallbackThrows \/ CatchThrown
  \/ \E n \in 1..(HighWaterMark + 1) : StreamWrite(n) \/ CompressionWrite(n)
  \/ End \/ EndDrains \/ EndCloses \/ CompressionEnd \/ CompressionEnds
  \/ StreamRead \/ DataReads \/ DataGives \/ SocketRead \/ SocketDrops
  \/ \E loops \in BOOLEAN : OnData(loops)
  \/ StreamClose \/ Accept \/ Poll

StreamsSpec == StreamsInit /\ [][StreamsNext]_streamVars

----------------------------------------------------------------------------
(* The object, the arrays and the frames hold what the code can put there: *)
(* keys lead to arrays that exist, emissions run over them.                *)
StreamsTypeOK ==
  /\ script \in Scripts /\ thrown \in BOOLEAN /\ held \in BOOLEAN /\ reentered \in BOOLEAN
  /\ book \in [StreamEvents -> [BOOLEAN -> 0..Len(arrays)]]
  /\ \A e \in StreamEvents, once \in BOOLEAN :
        book[e][once] # 0 => arrays[book[e][once]] # <<>>
  /\ arrays \in Seq(Seq(DOMAIN registry))
  /\ props.offset <= props.count /\ props.count <= MaxBytes /\ props.left <= MaxChunks
  /\ \A i \in DOMAIN frames :
        /\ frames[i].at \in {"callback", "emit", "draining", "closing", "ending", "read",
                             "data", "give", "dropping"}
        /\ frames[i].at = "emit" => frames[i].list \in 0..Len(arrays)
  /\ \A i \in DOMAIN registry : registry[i].event \in StreamEvents /\ registry[i].heard <= 2
  /\ closes \in 0..2 /\ streamCalls \in 0..MaxStreamCalls

(* The events that happen once to a stream: its end as a file that is      *)
(* written, its end as a socket, a server or a watcher.                    *)
Happened(e) ==
  \/ e = "finish" /\ OfKind({"WriteStream"}) /\ props.writableEnded /\ ~props.errored
  \/ e = "close" /\ props.closeEmitted
Terminal(e) == e = "close" \/ (e = "finish" /\ OfKind({"WriteStream"}) /\ ~reentered)

(* Whoever listens for the end of a file or for the close of a socket,     *)
(* server or watcher is told exactly once, whether he registers before it, *)
(* in the middle of another listener or after it, and whatever the other   *)
(* listeners do; a listener given to once is never called twice, for any   *)
(* event.  Excused is who took himself away, registered during the very    *)
(* emission, or was passed over because another listener was taken away    *)
(* before him or threw.                                                    *)
ListenersServed ==
  \A i \in DOMAIN registry :
     LET r == registry[i] IN
     /\ r.once => r.heard <= 1
     /\ Terminal(r.event) /\ ~r.excused =>
          /\ r.heard <= 1
          /\ frames = <<>> => (r.heard = 1 <=> Happened(r.event))

(* The file or socket is closed once, however it comes to it (end, close,  *)
(* an end of input, an error), unless a listener of error or drain closes  *)
(* the stream that is about to be closed.                                  *)
ClosedOnce == closes <= 1 \/ reentered

(* A stream ends once: it is closed once, and those who listen for its end *)
(* or its close are told once.  (jayess_std_stream_emit, end, close, read) *)
EndsOnce == ListenersServed /\ ClosedOnce
====
