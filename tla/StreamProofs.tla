---- MODULE StreamProofs ----
(***************************************************************************)
(* Theorems about the previous runtime's streams: who listens for the end  *)
(* of one is told of it once, for all programs, any number of listeners    *)
(* and of calls, however deep listeners call methods of the stream.        *)
(***************************************************************************)
EXTENDS Streams, SequenceTheorems, WellFoundedInduction, TLAPS

----------------------------------------------------------------------------
(* What the object, its listeners and the frames consist of.               *)
Props ==
  [closed : BOOLEAN, writableEnded : BOOLEAN, readableEnded : BOOLEAN, errored : BOOLEAN,
   needDrain : BOOLEAN, closeEmitted : BOOLEAN, length : Int, count : Int, offset : Int,
   left : Int]

(* What can be under way on a stream of a kind.                            *)
EmissionFrame ==
  [at : {"emit"}, event : StreamEvents, list : Nat, next : Nat \ {0}, once : BOOLEAN,
   called : BOOLEAN]
RestsOf(kind) ==
  CASE kind = "WriteStream" -> {"draining", "closing"}
    [] kind = "Socket" -> {"dropping"}
    [] OTHER -> {"ending", "read", "data", "give"}
Frame ==
  [at : {"callback"}] \union [at : RestsOf(script.kind), n : Int] \union EmissionFrame

(* The emissions under way, each with its place from the end of frames,    *)
(* which it keeps while others come and go in front of it.                 *)
Emissions(s) ==
  {<<n, s[Len(s) - n]>> : n \in {n \in 0..(Len(s) - 1) : s[Len(s) - n].at = "emit"}}

ListenerRecord ==
  [event : StreamEvents, callback : Callbacks, once : BOOLEAN, heard : 0..2, excused : BOOLEAN]

(* An emission is at its place.                                            *)
LEMMA EmissionIs ==
  ASSUME NEW s
  PROVE  \A n, f : <<n, f>> \in Emissions(s) <=>
                     n \in 0..(Len(s) - 1) /\ f = s[Len(s) - n] /\ f.at = "emit"
  BY DEF Emissions

(* Every member is a place and a frame.                                    *)
LEMMA EmissionPair ==
  ASSUME NEW s, NEW p \in Emissions(s)
  PROVE  p = <<p[1], p[2]>>
  BY DEF Emissions

(* Nothing is under way in an idle stream.                                 *)
LEMMA NoEmission == Emissions(<<>>) = {}
  BY DEF Emissions

(* A frame put in front has the highest place.                             *)
LEMMA EmissionsOfThen ==
  ASSUME NEW F, NEW s \in Seq(F), NEW f \in F
  PROVE  /\ <<f>> \o s \in Seq(F) /\ Head(<<f>> \o s) = f /\ Tail(<<f>> \o s) = s
         /\ <<f>> \o s # <<>>
         /\ f.at # "emit" => Emissions(<<f>> \o s) = Emissions(s)
         /\ f.at = "emit" => Emissions(<<f>> \o s) = Emissions(s) \union {<<Len(s), f>>}
         /\ \A p \in Emissions(s) : p[1] < Len(s)
<1> DEFINE t == <<f>> \o s
<1>1. /\ t \in Seq(F) /\ Len(t) = Len(s) + 1 /\ t[1] = f
      /\ \A i \in 1..Len(s) : t[i + 1] = s[i]
      /\ Head(t) = f /\ t # <<>> /\ Tail(t) = s
  OBVIOUS
<1> HIDE DEF t
<1>2. \A n \in 0..(Len(s) - 1) : n \in 0..(Len(t) - 1) /\ t[Len(t) - n] = s[Len(s) - n]
  <2> TAKE n \in 0..(Len(s) - 1)
  <2>1. Len(s) \in Nat /\ Len(s) - n \in 1..Len(s) /\ Len(t) - n = (Len(s) - n) + 1
    BY <1>1
  <2>2. n \in 0..(Len(t) - 1)
    BY <1>1, <2>1
  <2>3. t[(Len(s) - n) + 1] = s[Len(s) - n]
    BY <1>1, <2>1
  <2>4. QED
    BY <2>1, <2>2, <2>3
<1>3. t[Len(t) - Len(s)] = f /\ 0..(Len(t) - 1) = (0..(Len(s) - 1)) \union {Len(s)}
  <2>1. Len(s) \in Nat
    OBVIOUS
  <2>2. QED
    BY <1>1, <2>1
<1>4. \A n, g : <<n, g>> \in Emissions(t) <=>
                  <<n, g>> \in Emissions(s) \/ (n = Len(s) /\ g = f /\ f.at = "emit")
  <2> TAKE n, g
  <2>1. <<n, g>> \in Emissions(t) <=>
          n \in 0..(Len(t) - 1) /\ g = t[Len(t) - n] /\ g.at = "emit"
    BY EmissionIs
  <2>2. <<n, g>> \in Emissions(s) <=>
          n \in 0..(Len(s) - 1) /\ g = s[Len(s) - n] /\ g.at = "emit"
    BY EmissionIs
  <2>3. Len(s) \notin 0..(Len(s) - 1)
    OBVIOUS
  <2>4. QED
    BY <1>2, <1>3, <2>1, <2>2, <2>3
<1>5. \A p \in Emissions(s) \union Emissions(t) : p = <<p[1], p[2]>>
  BY EmissionPair
<1>6. \A p \in Emissions(s) : p[1] < Len(s)
  <2>1. Len(s) \in Nat
    OBVIOUS
  <2>2. QED
    BY <1>5, <2>1, EmissionIs
<1>7. f.at # "emit" => Emissions(t) = Emissions(s)
  <2>1. ASSUME f.at # "emit", NEW p PROVE p \in Emissions(t) <=> p \in Emissions(s)
    BY <1>4, <1>5, <2>1
  <2>2. QED
    BY <2>1
<1>8. f.at = "emit" => Emissions(t) = Emissions(s) \union {<<Len(s), f>>}
  <2>1. ASSUME f.at = "emit", NEW p
        PROVE  p \in Emissions(t) <=> p \in Emissions(s) \union {<<Len(s), f>>}
    BY <1>4, <1>5, <2>1
  <2>2. QED
    BY <2>1
<1>9. QED
  BY <1>1, <1>6, <1>7, <1>8 DEF t

(* A frame taken from the front takes its own emission with it.            *)
LEMMA EmissionsOfTail ==
  ASSUME NEW F, NEW s \in Seq(F), s # <<>>
  PROVE  /\ Tail(s) \in Seq(F) /\ Head(s) \in F /\ s = <<Head(s)>> \o Tail(s)
         /\ Len(Tail(s)) \in Nat
         /\ Head(s).at # "emit" => Emissions(Tail(s)) = Emissions(s)
         /\ Head(s).at = "emit" =>
              /\ Emissions(s) = Emissions(Tail(s)) \union {<<Len(Tail(s)), Head(s)>>}
              /\ \A p \in Emissions(Tail(s)) : p[1] < Len(Tail(s))
<1>1. Tail(s) \in Seq(F) /\ Head(s) \in F /\ s = <<Head(s)>> \o Tail(s)
  OBVIOUS
<1>2. PICK t \in Seq(F), f \in F : t = Tail(s) /\ f = Head(s) /\ s = <<f>> \o t
  BY <1>1
<1>3. /\ f.at # "emit" => Emissions(<<f>> \o t) = Emissions(t)
      /\ f.at = "emit" => Emissions(<<f>> \o t) = Emissions(t) \union {<<Len(t), f>>}
      /\ \A p \in Emissions(t) : p[1] < Len(t)
  BY EmissionsOfThen
<1>4. Len(t) \in Nat
  BY <1>2
<1>5. /\ f.at # "emit" => Emissions(s) = Emissions(t)
      /\ f.at = "emit" => Emissions(s) = Emissions(t) \union {<<Len(t), f>>}
  BY <1>2, <1>3
<1>6. QED
  BY <1>1, <1>2, <1>3, <1>4, <1>5

----------------------------------------------------------------------------
(* The invariant.                                                          *)
ObjectInv ==
  /\ script \in Scripts /\ thrown \in BOOLEAN /\ held \in BOOLEAN /\ reentered \in BOOLEAN
  /\ props \in Props
  /\ props.offset <= props.count /\ props.count <= MaxBytes /\ props.left <= MaxChunks
  /\ frames \in Seq(Frame)
  /\ registry \in Seq(ListenerRecord) /\ arrays \in Seq(Seq(Nat))
  /\ book \in [StreamEvents -> [BOOLEAN -> Nat]]
  /\ closes \in 0..2 /\ streamCalls \in 0..MaxStreamCalls

(* What the object's properties say of its handle.                         *)
Closable == OfKind({"Socket", "Server", "Watcher"})
HandleInv ==
  /\ ~reentered => closes = IF held THEN 0 ELSE 1
  /\ OfKind({"WriteStream"}) => (props.writableEnded <=> ~held)
  /\ Closable => (props.closed <=> props.closeEmitted) /\ (~held => props.closeEmitted)

(* A listener has at most one place, in an array of its event and of       *)
(* listeners like him, whether the array belongs to the object still or    *)
(* to an emission only.                                                    *)
BookInv ==
  /\ \A id \in DOMAIN registry : registry[id].event \in script.events
  /\ \A a \in DOMAIN arrays : \A j \in DOMAIN arrays[a] : arrays[a][j] \in DOMAIN registry
  /\ \A a, b \in DOMAIN arrays : \A j \in DOMAIN arrays[a], k \in DOMAIN arrays[b] :
        arrays[a][j] = arrays[b][k] => a = b /\ j = k
  /\ \A e \in StreamEvents, once \in BOOLEAN : book[e][once] # 0 =>
        /\ book[e][once] \in DOMAIN arrays /\ arrays[book[e][once]] # <<>>
        /\ \A j \in DOMAIN arrays[book[e][once]] :
              LET r == registry[arrays[book[e][once]][j]] IN r.event = e /\ r.once = once
RunInv ==
  \A p \in Emissions(frames) : p[2].list # 0 =>
     /\ p[2].list \in DOMAIN arrays
     /\ \A j \in DOMAIN arrays[p[2].list] :
           LET r == registry[arrays[p[2].list][j]]
           IN r.event = p[2].event /\ r.once = p[2].once

(* An array of once listeners is in the object, and none of its listeners  *)
(* has heard anything, or has been taken out by the one emission that runs *)
(* over it.                                                                *)
OnceListenerInv ==
  /\ \A id \in DOMAIN registry : registry[id].once => registry[id].heard <= 1
  /\ \A e \in StreamEvents : book[e][TRUE] # 0 =>
        \A j \in DOMAIN arrays[book[e][TRUE]] : registry[arrays[book[e][TRUE]][j]].heard = 0
  /\ \A p \in Emissions(frames) : p[2].once /\ p[2].list # 0 =>
        /\ \A e \in StreamEvents, once \in BOOLEAN : book[e][once] # p[2].list
        /\ \A j \in DOMAIN arrays[p[2].list] :
              p[2].next <= j => registry[arrays[p[2].list][j]].heard = 0
        /\ \A q \in Emissions(frames) : q[2].once /\ q[2].list = p[2].list => q = p

(* Who is still to be called by an emission: the rest of the array it runs *)
(* over, and then the once listeners.                                      *)
Listed(a, n, id) == a # 0 /\ \E j \in DOMAIN arrays[a] : n <= j /\ arrays[a][j] = id
Owes(f, id) ==
  IF registry[id].once /\ ~f.once THEN Listed(book[f.event][TRUE], 1, id)
                                  ELSE Listed(f.list, f.next, id)

(* Before the end, nobody was told and everybody is listed; from then on   *)
(* at most one emission tells it, and who was not told is told by that.    *)
Waiting(e) ==
  /\ \A p \in Emissions(frames) : p[2].event # e
  /\ \A id \in DOMAIN registry : registry[id].event = e /\ ~registry[id].excused =>
        registry[id].heard = 0 /\ Listed(book[e][registry[id].once], 1, id)
Told(e) ==
  /\ \A p, q \in Emissions(frames) : p[2].event = e /\ q[2].event = e => p = q
  /\ \A id \in DOMAIN registry : registry[id].event = e /\ ~registry[id].excused =>
        /\ registry[id].heard <= 1
        /\ registry[id].heard = 0 <=>
             \E p \in Emissions(frames) : p[2].event = e /\ Owes(p[2], id)
EndInv ==
  \A e \in script.events : Terminal(e) => IF Happened(e) THEN Told(e) ELSE Waiting(e)

StreamInv == ObjectInv /\ HandleInv /\ BookInv /\ RunInv /\ OnceListenerInv /\ EndInv

----------------------------------------------------------------------------
(* What a method makes of the object and what is under way.                *)
ObjectType == [props : Props, frames : Seq(Frame)]
Counted(q) ==
  q \in Props /\ q.offset <= q.count /\ q.count <= MaxBytes /\ q.left <= MaxChunks

(* Nothing more is told than before; or one event more.                    *)
Silent(o) ==
  /\ o \in ObjectType /\ Counted(o.props)
  /\ Emissions(o.frames) = Emissions(frames)
TellsOne(o, e) ==
  /\ o \in ObjectType /\ Counted(o.props)
  /\ \E m : /\ \A p \in Emissions(frames) : p[1] # m
            /\ Emissions(o.frames) = Emissions(frames) \union {<<m, Emission(e)>>}

(* The properties of ends as they were, but that an error may be noted     *)
(* before the end of a file.                                               *)
SameEnds(q) ==
  /\ q.closeEmitted = props.closeEmitted
  /\ OfKind({"WriteStream"}) =>
       /\ q.writableEnded = props.writableEnded
       /\ held \/ q.errored = props.errored
  /\ Closable => q.closed = props.closed

(* What kinds of streams there are, and which events they have.            *)
LEMMA ScriptFacts ==
  ASSUME script \in Scripts
  PROVE  /\ script.events \subseteq StreamEvents
         /\ "close" \in script.events => Closable
         /\ script.kind \in {"WriteStream", "ReadStream", "CompressionStream", "Socket",
                             "Server", "Watcher"}
  BY ScriptsAssumption DEF EventsOf, StreamEvents, Closable, OfKind

(* The object as it is.                                                    *)
LEMMA ObjectIs ==
  ASSUME ObjectInv
  PROVE  Silent(Object) /\ Object.props = props /\ Object.frames = frames
  BY DEF ObjectInv, Silent, Counted, ObjectType, Object

(* An emission is a frame.                                                 *)
LEMMA EmissionFrames ==
  ASSUME ObjectInv, NEW e \in StreamEvents
  PROVE  /\ Emission(e) \in Frame /\ Emission(e).at = "emit"
         /\ Emission(e).event = e /\ Emission(e).list = book[e][FALSE]
         /\ Emission(e).next = 1 /\ Emission(e).once = FALSE
<1>1. book[e][FALSE] \in Nat
  BY DEF ObjectInv
<1>2. Emission(e) \in EmissionFrame
  <2>1. \A a \in Nat : [at |-> "emit", event |-> e, list |-> a, next |-> 1, once |-> FALSE,
                        called |-> FALSE] \in EmissionFrame
    BY DEF EmissionFrame
  <2>2. QED
    BY <1>1, <2>1 DEF Emission
<1>3. QED
  BY <1>2 DEF Frame, Emission

(* Only the frames are changed by putting one in front.                    *)
LEMMA ThenIs ==
  ASSUME NEW o \in ObjectType, NEW f
  PROVE  Then(o, f) = [props |-> o.props, frames |-> <<f>> \o o.frames]
<1>1. \A a, b, c : [[props |-> a, frames |-> b] EXCEPT !.frames = c] = [props |-> a, frames |-> c]
  OBVIOUS
<1>2. o = [props |-> o.props, frames |-> o.frames]
  BY DEF ObjectType
<1>3. Then(o, f) = [o EXCEPT !.frames = <<f>> \o o.frames]
  BY DEF Then
<1>4. QED
  BY <1>1, <1>2, <1>3

(* A frame that is no emission, put in front.                              *)
LEMMA ThenIsSilent ==
  ASSUME NEW o, Silent(o), NEW f \in Frame, f.at # "emit"
  PROVE  /\ Silent(Then(o, f)) /\ Then(o, f).props = o.props
         /\ Then(o, f).frames = <<f>> \o o.frames
<1>1. Then(o, f) = [props |-> o.props, frames |-> <<f>> \o o.frames]
  BY ThenIs DEF Silent
<1>2. o.props \in Props /\ o.frames \in Seq(Frame)
  BY DEF Silent, ObjectType
<1>3. <<f>> \o o.frames \in Seq(Frame) /\ Emissions(<<f>> \o o.frames) = Emissions(o.frames)
  BY <1>2, EmissionsOfThen
<1>4. QED
  BY <1>1, <1>2, <1>3 DEF Silent, ObjectType

(* An emission put in front.                                               *)
LEMMA EmitTells ==
  ASSUME ObjectInv, NEW o, Silent(o), NEW e \in StreamEvents
  PROVE  TellsOne(Emit(o, e), e) /\ Emit(o, e).props = o.props
<1>1. Emit(o, e) = [props |-> o.props, frames |-> <<Emission(e)>> \o o.frames]
  BY ThenIs DEF Emit, Silent
<1>2. o.props \in Props /\ o.frames \in Seq(Frame)
  BY DEF Silent, ObjectType
<1>3. Emission(e) \in Frame /\ Emission(e).at = "emit"
  BY EmissionFrames
<1>4. /\ <<Emission(e)>> \o o.frames \in Seq(Frame)
      /\ Emissions(<<Emission(e)>> \o o.frames)
           = Emissions(o.frames) \union {<<Len(o.frames), Emission(e)>>}
      /\ \A p \in Emissions(o.frames) : p[1] < Len(o.frames)
  BY <1>2, <1>3, EmissionsOfThen
<1>5. \A p \in Emissions(o.frames) : p[1] # Len(o.frames)
  <2>1. Len(o.frames) \in Nat
    BY <1>2
  <2>2. QED
    BY <1>4, <2>1
<1>6. Emit(o, e) \in ObjectType /\ Emit(o, e).props = o.props
      /\ Emit(o, e).frames = <<Emission(e)>> \o o.frames
  BY <1>1, <1>2, <1>4 DEF ObjectType
<1>7. Counted(Emit(o, e).props) /\ Emissions(o.frames) = Emissions(frames)
  BY <1>6 DEF Silent
<1>8. QED
  BY <1>4, <1>5, <1>6, <1>7 DEF TellsOne

(* The frame in front is taken away.                                       *)
LEMMA PoppedIsSilent ==
  ASSUME ObjectInv, frames # <<>>, Head(frames).at # "emit"
  PROVE  Silent(Popped) /\ Popped.props = props /\ Popped.frames = Tail(frames)
<1>1. Popped = [props |-> props, frames |-> Tail(frames)]
  BY DEF Popped, Object
<1>2. Tail(frames) \in Seq(Frame) /\ Emissions(Tail(frames)) = Emissions(frames)
  BY EmissionsOfTail DEF ObjectInv
<1>3. QED
  BY <1>1, <1>2 DEF ObjectInv, Silent, Counted, ObjectType

(* The fields of a listener and of an emission.                            *)
LEMMA ListenerFacts ==
  ASSUME ObjectInv, NEW id \in DOMAIN registry
  PROVE  /\ registry[id] \in ListenerRecord
         /\ registry[id].event \in StreamEvents /\ registry[id].once \in BOOLEAN
         /\ registry[id].heard \in 0..2 /\ registry[id].excused \in BOOLEAN
<1>1. registry[id] \in ListenerRecord
  BY DEF ObjectInv
<1>2. QED
  BY <1>1 DEF ListenerRecord

(* The frame of an emission that is under way.                             *)
LEMMA EmissionFacts ==
  ASSUME ObjectInv, NEW p \in Emissions(frames)
  PROVE  /\ p[2] \in EmissionFrame /\ p[2].event \in StreamEvents /\ p[2].list \in Nat
         /\ p[2].next \in Nat \ {0} /\ p[2].once \in BOOLEAN
<1>1. PICK n \in 0..(Len(frames) - 1) : p = <<n, frames[Len(frames) - n]>> /\ p[2].at = "emit"
  BY EmissionPair, EmissionIs DEF Emissions
<1>2. frames[Len(frames) - n] \in Frame
  <2>1. Len(frames) \in Nat /\ Len(frames) - n \in 1..Len(frames)
    BY DEF ObjectInv
  <2>2. QED
    BY <2>1 DEF ObjectInv
<1>3. "emit" \notin RestsOf(script.kind)
  BY DEF RestsOf
<1>4. p[2] \in EmissionFrame
  BY <1>1, <1>2, <1>3 DEF Frame
<1>5. QED
  BY <1>4 DEF EmissionFrame

(* The array of a key.                                                     *)
LEMMA BookFacts ==
  ASSUME ObjectInv, BookInv, NEW e \in StreamEvents, NEW once \in BOOLEAN
  PROVE  /\ book[e][once] \in Nat
         /\ book[e][once] # 0 =>
              /\ book[e][once] \in DOMAIN arrays /\ arrays[book[e][once]] # <<>>
              /\ \A j \in DOMAIN arrays[book[e][once]] :
                    LET r == registry[arrays[book[e][once]][j]] IN r.event = e /\ r.once = once
  BY DEF ObjectInv, BookInv

(* Who is owed depends on the listeners and their arrays.                  *)
LEMMA OwesSame ==
  ASSUME UNCHANGED <<book, arrays, registry>>
  PROVE  \A f, id : Owes(f, id)' <=> Owes(f, id)
  BY DEF Owes, Listed

(* The invariant is what EndsOnce needs.                                   *)
LEMMA StreamImplies == StreamInv => EndsOnce
<1> SUFFICES ASSUME StreamInv PROVE EndsOnce
  OBVIOUS
<1>1. ClosedOnce
  BY DEF StreamInv, HandleInv, ClosedOnce
<1>2. ASSUME NEW id \in DOMAIN registry
      PROVE  LET r == registry[id] IN
             /\ r.once => r.heard <= 1
             /\ Terminal(r.event) /\ ~r.excused =>
                  /\ r.heard <= 1
                  /\ frames = <<>> => (r.heard = 1 <=> Happened(r.event))
  <2>1. registry[id].once => registry[id].heard <= 1
    BY DEF StreamInv, OnceListenerInv
  <2>2. PICK e \in script.events : e = registry[id].event
    BY DEF StreamInv, BookInv
  <2>3. registry[id].heard \in 0..2
    BY ListenerFacts DEF StreamInv
  <2>4. CASE Terminal(e) /\ ~registry[id].excused /\ Happened(e)
    <3>1. Told(e)
      BY <2>4 DEF StreamInv, EndInv
    <3>2. registry[id].heard <= 1
      BY <2>2, <2>4, <3>1 DEF Told
    <3>3. frames = <<>> => registry[id].heard # 0
      BY <2>2, <2>4, <3>1, NoEmission DEF Told
    <3>4. QED
      BY <2>1, <2>2, <2>3, <2>4, <3>2, <3>3
  <2>5. CASE Terminal(e) /\ ~registry[id].excused /\ ~Happened(e)
    <3>1. Waiting(e)
      BY <2>5 DEF StreamInv, EndInv
    <3>2. registry[id].heard = 0
      BY <2>2, <2>5, <3>1 DEF Waiting
    <3>3. QED
      BY <2>1, <2>2, <2>5, <3>2
  <2>6. QED
    BY <2>1, <2>2, <2>4, <2>5
<1>3. QED
  BY <1>1, <1>2 DEF EndsOnce, ListenersServed

(* What only moves the object and other frames disturbs no listener.       *)
LEMMA QuietStep ==
  ASSUME StreamInv, ObjectInv', HandleInv',
         UNCHANGED <<script, book, arrays, registry>>,
         Emissions(frames') = Emissions(frames), reentered => reentered',
         \A e \in script.events : Terminal(e)' => (Happened(e)' <=> Happened(e))
  PROVE  StreamInv'
<1> DEFINE E == Emissions(frames)
<1>1. Emissions(frames)' = E
  OBVIOUS
<1>2. BookInv'
  BY DEF StreamInv, BookInv
<1>3. RunInv'
  BY <1>1 DEF StreamInv, RunInv
<1>4. OnceListenerInv'
  BY <1>1 DEF StreamInv, OnceListenerInv
<1>5. EndInv'
  <2> SUFFICES ASSUME NEW e \in script.events, Terminal(e)'
               PROVE  IF Happened(e)' THEN Told(e)' ELSE Waiting(e)'
    BY DEF EndInv
  <2>1. Terminal(e)
    BY DEF Terminal, OfKind
  <2>2. Happened(e) => Told(e)'
    BY <1>1, <2>1, OwesSame DEF StreamInv, EndInv, Told
  <2>3. ~Happened(e) => Waiting(e)'
    BY <1>1, <2>1 DEF StreamInv, EndInv, Waiting, Listed
  <2>4. QED
    BY <2>2, <2>3
<1>6. QED
  BY <1>2, <1>3, <1>4, <1>5 DEF StreamInv

(* An emission that begins.                                                *)
LEMMA TellingStep ==
  ASSUME StreamInv, ObjectInv', HandleInv',
         UNCHANGED <<script, book, arrays, registry>>,
         NEW x \in StreamEvents, NEW m, \A p \in Emissions(frames) : p[1] # m,
         Emissions(frames') = Emissions(frames) \union {<<m, Emission(x)>>},
         reentered => reentered',
         \A e \in script.events : Terminal(e)' =>
            IF e = x THEN ~Happened(e) /\ Happened(e)' ELSE (Happened(e)' <=> Happened(e))
  PROVE  StreamInv'
<1> DEFINE E == Emissions(frames)
           new == <<m, Emission(x)>>
<1>1. Emissions(frames)' = E \union {new}
  OBVIOUS
<1>2. /\ new[2].event = x /\ new[2].list = book[x][FALSE] /\ new[2].next = 1
      /\ new[2].once = FALSE /\ new \notin E
  BY EmissionFrames DEF StreamInv
<1>3. BookInv'
  BY DEF StreamInv, BookInv
<1> HIDE DEF new
<1>4. RunInv'
  <2>1. ASSUME NEW p \in E \union {new}, p[2].list # 0
        PROVE  /\ p[2].list \in DOMAIN arrays
               /\ \A j \in DOMAIN arrays[p[2].list] :
                     LET r == registry[arrays[p[2].list][j]]
                     IN r.event = p[2].event /\ r.once = p[2].once
    <3>1. CASE p \in E
      BY <2>1, <3>1 DEF StreamInv, RunInv
    <3>2. CASE p = new
      <4>1. PICK a \in Nat : a = book[x][FALSE] /\ a = p[2].list /\ a # 0
        BY <1>2, <2>1, <3>2 DEF StreamInv, ObjectInv
      <4>2. a \in DOMAIN arrays /\ \A j \in DOMAIN arrays[a] :
               LET r == registry[arrays[a][j]] IN r.event = x /\ r.once = FALSE
        <5>1. PICK o \in BOOLEAN : o = FALSE
          OBVIOUS
        <5>2. /\ book[x][o] # 0 =>
                   /\ book[x][o] \in DOMAIN arrays
                   /\ \A j \in DOMAIN arrays[book[x][o]] :
                        LET r == registry[arrays[book[x][o]][j]] IN r.event = x /\ r.once = o
          BY BookFacts DEF StreamInv
        <5>3. QED
          BY <4>1, <5>1, <5>2
      <4>3. QED
        BY <1>2, <3>2, <4>1, <4>2
    <3>3. QED
      BY <2>1, <3>1, <3>2
  <2>2. QED
    BY <1>1, <2>1 DEF RunInv
<1>5. OnceListenerInv'
  <2>1. \A p \in E \union {new} : p[2].once => p \in E
    BY <1>2
  <2>2. QED
    BY <1>1, <2>1 DEF StreamInv, OnceListenerInv
<1>6. EndInv'
  <2> SUFFICES ASSUME NEW e \in script.events, Terminal(e)'
               PROVE  IF Happened(e)' THEN Told(e)' ELSE Waiting(e)'
    BY DEF EndInv
  <2>1. Terminal(e) /\ script.events \subseteq StreamEvents
    BY ScriptFacts DEF Terminal, OfKind, StreamInv, ObjectInv
  <2>2. CASE e = x
    <3>1. Waiting(e) /\ Happened(e)'
      BY <2>1, <2>2 DEF StreamInv, EndInv
    <3>2. \A p \in E \union {new} : p[2].event = e <=> p = new
      BY <1>2, <2>2, <3>1 DEF Waiting
    <3>3. ASSUME NEW id \in DOMAIN registry, registry[id].event = e, ~registry[id].excused
          PROVE  registry[id].heard = 0 /\ Owes(new[2], id)
      <4>1. registry[id].once \in BOOLEAN
        BY ListenerFacts DEF StreamInv
      <4>2. registry[id].heard = 0 /\ Listed(book[e][registry[id].once], 1, id)
        BY <3>1, <3>3 DEF Waiting
      <4>3. QED
        BY <1>2, <2>2, <4>1, <4>2 DEF Owes
    <3>4. \A id \in DOMAIN registry : registry[id].event = e /\ ~registry[id].excused =>
             \A f : f = new[2] => Owes(f, id)'
      BY <3>3, OwesSame
    <3>5. Told(e)'
      <4>1. \A p, q \in E \union {new} : p[2].event = e /\ q[2].event = e => p = q
        BY <3>2
      <4>2. ASSUME NEW id \in DOMAIN registry, registry[id].event = e, ~registry[id].excused
            PROVE  /\ registry[id].heard = 0
                   /\ \E p \in E \union {new} : p[2].event = e /\ Owes(p[2], id)'
        BY <1>2, <2>2, <3>3, <3>4, <4>2
      <4>3. QED
        BY <1>1, <4>1, <4>2 DEF Told
    <3>6. QED
      BY <3>1, <3>5
  <2>3. CASE e # x
    <3>1. \A p \in E \union {new} : p[2].event = e => p \in E
      BY <1>2, <2>3
    <3>2. Happened(e) => Told(e)'
      BY <1>1, <2>1, <3>1, OwesSame DEF StreamInv, EndInv, Told
    <3>3. ~Happened(e) => Waiting(e)'
      BY <1>1, <2>1, <3>1 DEF StreamInv, EndInv, Waiting, Listed
    <3>4. (Happened(e)' <=> Happened(e))
      BY <2>3
    <3>5. QED
      BY <3>2, <3>3, <3>4
  <2>4. QED
    BY <2>2, <2>3
<1>7. QED
  BY <1>3, <1>4, <1>5, <1>6 DEF StreamInv

(* Who calls a method of the object, or goes on in one.                    *)
Quietly ==
  /\ UNCHANGED <<script, book, arrays, registry, held, closes, reentered>>
  /\ thrown' \in BOOLEAN /\ streamCalls' \in 0..MaxStreamCalls

(* Who may close its handle in it.                                         *)
Moves ==
  /\ UNCHANGED <<script, book, arrays, registry>>
  /\ held' \in BOOLEAN /\ reentered' \in BOOLEAN /\ closes' \in 0..2
  /\ thrown' \in BOOLEAN /\ streamCalls' \in 0..MaxStreamCalls

(* The types of what a method leaves.                                      *)
LEMMA MovesShape ==
  ASSUME ObjectInv, Moves, NEW o, o \in ObjectType, Counted(o.props), ObjectBecomes(o)
  PROVE  ObjectInv'
<1>1. Frame' = Frame
  BY DEF Frame, Moves
<1>2. props' = o.props /\ frames' = o.frames /\ o.frames \in Seq(Frame)
  BY DEF ObjectBecomes, ObjectType
<1>3. frames' \in Seq(Frame)' /\ Counted(props')
  BY <1>1, <1>2
<1>4. QED
  BY <1>3 DEF ObjectInv, Moves, Counted

(* A method that leaves the handle alone leaves an object.                 *)
LEMMA ObjectShape ==
  ASSUME ObjectInv, Quietly, NEW o, o \in ObjectType, Counted(o.props), ObjectBecomes(o)
  PROVE  ObjectInv'
<1>1. Moves
  BY DEF ObjectInv, Quietly, Moves
<1>2. QED
  BY <1>1, MovesShape

(* The end is as it was.                                                   *)
LEMMA SameHappened ==
  ASSUME HandleInv, ObjectInv, Quietly, SameEnds(props')
  PROVE  /\ HandleInv'
         /\ \A e \in script.events : Terminal(e)' => (Happened(e)' <=> Happened(e))
<1>1. \A kinds : OfKind(kinds)' <=> OfKind(kinds)
  BY DEF OfKind, Quietly
<1>2. Closable' <=> Closable
  BY <1>1 DEF Closable
<1>3. HandleInv'
  BY <1>1, <1>2 DEF HandleInv, SameEnds, Quietly
<1>4. ASSUME NEW e \in script.events, Terminal(e)'
      PROVE  Happened(e)' <=> Happened(e)
  <2>1. CASE e = "close"
    BY <2>1 DEF Happened, SameEnds
  <2>2. CASE e = "finish" /\ OfKind({"WriteStream"})
    <3>1. OfKind({"WriteStream"})'
      BY <1>1, <2>2
    <3>2. CASE held
      BY <2>2, <3>1, <3>2 DEF Happened, SameEnds, HandleInv
    <3>3. CASE ~held
      BY <2>2, <3>1, <3>3 DEF Happened, SameEnds
    <3>4. QED
      BY <3>2, <3>3
  <2>3. QED
    BY <1>1, <1>4, <2>1, <2>2 DEF Terminal
<1>5. QED
  BY <1>3, <1>4

(* A method that says nothing, and one that says something else.           *)
LEMMA SaysNothing ==
  ASSUME StreamInv, Quietly, NEW o, Silent(o), SameEnds(o.props), ObjectBecomes(o)
  PROVE  StreamInv'
<1>1. o \in ObjectType /\ Counted(o.props) /\ Emissions(o.frames) = Emissions(frames)
  BY DEF Silent
<1>2. ObjectInv'
  BY <1>1, ObjectShape DEF StreamInv
<1>3. SameEnds(props') /\ Emissions(frames') = Emissions(frames)
  BY <1>1 DEF ObjectBecomes
<1>4. HandleInv' /\ \A e \in script.events : Terminal(e)' => (Happened(e)' <=> Happened(e))
  BY <1>3, SameHappened DEF StreamInv
<1>5. QED
  BY <1>2, <1>3, <1>4, QuietStep DEF Quietly

(* Telling of an event that is not the end.                                *)
LEMMA SaysElse ==
  ASSUME StreamInv, Quietly, NEW o, Silent(o), SameEnds(o.props),
         NEW x \in StreamEvents, x # "close", x = "finish" => ~OfKind({"WriteStream"}),
         ObjectBecomes(Emit(o, x))
  PROVE  StreamInv'
<1>1. TellsOne(Emit(o, x), x) /\ Emit(o, x).props = o.props
  BY EmitTells DEF StreamInv
<1>2. ObjectInv'
  BY <1>1, ObjectShape DEF StreamInv, TellsOne
<1>3. SameEnds(props')
  BY <1>1 DEF ObjectBecomes
<1>4. HandleInv' /\ \A e \in script.events : Terminal(e)' => (Happened(e)' <=> Happened(e))
  BY <1>3, SameHappened DEF StreamInv
<1>5. PICK m : /\ \A p \in Emissions(frames) : p[1] # m
               /\ Emissions(frames') = Emissions(frames) \union {<<m, Emission(x)>>}
  BY <1>1 DEF TellsOne, ObjectBecomes
<1>6. \A e \in script.events : Terminal(e)' => e # x
  BY DEF Terminal, OfKind, Quietly
<1>7. QED
  BY <1>2, <1>4, <1>5, <1>6, TellingStep DEF Quietly

----------------------------------------------------------------------------
(* Updates of the object's properties.                                     *)
PropNames ==
  {"closed", "writableEnded", "readableEnded", "errored", "needDrain", "closeEmitted",
   "length", "count", "offset", "left"}
Like(q, r, names) == r \in Props /\ \A f \in PropNames \ names : r[f] = q[f]
Updated(o, r, names) == Silent(r) /\ r.frames = o.frames /\ Like(o.props, r.props, names)

(* One field of a record of properties, or of the properties of an object. *)
LEMMA FlagSet ==
  ASSUME NEW q \in Props, NEW v \in BOOLEAN
  PROVE  /\ Like(q, [q EXCEPT !.closed = v], {"closed"}) /\ [q EXCEPT !.closed = v].closed = v
         /\ Like(q, [q EXCEPT !.writableEnded = v], {"writableEnded"}) /\ [q EXCEPT !.writableEnded = v].writableEnded = v
         /\ Like(q, [q EXCEPT !.readableEnded = v], {"readableEnded"}) /\ [q EXCEPT !.readableEnded = v].readableEnded = v
         /\ Like(q, [q EXCEPT !.errored = v], {"errored"}) /\ [q EXCEPT !.errored = v].errored = v
         /\ Like(q, [q EXCEPT !.needDrain = v], {"needDrain"}) /\ [q EXCEPT !.needDrain = v].needDrain = v
         /\ Like(q, [q EXCEPT !.closeEmitted = v], {"closeEmitted"}) /\ [q EXCEPT !.closeEmitted = v].closeEmitted = v
<1>1. Like(q, [q EXCEPT !.closed = v], {"closed"}) /\ [q EXCEPT !.closed = v].closed = v
  <2>1. [q EXCEPT !.closed = v] \in Props
    BY DEF Props
  <2>2. QED
    BY <2>1 DEF Props, Like, PropNames
<1>2. Like(q, [q EXCEPT !.writableEnded = v], {"writableEnded"}) /\ [q EXCEPT !.writableEnded = v].writableEnded = v
  <2>1. [q EXCEPT !.writableEnded = v] \in Props
    BY DEF Props
  <2>2. QED
    BY <2>1 DEF Props, Like, PropNames
<1>3. Like(q, [q EXCEPT !.readableEnded = v], {"readableEnded"}) /\ [q EXCEPT !.readableEnded = v].readableEnded = v
  <2>1. [q EXCEPT !.readableEnded = v] \in Props
    BY DEF Props
  <2>2. QED
    BY <2>1 DEF Props, Like, PropNames
<1>4. Like(q, [q EXCEPT !.errored = v], {"errored"}) /\ [q EXCEPT !.errored = v].errored = v
  <2>1. [q EXCEPT !.errored = v] \in Props
    BY DEF Props
  <2>2. QED
    BY <2>1 DEF Props, Like, PropNames
<1>5. Like(q, [q EXCEPT !.needDrain = v], {"needDrain"}) /\ [q EXCEPT !.needDrain = v].needDrain = v
  <2>1. [q EXCEPT !.needDrain = v] \in Props
    BY DEF Props
  <2>2. QED
    BY <2>1 DEF Props, Like, PropNames
<1>6. Like(q, [q EXCEPT !.closeEmitted = v], {"closeEmitted"}) /\ [q EXCEPT !.closeEmitted = v].closeEmitted = v
  <2>1. [q EXCEPT !.closeEmitted = v] \in Props
    BY DEF Props
  <2>2. QED
    BY <2>1 DEF Props, Like, PropNames
<1>7. QED
  BY <1>1, <1>2, <1>3, <1>4, <1>5, <1>6

(* The numbers among the properties.                                       *)
LEMMA NumberSet ==
  ASSUME NEW q \in Props, NEW n \in Int
  PROVE  /\ Like(q, [q EXCEPT !.length = n], {"length"}) /\ [q EXCEPT !.length = n].length = n
         /\ Like(q, [q EXCEPT !.count = n], {"count"}) /\ [q EXCEPT !.count = n].count = n
         /\ Like(q, [q EXCEPT !.offset = n], {"offset"}) /\ [q EXCEPT !.offset = n].offset = n
         /\ Like(q, [q EXCEPT !.left = n], {"left"}) /\ [q EXCEPT !.left = n].left = n
<1>1. Like(q, [q EXCEPT !.length = n], {"length"}) /\ [q EXCEPT !.length = n].length = n
  <2>1. [q EXCEPT !.length = n] \in Props
    BY DEF Props
  <2>2. QED
    BY <2>1 DEF Props, Like, PropNames
<1>2. Like(q, [q EXCEPT !.count = n], {"count"}) /\ [q EXCEPT !.count = n].count = n
  <2>1. [q EXCEPT !.count = n] \in Props
    BY DEF Props
  <2>2. QED
    BY <2>1 DEF Props, Like, PropNames
<1>3. Like(q, [q EXCEPT !.offset = n], {"offset"}) /\ [q EXCEPT !.offset = n].offset = n
  <2>1. [q EXCEPT !.offset = n] \in Props
    BY DEF Props
  <2>2. QED
    BY <2>1 DEF Props, Like, PropNames
<1>4. Like(q, [q EXCEPT !.left = n], {"left"}) /\ [q EXCEPT !.left = n].left = n
  <2>1. [q EXCEPT !.left = n] \in Props
    BY DEF Props
  <2>2. QED
    BY <2>1 DEF Props, Like, PropNames
<1>5. QED
  BY <1>1, <1>2, <1>3, <1>4

(* The frames stay with the object whose properties are updated.           *)
LEMMA ObjectSet ==
  ASSUME NEW o \in ObjectType, NEW v
  PROVE  /\ [o EXCEPT !.props.closed = v] = [props |-> [o.props EXCEPT !.closed = v], frames |-> o.frames]
         /\ [o EXCEPT !.props.writableEnded = v] = [props |-> [o.props EXCEPT !.writableEnded = v], frames |-> o.frames]
         /\ [o EXCEPT !.props.readableEnded = v] = [props |-> [o.props EXCEPT !.readableEnded = v], frames |-> o.frames]
         /\ [o EXCEPT !.props.errored = v] = [props |-> [o.props EXCEPT !.errored = v], frames |-> o.frames]
         /\ [o EXCEPT !.props.needDrain = v] = [props |-> [o.props EXCEPT !.needDrain = v], frames |-> o.frames]
         /\ [o EXCEPT !.props.closeEmitted = v] = [props |-> [o.props EXCEPT !.closeEmitted = v], frames |-> o.frames]
         /\ [o EXCEPT !.props.length = v] = [props |-> [o.props EXCEPT !.length = v], frames |-> o.frames]
         /\ [o EXCEPT !.props.count = v] = [props |-> [o.props EXCEPT !.count = v], frames |-> o.frames]
         /\ [o EXCEPT !.props.offset = v] = [props |-> [o.props EXCEPT !.offset = v], frames |-> o.frames]
         /\ [o EXCEPT !.props.left = v] = [props |-> [o.props EXCEPT !.left = v], frames |-> o.frames]
<1>1. PICK q, s : o = [props |-> q, frames |-> s]
  BY DEF ObjectType
<1>2. o.props = q /\ o.frames = s
  BY <1>1
<1>3. [[props |-> q, frames |-> s] EXCEPT !.props.closed = v] = [props |-> [q EXCEPT !.closed = v], frames |-> s]
  OBVIOUS
<1>4. [[props |-> q, frames |-> s] EXCEPT !.props.writableEnded = v] = [props |-> [q EXCEPT !.writableEnded = v], frames |-> s]
  OBVIOUS
<1>5. [[props |-> q, frames |-> s] EXCEPT !.props.readableEnded = v] = [props |-> [q EXCEPT !.readableEnded = v], frames |-> s]
  OBVIOUS
<1>6. [[props |-> q, frames |-> s] EXCEPT !.props.errored = v] = [props |-> [q EXCEPT !.errored = v], frames |-> s]
  OBVIOUS
<1>7. [[props |-> q, frames |-> s] EXCEPT !.props.needDrain = v] = [props |-> [q EXCEPT !.needDrain = v], frames |-> s]
  OBVIOUS
<1>8. [[props |-> q, frames |-> s] EXCEPT !.props.closeEmitted = v] = [props |-> [q EXCEPT !.closeEmitted = v], frames |-> s]
  OBVIOUS
<1>9. [[props |-> q, frames |-> s] EXCEPT !.props.length = v] = [props |-> [q EXCEPT !.length = v], frames |-> s]
  OBVIOUS
<1>10. [[props |-> q, frames |-> s] EXCEPT !.props.count = v] = [props |-> [q EXCEPT !.count = v], frames |-> s]
  OBVIOUS
<1>11. [[props |-> q, frames |-> s] EXCEPT !.props.offset = v] = [props |-> [q EXCEPT !.offset = v], frames |-> s]
  OBVIOUS
<1>12. [[props |-> q, frames |-> s] EXCEPT !.props.left = v] = [props |-> [q EXCEPT !.left = v], frames |-> s]
  OBVIOUS
<1>13. QED
  BY <1>1, <1>2, <1>3, <1>4, <1>5, <1>6, <1>7, <1>8, <1>9, <1>10, <1>11, <1>12

(* A silent object stays one when its properties change.                   *)
LEMMA PropsUpdated ==
  ASSUME NEW o, Silent(o), NEW q, NEW names, Like(o.props, q, names),
         Counted(q)
  PROVE  Updated(o, [props |-> q, frames |-> o.frames], names)
  BY DEF Updated, Silent, ObjectType, Like

(* The counters keep their bounds when flags change.                       *)
LEMMA LikeCounted ==
  ASSUME NEW q, Counted(q), NEW r, NEW names, Like(q, r, names),
         {"count", "offset", "left"} \intersect names = {}
  PROVE  Counted(r)
  BY DEF Like, Counted, PropNames

(* A flag of a silent object is set.                                       *)
LEMMA FlagUpdated ==
  ASSUME NEW o, Silent(o), NEW v \in BOOLEAN
  PROVE  /\ Updated(o, [o EXCEPT !.props.closed = v], {"closed"}) /\ [o EXCEPT !.props.closed = v].props.closed = v
         /\ Updated(o, [o EXCEPT !.props.writableEnded = v], {"writableEnded"}) /\ [o EXCEPT !.props.writableEnded = v].props.writableEnded = v
         /\ Updated(o, [o EXCEPT !.props.readableEnded = v], {"readableEnded"}) /\ [o EXCEPT !.props.readableEnded = v].props.readableEnded = v
         /\ Updated(o, [o EXCEPT !.props.errored = v], {"errored"}) /\ [o EXCEPT !.props.errored = v].props.errored = v
         /\ Updated(o, [o EXCEPT !.props.needDrain = v], {"needDrain"}) /\ [o EXCEPT !.props.needDrain = v].props.needDrain = v
         /\ Updated(o, [o EXCEPT !.props.closeEmitted = v], {"closeEmitted"}) /\ [o EXCEPT !.props.closeEmitted = v].props.closeEmitted = v
<1>0. o \in ObjectType /\ o.props \in Props /\ Counted(o.props)
  BY DEF Silent, ObjectType
<1>1. PICK p \in Props : p = o.props
  BY <1>0
<1>2. Updated(o, [o EXCEPT !.props.closed = v], {"closed"}) /\ [o EXCEPT !.props.closed = v].props.closed = v
  <2>1. PICK q : q = [p EXCEPT !.closed = v] /\ Like(p, q, {"closed"}) /\ q.closed = v
    <3>1. Like(p, [p EXCEPT !.closed = v], {"closed"}) /\ [p EXCEPT !.closed = v].closed = v
      BY FlagSet, Zenon
    <3>2. QED
      BY <3>1, Zenon
  <2>2. Updated(o, [props |-> q, frames |-> o.frames], {"closed"})
    BY <1>0, <1>1, <2>1, LikeCounted, PropsUpdated
  <2>3. [o EXCEPT !.props.closed = v] = [props |-> q, frames |-> o.frames]
    BY <1>0, <1>1, <2>1, ObjectSet
  <2>4. QED
    BY <2>1, <2>2, <2>3
<1>3. Updated(o, [o EXCEPT !.props.writableEnded = v], {"writableEnded"}) /\ [o EXCEPT !.props.writableEnded = v].props.writableEnded = v
  <2>1. PICK q : q = [p EXCEPT !.writableEnded = v] /\ Like(p, q, {"writableEnded"}) /\ q.writableEnded = v
    <3>1. Like(p, [p EXCEPT !.writableEnded = v], {"writableEnded"}) /\ [p EXCEPT !.writableEnded = v].writableEnded = v
      BY FlagSet, Zenon
    <3>2. QED
      BY <3>1, Zenon
  <2>2. Updated(o, [props |-> q, frames |-> o.frames], {"writableEnded"})
    BY <1>0, <1>1, <2>1, LikeCounted, PropsUpdated
  <2>3. [o EXCEPT !.props.writableEnded = v] = [props |-> q, frames |-> o.frames]
    BY <1>0, <1>1, <2>1, ObjectSet
  <2>4. QED
    BY <2>1, <2>2, <2>3
<1>4. Updated(o, [o EXCEPT !.props.readableEnded = v], {"readableEnded"}) /\ [o EXCEPT !.props.readableEnded = v].props.readableEnded = v
  <2>1. PICK q : q = [p EXCEPT !.readableEnded = v] /\ Like(p, q, {"readableEnded"}) /\ q.readableEnded = v
    <3>1. Like(p, [p EXCEPT !.readableEnded = v], {"readableEnded"}) /\ [p EXCEPT !.readableEnded = v].readableEnded = v
      BY FlagSet, Zenon
    <3>2. QED
      BY <3>1, Zenon
  <2>2. Updated(o, [props |-> q, frames |-> o.frames], {"readableEnded"})
    BY <1>0, <1>1, <2>1, LikeCounted, PropsUpdated
  <2>3. [o EXCEPT !.props.readableEnded = v] = [props |-> q, frames |-> o.frames]
    BY <1>0, <1>1, <2>1, ObjectSet
  <2>4. QED
    BY <2>1, <2>2, <2>3
<1>5. Updated(o, [o EXCEPT !.props.errored = v], {"errored"}) /\ [o EXCEPT !.props.errored = v].props.errored = v
  <2>1. PICK q : q = [p EXCEPT !.errored = v] /\ Like(p, q, {"errored"}) /\ q.errored = v
    <3>1. Like(p, [p EXCEPT !.errored = v], {"errored"}) /\ [p EXCEPT !.errored = v].errored = v
      BY FlagSet, Zenon
    <3>2. QED
      BY <3>1, Zenon
  <2>2. Updated(o, [props |-> q, frames |-> o.frames], {"errored"})
    BY <1>0, <1>1, <2>1, LikeCounted, PropsUpdated
  <2>3. [o EXCEPT !.props.errored = v] = [props |-> q, frames |-> o.frames]
    BY <1>0, <1>1, <2>1, ObjectSet
  <2>4. QED
    BY <2>1, <2>2, <2>3
<1>6. Updated(o, [o EXCEPT !.props.needDrain = v], {"needDrain"}) /\ [o EXCEPT !.props.needDrain = v].props.needDrain = v
  <2>1. PICK q : q = [p EXCEPT !.needDrain = v] /\ Like(p, q, {"needDrain"}) /\ q.needDrain = v
    <3>1. Like(p, [p EXCEPT !.needDrain = v], {"needDrain"}) /\ [p EXCEPT !.needDrain = v].needDrain = v
      BY FlagSet, Zenon
    <3>2. QED
      BY <3>1, Zenon
  <2>2. Updated(o, [props |-> q, frames |-> o.frames], {"needDrain"})
    BY <1>0, <1>1, <2>1, LikeCounted, PropsUpdated
  <2>3. [o EXCEPT !.props.needDrain = v] = [props |-> q, frames |-> o.frames]
    BY <1>0, <1>1, <2>1, ObjectSet
  <2>4. QED
    BY <2>1, <2>2, <2>3
<1>7. Updated(o, [o EXCEPT !.props.closeEmitted = v], {"closeEmitted"}) /\ [o EXCEPT !.props.closeEmitted = v].props.closeEmitted = v
  <2>1. PICK q : q = [p EXCEPT !.closeEmitted = v] /\ Like(p, q, {"closeEmitted"}) /\ q.closeEmitted = v
    <3>1. Like(p, [p EXCEPT !.closeEmitted = v], {"closeEmitted"}) /\ [p EXCEPT !.closeEmitted = v].closeEmitted = v
      BY FlagSet, Zenon
    <3>2. QED
      BY <3>1, Zenon
  <2>2. Updated(o, [props |-> q, frames |-> o.frames], {"closeEmitted"})
    BY <1>0, <1>1, <2>1, LikeCounted, PropsUpdated
  <2>3. [o EXCEPT !.props.closeEmitted = v] = [props |-> q, frames |-> o.frames]
    BY <1>0, <1>1, <2>1, ObjectSet
  <2>4. QED
    BY <2>1, <2>2, <2>3
<1>8. QED
  BY <1>2, <1>3, <1>4, <1>5, <1>6, <1>7

(* What is like something at rest ends like it.                            *)
LEMMA SameEndsLike ==
  ASSUME NEW q, SameEnds(q), NEW r, NEW names, Like(q, r, names),
         {"closed", "writableEnded", "errored", "closeEmitted"} \intersect names = {}
  PROVE  SameEnds(r)
  BY DEF Like, SameEnds, PropNames

(* A method starts with the ends as they are.                              *)
LEMMA NoEndsYet == SameEnds(props)
  BY DEF SameEnds

(* Updates one after the other.                                            *)
LEMMA UpdatedSilent ==
  ASSUME NEW o, NEW r, NEW names, Updated(o, r, names)
  PROVE  Silent(r) /\ r.frames = o.frames /\ Like(o.props, r.props, names)
  BY DEF Updated

(* The length that is noted.                                               *)
LEMMA LengthUpdated ==
  ASSUME NEW o, Silent(o), NEW n \in Int
  PROVE  Updated(o, [o EXCEPT !.props.length = n], {"length"})
<1>1. o \in ObjectType /\ o.props \in Props /\ Counted(o.props)
  BY DEF Silent, ObjectType
<1>2. PICK q : q = [o.props EXCEPT !.length = n] /\ Like(o.props, q, {"length"})
  BY <1>1, NumberSet
<1>3. Updated(o, [props |-> q, frames |-> o.frames], {"length"})
  BY <1>1, <1>2, LikeCounted, PropsUpdated
<1>4. [o EXCEPT !.props.length = n] = [props |-> q, frames |-> o.frames]
  BY <1>1, <1>2, ObjectSet
<1>5. QED
  BY <1>3, <1>4

(* What waits to be written is noted.                                      *)
LEMMA NotePendingIs ==
  ASSUME NEW o, Silent(o), SameEnds(o.props), NEW n \in Int
  PROVE  Silent(NotePending(o, n)) /\ SameEnds(NotePending(o, n).props)
         /\ NotePending(o, n).frames = o.frames
<1>1. PICK a : a = [o EXCEPT !.props.length = n] /\ Updated(o, a, {"length"})
  BY LengthUpdated
<1>2. Silent(a) /\ a.frames = o.frames /\ SameEnds(a.props)
  BY <1>1, SameEndsLike, UpdatedSilent
<1>3. PICK v \in BOOLEAN : v = (a.props.needDrain \/ n > HighWaterMark)
  OBVIOUS
<1>4. PICK b : b = [a EXCEPT !.props.needDrain = v] /\ Updated(a, b, {"needDrain"})
  BY <1>2, FlagUpdated
<1>5. Silent(b) /\ b.frames = a.frames /\ SameEnds(b.props)
  <2>1. Silent(b) /\ b.frames = a.frames /\ Like(a.props, b.props, {"needDrain"})
    BY <1>4, UpdatedSilent
  <2>2. QED
    BY <1>2, <2>1, SameEndsLike
<1>6. NotePending(o, n) = b
  BY <1>1, <1>3, <1>4 DEF NotePending
<1>7. QED
  BY <1>2, <1>5, <1>6

(* The drain is told, or not.                                              *)
LEMMA MaybeDrainSays ==
  ASSUME StreamInv, Quietly, NEW o, Silent(o), SameEnds(o.props), NEW n \in Int,
         ObjectBecomes(MaybeDrain(o, n))
  PROVE  StreamInv'
<1>1. PICK a : a = [o EXCEPT !.props.length = n] /\ Updated(o, a, {"length"})
  BY LengthUpdated
<1>2. Silent(a) /\ SameEnds(a.props)
  BY <1>1, SameEndsLike, UpdatedSilent
<1>3. PICK b : b = [a EXCEPT !.props.needDrain = FALSE] /\ Updated(a, b, {"needDrain"})
  BY <1>2, FlagUpdated
<1>4. Silent(b) /\ SameEnds(b.props)
  <2>1. Silent(b) /\ Like(a.props, b.props, {"needDrain"})
    BY <1>3, UpdatedSilent
  <2>2. QED
    BY <1>2, <2>1, SameEndsLike
<1>5. MaybeDrain(o, n) = a \/ MaybeDrain(o, n) = Emit(b, "drain")
  BY <1>1, <1>3 DEF MaybeDrain
<1>6. CASE MaybeDrain(o, n) = a
  BY <1>2, <1>6, SaysNothing
<1>7. CASE MaybeDrain(o, n) = Emit(b, "drain")
  <2>1. "drain" \in StreamEvents
    BY DEF StreamEvents
  <2>2. QED
    BY <1>4, <1>7, <2>1, SaysElse
<1>8. QED
  BY <1>5, <1>6, <1>7

(* An error is told.                                                       *)
LEMMA EmitErrorSays ==
  ASSUME StreamInv, Quietly, NEW o, Silent(o), SameEnds(o.props),
         OfKind({"WriteStream"}) => held, ObjectBecomes(EmitError(o))
  PROVE  StreamInv'
<1>1. PICK a : a = [o EXCEPT !.props.errored = TRUE] /\ Updated(o, a, {"errored"})
  BY FlagUpdated
<1>2. Silent(a) /\ SameEnds(a.props)
  <2>1. Silent(a) /\ Like(o.props, a.props, {"errored"})
    BY <1>1, UpdatedSilent
  <2>2. QED
    BY <2>1 DEF SameEnds, Like, PropNames
<1>3. EmitError(o) = Emit(a, "error") /\ "error" \in StreamEvents
  BY <1>1 DEF EmitError, StreamEvents
<1>4. QED
  BY <1>2, <1>3, SaysElse

(* The stream is found closed: a socket or a server was closed already.    *)
LEMMA FoundClosed ==
  ASSUME StreamInv, Quietly, ~held, ObjectBecomes([Object EXCEPT !.props.closed = TRUE])
  PROVE  StreamInv'
<1>1. Silent(Object) /\ Object.props = props
  BY ObjectIs DEF StreamInv
<1>2. PICK a : /\ a = [Object EXCEPT !.props.closed = TRUE] /\ Updated(Object, a, {"closed"})
               /\ a.props.closed = TRUE
  BY <1>1, FlagUpdated
<1>3. Closable => props.closed = TRUE
  BY DEF StreamInv, HandleInv, ObjectInv, Props
<1>4. Silent(a) /\ SameEnds(a.props)
  <2>1. Silent(a) /\ Like(props, a.props, {"closed"})
    BY <1>1, <1>2, UpdatedSilent
  <2>2. QED
    BY <1>2, <1>3, <2>1 DEF SameEnds, Like, PropNames
<1>5. QED
  BY <1>2, <1>4, SaysNothing

(* A method that begins, or goes on.                                       *)
LEMMA CallsQuietly ==
  ASSUME ObjectInv, NEW m, Calling(m), KeepListeners, KeepHandle
  PROVE  Quietly
  BY StreamsAssumption DEF ObjectInv, Calling, KeepListeners, KeepHandle, Quietly

(* The later frame of a method.                                            *)
LEMMA GoesOnQuietly ==
  ASSUME ObjectInv, UNCHANGED streamCalls, KeepListeners, KeepHandle
  PROVE  Quietly
  BY DEF ObjectInv, KeepListeners, KeepHandle, Quietly

----------------------------------------------------------------------------
(* The methods, and what they go on with.                                  *)
LEMMA ObjectRests == StreamInv => Silent(Object) /\ SameEnds(Object.props)
  BY ObjectIs, NoEndsYet DEF StreamInv

(* write of a file and of a socket (jayess_std_write_stream_write_method). *)
LEMMA StreamWriteKeeps ==
  ASSUME StreamInv, NEW n \in Int, StreamWrite(n)
  PROVE  StreamInv'
<1>1. Quietly
  BY CallsQuietly DEF StreamWrite, StreamInv
<1>2. PICK a : a = NotePending(Object, n) /\ Silent(a) /\ SameEnds(a.props)
  BY ObjectRests, NotePendingIs
<1>3. CASE ~held
  BY <1>1, <1>3, FoundClosed DEF StreamWrite
<1>4. CASE held
  <2>1. \/ ObjectBecomes(EmitError(Object)) \/ ObjectBecomes(EmitError(a))
        \/ ObjectBecomes(MaybeDrain(a, 0)) \/ ObjectBecomes(a)
    BY <1>2, <1>4 DEF StreamWrite
  <2>2. CASE ObjectBecomes(EmitError(Object)) \/ ObjectBecomes(EmitError(a))
    BY <1>1, <1>2, <1>4, <2>2, ObjectRests, EmitErrorSays
  <2>3. CASE ObjectBecomes(MaybeDrain(a, 0))
    BY <1>1, <1>2, <2>3, MaybeDrainSays
  <2>4. CASE ObjectBecomes(a)
    BY <1>1, <1>2, <2>4, SaysNothing
  <2>5. QED
    BY <2>1, <2>2, <2>3, <2>4
<1>5. QED
  BY <1>3, <1>4

(* write of a compression stream.                                          *)
LEMMA CompressionWriteKeeps ==
  ASSUME StreamInv, NEW n \in Nat, CompressionWrite(n)
  PROVE  StreamInv'
<1>1. Quietly
  BY CallsQuietly DEF CompressionWrite, StreamInv
<1>2. ~OfKind({"WriteStream"})
  BY DEF CompressionWrite, OfKind
<1>3. CASE ObjectBecomes(EmitError(Object))
  BY <1>1, <1>2, <1>3, ObjectRests, EmitErrorSays
<1>4. CASE ~ObjectBecomes(EmitError(Object))
  <2>1. /\ props.count + n <= MaxBytes
        /\ ObjectBecomes(NotePending([Object EXCEPT !.props.count = @ + n],
                                     props.count + n - props.offset))
    BY <1>4 DEF CompressionWrite
  <2>2. /\ Object \in ObjectType /\ Object.props = props /\ props \in Props /\ Counted(props)
        /\ props.count \in Int /\ props.offset \in Int
    BY ObjectIs DEF Silent, ObjectType, StreamInv, ObjectInv, Props
  <2>3. PICK c \in Int, w \in Int : c = props.count + n /\ w = props.count + n - props.offset
    BY <2>2
  <2>4. PICK q : q = [props EXCEPT !.count = c] /\ Like(props, q, {"count"}) /\ q.count = c
    BY <2>2, NumberSet
  <2>5. Counted(q)
    BY <2>1, <2>2, <2>3, <2>4 DEF Counted, Like, PropNames
  <2>6. PICK a : a = [props |-> q, frames |-> Object.frames] /\ Updated(Object, a, {"count"})
    BY <2>2, <2>4, <2>5, ObjectRests, PropsUpdated
  <2>7. a = [Object EXCEPT !.props.count = c]
    BY <2>2, <2>4, <2>6, ObjectSet
  <2>8. a = [Object EXCEPT !.props.count = @ + n]
    BY <2>2, <2>3, <2>7
  <2>9. Silent(a) /\ SameEnds(a.props)
    <3>1. Silent(a) /\ Like(props, a.props, {"count"})
      BY <2>2, <2>6, UpdatedSilent
    <3>2. QED
      BY <3>1, NoEndsYet, SameEndsLike
  <2>10. PICK b : b = NotePending(a, w) /\ Silent(b) /\ SameEnds(b.props)
    BY <2>9, NotePendingIs
  <2>11. ObjectBecomes(b)
    BY <2>1, <2>3, <2>8, <2>10
  <2>12. QED
    BY <1>1, <2>10, <2>11, SaysNothing
<1>5. QED
  BY <1>3, <1>4

(* A rest of a method is a frame of a stream of its kind.                  *)
LEMMA RestIs ==
  ASSUME NEW what \in RestsOf(script.kind), NEW n \in Int
  PROVE  Rest(what, n) \in Frame /\ Rest(what, n).at # "emit"
  BY DEF Rest, Frame, RestsOf

(* An object with a rest in front.                                         *)
LEMMA ThenRest ==
  ASSUME NEW o, Silent(o), SameEnds(o.props), NEW what \in RestsOf(script.kind), NEW n \in Int
  PROVE  Silent(Then(o, Rest(what, n))) /\ SameEnds(Then(o, Rest(what, n)).props)
         /\ Then(o, Rest(what, n)).props = o.props
<1>1. PICK f : f = Rest(what, n) /\ f \in Frame /\ f.at # "emit"
  BY RestIs
<1>2. Silent(Then(o, f)) /\ Then(o, f).props = o.props
  BY <1>1, ThenIsSilent
<1>3. QED
  BY <1>1, <1>2

(* A callback called by a method.                                          *)
LEMMA ThenCallback ==
  ASSUME NEW o, Silent(o), SameEnds(o.props)
  PROVE  Silent(Then(o, InCallback)) /\ SameEnds(Then(o, InCallback).props)
<1>1. PICK f : f = InCallback /\ f \in Frame /\ f.at # "emit"
  <2>1. InCallback \in [at : {"callback"}] /\ InCallback.at # "emit"
    BY DEF InCallback
  <2>2. QED
    BY <2>1 DEF Frame
<1>2. Silent(Then(o, f)) /\ Then(o, f).props = o.props
  BY <1>1, ThenIsSilent
<1>3. QED
  BY <1>1, <1>2

(* end of a file that is written starts to flush.                          *)
LEMMA EndKeeps == ASSUME StreamInv, End PROVE StreamInv'
<1>1. Quietly
  BY CallsQuietly DEF End, StreamInv
<1>2. PICK a : a = Then(Object, Rest("draining", 0)) /\ Silent(a) /\ SameEnds(a.props)
  <2>1. "draining" \in RestsOf(script.kind)
    BY DEF End, OfKind, RestsOf
  <2>2. QED
    BY <2>1, ObjectRests, ThenRest
<1>3. ObjectBecomes(Object) \/ ObjectBecomes(a) \/ (held /\ ObjectBecomes(EmitError(a)))
  <2>1. IF held
        THEN ObjectBecomes(Then(Object, Rest("draining", 0)))
               \/ ObjectBecomes(EmitError(Then(Object, Rest("draining", 0))))
        ELSE ObjectBecomes(Object)
    BY DEF End
  <2>2. QED
    BY <1>2, <2>1
<1>4. CASE ObjectBecomes(Object) \/ ObjectBecomes(a)
  BY <1>1, <1>2, <1>4, ObjectRests, SaysNothing
<1>5. CASE held /\ ObjectBecomes(EmitError(a))
  BY <1>1, <1>2, <1>5, EmitErrorSays
<1>6. QED
  BY <1>3, <1>4, <1>5

(* The rest that is taken up belongs to the stream's kind.                 *)
LEMMA RestOnTop ==
  ASSUME StreamInv, NEW what, OnTop(what), what # "emit", what # "callback"
  PROVE  /\ Silent(Popped) /\ SameEnds(Popped.props) /\ Popped.props = props
         /\ what \in RestsOf(script.kind) /\ Head(frames).n \in Int
<1>1. frames \in Seq(Frame) /\ frames # <<>> /\ Head(frames) \in Frame /\ Head(frames).at = what
  BY DEF StreamInv, ObjectInv, OnTop
<1>2. what \in RestsOf(script.kind) /\ Head(frames).n \in Int
  BY <1>1 DEF Frame, EmissionFrame
<1>3. Silent(Popped) /\ Popped.props = props
  BY <1>1, PoppedIsSilent DEF StreamInv
<1>4. QED
  BY <1>2, <1>3, NoEndsYet

(* It drains what waited.                                                  *)
LEMMA EndDrainsKeeps == ASSUME StreamInv, EndDrains PROVE StreamInv'
<1>1. Quietly
  BY GoesOnQuietly DEF EndDrains, StreamInv
<1>2. Silent(Popped) /\ SameEnds(Popped.props) /\ "draining" \in RestsOf(script.kind)
  BY RestOnTop DEF EndDrains
<1>3. "closing" \in RestsOf(script.kind)
  BY <1>2 DEF RestsOf
<1>4. PICK a : a = Then(Popped, Rest("closing", 0)) /\ Silent(a) /\ SameEnds(a.props)
  BY <1>2, <1>3, ThenRest
<1>5. QED
  BY <1>1, <1>4, MaybeDrainSays DEF EndDrains

(* end of a compression stream tells finish, which is not its end.         *)
LEMMA CompressionEndKeeps == ASSUME StreamInv, CompressionEnd PROVE StreamInv'
<1>1. Quietly /\ ~OfKind({"WriteStream"}) /\ ~Closable /\ "ending" \in RestsOf(script.kind)
  BY CallsQuietly DEF CompressionEnd, StreamInv, OfKind, Closable, RestsOf
<1>2. PICK a : /\ a = [Object EXCEPT !.props.writableEnded = TRUE]
               /\ Updated(Object, a, {"writableEnded"})
  BY ObjectRests, FlagUpdated
<1>3. Silent(a) /\ SameEnds(a.props)
  <2>1. Silent(a) /\ Like(props, a.props, {"writableEnded"})
    BY <1>2, UpdatedSilent, ObjectIs DEF StreamInv
  <2>2. QED
    BY <1>1, <2>1 DEF SameEnds, Like, PropNames
<1>4. PICK n \in Int : n = props.offset
  BY DEF StreamInv, ObjectInv, Props
<1>5. PICK b : b = Then(a, Rest("ending", n)) /\ Silent(b) /\ SameEnds(b.props)
  BY <1>1, <1>3, ThenRest
<1>6. ObjectBecomes(Emit(b, "finish")) /\ "finish" \in StreamEvents
  BY <1>2, <1>4, <1>5 DEF CompressionEnd, StreamEvents
<1>7. QED
  BY <1>1, <1>5, <1>6, SaysElse

(* An end of the bytes is told, or not.                                    *)
LEMMA EndTold ==
  ASSUME StreamInv, Quietly, NEW o, Silent(o), SameEnds(o.props),
         \/ ObjectBecomes(o)
         \/ ObjectBecomes([o EXCEPT !.props.readableEnded = TRUE])
         \/ ObjectBecomes(Emit([o EXCEPT !.props.readableEnded = TRUE], "end"))
  PROVE  StreamInv'
<1>1. PICK a : /\ a = [o EXCEPT !.props.readableEnded = TRUE]
               /\ Updated(o, a, {"readableEnded"})
  BY FlagUpdated
<1>2. Silent(a) /\ SameEnds(a.props)
  <2>1. Silent(a) /\ Like(o.props, a.props, {"readableEnded"})
    BY <1>1, UpdatedSilent
  <2>2. QED
    BY <2>1, SameEndsLike
<1>3. "end" \in StreamEvents
  BY DEF StreamEvents
<1>4. CASE ObjectBecomes(o)
  BY <1>4, SaysNothing
<1>5. CASE ObjectBecomes(a)
  BY <1>2, <1>5, SaysNothing
<1>6. CASE ObjectBecomes(Emit(a, "end"))
  BY <1>2, <1>3, <1>6, SaysElse
<1>7. QED
  BY <1>1, <1>4, <1>5, <1>6

(* It tells end, if everything was read as of then.                        *)
LEMMA CompressionEndsKeeps == ASSUME StreamInv, CompressionEnds PROVE StreamInv'
<1>1. Quietly
  BY GoesOnQuietly DEF CompressionEnds, StreamInv
<1>2. Silent(Popped) /\ SameEnds(Popped.props)
  BY RestOnTop DEF CompressionEnds
<1>3. \/ ObjectBecomes(Popped)
      \/ ObjectBecomes(Emit([Popped EXCEPT !.props.readableEnded = TRUE], "end"))
  BY DEF CompressionEnds, EndOfBytes
<1>4. QED
  BY <1>1, <1>2, <1>3, EndTold

(* Something is read.                                                      *)
LEMMA GetsSays ==
  ASSUME StreamInv, Quietly, NEW o, Silent(o), o.props = props,
         "read" \in RestsOf(script.kind), NEW sizes, NEW r \in Gets(o, sizes),
         ObjectBecomes(r)
  PROVE  StreamInv'
<1>1. /\ props \in Props /\ Counted(props) /\ SameEnds(o.props) /\ o \in ObjectType
      /\ props.left \in Int /\ props.count \in Int /\ props.offset \in Int
  BY NoEndsYet DEF StreamInv, ObjectInv, Counted, Props, Silent
<1>2. CASE OfKind({"ReadStream"})
  <2>1. r = [o EXCEPT !.props.left = @ - 1]
    BY <1>2 DEF Gets
  <2>2. PICK n \in Int : n = props.left - 1
    BY <1>1
  <2>3. PICK q : q = [props EXCEPT !.left = n] /\ Like(props, q, {"left"}) /\ q.left = n
    BY <1>1, NumberSet
  <2>4. Counted(q)
    <3>1. q.count = props.count /\ q.offset = props.offset /\ q.left = n /\ q \in Props
      BY <2>3 DEF Like, PropNames
    <3>2. n <= MaxChunks
      BY <1>1, <2>2, StreamsAssumption DEF Counted
    <3>3. QED
      BY <1>1, <3>1, <3>2 DEF Counted
  <2>5. PICK a : a = [props |-> q, frames |-> o.frames] /\ Updated(o, a, {"left"})
    BY <2>3, <2>4, PropsUpdated
  <2>6. r = a
    BY <1>1, <2>1, <2>2, <2>3, <2>5, ObjectSet
  <2>7. Silent(a) /\ SameEnds(a.props)
    <3>1. Silent(a) /\ Like(o.props, a.props, {"left"})
      BY <2>5, UpdatedSilent
    <3>2. QED
      BY <1>1, <3>1, SameEndsLike
  <2>8. QED
    BY <2>6, <2>7, SaysNothing
<1>3. CASE ~OfKind({"ReadStream"})
  <2>1. PICK k \in 1..(props.count - props.offset) :
          r = MaybeDrain(Then([o EXCEPT !.props.offset = props.offset + k],
                              Rest("read", props.offset + k)),
                         props.count - (props.offset + k))
    BY <1>3 DEF Gets
  <2>2. PICK n \in Int, w \in Int :
          n = props.offset + k /\ w = props.count - (props.offset + k) /\ n <= props.count
    BY <1>1
  <2>3. PICK q : q = [props EXCEPT !.offset = n] /\ Like(props, q, {"offset"}) /\ q.offset = n
    BY <1>1, NumberSet
  <2>4. Counted(q)
    <3>1. q.count = props.count /\ q.left = props.left /\ q.offset = n /\ q \in Props
      BY <2>3 DEF Like, PropNames
    <3>2. QED
      BY <1>1, <2>2, <3>1 DEF Counted
  <2>5. PICK a : a = [props |-> q, frames |-> o.frames] /\ Updated(o, a, {"offset"})
    BY <2>3, <2>4, PropsUpdated
  <2>6. a = [o EXCEPT !.props.offset = n]
    BY <1>1, <2>3, <2>5, ObjectSet
  <2>7. Silent(a) /\ SameEnds(a.props)
    <3>1. Silent(a) /\ Like(o.props, a.props, {"offset"})
      BY <2>5, UpdatedSilent
    <3>2. QED
      BY <1>1, <3>1, SameEndsLike
  <2>8. PICK b : b = Then(a, Rest("read", n)) /\ Silent(b) /\ SameEnds(b.props)
    BY <2>7, ThenRest
  <2>9. r = MaybeDrain(b, w)
    BY <2>1, <2>2, <2>6, <2>8
  <2>10. QED
    BY <2>8, <2>9, MaybeDrainSays
<1>4. QED
  BY <1>2, <1>3

(* Nothing is read.                                                        *)
LEMMA GetsNothingSays ==
  ASSUME StreamInv, Quietly, NEW o, Silent(o), SameEnds(o.props),
         ~OfKind({"WriteStream"}), NEW r \in GetsNothing(o), ObjectBecomes(r)
  PROVE  StreamInv'
<1>1. PICK a : /\ a = [o EXCEPT !.props.readableEnded = TRUE]
               /\ Updated(o, a, {"readableEnded"})
  BY FlagUpdated
<1>2. \/ OfKind({"ReadStream"}) /\ r = [a EXCEPT !.props.closed = TRUE]
      \/ r \in {EmitError(o), Emit(a, "end"), a, o}
  BY <1>1 DEF GetsNothing
<1>3. CASE OfKind({"ReadStream"}) /\ r = [a EXCEPT !.props.closed = TRUE]
  <2>1. Silent(a) /\ SameEnds(a.props)
    <3>1. Silent(a) /\ Like(o.props, a.props, {"readableEnded"})
      BY <1>1, UpdatedSilent
    <3>2. QED
      BY <3>1, SameEndsLike
  <2>2. PICK b : b = [a EXCEPT !.props.closed = TRUE] /\ Updated(a, b, {"closed"})
    BY <2>1, FlagUpdated
  <2>3. Silent(b) /\ SameEnds(b.props)
    <3>1. Silent(b) /\ Like(a.props, b.props, {"closed"})
      BY <2>2, UpdatedSilent
    <3>2. ~Closable
      BY <1>3 DEF OfKind, Closable
    <3>3. QED
      BY <2>1, <3>1, <3>2 DEF SameEnds, Like, PropNames
  <2>4. QED
    BY <1>3, <2>2, <2>3, SaysNothing
<1>4. CASE r = EmitError(o)
  BY <1>4, EmitErrorSays
<1>5. CASE r \in {Emit(a, "end"), a, o}
  BY <1>1, <1>5, EndTold
<1>6. QED
  BY <1>2, <1>3, <1>4, <1>5

(* read of a file and of a compression stream.                             *)
LEMMA StreamReadKeeps == ASSUME StreamInv, StreamRead PROVE StreamInv'
<1>1. Quietly /\ ~OfKind({"WriteStream"}) /\ "read" \in RestsOf(script.kind)
  BY CallsQuietly DEF StreamRead, StreamInv, OfKind, RestsOf
<1>2. PICK o \in Gets(Object, 1..MaxBytes) \union GetsNothing(Object) : ObjectBecomes(o)
  BY DEF StreamRead
<1>3. Silent(Object) /\ SameEnds(Object.props) /\ Object.props = props
  BY ObjectRests, ObjectIs DEF StreamInv
<1>4. CASE o \in Gets(Object, 1..MaxBytes)
  BY <1>1, <1>2, <1>3, <1>4, GetsSays
<1>5. CASE o \in GetsNothing(Object)
  BY <1>1, <1>2, <1>3, <1>5, GetsNothingSays
<1>6. QED
  BY <1>2, <1>4, <1>5

(* on("data") and once("data") start to read.                              *)
LEMMA OnDataKeeps ==
  ASSUME StreamInv, NEW loops \in BOOLEAN, OnData(loops)
  PROVE  StreamInv'
<1>1. Quietly /\ "data" \in RestsOf(script.kind)
  BY CallsQuietly DEF OnData, StreamInv, OfKind, RestsOf
<1>2. PICK n \in Int : n = IF loops THEN 1 ELSE 0
  OBVIOUS
<1>3. PICK a : a = Then(Object, Rest("data", n)) /\ Silent(a) /\ SameEnds(a.props)
  BY <1>1, ObjectRests, ThenRest
<1>4. ObjectBecomes(a)
  BY <1>2, <1>3 DEF OnData
<1>5. QED
  BY <1>1, <1>3, <1>4, SaysNothing

(* One turn of their loop reads,                                           *)
LEMMA DataReadsKeeps == ASSUME StreamInv, DataReads PROVE StreamInv'
<1>1. Quietly
  BY GoesOnQuietly DEF DataReads, StreamInv
<1>2. /\ Silent(Popped) /\ SameEnds(Popped.props) /\ Popped.props = props
      /\ "data" \in RestsOf(script.kind) /\ Head(frames).n \in Int
  BY RestOnTop DEF DataReads
<1>3. /\ "read" \in RestsOf(script.kind) /\ "give" \in RestsOf(script.kind)
      /\ ~OfKind({"WriteStream"})
  BY <1>2 DEF RestsOf, OfKind
<1>4. PICK a : /\ a = Then(Popped, Rest("give", Head(frames).n))
               /\ Silent(a) /\ a.props = props
  BY <1>2, <1>3, ThenRest, SMTT(30)
<1>5. \/ ObjectBecomes(Popped)
      \/ \E o \in Gets(a, {props.count - props.offset}) : ObjectBecomes(o)
      \/ \E o \in GetsNothing(Popped) : ObjectBecomes(o)
  BY <1>4 DEF DataReads
<1>6. CASE ObjectBecomes(Popped)
  BY <1>1, <1>2, <1>6, SaysNothing
<1>7. CASE \E o \in Gets(a, {props.count - props.offset}) : ObjectBecomes(o)
  BY <1>1, <1>3, <1>4, <1>7, GetsSays
<1>8. CASE \E o \in GetsNothing(Popped) : ObjectBecomes(o)
  BY <1>1, <1>2, <1>3, <1>8, GetsNothingSays
<1>9. QED
  BY <1>5, <1>6, <1>7, <1>8

(* and gives what was read to the callback.                                *)
LEMMA DataGivesKeeps == ASSUME StreamInv, DataGives PROVE StreamInv'
<1>1. Quietly
  BY GoesOnQuietly DEF DataGives, StreamInv
<1>2. Silent(Popped) /\ SameEnds(Popped.props) /\ "give" \in RestsOf(script.kind)
  BY RestOnTop DEF DataGives
<1>3. PICK a : a = Then(Popped, Rest("data", 1)) /\ Silent(a) /\ SameEnds(a.props)
  <2>1. "data" \in RestsOf(script.kind)
    BY <1>2 DEF RestsOf
  <2>2. QED
    BY <1>2, <2>1, ThenRest
<1>4. ObjectBecomes(Then(a, InCallback)) \/ ObjectBecomes(Then(Popped, InCallback))
  BY <1>3 DEF DataGives
<1>5. PICK b, c : /\ b = Then(a, InCallback) /\ Silent(b) /\ SameEnds(b.props)
                  /\ c = Then(Popped, InCallback) /\ Silent(c) /\ SameEnds(c.props)
  BY <1>2, <1>3, ThenCallback
<1>6. QED
  BY <1>1, <1>4, <1>5, SaysNothing

(* read of a socket.                                                       *)
LEMMA SocketReadKeeps == ASSUME StreamInv, SocketRead PROVE StreamInv'
<1>1. Quietly /\ "dropping" \in RestsOf(script.kind) /\ ~OfKind({"WriteStream"})
  BY CallsQuietly DEF SocketRead, StreamInv, OfKind, RestsOf
<1>2. PICK a : a = Then(Object, Rest("dropping", 0)) /\ Silent(a) /\ SameEnds(a.props)
  BY <1>1, ObjectRests, ThenRest
<1>3. \/ ObjectBecomes(Object) \/ ObjectBecomes(a) \/ ObjectBecomes(EmitError(a))
      \/ (~held /\ ObjectBecomes([Object EXCEPT !.props.closed = TRUE]))
  BY <1>2 DEF SocketRead
<1>4. CASE ObjectBecomes(Object) \/ ObjectBecomes(a)
  BY <1>1, <1>2, <1>4, ObjectRests, SaysNothing
<1>5. CASE ObjectBecomes(EmitError(a))
  BY <1>1, <1>2, <1>5, EmitErrorSays
<1>6. CASE ~held /\ ObjectBecomes([Object EXCEPT !.props.closed = TRUE])
  BY <1>1, <1>6, FoundClosed
<1>7. QED
  BY <1>3, <1>4, <1>5, <1>6

(* accept of a server.                                                     *)
LEMMA AcceptKeeps == ASSUME StreamInv, Accept PROVE StreamInv'
<1>1. Quietly /\ ~OfKind({"WriteStream"}) /\ "connection" \in StreamEvents
  BY CallsQuietly DEF Accept, StreamInv, OfKind, StreamEvents
<1>2. \/ ObjectBecomes(Emit(Object, "connection")) \/ ObjectBecomes(EmitError(Object))
      \/ (~held /\ ObjectBecomes([Object EXCEPT !.props.closed = TRUE]))
  BY DEF Accept
<1>3. CASE ObjectBecomes(Emit(Object, "connection"))
  BY <1>1, <1>3, ObjectRests, SaysElse
<1>4. CASE ObjectBecomes(EmitError(Object))
  BY <1>1, <1>4, ObjectRests, EmitErrorSays
<1>5. CASE ~held /\ ObjectBecomes([Object EXCEPT !.props.closed = TRUE])
  BY <1>1, <1>5, FoundClosed
<1>6. QED
  BY <1>2, <1>3, <1>4, <1>5

(* poll of a watcher.                                                      *)
LEMMA PollKeeps == ASSUME StreamInv, Poll PROVE StreamInv'
<1>1. Quietly /\ "change" \in StreamEvents
  BY CallsQuietly DEF Poll, StreamInv, StreamEvents
<1>2. ObjectBecomes(Object) \/ ObjectBecomes(Emit(Object, "change"))
  BY DEF Poll
<1>3. CASE ObjectBecomes(Object)
  BY <1>1, <1>3, ObjectRests, SaysNothing
<1>4. CASE ObjectBecomes(Emit(Object, "change"))
  BY <1>1, <1>4, ObjectRests, SaysElse
<1>5. QED
  BY <1>2, <1>3, <1>4

----------------------------------------------------------------------------
(* The methods that close.                                                 *)

(* The handle is closed.                                                   *)
LEMMA HandleCloses ==
  ASSUME StreamInv, CloseHandle
  PROVE  /\ held' = FALSE /\ reentered' \in BOOLEAN /\ closes' \in 0..2
         /\ reentered => reentered'
         /\ ~reentered' => held /\ closes' = 1
<1>1. PICK n \in 1..3 : n = closes + 1
  BY DEF StreamInv, ObjectInv
<1>2. /\ Min({n, 2}) \in {n, 2} /\ Min({n, 2}) <= 2
      /\ n = 1 => Min({n, 2}) = 1
  <2>1. \E x \in {n, 2} : \A y \in {n, 2} : x <= y
    <3>1. CASE n <= 2
      BY <3>1
    <3>2. CASE n = 3
      BY <3>2
    <3>3. QED
      BY <3>1, <3>2
  <2>2. /\ Min({n, 2}) \in {n, 2}
        /\ \A y \in {n, 2} : Min({n, 2}) <= y
    BY <2>1 DEF Min
  <2>3. QED
    BY <2>2
<1>3. /\ held' = FALSE /\ closes' = Min({n, 2}) /\ (reentered' <=> (reentered \/ ~held))
      /\ reentered' \in BOOLEAN
  BY <1>1 DEF CloseHandle
<1>4. ASSUME ~reentered' PROVE held /\ n = 1
  <2>1. ~reentered /\ held
    BY <1>3, <1>4
  <2>2. closes = 0
    BY <2>1 DEF StreamInv, HandleInv
  <2>3. QED
    BY <1>1, <2>1, <2>2
<1>5. closes' \in 0..2
  BY <1>2, <1>3
<1>6. QED
  BY <1>2, <1>3, <1>4, <1>5

(* A socket, a server or a watcher is closed, once or again.               *)
LEMMA CloseSays ==
  ASSUME StreamInv, Moves, Closable, reentered => reentered',
         ~reentered' => closes' = IF held' THEN 0 ELSE 1,
         NEW o, Silent(o), Like(props, o.props, {"closed"}), o.props.closed = TRUE,
         ObjectBecomes(EmitClose(o))
  PROVE  StreamInv'
<1>1. \A kinds : OfKind(kinds)' <=> OfKind(kinds)
  BY DEF OfKind, Moves
<1>2. Closable' /\ ~OfKind({"WriteStream"}) /\ ~OfKind({"WriteStream"})'
  BY <1>1 DEF Closable, OfKind
<1>3. \A e \in script.events : Terminal(e)' => e = "close"
  BY <1>2 DEF Terminal
<1>4. /\ o.props.closeEmitted = props.closeEmitted /\ props.closeEmitted \in BOOLEAN
      /\ o \in ObjectType /\ Counted(o.props) /\ Emissions(o.frames) = Emissions(frames)
  BY DEF Like, PropNames, StreamInv, ObjectInv, Props, Silent
<1>5. CASE props.closeEmitted
  <2>1. ObjectBecomes(o)
    BY <1>4, <1>5 DEF EmitClose
  <2>2. ObjectInv' /\ HandleInv'
    BY <1>2, <1>4, <1>5, <2>1, MovesShape DEF StreamInv, HandleInv, ObjectBecomes
  <2>3. Happened("close")' /\ Happened("close")
    BY <1>4, <1>5, <2>1 DEF Happened, ObjectBecomes
  <2>4. Emissions(frames') = Emissions(frames)
    BY <1>4, <2>1 DEF ObjectBecomes
  <2>5. QED
    BY <1>3, <2>2, <2>3, <2>4, QuietStep DEF Moves
<1>6. CASE ~props.closeEmitted
  <2>1. PICK a : /\ a = [o EXCEPT !.props.closeEmitted = TRUE]
                 /\ Updated(o, a, {"closeEmitted"}) /\ a.props.closeEmitted = TRUE
    BY FlagUpdated
  <2>2. Silent(a) /\ a.props.closed = TRUE
    <3>1. Silent(a) /\ Like(o.props, a.props, {"closeEmitted"})
      BY <2>1, UpdatedSilent
    <3>2. QED
      BY <3>1 DEF Like, PropNames
  <2>3. "close" \in StreamEvents /\ ObjectBecomes(Emit(a, "close"))
    BY <1>4, <1>6, <2>1 DEF EmitClose, StreamEvents
  <2>4. TellsOne(Emit(a, "close"), "close") /\ Emit(a, "close").props = a.props
    BY <2>2, <2>3, EmitTells DEF StreamInv
  <2>5. props' = a.props /\ frames' = Emit(a, "close").frames
    BY <2>3, <2>4 DEF ObjectBecomes
  <2>6. ObjectInv'
    BY <2>3, <2>4, MovesShape DEF StreamInv, TellsOne
  <2>7. HandleInv'
    BY <1>2, <2>1, <2>2, <2>5 DEF HandleInv
  <2>8. Happened("close")' /\ ~Happened("close")
    BY <1>6, <2>1, <2>5 DEF Happened
  <2>9. PICK m : /\ \A p \in Emissions(frames) : p[1] # m
                 /\ Emissions(frames') = Emissions(frames) \union {<<m, Emission("close")>>}
    BY <2>4, <2>5 DEF TellsOne
  <2>10. QED
    BY <1>3, <2>3, <2>6, <2>7, <2>8, <2>9, TellingStep DEF Moves
<1>7. QED
  BY <1>4, <1>5, <1>6

(* The end of a file that is written closes it and tells finish, unless an *)
(* error was told.                                                         *)
LEMMA EndClosesKeeps == ASSUME StreamInv, EndCloses PROVE StreamInv'
<1>1. /\ held' = FALSE /\ reentered' \in BOOLEAN /\ closes' \in 0..2
      /\ reentered => reentered'
      /\ ~reentered' => held /\ closes' = 1
  BY HandleCloses DEF EndCloses
<1>2. /\ Silent(Popped) /\ Popped.props = props /\ "closing" \in RestsOf(script.kind)
  BY RestOnTop DEF EndCloses
<1>3. OfKind({"WriteStream"})
  BY <1>2 DEF RestsOf, OfKind
<1>4. Moves
  BY <1>1 DEF EndCloses, KeepListeners, Moves, StreamInv, ObjectInv
<1>5. \A kinds : OfKind(kinds)' <=> OfKind(kinds)
  BY <1>4 DEF OfKind, Moves
<1>6. ~Closable /\ ~Closable' /\ OfKind({"WriteStream"})'
  BY <1>3, <1>5 DEF Closable, OfKind
<1>7. PICK a : /\ a = [Popped EXCEPT !.props.closed = TRUE] /\ Updated(Popped, a, {"closed"})
  BY <1>2, FlagUpdated
<1>8. Silent(a) /\ Like(props, a.props, {"closed"})
  BY <1>2, <1>7, UpdatedSilent
<1>9. PICK b : /\ b = [a EXCEPT !.props.writableEnded = TRUE] /\ b.props.writableEnded = TRUE
               /\ Updated(a, b, {"writableEnded"})
  BY <1>8, FlagUpdated
<1>10. Silent(b) /\ Like(a.props, b.props, {"writableEnded"})
  BY <1>9, UpdatedSilent
<1>11. /\ b.props.errored = props.errored /\ b.props.closeEmitted = props.closeEmitted
       /\ b.props.writableEnded = TRUE /\ props.errored \in BOOLEAN
  BY <1>8, <1>9, <1>10 DEF Like, PropNames, StreamInv, ObjectInv, Props
<1>12. b = [Popped EXCEPT !.props.closed = TRUE, !.props.writableEnded = TRUE]
  BY <1>7, <1>9
<1>13. ~reentered' => ~props.writableEnded
  BY <1>1, <1>3 DEF StreamInv, HandleInv
<1>14. \A e \in script.events : Terminal(e)' => e = "finish" /\ ~reentered'
  <2>1. "close" \notin script.events
    BY <1>6, ScriptFacts DEF StreamInv, ObjectInv
  <2>2. QED
    BY <2>1 DEF Terminal
<1>15. CASE props.errored
  <2>1. ObjectBecomes(b)
    BY <1>12, <1>15 DEF EndCloses
  <2>2. b \in ObjectType /\ Counted(b.props) /\ Emissions(b.frames) = Emissions(frames)
    BY <1>10 DEF Silent
  <2>3. ObjectInv'
    BY <1>4, <2>1, <2>2, MovesShape DEF StreamInv
  <2>4. HandleInv'
    BY <1>1, <1>6, <1>11, <2>1 DEF HandleInv, ObjectBecomes
  <2>5. ~Happened("finish")' /\ ~Happened("finish")
    BY <1>11, <1>15, <2>1 DEF Happened, ObjectBecomes
  <2>6. Emissions(frames') = Emissions(frames)
    BY <2>1, <2>2 DEF ObjectBecomes
  <2>7. QED
    BY <1>1, <1>4, <1>14, <2>3, <2>4, <2>5, <2>6, QuietStep DEF Moves
<1>16. CASE ~props.errored
  <2>1. ObjectBecomes(Emit(b, "finish")) /\ "finish" \in StreamEvents
    BY <1>12, <1>16 DEF EndCloses, StreamEvents
  <2>2. TellsOne(Emit(b, "finish"), "finish") /\ Emit(b, "finish").props = b.props
    BY <1>10, <2>1, EmitTells DEF StreamInv
  <2>3. props' = b.props /\ frames' = Emit(b, "finish").frames
    BY <2>1, <2>2 DEF ObjectBecomes
  <2>4. ObjectInv'
    BY <1>4, <2>1, <2>2, MovesShape DEF StreamInv, TellsOne
  <2>5. HandleInv'
    BY <1>1, <1>6, <1>11, <2>3 DEF HandleInv
  <2>6. Happened("finish")' /\ (~reentered' => ~Happened("finish"))
    BY <1>6, <1>11, <1>13, <1>16, <2>3 DEF Happened
  <2>7. PICK m : /\ \A p \in Emissions(frames) : p[1] # m
                 /\ Emissions(frames') = Emissions(frames) \union {<<m, Emission("finish")>>}
    BY <2>2, <2>3 DEF TellsOne
  <2>8. \A e \in script.events : Terminal(e)' =>
           IF e = "finish" THEN ~Happened(e) /\ Happened(e)' ELSE (Happened(e)' <=> Happened(e))
    BY <1>14, <2>6
  <2>9. QED
    BY <1>1, <1>4, <2>1, <2>4, <2>5, <2>7, <2>8, TellingStep DEF Moves
<1>17. QED
  BY <1>15, <1>16

(* A read closes the socket.                                               *)
LEMMA SocketDropsKeeps == ASSUME StreamInv, SocketDrops PROVE StreamInv'
<1>1. /\ held' = FALSE /\ reentered' \in BOOLEAN /\ closes' \in 0..2
      /\ reentered => reentered'
      /\ ~reentered' => held /\ closes' = 1
  BY HandleCloses DEF SocketDrops
<1>2. /\ Silent(Popped) /\ Popped.props = props /\ "dropping" \in RestsOf(script.kind)
  BY RestOnTop DEF SocketDrops
<1>3. Closable
  BY <1>2 DEF RestsOf, OfKind, Closable
<1>4. Moves
  BY <1>1 DEF SocketDrops, KeepListeners, Moves, StreamInv, ObjectInv
<1>5. PICK a : /\ a = [Popped EXCEPT !.props.closed = TRUE] /\ Updated(Popped, a, {"closed"})
               /\ a.props.closed = TRUE
  BY <1>2, FlagUpdated
<1>6. Silent(a) /\ Like(props, a.props, {"closed"})
  BY <1>2, <1>5, UpdatedSilent
<1>7. ObjectBecomes(EmitClose(a))
  BY <1>5 DEF SocketDrops
<1>8. QED
  BY <1>1, <1>3, <1>4, <1>5, <1>6, <1>7, CloseSays

(* close of a socket, a server or a watcher, and of a file that is read.   *)
LEMMA StreamCloseKeeps == ASSUME StreamInv, StreamClose PROVE StreamInv'
<1>1. /\ held' = FALSE /\ reentered' \in BOOLEAN /\ closes' \in 0..2
      /\ reentered => reentered' /\ held \in BOOLEAN
      /\ ~reentered' => closes' = IF held' THEN 0 ELSE 1
  <2>1. CASE held
    BY <2>1, HandleCloses DEF StreamClose, StreamInv, ObjectInv
  <2>2. CASE ~held
    BY <2>2 DEF StreamClose, KeepHandle, StreamInv, ObjectInv, HandleInv
  <2>3. QED
    BY <2>1, <2>2
<1>2. Moves
  <2>1. Calling("close") /\ KeepListeners
    BY DEF StreamClose
  <2>2. streamCalls' \in 0..MaxStreamCalls
    BY <2>1, StreamsAssumption DEF Calling, StreamInv, ObjectInv
  <2>3. QED
    BY <1>1, <2>1, <2>2 DEF KeepListeners, Moves, StreamInv, ObjectInv
<1>3. PICK a : /\ a = [Object EXCEPT !.props.closed = TRUE] /\ Updated(Object, a, {"closed"})
               /\ a.props.closed = TRUE
  BY ObjectRests, FlagUpdated
<1>4. Silent(a) /\ Like(props, a.props, {"closed"})
  BY <1>3, UpdatedSilent, ObjectIs DEF StreamInv
<1>5. CASE OfKind({"Socket", "Server", "Watcher"})
  <2>1. Closable /\ ObjectBecomes(EmitClose(a))
    BY <1>3, <1>5 DEF StreamClose, Closable, OfKind
  <2>2. QED
    BY <1>1, <1>2, <1>3, <1>4, <2>1, CloseSays
<1>6. CASE OfKind({"ReadStream"})
  <2>1. PICK b : /\ b = [a EXCEPT !.props.readableEnded = TRUE]
                 /\ Updated(a, b, {"readableEnded"})
    BY <1>4, FlagUpdated
  <2>2. Silent(b) /\ Like(a.props, b.props, {"readableEnded"})
    BY <2>1, UpdatedSilent
  <2>3. PICK o : ObjectBecomes(o) /\ Silent(o) /\ o.props.closeEmitted = props.closeEmitted
    <3>1. ObjectBecomes(b) \/ ObjectBecomes(Object)
      BY <1>3, <1>6, <2>1 DEF StreamClose, OfKind
    <3>2. b.props.closeEmitted = props.closeEmitted
      BY <1>4, <2>2 DEF Like, PropNames
    <3>3. QED
      BY <2>2, <3>1, <3>2, ObjectIs DEF StreamInv
  <2>4. o \in ObjectType /\ Counted(o.props) /\ Emissions(o.frames) = Emissions(frames)
    BY <2>3 DEF Silent
  <2>5. ObjectInv'
    BY <1>2, <2>3, <2>4, MovesShape DEF StreamInv
  <2>6. \A kinds : OfKind(kinds)' <=> OfKind(kinds)
    BY <1>2 DEF OfKind, Moves
  <2>7. ~Closable /\ ~OfKind({"WriteStream"})
    BY <1>6 DEF OfKind, Closable
  <2>8. ~Closable' /\ ~OfKind({"WriteStream"})'
    BY <2>6, <2>7 DEF Closable
  <2>9. HandleInv'
    BY <1>1, <2>8 DEF HandleInv
  <2>10. Emissions(frames') = Emissions(frames)
    BY <2>3, <2>4 DEF ObjectBecomes
  <2>11. \A e \in script.events : Terminal(e)' => (Happened(e)' <=> Happened(e))
    BY <2>3, <2>8 DEF Terminal, Happened, ObjectBecomes
  <2>12. QED
    BY <1>1, <1>2, <2>5, <2>9, <2>10, <2>11, QuietStep DEF Moves
<1>7. QED
  BY <1>5, <1>6 DEF StreamClose

----------------------------------------------------------------------------
(* Listeners, emissions and callbacks.                                     *)
Listens ==
  /\ UNCHANGED <<script, props, held, closes, reentered>>
  /\ frames' \in Seq(Frame) /\ thrown' \in BOOLEAN /\ streamCalls' \in 0..MaxStreamCalls
  /\ registry' \in Seq(ListenerRecord) /\ arrays' \in Seq(Seq(Nat))
  /\ book' \in [StreamEvents -> [BOOLEAN -> Nat]]

(* Nothing the object knows of its end changes.                            *)
LEMMA ListensKeeps ==
  ASSUME StreamInv, Listens
  PROVE  /\ ObjectInv' /\ HandleInv'
         /\ \A e : (Happened(e)' <=> Happened(e)) /\ (Terminal(e)' <=> Terminal(e))
<1>1. Frame' = Frame /\ Props' = Props
  BY DEF Listens, Frame, Props
<1>2. \A kinds : OfKind(kinds)' <=> OfKind(kinds)
  BY DEF OfKind, Listens
<1>3. ObjectInv'
  BY <1>1 DEF StreamInv, ObjectInv, Listens
<1>4. HandleInv'
  BY <1>2 DEF StreamInv, HandleInv, Closable, Listens
<1>5. \A e : (Happened(e)' <=> Happened(e)) /\ (Terminal(e)' <=> Terminal(e))
  BY <1>2 DEF Happened, Terminal, Listens
<1>6. QED
  BY <1>3, <1>4, <1>5

(* Only the callbacks under way change.                                    *)
LEMMA CallbackKeeps ==
  ASSUME StreamInv, Listens, UNCHANGED <<book, arrays, registry>>,
         Emissions(frames') = Emissions(frames)
  PROVE  StreamInv'
<1>1. ObjectInv' /\ HandleInv' /\ \A e : Happened(e)' <=> Happened(e)
  BY ListensKeeps
<1>2. QED
  BY <1>1, QuietStep DEF Listens

(* A callback returns.                                                     *)
LEMMA CallbackReturnsKeeps == ASSUME StreamInv, CallbackReturns PROVE StreamInv'
<1>1. frames \in Seq(Frame) /\ frames # <<>> /\ Head(frames).at # "emit"
  BY DEF CallbackReturns, OnTop, StreamInv, ObjectInv
<1>2. frames' \in Seq(Frame) /\ Emissions(frames') = Emissions(frames)
  BY <1>1, EmissionsOfTail DEF CallbackReturns
<1>3. Listens
  BY <1>2 DEF CallbackReturns, KeepHandle, Listens, StreamInv, ObjectInv
<1>4. QED
  BY <1>2, <1>3, CallbackKeeps DEF CallbackReturns

(* A callback throws.                                                      *)
LEMMA CallbackThrowsKeeps == ASSUME StreamInv, CallbackThrows PROVE StreamInv'
<1>1. frames \in Seq(Frame) /\ frames # <<>> /\ Head(frames).at # "emit"
  BY DEF CallbackThrows, OnTop, StreamInv, ObjectInv
<1>2. frames' \in Seq(Frame) /\ Emissions(frames') = Emissions(frames)
  BY <1>1, EmissionsOfTail DEF CallbackThrows
<1>3. Listens
  BY <1>2 DEF CallbackThrows, KeepHandle, Listens, StreamInv, ObjectInv
<1>4. QED
  BY <1>2, <1>3, CallbackKeeps DEF CallbackThrows

(* The program catches what was thrown.                                    *)
LEMMA CatchThrownKeeps == ASSUME StreamInv, CatchThrown PROVE StreamInv'
<1>1. Listens
  BY DEF CatchThrown, KeepHandle, Listens, StreamInv, ObjectInv
<1>2. QED
  BY <1>1, CallbackKeeps DEF CatchThrown

(* The emission in front.                                                  *)
LEMMA TopEmission ==
  ASSUME StreamInv, OnTop("emit"), NEW f, f = Head(frames)
  PROVE  \E n \in Nat :
           /\ Tail(frames) \in Seq(Frame) /\ n = Len(Tail(frames))
           /\ f \in EmissionFrame /\ f \in Frame
           /\ <<n, f>> \in Emissions(frames)
           /\ Emissions(frames) = Emissions(Tail(frames)) \union {<<n, f>>}
           /\ \A p \in Emissions(Tail(frames)) : p[1] # n
<1>1. frames \in Seq(Frame) /\ frames # <<>> /\ f.at = "emit"
  BY DEF StreamInv, ObjectInv, OnTop
<1>2. PICK n \in Nat :
        /\ Tail(frames) \in Seq(Frame) /\ n = Len(Tail(frames)) /\ f \in Frame
        /\ Emissions(frames) = Emissions(Tail(frames)) \union {<<n, f>>}
        /\ \A p \in Emissions(Tail(frames)) : p[1] < n
  BY <1>1, EmissionsOfTail
<1>3. \A p \in Emissions(Tail(frames)) : p[1] # n
  BY <1>2
<1>4. PICK p : p = <<n, f>> /\ p \in Emissions(frames)
  BY <1>2
<1>5. f \in EmissionFrame
  <2>1. p[2] \in EmissionFrame
    BY <1>4, EmissionFacts DEF StreamInv
  <2>2. QED
    BY <1>4, <2>1
<1>6. QED
  BY <1>2, <1>3, <1>4, <1>5

(* Listeners are excused.                                                  *)
LEMMA ExcusedIs ==
  ASSUME ObjectInv, NEW ids, NEW r, r = Excused(registry, ids)
  PROVE  /\ r \in Seq(ListenerRecord) /\ DOMAIN r = DOMAIN registry /\ Len(r) = Len(registry)
         /\ \A id \in DOMAIN registry :
               /\ r[id].event = registry[id].event /\ r[id].once = registry[id].once
               /\ r[id].heard = registry[id].heard
               /\ r[id].excused <=> registry[id].excused \/ id \in ids
<1>1. /\ DOMAIN r = DOMAIN registry
      /\ \A id \in DOMAIN registry :
            r[id] = IF id \in ids THEN [registry[id] EXCEPT !.excused = TRUE] ELSE registry[id]
  BY DEF Excused
<1>2. registry \in Seq(ListenerRecord)
  BY DEF ObjectInv
<1>3. ASSUME NEW id \in DOMAIN registry
      PROVE  /\ r[id] \in ListenerRecord
             /\ r[id].event = registry[id].event /\ r[id].once = registry[id].once
             /\ r[id].heard = registry[id].heard
             /\ r[id].excused <=> registry[id].excused \/ id \in ids
  <2>1. registry[id] \in ListenerRecord
    BY <1>2
  <2>2. PICK x \in ListenerRecord : x = registry[id]
    BY <2>1
  <2>3. PICK y : y = [x EXCEPT !.excused = TRUE]
    OBVIOUS
  <2>4. /\ y \in ListenerRecord /\ y.event = x.event /\ y.once = x.once
        /\ y.heard = x.heard /\ y.excused = TRUE
    BY <2>3 DEF ListenerRecord
  <2>5. r[id] = IF id \in ids THEN y ELSE x
    BY <1>1, <2>2, <2>3
  <2>6. x.excused \in BOOLEAN
    BY DEF ListenerRecord
  <2>7. CASE id \in ids
    BY <2>2, <2>4, <2>5, <2>7
  <2>8. CASE id \notin ids
    BY <2>2, <2>5, <2>8
  <2>9. QED
    BY <2>7, <2>8
<1>4. r \in Seq(ListenerRecord) /\ Len(r) = Len(registry)
  <2>1. DOMAIN r = 1..Len(registry) /\ Len(registry) \in Nat
    BY <1>1, <1>2
  <2>2. r = [id \in 1..Len(registry) |-> r[id]]
    BY <2>1, <1>1 DEF Excused
  <2>3. QED
    BY <1>1, <1>3, <2>1, <2>2
<1>5. QED
  BY <1>1, <1>3, <1>4

(* Listeners keep their event and their kind.                              *)
Remembered ==
  /\ DOMAIN registry' = DOMAIN registry
  /\ \A id \in DOMAIN registry :
        registry'[id].event = registry[id].event /\ registry'[id].once = registry[id].once

(* The object has the arrays it had, or fewer.                             *)
Forgets ==
  UNCHANGED <<script, arrays>>
  /\ \A e \in StreamEvents, once \in BOOLEAN : book'[e][once] \in {0, book[e][once]}

(* The arrays stay those of the listeners.                                 *)
LEMMA BookRemembers ==
  ASSUME StreamInv, Remembered, Forgets
  PROVE  BookInv'
<1>1. \A id \in DOMAIN registry' : registry'[id].event \in script.events
  BY DEF StreamInv, BookInv, Remembered
<1>2. /\ \A a \in DOMAIN arrays : \A j \in DOMAIN arrays[a] : arrays[a][j] \in DOMAIN registry'
      /\ \A a, b \in DOMAIN arrays : \A j \in DOMAIN arrays[a], k \in DOMAIN arrays[b] :
           arrays[a][j] = arrays[b][k] => a = b /\ j = k
  BY DEF StreamInv, BookInv, Remembered
<1>3. ASSUME NEW e \in StreamEvents, NEW once \in BOOLEAN, book'[e][once] # 0
      PROVE  /\ book'[e][once] \in DOMAIN arrays /\ arrays[book'[e][once]] # <<>>
             /\ \A j \in DOMAIN arrays[book'[e][once]] :
                  LET r == registry'[arrays[book'[e][once]][j]] IN r.event = e /\ r.once = once
  <2>1. PICK a : a = book'[e][once] /\ a = book[e][once]
    BY <1>3 DEF Forgets
  <2>2. /\ a \in DOMAIN arrays /\ arrays[a] # <<>>
        /\ \A j \in DOMAIN arrays[a] :
              LET r == registry[arrays[a][j]] IN r.event = e /\ r.once = once
    BY <1>3, <2>1, BookFacts DEF StreamInv
  <2>3. \A j \in DOMAIN arrays[a] : arrays[a][j] \in DOMAIN registry
    BY <2>2 DEF StreamInv, BookInv
  <2>4. QED
    BY <2>1, <2>2, <2>3 DEF Remembered
<1>4. script' = script /\ arrays' = arrays
  BY DEF Forgets
<1>5. QED
  BY <1>1, <1>2, <1>3, <1>4 DEF BookInv

(* An emission runs over listeners of its event still.                     *)
LEMMA RunRemembers ==
  ASSUME StreamInv, Remembered, UNCHANGED arrays,
         \A p \in Emissions(frames') : p[2].list # 0 =>
            \E q \in Emissions(frames) : /\ q[2].list = p[2].list /\ q[2].event = p[2].event
                                         /\ q[2].once = p[2].once
  PROVE  RunInv'
<1>1. ASSUME NEW p \in Emissions(frames'), p[2].list # 0
      PROVE  /\ p[2].list \in DOMAIN arrays
             /\ \A j \in DOMAIN arrays[p[2].list] :
                   LET r == registry'[arrays[p[2].list][j]]
                   IN r.event = p[2].event /\ r.once = p[2].once
  <2>1. PICK q \in Emissions(frames) : /\ q[2].list = p[2].list /\ q[2].event = p[2].event
                                       /\ q[2].once = p[2].once
    BY <1>1
  <2>2. /\ p[2].list \in DOMAIN arrays
        /\ \A j \in DOMAIN arrays[p[2].list] :
                   LET r == registry[arrays[p[2].list][j]]
                   IN r.event = p[2].event /\ r.once = p[2].once
    BY <1>1, <2>1 DEF StreamInv, RunInv
  <2>3. \A j \in DOMAIN arrays[p[2].list] : arrays[p[2].list][j] \in DOMAIN registry
    BY <2>2 DEF StreamInv, BookInv
  <2>4. QED
    BY <2>2, <2>3 DEF Remembered
<1>2. QED
  BY <1>1 DEF RunInv

(* Who was in an array of once listeners and heard nothing has not since.  *)
LEMMA OnceRemembers ==
  ASSUME StreamInv, Remembered, Forgets,
         \A id \in DOMAIN registry : registry'[id].heard = registry[id].heard,
         Emissions(frames') \subseteq Emissions(frames)
  PROVE  OnceListenerInv'
<1> DEFINE D == Emissions(frames')
<1>1. \A id \in DOMAIN registry' : registry'[id].once => registry'[id].heard <= 1
  BY DEF StreamInv, OnceListenerInv, Remembered
<1>2. ASSUME NEW e \in StreamEvents, book'[e][TRUE] # 0,
             NEW j \in DOMAIN arrays[book'[e][TRUE]]
      PROVE  registry'[arrays[book'[e][TRUE]][j]].heard = 0
  <2>1. PICK o \in BOOLEAN : o = TRUE
    OBVIOUS
  <2>2. PICK a : a = book'[e][o] /\ a = book[e][o] /\ a # 0
    BY <1>2, <2>1 DEF Forgets
  <2>3. a \in DOMAIN arrays
    BY <2>2, BookFacts DEF StreamInv
  <2>4. arrays[a][j] \in DOMAIN registry
    BY <1>2, <2>1, <2>2, <2>3 DEF StreamInv, BookInv
  <2>5. registry[arrays[a][j]].heard = 0
    <3>1. \A y \in StreamEvents : book[y][TRUE] # 0 =>
            \A i \in DOMAIN arrays[book[y][TRUE]] : registry[arrays[book[y][TRUE]][i]].heard = 0
      BY DEF StreamInv, OnceListenerInv
    <3>2. a = book[e][TRUE] /\ a = book'[e][TRUE]
      BY <2>1, <2>2
    <3>3. j \in DOMAIN arrays[a]
      BY <1>2, <3>2
    <3>4. QED
      BY <2>2, <3>1, <3>2, <3>3
  <2>6. QED
    BY <2>1, <2>2, <2>4, <2>5
<1>3. ASSUME NEW p \in D, p[2].once, p[2].list # 0
      PROVE  /\ \A e \in StreamEvents, once \in BOOLEAN : book'[e][once] # p[2].list
             /\ \A j \in DOMAIN arrays[p[2].list] :
                   p[2].next <= j => registry'[arrays[p[2].list][j]].heard = 0
             /\ \A q \in D : q[2].once /\ q[2].list = p[2].list => q = p
  <2>1. /\ \A e \in StreamEvents, once \in BOOLEAN : book[e][once] # p[2].list
        /\ \A j \in DOMAIN arrays[p[2].list] :
              p[2].next <= j => registry[arrays[p[2].list][j]].heard = 0
        /\ \A q \in D : q[2].once /\ q[2].list = p[2].list => q = p
    BY <1>3 DEF StreamInv, OnceListenerInv
  <2>2. \A j \in DOMAIN arrays[p[2].list] : arrays[p[2].list][j] \in DOMAIN registry
    BY <1>3 DEF StreamInv, RunInv, BookInv
  <2>3. QED
    BY <1>3, <2>1, <2>2 DEF Forgets
<1>4. Emissions(frames)' = D /\ arrays' = arrays
  BY DEF Forgets
<1>5. QED
  BY <1>1, <1>2, <1>3, <1>4 DEF OnceListenerInv

(* An emission ends, or is left by an exception.                           *)
LEMMA EmitEndsKeeps == ASSUME StreamInv, EmitEnds PROVE StreamInv'
<1>1. PICK f : f = Head(frames)
  OBVIOUS
<1>2. PICK n \in Nat :
        /\ Tail(frames) \in Seq(Frame)
        /\ f \in EmissionFrame /\ <<n, f>> \in Emissions(frames)
        /\ Emissions(frames) = Emissions(Tail(frames)) \union {<<n, f>>}
        /\ \A p \in Emissions(Tail(frames)) : p[1] # n
  BY <1>1, TopEmission DEF EmitEnds
<1> DEFINE E == Emissions(frames)
           top == <<n, f>>
           D == Emissions(Tail(frames))
<1>3. /\ E = D \union {top} /\ top \notin D /\ top \in E /\ top[2] = f
      /\ Emissions(frames)' = D /\ D \subseteq E
  BY <1>2 DEF EmitEnds
<1>4. PICK ids :
        /\ ids = IF CutOff(f) THEN {i \in DOMAIN registry : registry[i].event = f.event} ELSE {}
        /\ IF CutOff(f) THEN registry' = Excused(registry, ids) ELSE registry' = registry
  BY <1>1 DEF EmitEnds
<1>5. /\ registry' \in Seq(ListenerRecord) /\ DOMAIN registry' = DOMAIN registry
      /\ \A id \in DOMAIN registry :
            /\ registry'[id].event = registry[id].event /\ registry'[id].once = registry[id].once
            /\ registry'[id].heard = registry[id].heard
            /\ registry'[id].excused <=>
                 registry[id].excused \/ (CutOff(f) /\ registry[id].event = f.event)
  <2>1. CASE CutOff(f)
    <3>1. registry' = Excused(registry, ids)
      BY <1>4, <2>1
    <3>2. \A id \in DOMAIN registry : id \in ids <=> registry[id].event = f.event
      BY <1>4, <2>1
    <3>3. /\ registry' \in Seq(ListenerRecord) /\ DOMAIN registry' = DOMAIN registry
          /\ \A id \in DOMAIN registry :
               /\ registry'[id].event = registry[id].event /\ registry'[id].once = registry[id].once
               /\ registry'[id].heard = registry[id].heard
               /\ registry'[id].excused <=> registry[id].excused \/ id \in ids
      BY <3>1, ExcusedIs DEF StreamInv
    <3>4. QED
      BY <2>1, <3>2, <3>3
  <2>2. CASE ~CutOff(f)
    BY <1>4, <2>2 DEF StreamInv, ObjectInv
  <2>3. QED
    BY <2>1, <2>2
<1>6. Listens
  BY <1>2, <1>5 DEF EmitEnds, KeepHandle, Listens, StreamInv, ObjectInv
<1>7. /\ ObjectInv' /\ HandleInv'
      /\ \A e : (Happened(e)' <=> Happened(e)) /\ (Terminal(e)' <=> Terminal(e))
  BY <1>6, ListensKeeps
<1>8. UNCHANGED <<script, book, arrays>>
  BY DEF EmitEnds
<1> HIDE DEF E, D, top
<1>9. Remembered /\ Forgets
  BY <1>5, <1>8 DEF Remembered, Forgets
<1>10. BookInv'
  BY <1>9, BookRemembers
<1>11. RunInv' /\ OnceListenerInv'
  <2>1. Emissions(frames') \subseteq Emissions(frames)
    BY <1>3 DEF E
  <2>2. QED
    BY <1>5, <1>8, <1>9, <2>1, RunRemembers, OnceRemembers
<1>12. EndInv'
  <2> SUFFICES ASSUME NEW e \in script.events, Terminal(e)'
               PROVE  IF Happened(e)' THEN Told(e)' ELSE Waiting(e)'
    BY <1>8 DEF EndInv
  <2>1. Terminal(e)
    BY <1>7
  <2>2. CASE ~Happened(e)
    <3>1. Waiting(e)
      BY <2>1, <2>2 DEF StreamInv, EndInv
    <3>2. Waiting(e)'
      BY <1>3, <1>5, <1>8, <3>1 DEF Waiting, Listed, E
    <3>3. QED
      BY <1>7, <2>2, <3>2
  <2>3. CASE Happened(e)
    <3>1. Told(e)
      BY <2>1, <2>3 DEF StreamInv, EndInv
    <3>2. \A p, q \in D : p[2].event = e /\ q[2].event = e => p = q
      BY <1>3, <3>1 DEF Told, E
    <3>3. \A g, id : id \in DOMAIN registry => (Owes(g, id)' <=> Owes(g, id))
      BY <1>5, <1>8 DEF Owes, Listed
    <3>4. ASSUME NEW id \in DOMAIN registry, registry'[id].event = e, ~registry'[id].excused
          PROVE  /\ registry'[id].heard <= 1
                 /\ registry'[id].heard = 0 <=>
                      \E p \in D : p[2].event = e /\ Owes(p[2], id)'
      <4>1. /\ registry[id].event = e /\ ~registry[id].excused
            /\ registry'[id].heard = registry[id].heard
            /\ ~(CutOff(f) /\ e = f.event)
        BY <1>5, <3>4
      <4>2. /\ registry[id].heard <= 1
            /\ registry[id].heard = 0 <=> \E p \in E : p[2].event = e /\ Owes(p[2], id)
        BY <3>1, <4>1 DEF Told, E
      <4>3. e = f.event => ~Owes(f, id)
        <5>1. e = f.event => ~Listening(f) /\ f.once
          BY <1>1, <4>1 DEF EmitEnds
        <5>2. f.list # 0 => f.list \in DOMAIN arrays
          BY <1>2, <1>3 DEF StreamInv, RunInv, E
        <5>3. ASSUME f.list # 0, f.next > Len(arrays[f.list])
              PROVE  ~Listed(f.list, f.next, id)
          <6>1. arrays[f.list] \in Seq(Nat) /\ f.next \in Nat
            BY <1>2, <5>2, <5>3 DEF EmissionFrame, StreamInv, ObjectInv
          <6>2. \A j \in DOMAIN arrays[f.list] : ~(f.next <= j)
            BY <5>3, <6>1
          <6>3. QED
            BY <6>2 DEF Listed
        <5>4. ~Listening(f) => f.list = 0 \/ f.next > Len(arrays[f.list])
          <6>1. f.list # 0 => Len(arrays[f.list]) \in Nat /\ f.next \in Nat
            BY <1>2, <5>2 DEF EmissionFrame, StreamInv, ObjectInv
          <6>2. QED
            BY <6>1 DEF Listening
        <5>5. f.list = 0 => ~Listed(f.list, f.next, id)
          BY DEF Listed
        <5>6. QED
          BY <5>1, <5>3, <5>4, <5>5 DEF Owes
      <4>4. (\E p \in D : p[2].event = e /\ Owes(p[2], id)')
              <=> (\E p \in E : p[2].event = e /\ Owes(p[2], id))
        BY <1>3, <3>3, <4>3
      <4>5. QED
        BY <4>1, <4>2, <4>4
    <3>5. Told(e)'
      BY <1>3, <1>5, <3>2, <3>4 DEF Told
    <3>6. QED
      BY <1>7, <2>3, <3>5
  <2>4. QED
    BY <2>2, <2>3
<1>13. QED
  BY <1>7, <1>10, <1>11, <1>12 DEF StreamInv

(* All listeners of an event are taken away.                               *)
LEMMA OffAllKeeps ==
  ASSUME StreamInv, NEW x \in script.events, OffAll(x)
  PROVE  StreamInv'
<1>1. x \in StreamEvents
  BY ScriptFacts DEF StreamInv, ObjectInv
<1>2. PICK ids : /\ ids = {i \in DOMAIN registry : registry[i].event = x}
                 /\ registry' = Excused(registry, ids)
  BY DEF OffAll
<1>3. /\ registry' \in Seq(ListenerRecord) /\ DOMAIN registry' = DOMAIN registry
      /\ \A id \in DOMAIN registry :
            /\ registry'[id].event = registry[id].event /\ registry'[id].once = registry[id].once
            /\ registry'[id].heard = registry[id].heard
            /\ registry'[id].excused <=> registry[id].excused \/ id \in ids
  BY <1>2, ExcusedIs DEF StreamInv
<1>4. /\ book' \in [StreamEvents -> [BOOLEAN -> Nat]]
      /\ \A e \in StreamEvents : e # x => book'[e] = book[e]
      /\ \A once \in BOOLEAN : book'[x][once] = 0
  BY <1>1 DEF OffAll, StreamInv, ObjectInv
<1>5. streamCalls' \in 0..MaxStreamCalls
  BY StreamsAssumption DEF OffAll, Calling, StreamInv, ObjectInv
<1>6. Listens
  BY <1>3, <1>4, <1>5 DEF OffAll, KeepHandle, Listens, StreamInv, ObjectInv
<1>7. /\ ObjectInv' /\ HandleInv'
      /\ \A e : (Happened(e)' <=> Happened(e)) /\ (Terminal(e)' <=> Terminal(e))
  BY <1>6, ListensKeeps
<1>8. UNCHANGED <<script, arrays, frames>>
  BY DEF OffAll
<1>9. Remembered /\ Forgets
  BY <1>1, <1>3, <1>4, <1>8 DEF Remembered, Forgets
<1>10. BookInv'
  BY <1>9, BookRemembers
<1>11. RunInv' /\ OnceListenerInv'
  <2>1. Emissions(frames') = Emissions(frames)
    BY <1>8
  <2>2. QED
    BY <1>3, <1>8, <1>9, <2>1, RunRemembers, OnceRemembers
<1>12. EndInv'
  <2> SUFFICES ASSUME NEW e \in script.events, Terminal(e)'
               PROVE  IF Happened(e)' THEN Told(e)' ELSE Waiting(e)'
    BY <1>8 DEF EndInv
  <2>1. Terminal(e) /\ e \in StreamEvents
    BY <1>7, ScriptFacts DEF StreamInv, ObjectInv
  <2>2. e = x => \A id \in DOMAIN registry : registry'[id].event = e => registry'[id].excused
    BY <1>2, <1>3
  <2>3. CASE ~Happened(e)
    <3>1. Waiting(e)
      BY <2>1, <2>3 DEF StreamInv, EndInv
    <3>2. \A p \in Emissions(frames') : p[2].event # e
      BY <1>8, <3>1 DEF Waiting
    <3>3. ASSUME NEW id \in DOMAIN registry, registry'[id].event = e, ~registry'[id].excused
          PROVE  registry'[id].heard = 0 /\ Listed(book[e][registry[id].once], 1, id)'
      <4>1. e # x /\ registry[id].event = e /\ ~registry[id].excused
        BY <1>3, <2>2, <3>3
      <4>2. registry[id].heard = 0 /\ Listed(book[e][registry[id].once], 1, id)
        BY <3>1, <4>1 DEF Waiting
      <4>3. book'[e] = book[e] /\ registry'[id].once = registry[id].once
        BY <1>3, <1>4, <2>1, <4>1
      <4>4. \A a, n : Listed(a, n, id)' <=> Listed(a, n, id)
        BY <1>8 DEF Listed
      <4>5. QED
        BY <1>3, <4>2, <4>3, <4>4
    <3>4. Waiting(e)'
      BY <1>3, <3>2, <3>3 DEF Waiting
    <3>5. QED
      BY <1>7, <2>3, <3>4
  <2>4. CASE Happened(e)
    <3>1. Told(e)
      BY <2>1, <2>4 DEF StreamInv, EndInv
    <3>2. \A p, q \in Emissions(frames') : p[2].event = e /\ q[2].event = e => p = q
      BY <1>8, <3>1 DEF Told
    <3>3. ASSUME NEW id \in DOMAIN registry, registry'[id].event = e, ~registry'[id].excused
          PROVE  /\ registry'[id].heard <= 1
                 /\ registry'[id].heard = 0 <=>
                      \E p \in Emissions(frames') : p[2].event = e /\ Owes(p[2], id)'
      <4>1. e # x /\ registry[id].event = e /\ ~registry[id].excused
        BY <1>3, <2>2, <3>3
      <4>2. \A g : g.event = e => (Owes(g, id)' <=> Owes(g, id))
        <5>1. book'[e] = book[e] /\ registry'[id].once = registry[id].once
          BY <1>3, <1>4, <2>1, <4>1
        <5>2. \A a, n : Listed(a, n, id)' <=> Listed(a, n, id)
          BY <1>8 DEF Listed
        <5>3. QED
          BY <5>1, <5>2 DEF Owes
      <4>3. /\ registry[id].heard <= 1
            /\ registry[id].heard = 0 <=>
                 \E p \in Emissions(frames) : p[2].event = e /\ Owes(p[2], id)
        BY <3>1, <4>1 DEF Told
      <4>4. QED
        BY <1>3, <1>8, <4>2, <4>3
    <3>4. Told(e)'
      BY <1>3, <3>2, <3>3 DEF Told
    <3>5. QED
      BY <1>7, <2>4, <3>4
  <2>5. QED
    BY <2>3, <2>4
<1>13. QED
  BY <1>7, <1>10, <1>11, <1>12 DEF StreamInv

(* A frame is put in place of the emission in front.                       *)
Replaced(f, g, n) ==
  /\ f \in EmissionFrame /\ <<n, f>> \in Emissions(frames)
  /\ <<g>> \o Tail(frames) \in Seq(Frame)
  /\ <<InCallback, g>> \o Tail(frames) \in Seq(Frame)
  /\ Emissions(frames) = Emissions(Tail(frames)) \union {<<n, f>>}
  /\ Emissions(<<g>> \o Tail(frames)) = Emissions(Tail(frames)) \union {<<n, g>>}
  /\ Emissions(<<InCallback, g>> \o Tail(frames)) = Emissions(Tail(frames)) \union {<<n, g>>}
  /\ \A p \in Emissions(Tail(frames)) : p[1] # n

LEMMA TopReplaced ==
  ASSUME StreamInv, OnTop("emit"), NEW f, f = Head(frames),
         NEW g \in EmissionFrame
  PROVE  \E n \in Nat : Replaced(f, g, n)
<1>1. PICK n \in Nat :
        /\ Tail(frames) \in Seq(Frame) /\ n = Len(Tail(frames))
        /\ f \in EmissionFrame /\ <<n, f>> \in Emissions(frames)
        /\ Emissions(frames) = Emissions(Tail(frames)) \union {<<n, f>>}
        /\ \A p \in Emissions(Tail(frames)) : p[1] # n
  BY TopEmission
<1>2. g \in Frame /\ g.at = "emit"
  BY DEF Frame, EmissionFrame
<1>3. PICK t \in Seq(Frame) : t = Tail(frames) /\ n = Len(t)
  BY <1>1
<1>4. /\ <<g>> \o t \in Seq(Frame)
      /\ Emissions(<<g>> \o t) = Emissions(t) \union {<<n, g>>}
  <2>1. /\ <<g>> \o t \in Seq(Frame)
        /\ Emissions(<<g>> \o t) = Emissions(t) \union {<<Len(t), g>>}
    BY <1>2, EmissionsOfThen
  <2>2. QED
    BY <1>3, <2>1
<1>5. PICK c : c = InCallback /\ c \in Frame /\ c.at # "emit"
  <2>1. InCallback \in [at : {"callback"}] /\ InCallback.at # "emit"
    BY DEF InCallback
  <2>2. QED
    BY <2>1 DEF Frame
<1>6. PICK u \in Seq(Frame) : u = <<g>> \o t
  BY <1>4
<1>7. <<c>> \o u \in Seq(Frame) /\ Emissions(<<c>> \o u) = Emissions(u)
  BY <1>5, EmissionsOfThen
<1>8. <<c, g>> \o t = <<c>> \o u
  BY <1>2, <1>3, <1>5, <1>6
<1>9. /\ <<InCallback, g>> \o Tail(frames) \in Seq(Frame)
      /\ Emissions(<<InCallback, g>> \o Tail(frames)) = Emissions(t) \union {<<n, g>>}
  BY <1>3, <1>4, <1>5, <1>6, <1>7, <1>8
<1>10. QED
  BY <1>1, <1>3, <1>4, <1>9 DEF Replaced

(* A key of the object leads to an array no other key leads to.            *)
LEMMA BookApart ==
  ASSUME StreamInv, NEW e \in StreamEvents, NEW once \in BOOLEAN, book[e][once] # 0,
         NEW x \in StreamEvents, NEW o \in BOOLEAN, book[x][o] = book[e][once]
  PROVE  x = e /\ o = once
<1>1. PICK a : a = book[e][once] /\ a = book[x][o] /\ a # 0
  OBVIOUS
<1>2. /\ a \in DOMAIN arrays /\ arrays[a] # <<>>
      /\ \A j \in DOMAIN arrays[a] :
            LET r == registry[arrays[a][j]] IN r.event = e /\ r.once = once
  BY <1>1, BookFacts DEF StreamInv
<1>3. \A j \in DOMAIN arrays[a] :
         LET r == registry[arrays[a][j]] IN r.event = x /\ r.once = o
  BY <1>1, BookFacts DEF StreamInv
<1>4. 1 \in DOMAIN arrays[a]
  <2>1. arrays[a] \in Seq(Nat)
    BY <1>2 DEF StreamInv, ObjectInv
  <2>2. QED
    BY <1>2, <2>1
<1>5. QED
  BY <1>2, <1>3, <1>4

(* An emission that has no more listeners to call owes no call of one.     *)
LEMMA NotListening ==
  ASSUME StreamInv, NEW p \in Emissions(frames), ~Listening(p[2]), NEW id
  PROVE  ~Listed(p[2].list, p[2].next, id)
<1>1. CASE p[2].list = 0
  BY <1>1 DEF Listed
<1>2. CASE p[2].list # 0
  <2>1. arrays[p[2].list] \in Seq(Nat) /\ p[2].next \in Nat
    BY <1>2, EmissionFacts DEF StreamInv, ObjectInv, RunInv
  <2>2. p[2].next > Len(arrays[p[2].list])
    BY <1>2, <2>1 DEF Listening
  <2>3. \A j \in DOMAIN arrays[p[2].list] : ~(p[2].next <= j)
    BY <2>1, <2>2
  <2>4. QED
    BY <2>3 DEF Listed
<1>3. QED
  BY <1>1, <1>2

(* An emission with some of its fields set.                                *)
LEMMA EmissionSet ==
  ASSUME NEW f \in EmissionFrame, NEW a \in Nat, NEW m \in Nat
  PROVE  /\ LET g == [f EXCEPT !.list = a, !.next = 1, !.once = TRUE, !.called = FALSE]
            IN /\ g \in EmissionFrame /\ g.event = f.event /\ g.list = a /\ g.next = 1
               /\ g.once = TRUE
         /\ LET g == [f EXCEPT !.next = m + 1, !.called = TRUE]
            IN /\ g \in EmissionFrame /\ g.event = f.event /\ g.list = f.list
               /\ g.next = m + 1 /\ g.once = f.once
<1>1. ASSUME NEW h \in EmissionFrame
      PROVE  LET g == [h EXCEPT !.list = a]
             IN g \in EmissionFrame /\ g.event = h.event /\ g.list = a
  BY DEF EmissionFrame
<1>2. ASSUME NEW h \in EmissionFrame, NEW k \in Nat \ {0}
      PROVE  LET g == [h EXCEPT !.next = k]
             IN /\ g \in EmissionFrame /\ g.event = h.event /\ g.list = h.list /\ g.next = k
                /\ g.once = h.once
  BY DEF EmissionFrame
<1>3. ASSUME NEW h \in EmissionFrame, NEW o \in BOOLEAN
      PROVE  LET g == [h EXCEPT !.once = o]
             IN /\ g \in EmissionFrame /\ g.event = h.event /\ g.list = h.list
                /\ g.next = h.next /\ g.once = o
  BY DEF EmissionFrame
<1>4. ASSUME NEW h \in EmissionFrame, NEW o \in BOOLEAN
      PROVE  LET g == [h EXCEPT !.called = o]
             IN /\ g \in EmissionFrame /\ g.event = h.event /\ g.list = h.list
                /\ g.next = h.next /\ g.once = h.once
  BY DEF EmissionFrame
<1>j. PICK j \in Nat \ {0} : j = m + 1
  <2>1. m + 1 \in Nat \ {0}
    OBVIOUS
  <2>2. QED
    BY <2>1
<1>k. PICK k \in Nat \ {0} : k = 1
  OBVIOUS
<1>y. PICK y \in BOOLEAN : y = TRUE
  OBVIOUS
<1>n. PICK n \in BOOLEAN : n = FALSE
  OBVIOUS
<1>6. PICK g1 \in EmissionFrame : g1 = [f EXCEPT !.list = a] /\ g1.event = f.event /\ g1.list = a
  BY <1>1
<1>7. PICK g2 \in EmissionFrame :
        g2 = [g1 EXCEPT !.next = k] /\ g2.event = f.event /\ g2.list = a /\ g2.next = k
  <2>1. LET g == [g1 EXCEPT !.next = k]
        IN /\ g \in EmissionFrame /\ g.event = g1.event /\ g.list = g1.list /\ g.next = k
           /\ g.once = g1.once
    BY <1>2
  <2>2. QED
    BY <1>6, <2>1
<1>8. PICK g3 \in EmissionFrame :
        /\ g3 = [g2 EXCEPT !.once = y] /\ g3.event = f.event /\ g3.list = a /\ g3.next = k
        /\ g3.once = y
  <2>1. LET g == [g2 EXCEPT !.once = y]
        IN /\ g \in EmissionFrame /\ g.event = g2.event /\ g.list = g2.list
           /\ g.next = g2.next /\ g.once = y
    BY <1>3
  <2>2. QED
    BY <1>7, <2>1
<1>9. PICK g4 \in EmissionFrame :
        /\ g4 = [g3 EXCEPT !.called = n] /\ g4.event = f.event /\ g4.list = a /\ g4.next = k
        /\ g4.once = y
  <2>1. LET g == [g3 EXCEPT !.called = n]
        IN /\ g \in EmissionFrame /\ g.event = g3.event /\ g.list = g3.list
           /\ g.next = g3.next /\ g.once = g3.once
    BY <1>4
  <2>2. QED
    BY <1>8, <2>1
<1>10. g4 = [f EXCEPT !.list = a, !.next = 1, !.once = TRUE, !.called = FALSE]
  BY <1>k, <1>y, <1>n, <1>6, <1>7, <1>8, <1>9
<1>11. PICK h1 \in EmissionFrame :
         /\ h1 = [f EXCEPT !.next = j] /\ h1.event = f.event /\ h1.list = f.list /\ h1.next = j
         /\ h1.once = f.once
  BY <1>2
<1>12. PICK h2 \in EmissionFrame :
         /\ h2 = [h1 EXCEPT !.called = y] /\ h2.event = f.event /\ h2.list = f.list
         /\ h2.next = j /\ h2.once = f.once
  <2>1. LET g == [h1 EXCEPT !.called = y]
        IN /\ g \in EmissionFrame /\ g.event = h1.event /\ g.list = h1.list
           /\ g.next = h1.next /\ g.once = h1.once
    BY <1>4
  <2>2. QED
    BY <1>11, <2>1
<1>13. h2 = [f EXCEPT !.next = m + 1, !.called = TRUE]
  BY <1>j, <1>y, <1>11, <1>12
<1>14. QED
  BY <1>j, <1>k, <1>y, <1>9, <1>10, <1>12, <1>13

(* An emission turns to the once listeners: it takes their array out of    *)
(* the object.                                                             *)
LEMMA EmitTurnsToOnceKeeps == ASSUME StreamInv, EmitTurnsToOnce PROVE StreamInv'
<1>1. PICK f : f = Head(frames)
  OBVIOUS
<1>2. f \in EmissionFrame
  BY <1>1, TopEmission DEF EmitTurnsToOnce
<1>3. PICK x \in StreamEvents : x = f.event
  BY <1>2 DEF EmissionFrame
<1>4. PICK a \in Nat : a = book[x][TRUE]
  BY <1>3 DEF StreamInv, ObjectInv
<1>5. PICK g : g = [f EXCEPT !.list = a, !.next = 1, !.once = TRUE, !.called = FALSE]
  OBVIOUS
<1>6. /\ g \in EmissionFrame /\ g.event = x /\ g.list = a /\ g.next = 1 /\ g.once = TRUE
  BY <1>2, <1>3, <1>4, <1>5, EmissionSet
<1>7. PICK n \in Nat :
        /\ <<n, f>> \in Emissions(frames)
        /\ <<g>> \o Tail(frames) \in Seq(Frame)
        /\ Emissions(frames) = Emissions(Tail(frames)) \union {<<n, f>>}
        /\ Emissions(<<g>> \o Tail(frames)) = Emissions(Tail(frames)) \union {<<n, g>>}
        /\ \A p \in Emissions(Tail(frames)) : p[1] # n
  <2>1. OnTop("emit") /\ f = Head(frames) /\ g \in EmissionFrame
    BY <1>1, <1>6 DEF EmitTurnsToOnce
  <2>2. \E n \in Nat : Replaced(f, g, n)
    BY <2>1, TopReplaced
  <2>3. QED
    BY <2>2, Zenon DEF Replaced
<1> DEFINE E == Emissions(frames)
           D == Emissions(Tail(frames))
           top == <<n, f>>
           new == <<n, g>>
<1>8. frames' = <<g>> \o Tail(frames)
  BY <1>1, <1>3, <1>4, <1>5 DEF EmitTurnsToOnce
<1>9. /\ E = D \union {top} /\ top \notin D /\ top[2] = f
      /\ Emissions(frames)' = D \union {new} /\ new[2] = g /\ new \notin D
      /\ D \subseteq E /\ top \in E
  BY <1>7, <1>8
<1>10. /\ book' \in [StreamEvents -> [BOOLEAN -> Nat]]
       /\ \A e \in StreamEvents : e # x => book'[e] = book[e]
       /\ book'[x][TRUE] = 0 /\ book'[x][FALSE] = book[x][FALSE]
  <2>1. book' = [book EXCEPT ![x][TRUE] = 0]
    BY <1>1, <1>3 DEF EmitTurnsToOnce
  <2>2. QED
    BY <2>1 DEF StreamInv, ObjectInv
<1>11. /\ UNCHANGED <<script, arrays, registry>> /\ ~Listening(f) /\ ~f.once
  BY <1>1 DEF EmitTurnsToOnce
<1>12. Listens
  BY <1>7, <1>8, <1>10 DEF EmitTurnsToOnce, KeepHandle, Listens, StreamInv, ObjectInv
<1>13. /\ ObjectInv' /\ HandleInv'
       /\ \A e : (Happened(e)' <=> Happened(e)) /\ (Terminal(e)' <=> Terminal(e))
  BY <1>12, ListensKeeps
<1>14. Remembered /\ Forgets
  <2>1. ASSUME NEW e \in StreamEvents, NEW once \in BOOLEAN
        PROVE  book'[e][once] \in {0, book[e][once]}
    <3>1. CASE e = x
      BY <1>10, <3>1
    <3>2. CASE e # x
      BY <1>10, <3>2
    <3>3. QED
      BY <3>1, <3>2
  <2>2. QED
    BY <1>11, <2>1 DEF Remembered, Forgets
<1>15. BookInv'
  BY <1>14, BookRemembers
<1> HIDE DEF E, D, top, new
<1>16. a # 0 => /\ a \in DOMAIN arrays
                /\ \A j \in DOMAIN arrays[a] :
                     LET r == registry[arrays[a][j]] IN r.event = x /\ r.once = TRUE
  <2>1. PICK o \in BOOLEAN : o = TRUE
    OBVIOUS
  <2>2. book[x][o] # 0 =>
          /\ book[x][o] \in DOMAIN arrays
          /\ \A j \in DOMAIN arrays[book[x][o]] :
               LET r == registry[arrays[book[x][o]][j]] IN r.event = x /\ r.once = o
    BY BookFacts DEF StreamInv
  <2>3. QED
    BY <1>4, <2>1, <2>2
<1>17. RunInv'
  <2>1. ASSUME NEW p \in D \union {new}, p[2].list # 0
        PROVE  /\ p[2].list \in DOMAIN arrays
               /\ \A j \in DOMAIN arrays[p[2].list] :
                     LET r == registry[arrays[p[2].list][j]]
                     IN r.event = p[2].event /\ r.once = p[2].once
    <3>1. CASE p \in D
      BY <1>9, <2>1, <3>1 DEF StreamInv, RunInv, E
    <3>2. CASE p = new
      BY <1>6, <1>9, <1>16, <2>1, <3>2
    <3>3. QED
      BY <2>1, <3>1, <3>2
  <2>2. QED
    BY <1>9, <1>11, <2>1 DEF RunInv
<1>18. OnceListenerInv'
  <2>1. \A id \in DOMAIN registry : registry[id].once => registry[id].heard <= 1
    BY DEF StreamInv, OnceListenerInv
  <2>2. \A e \in StreamEvents : book'[e][TRUE] # 0 =>
           \A j \in DOMAIN arrays[book'[e][TRUE]] : registry[arrays[book'[e][TRUE]][j]].heard = 0
    <3>1. \A e \in StreamEvents : book'[e][TRUE] # 0 => book'[e][TRUE] = book[e][TRUE]
      BY <1>10
    <3>2. QED
      BY <3>1 DEF StreamInv, OnceListenerInv
  <2>3. ASSUME NEW p \in D \union {new}, p[2].once, p[2].list # 0
        PROVE  /\ \A e \in StreamEvents, once \in BOOLEAN : book'[e][once] # p[2].list
               /\ \A j \in DOMAIN arrays[p[2].list] :
                     p[2].next <= j => registry[arrays[p[2].list][j]].heard = 0
               /\ \A q \in D \union {new} : q[2].once /\ q[2].list = p[2].list => q = p
    <3>1. PICK o \in BOOLEAN : o = TRUE
      OBVIOUS
    <3>2. CASE p \in D
      <4>1. /\ \A e \in StreamEvents, once \in BOOLEAN : book[e][once] # p[2].list
            /\ \A j \in DOMAIN arrays[p[2].list] :
                  p[2].next <= j => registry[arrays[p[2].list][j]].heard = 0
            /\ \A q \in E : q[2].once /\ q[2].list = p[2].list => q = p
        BY <1>9, <2>3, <3>2 DEF StreamInv, OnceListenerInv, E
      <4>2. book[x][o] # p[2].list
        BY <4>1
      <4>3. new[2].list # p[2].list
        BY <1>4, <1>6, <1>9, <3>1, <4>2
      <4>4. \A e \in StreamEvents, once \in BOOLEAN : book'[e][once] # p[2].list
        BY <1>14, <2>3, <4>1 DEF Forgets
      <4>5. QED
        BY <1>9, <4>1, <4>3, <4>4
    <3>3. CASE p = new
      <4>1. p[2].list = a /\ p[2].next = 1 /\ a # 0
        BY <1>6, <1>9, <2>3, <3>3
      <4>2. \A e \in StreamEvents, once \in BOOLEAN : book'[e][once] # a
        <5> SUFFICES ASSUME NEW e \in StreamEvents, NEW once \in BOOLEAN, book'[e][once] = a
                     PROVE  FALSE
          OBVIOUS
        <5>1. book[e][once] = a /\ book[x][o] = a
          BY <1>4, <1>14, <3>1, <4>1 DEF Forgets
        <5>2. e = x /\ once = o
          BY <4>1, <5>1, BookApart
        <5>3. QED
          BY <1>10, <3>1, <4>1, <5>2
      <4>3. \A j \in DOMAIN arrays[a] : registry[arrays[a][j]].heard = 0
        BY <1>4, <4>1 DEF StreamInv, OnceListenerInv
      <4>4. ASSUME NEW q \in D, q[2].once, q[2].list = a PROVE FALSE
        <5>1. \A e \in StreamEvents, once \in BOOLEAN : book[e][once] # a
          BY <1>9, <4>1, <4>4 DEF StreamInv, OnceListenerInv, E
        <5>2. book[x][o] # a
          BY <5>1
        <5>3. QED
          BY <1>4, <3>1, <5>2
      <4>5. QED
        BY <3>3, <4>1, <4>2, <4>3, <4>4
    <3>4. QED
      BY <2>3, <3>2, <3>3
  <2>4. QED
    BY <1>9, <1>11, <2>1, <2>2, <2>3 DEF OnceListenerInv
<1>19. EndInv'
  <2> SUFFICES ASSUME NEW e \in script.events, Terminal(e)'
               PROVE  IF Happened(e)' THEN Told(e)' ELSE Waiting(e)'
    BY <1>11 DEF EndInv
  <2>1. Terminal(e) /\ e \in StreamEvents
    BY <1>13, ScriptFacts DEF StreamInv, ObjectInv
  <2>2. \A b, m, id : Listed(b, m, id)' <=> Listed(b, m, id)
    BY <1>11 DEF Listed
  <2>3. CASE ~Happened(e)
    <3>1. Waiting(e)
      BY <2>1, <2>3 DEF StreamInv, EndInv
    <3>2. x # e
      BY <1>3, <1>9, <3>1 DEF Waiting, E
    <3>3. \A p \in D \union {new} : p[2].event # e
      BY <1>6, <1>9, <3>1, <3>2 DEF Waiting, E
    <3>4. book'[e] = book[e]
      BY <1>10, <2>1, <3>2
    <3>5. Waiting(e)'
      BY <1>9, <1>11, <2>2, <3>1, <3>3, <3>4 DEF Waiting
    <3>6. QED
      BY <1>13, <2>3, <3>5
  <2>4. CASE Happened(e)
    <3>1. Told(e)
      BY <2>1, <2>4 DEF StreamInv, EndInv
    <3>2. ASSUME NEW p \in D \union {new}, NEW q \in D \union {new},
                 p[2].event = e, q[2].event = e
          PROVE  p = q
      <4>1. \A r \in D : r[2].event = e => e # x
        BY <1>3, <1>9, <3>1 DEF Told, E
      <4>2. QED
        BY <1>6, <1>9, <3>1, <3>2, <4>1 DEF Told, E
    <3>3. ASSUME NEW id \in DOMAIN registry, registry[id].event = e, ~registry[id].excused
          PROVE  /\ registry[id].heard <= 1
                 /\ registry[id].heard = 0 <=>
                      \E p \in D \union {new} : p[2].event = e /\ Owes(p[2], id)'
      <4>1. /\ registry[id].heard <= 1
            /\ registry[id].heard = 0 <=> \E p \in E : p[2].event = e /\ Owes(p[2], id)
        BY <3>1, <3>3 DEF Told, E
      <4>2. ASSUME e # x
            PROVE  (\E p \in D \union {new} : p[2].event = e /\ Owes(p[2], id)')
                     <=> \E p \in E : p[2].event = e /\ Owes(p[2], id)
        <5>1. book'[e] = book[e]
          BY <1>10, <2>1, <4>2
        <5>2. \A h : h.event = e => (Owes(h, id)' <=> Owes(h, id))
          BY <1>11, <2>2, <5>1 DEF Owes
        <5>3. new[2].event # e /\ top[2].event # e
          BY <1>3, <1>6, <1>9, <4>2
        <5>4. QED
          BY <1>9, <5>2, <5>3
      <4>3. ASSUME e = x
            PROVE  (\E p \in D \union {new} : p[2].event = e /\ Owes(p[2], id)')
                     <=> \E p \in E : p[2].event = e /\ Owes(p[2], id)
        <5>1. \A p \in D : p[2].event # e
          BY <1>3, <1>9, <3>1, <4>3 DEF Told, E
        <5>2. Owes(g, id)' <=> Owes(f, id)
          <6>1. Owes(g, id)' <=> Listed(a, 1, id)
            BY <1>6, <2>2 DEF Owes
          <6>2. ~Listed(f.list, f.next, id)
            BY <1>9, <1>11, NotListening DEF E
          <6>3. CASE registry[id].once
            BY <1>3, <1>4, <1>11, <6>1, <6>3 DEF Owes
          <6>4. CASE ~registry[id].once
            <7>1. ~Listed(a, 1, id)
              BY <1>16, <6>4 DEF Listed
            <7>2. QED
              BY <6>1, <6>2, <6>4, <7>1 DEF Owes
          <6>5. QED
            BY <6>3, <6>4
        <5>3. QED
          BY <1>3, <1>6, <1>9, <4>3, <5>1, <5>2
      <4>4. QED
        BY <4>1, <4>2, <4>3
    <3>4. Told(e)'
      BY <1>9, <1>11, <3>2, <3>3 DEF Told
    <3>5. QED
      BY <1>13, <2>4, <3>4
  <2>5. QED
    BY <2>3, <2>4
<1>20. QED
  BY <1>13, <1>15, <1>17, <1>18, <1>19 DEF StreamInv

(* A listener hears.                                                       *)
LEMMA HeardIs ==
  ASSUME NEW r \in ListenerRecord
  PROVE  /\ Heard(r) \in ListenerRecord /\ Heard(r).event = r.event /\ Heard(r).once = r.once
         /\ Heard(r).excused = r.excused /\ Heard(r).callback = r.callback
         /\ r.heard = 0 => Heard(r).heard = 1
<1>1. PICK h \in 0..2 : h = r.heard
  BY DEF ListenerRecord
<1>2. \A x \in {h + 1, 2} : x \in 0..2 \/ x = 3
  BY <1>1
<1>3. Min({h + 1, 2}) \in 0..2 /\ (h = 0 => Min({h + 1, 2}) = 1)
  <2>1. \E x \in {h + 1, 2} : \A y \in {h + 1, 2} : x <= y
    <3>1. CASE h + 1 <= 2
      BY <3>1
    <3>2. CASE h = 2
      BY <3>2
    <3>3. QED
      BY <3>1, <3>2
  <2>2. /\ Min({h + 1, 2}) \in {h + 1, 2}
        /\ \A y \in {h + 1, 2} : Min({h + 1, 2}) <= y
    BY <2>1 DEF Min
  <2>3. QED
    BY <2>2
<1>4. PICK m \in 0..2 : m = Min({h + 1, 2}) /\ (h = 0 => m = 1)
  BY <1>3
<1>5. Heard(r) = [r EXCEPT !.heard = m]
  BY <1>1, <1>4 DEF Heard
<1>6. QED
  BY <1>1, <1>4, <1>5 DEF ListenerRecord

(* An emission calls the next listener.                                    *)
LEMMA EmitCallsKeeps == ASSUME StreamInv, EmitCalls PROVE StreamInv'
<1>1. PICK f : f = Head(frames)
  OBVIOUS
<1>2. f \in EmissionFrame
  BY <1>1, TopEmission DEF EmitCalls
<1>3. PICK x \in StreamEvents, a \in Nat, m \in Nat : x = f.event /\ a = f.list /\ m = f.next
  BY <1>2 DEF EmissionFrame
<1>4. PICK g : g = [f EXCEPT !.next = m + 1, !.called = TRUE]
  OBVIOUS
<1>5. /\ g \in EmissionFrame /\ g.event = x /\ g.list = a /\ g.next = m + 1 /\ g.once = f.once
      /\ f.once \in BOOLEAN
  BY <1>2, <1>3, <1>4, EmissionSet DEF EmissionFrame
<1>6. PICK n \in Nat :
        /\ <<n, f>> \in Emissions(frames)
        /\ <<InCallback, g>> \o Tail(frames) \in Seq(Frame)
        /\ Emissions(frames) = Emissions(Tail(frames)) \union {<<n, f>>}
        /\ Emissions(<<InCallback, g>> \o Tail(frames)) = Emissions(Tail(frames)) \union {<<n, g>>}
        /\ \A p \in Emissions(Tail(frames)) : p[1] # n
  <2>1. OnTop("emit") /\ f = Head(frames) /\ g \in EmissionFrame
    BY <1>1, <1>5 DEF EmitCalls
  <2>2. \E n \in Nat : Replaced(f, g, n)
    BY <2>1, TopReplaced
  <2>3. QED
    BY <2>2, Zenon DEF Replaced
<1> DEFINE E == Emissions(frames)
           D == Emissions(Tail(frames))
           top == <<n, f>>
           new == <<n, g>>
<1>7. frames' = <<InCallback, g>> \o Tail(frames)
  BY <1>1, <1>3, <1>4 DEF EmitCalls
<1>8. /\ E = D \union {top} /\ top \notin D /\ top[2] = f
      /\ Emissions(frames)' = D \union {new} /\ new[2] = g /\ new \notin D
      /\ D \subseteq E /\ top \in E
  BY <1>6, <1>7
<1>9. UNCHANGED <<script, book, arrays>> /\ Listening(f)
  BY <1>1 DEF EmitCalls
<1> HIDE DEF E, D, top, new
(* The listener that is called.                                            *)
<1>10. /\ a # 0 /\ a \in DOMAIN arrays
       /\ \A j \in DOMAIN arrays[a] :
             LET r == registry[arrays[a][j]] IN r.event = x /\ r.once = f.once
  BY <1>3, <1>8, <1>9 DEF Listening, StreamInv, RunInv, E
<1>11. m \in DOMAIN arrays[a]
  <2>1. arrays[a] \in Seq(Nat) /\ m # 0 /\ m <= Len(arrays[a])
    BY <1>2, <1>3, <1>9, <1>10 DEF EmissionFrame, Listening, StreamInv, ObjectInv
  <2>2. QED
    BY <2>1
<1>12. PICK c \in DOMAIN registry :
         c = arrays[a][m] /\ registry[c].event = x /\ registry[c].once = f.once
  BY <1>10, <1>11 DEF StreamInv, BookInv
<1>13. \A b \in DOMAIN arrays : \A j \in DOMAIN arrays[b] : arrays[b][j] = c => b = a /\ j = m
  BY <1>10, <1>11, <1>12 DEF StreamInv, BookInv
<1>14. /\ registry' = [registry EXCEPT ![c] = Heard(registry[c])]
       /\ registry[c] \in ListenerRecord
  BY <1>1, <1>3, <1>12, ListenerFacts DEF EmitCalls, StreamInv
<1>15. /\ registry' \in Seq(ListenerRecord) /\ DOMAIN registry' = DOMAIN registry
       /\ registry'[c].event = x /\ registry'[c].once = f.once
       /\ registry'[c].excused = registry[c].excused
       /\ registry[c].heard = 0 => registry'[c].heard = 1
       /\ \A id \in DOMAIN registry : id # c => registry'[id] = registry[id]
  <2>1. PICK h \in ListenerRecord : h = Heard(registry[c])
    BY <1>14, HeardIs
  <2>2. /\ h.event = x /\ h.once = f.once /\ h.excused = registry[c].excused
        /\ registry[c].heard = 0 => h.heard = 1
    BY <1>12, <1>14, <2>1, HeardIs
  <2>3. registry' = [registry EXCEPT ![c] = h] /\ registry \in Seq(ListenerRecord)
    BY <1>14, <2>1 DEF StreamInv, ObjectInv
  <2>4. registry' \in Seq(ListenerRecord) /\ DOMAIN registry' = DOMAIN registry
        /\ registry'[c] = h
    BY <2>3
  <2>5. QED
    BY <2>2, <2>3, <2>4
<1>16. Listens
  BY <1>6, <1>7, <1>15 DEF EmitCalls, KeepHandle, Listens, StreamInv, ObjectInv
<1>17. /\ ObjectInv' /\ HandleInv'
       /\ \A e : (Happened(e)' <=> Happened(e)) /\ (Terminal(e)' <=> Terminal(e))
  BY <1>16, ListensKeeps
<1>18. Remembered /\ Forgets
  BY <1>9, <1>12, <1>15 DEF Remembered, Forgets
<1>19. BookInv'
  BY <1>18, BookRemembers
<1>20. RunInv'
  <2>1. ASSUME NEW p \in D \union {new}
        PROVE  \E q \in E : /\ q[2].list = p[2].list /\ q[2].event = p[2].event
                            /\ q[2].once = p[2].once
    <3>1. CASE p \in D
      BY <1>8, <3>1
    <3>2. CASE p = new
      BY <1>3, <1>5, <1>8, <3>2
    <3>3. QED
      BY <3>1, <3>2
  <2>2. QED
    BY <1>8, <1>9, <1>18, <2>1, RunRemembers DEF E
<1>21. OnceListenerInv'
  <2>1. f.once =>
          /\ \A e \in StreamEvents, once \in BOOLEAN : book[e][once] # a
          /\ registry[c].heard = 0
          /\ \A j \in DOMAIN arrays[a] : m <= j => registry[arrays[a][j]].heard = 0
          /\ \A q \in E : q[2].once /\ q[2].list = a => q = top
    <3>1. f.once =>
            /\ \A e \in StreamEvents, once \in BOOLEAN : book[e][once] # a
            /\ \A j \in DOMAIN arrays[a] : m <= j => registry[arrays[a][j]].heard = 0
            /\ \A q \in E : q[2].once /\ q[2].list = a => q = top
      BY <1>3, <1>8, <1>10 DEF StreamInv, OnceListenerInv, E
    <3>2. m <= m
      OBVIOUS
    <3>3. QED
      BY <1>11, <1>12, <3>1, <3>2
  <2>2. \A id \in DOMAIN registry' : registry'[id].once => registry'[id].heard <= 1
    <3>1. registry'[c].once => registry'[c].heard <= 1
      BY <1>15, <2>1
    <3>2. QED
      BY <1>15, <3>1 DEF StreamInv, OnceListenerInv
  <2>3. ASSUME NEW e \in StreamEvents, book[e][TRUE] # 0, NEW j \in DOMAIN arrays[book[e][TRUE]]
        PROVE  registry'[arrays[book[e][TRUE]][j]].heard = 0
    <3>1. PICK o \in BOOLEAN : o = TRUE
      OBVIOUS
    <3>2. PICK b : b = book[e][o] /\ b # 0
      BY <2>3, <3>1
    <3>3. b \in DOMAIN arrays /\ registry[arrays[b][j]].once = o
      BY <2>3, <3>1, <3>2, BookFacts DEF StreamInv
    <3>4. arrays[b][j] \in DOMAIN registry /\ registry[arrays[b][j]].heard = 0
      <4>1. arrays[b][j] \in DOMAIN registry
        BY <2>3, <3>1, <3>2, <3>3 DEF StreamInv, BookInv
      <4>2. \A k \in DOMAIN arrays[book[e][TRUE]] : registry[arrays[book[e][TRUE]][k]].heard = 0
        BY <2>3 DEF StreamInv, OnceListenerInv
      <4>3. QED
        BY <2>3, <3>1, <3>2, <4>1, <4>2
    <3>5. arrays[b][j] # c
      BY <1>12, <1>13, <2>1, <2>3, <3>1, <3>2, <3>3
    <3>6. QED
      BY <1>15, <3>1, <3>2, <3>4, <3>5
  <2>4. ASSUME NEW p \in D \union {new}, p[2].once, p[2].list # 0
        PROVE  /\ \A e \in StreamEvents, once \in BOOLEAN : book[e][once] # p[2].list
               /\ \A j \in DOMAIN arrays[p[2].list] :
                     p[2].next <= j => registry'[arrays[p[2].list][j]].heard = 0
               /\ \A q \in D \union {new} : q[2].once /\ q[2].list = p[2].list => q = p
    <3>1. CASE p \in D
      <4>1. /\ \A e \in StreamEvents, once \in BOOLEAN : book[e][once] # p[2].list
            /\ \A j \in DOMAIN arrays[p[2].list] :
                  p[2].next <= j => registry[arrays[p[2].list][j]].heard = 0
            /\ \A q \in E : q[2].once /\ q[2].list = p[2].list => q = p
        BY <1>8, <2>4, <3>1 DEF StreamInv, OnceListenerInv, E
      <4>2. /\ p[2].list \in DOMAIN arrays
            /\ \A j \in DOMAIN arrays[p[2].list] : registry[arrays[p[2].list][j]].once = p[2].once
        BY <1>8, <2>4, <3>1 DEF StreamInv, RunInv, E
      <4>3. ~(f.once /\ p[2].list = a)
        BY <1>3, <1>8, <3>1, <4>1
      <4>4. \A j \in DOMAIN arrays[p[2].list] :
               arrays[p[2].list][j] \in DOMAIN registry /\ arrays[p[2].list][j] # c
        <5> TAKE j \in DOMAIN arrays[p[2].list]
        <5>1. PICK b \in DOMAIN arrays : b = p[2].list
          BY <4>2
        <5>2. arrays[b][j] \in DOMAIN registry
          BY <5>1 DEF StreamInv, BookInv
        <5>3. registry[arrays[b][j]].once = p[2].once
          BY <4>2, <5>1
        <5>4. ASSUME arrays[b][j] = c PROVE FALSE
          <6>1. b = a
            BY <1>13, <5>1, <5>4
          <6>2. f.once = p[2].once
            BY <1>12, <5>3, <5>4
          <6>3. QED
            BY <2>4, <4>3, <5>1, <6>1, <6>2
        <5>5. QED
          BY <5>1, <5>2, <5>4
      <4>5. \A q \in D \union {new} : q[2].once /\ q[2].list = p[2].list => q = p
        BY <1>5, <1>8, <4>1, <4>3
      <4>6. QED
        BY <1>15, <4>1, <4>4, <4>5
    <3>2. CASE p = new
      <4>1. f.once /\ p[2].list = a /\ p[2].next = m + 1
        BY <1>5, <1>8, <2>4, <3>2
      <4>2. ASSUME NEW j \in DOMAIN arrays[a], m + 1 <= j
            PROVE  registry'[arrays[a][j]].heard = 0
        <5>1. j \in Nat /\ m <= j /\ j # m
          <6>1. arrays[a] \in Seq(Nat)
            BY <1>10 DEF StreamInv, ObjectInv
          <6>2. QED
            BY <4>2, <6>1
        <5>2. arrays[a][j] \in DOMAIN registry /\ arrays[a][j] # c
          BY <1>10, <1>13, <5>1 DEF StreamInv, BookInv
        <5>3. registry[arrays[a][j]].heard = 0
          BY <2>1, <4>1, <5>1
        <5>4. QED
          BY <1>15, <5>2, <5>3
      <4>3. \A q \in D \union {new} : q[2].once /\ q[2].list = a => q = new
        BY <1>8, <2>1, <4>1
      <4>4. QED
        BY <2>1, <3>2, <4>1, <4>2, <4>3
    <3>3. QED
      BY <3>1, <3>2
  <2>5. QED
    BY <1>8, <1>9, <2>2, <2>3, <2>4 DEF OnceListenerInv
<1>22. EndInv'
  <2> SUFFICES ASSUME NEW e \in script.events, Terminal(e)'
               PROVE  IF Happened(e)' THEN Told(e)' ELSE Waiting(e)'
    BY <1>9 DEF EndInv
  <2>1. Terminal(e) /\ e \in StreamEvents
    BY <1>17, ScriptFacts DEF StreamInv, ObjectInv
  <2>2. \A b, k, id : Listed(b, k, id)' <=> Listed(b, k, id)
    BY <1>9 DEF Listed
  <2>3. CASE ~Happened(e)
    <3>1. Waiting(e)
      BY <2>1, <2>3 DEF StreamInv, EndInv
    <3>2. x # e
      BY <1>3, <1>8, <3>1 DEF Waiting, E
    <3>3. \A p \in D \union {new} : p[2].event # e
      BY <1>5, <1>8, <3>1, <3>2 DEF Waiting, E
    <3>4. ASSUME NEW id \in DOMAIN registry, registry'[id].event = e, ~registry'[id].excused
          PROVE  registry'[id].heard = 0 /\ Listed(book[e][registry[id].once], 1, id)'
      <4>1. id # c /\ registry'[id] = registry[id]
        BY <1>15, <3>2, <3>4
      <4>2. registry[id].heard = 0 /\ Listed(book[e][registry[id].once], 1, id)
        BY <3>1, <3>4, <4>1 DEF Waiting
      <4>3. QED
        BY <1>9, <2>2, <4>1, <4>2
    <3>5. \A id \in DOMAIN registry : registry'[id].once = registry[id].once
      BY <1>18 DEF Remembered
    <3>6. Waiting(e)'
      BY <1>8, <1>15, <3>3, <3>4, <3>5 DEF Waiting
    <3>7. QED
      BY <1>17, <2>3, <3>6
  <2>4. CASE Happened(e)
    <3>1. Told(e)
      BY <2>1, <2>4 DEF StreamInv, EndInv
    <3>2. \A p \in D : p[2].event = e => e # x
      BY <1>3, <1>8, <3>1 DEF Told, E
    <3>3. ASSUME NEW p \in D \union {new}, NEW q \in D \union {new},
                 p[2].event = e, q[2].event = e
          PROVE  p = q
      BY <1>5, <1>8, <3>1, <3>2, <3>3 DEF Told, E
    <3>4. ASSUME NEW id \in DOMAIN registry, registry'[id].event = e, ~registry'[id].excused
          PROVE  /\ registry'[id].heard <= 1
                 /\ registry'[id].heard = 0 <=>
                      \E p \in D \union {new} : p[2].event = e /\ Owes(p[2], id)'
      <4>1. registry[id].event = e /\ ~registry[id].excused /\ registry'[id].once = registry[id].once
        BY <1>12, <1>15, <3>4
      <4>2. /\ registry[id].heard <= 1
            /\ registry[id].heard = 0 <=> \E p \in E : p[2].event = e /\ Owes(p[2], id)
        BY <3>1, <4>1 DEF Told, E
      <4>3. \A h : Owes(h, id)' <=> Owes(h, id)
        BY <1>9, <2>2, <4>1 DEF Owes
      <4>4. CASE e # x
        <5>1. new[2].event # e /\ top[2].event # e
          BY <1>3, <1>5, <1>8, <4>4
        <5>2. (\E p \in D \union {new} : p[2].event = e /\ Owes(p[2], id)')
                <=> \E p \in E : p[2].event = e /\ Owes(p[2], id)
          BY <1>8, <4>3, <5>1
        <5>3. registry'[id] = registry[id]
          BY <1>12, <1>15, <4>1, <4>4
        <5>4. QED
          BY <4>2, <5>2, <5>3
      <4>5. CASE e = x
        <5>1. /\ \A p \in D : p[2].event # e
              /\ (\E p \in D \union {new} : p[2].event = e /\ Owes(p[2], id)') <=> Owes(g, id)
              /\ (\E p \in E : p[2].event = e /\ Owes(p[2], id)) <=> Owes(f, id)
          <6>1. \A p \in D : p[2].event # e
            BY <3>2, <4>5
          <6>2. QED
            BY <1>3, <1>5, <1>8, <4>3, <4>5, <6>1
        <5>2. CASE id = c
          <6>1. Owes(f, id)
            <7>1. Listed(a, m, c)
              <8>1. m <= m
                OBVIOUS
              <8>2. QED
                BY <1>10, <1>11, <1>12, <8>1 DEF Listed
            <7>2. registry[id].once = f.once
              BY <1>12, <5>2
            <7>3. QED
              BY <1>3, <5>2, <7>1, <7>2 DEF Owes
          <6>2. ~Owes(g, id)
            <7>1. ~Listed(a, m + 1, c)
              <8>1. ~(m + 1 <= m)
                OBVIOUS
              <8>2. QED
                BY <1>10, <1>13, <8>1 DEF Listed
            <7>2. QED
              BY <1>5, <1>12, <5>2, <7>1 DEF Owes
          <6>3. registry[c].heard = 0 /\ registry'[c].heard = 1
            BY <1>15, <4>2, <5>1, <5>2, <6>1
          <6>4. QED
            BY <5>1, <5>2, <6>2, <6>3
        <5>3. CASE id # c
          <6>1. Listed(a, m + 1, id) <=> Listed(a, m, id)
            <7>1. \A j \in DOMAIN arrays[a] :
                     arrays[a][j] = id => (m + 1 <= j <=> m <= j)
              <8>1. arrays[a] \in Seq(Nat)
                BY <1>10 DEF StreamInv, ObjectInv
              <8>2. \A j \in DOMAIN arrays[a] : arrays[a][j] = id => j # m /\ j \in Nat
                BY <1>12, <5>3, <8>1
              <8>3. QED
                BY <8>2
            <7>2. QED
              BY <7>1 DEF Listed
          <6>2. Owes(g, id) <=> Owes(f, id)
            BY <1>3, <1>5, <6>1 DEF Owes
          <6>3. registry'[id] = registry[id]
            BY <1>15, <5>3
          <6>4. QED
            BY <4>2, <5>1, <6>2, <6>3
        <5>4. QED
          BY <5>2, <5>3
      <4>6. QED
        BY <4>4, <4>5
    <3>5. Told(e)'
      BY <1>8, <1>15, <3>3, <3>4 DEF Told
    <3>6. QED
      BY <1>17, <2>4, <3>5
  <2>5. QED
    BY <2>3, <2>4
<1>23. QED
  BY <1>17, <1>19, <1>20, <1>21, <1>22 DEF StreamInv

(* Where a listener is added: at the end, k, of the array b.               *)
AddedAt(e, once, id, b, k) ==
  /\ b # 0 /\ b = book'[e][once] /\ b \in DOMAIN arrays' /\ arrays'[b] # <<>>
  /\ IF book[e][once] = 0 THEN b \notin DOMAIN arrays ELSE b = book[e][once]
  /\ k \in DOMAIN arrays'[b] /\ arrays'[b][k] = id
  /\ \A a \in DOMAIN arrays : a \in DOMAIN arrays' /\ (a # b => arrays'[a] = arrays[a])
  /\ \A a \in DOMAIN arrays : \A j \in DOMAIN arrays[a] :
        j \in DOMAIN arrays'[a] /\ arrays'[a][j] = arrays[a][j]
  /\ \A a \in DOMAIN arrays' : \A j \in DOMAIN arrays'[a] :
        \/ a = b /\ j = k
        \/ a \in DOMAIN arrays /\ j \in DOMAIN arrays[a] /\ arrays'[a][j] = arrays[a][j]

(* A listener is put at the end of an array, the object's or a new one.    *)
LEMMA AddedIs ==
  ASSUME StreamInv, NEW e \in StreamEvents, NEW once \in BOOLEAN, NEW id \in Nat,
         id \notin DOMAIN registry, Added(e, once, id)
  PROVE  /\ arrays' \in Seq(Seq(Nat)) /\ book' \in [StreamEvents -> [BOOLEAN -> Nat]]
         /\ \A x \in StreamEvents, o \in BOOLEAN :
               (x # e \/ o # once) => book'[x][o] = book[x][o]
         /\ \E b \in Nat, k \in Nat : AddedAt(e, once, id, b, k)
<1>1. /\ arrays \in Seq(Seq(Nat)) /\ book \in [StreamEvents -> [BOOLEAN -> Nat]]
  BY DEF StreamInv, ObjectInv
<1>2. CASE book[e][once] = 0
  <2>1. PICK b \in Nat : b = Len(arrays) + 1 /\ b # 0
    <3>1. Len(arrays) \in Nat
      BY <1>1
    <3>2. QED
      BY <3>1
  <2>2. arrays' = Append(arrays, <<id>>) /\ book' = [book EXCEPT ![e][once] = b]
    BY <1>2, <2>1 DEF Added
  <2>3. PICK s \in Seq(Nat) : s = <<id>>
    <3>1. <<id>> \in Seq(Nat)
      OBVIOUS
    <3>2. QED
      BY <3>1
  <2>4. DOMAIN s = {1} /\ s[1] = id /\ s # <<>>
    BY <2>3
  <2>5. /\ arrays' \in Seq(Seq(Nat)) /\ DOMAIN arrays' = DOMAIN arrays \union {b}
        /\ b \notin DOMAIN arrays /\ arrays'[b] = s
        /\ \A a \in DOMAIN arrays : arrays'[a] = arrays[a]
    <3>1. arrays' = Append(arrays, s)
      BY <2>2, <2>3
    <3>2. QED
      BY <1>1, <2>1, <3>1
  <2>6. /\ book' \in [StreamEvents -> [BOOLEAN -> Nat]] /\ book'[e][once] = b
        /\ \A x \in StreamEvents, o \in BOOLEAN :
             (x # e \/ o # once) => book'[x][o] = book[x][o]
    BY <1>1, <2>2
  <2>7. AddedAt(e, once, id, b, 1)
    <3>1. 1 \in DOMAIN s
      BY <2>4
    <3>2. \A a \in DOMAIN arrays : a # b
      BY <2>5
    <3>3. \A a \in DOMAIN arrays : \A j \in DOMAIN arrays[a] :
             j \in DOMAIN arrays'[a] /\ arrays'[a][j] = arrays[a][j]
      BY <2>5
    <3>4. \A a \in DOMAIN arrays' : \A j \in DOMAIN arrays'[a] :
             \/ a = b /\ j = 1
             \/ a \in DOMAIN arrays /\ j \in DOMAIN arrays[a] /\ arrays'[a][j] = arrays[a][j]
      BY <2>4, <2>5
    <3>5. QED
      BY <1>2, <2>1, <2>4, <2>5, <2>6, <3>1, <3>2, <3>3, <3>4 DEF AddedAt
  <2>8. QED
    BY <2>1, <2>5, <2>6, <2>7
<1>3. CASE book[e][once] # 0
  <2>1. PICK b \in Nat : b = book[e][once] /\ b # 0
    BY <1>1, <1>3
  <2>2. b \in DOMAIN arrays
    BY <2>1, BookFacts DEF StreamInv
  <2>3. PICK s \in Seq(Nat) : s = arrays[b]
    BY <1>1, <2>2
  <2>4. PICK t \in Seq(Nat) : t = Append(s, id)
    <3>1. Append(s, id) \in Seq(Nat)
      OBVIOUS
    <3>2. QED
      BY <3>1
  <2>5. PICK k \in Nat : k = Len(s) + 1
    <3>1. Len(s) \in Nat
      OBVIOUS
    <3>2. QED
      BY <3>1
  <2>6. /\ DOMAIN t = DOMAIN s \union {k} /\ t[k] = id /\ t # <<>>
        /\ \A j \in DOMAIN s : t[j] = s[j]
    BY <2>4, <2>5
  <2>7. arrays' = [arrays EXCEPT ![b] = t] /\ book' = book
    BY <1>3, <2>1, <2>3, <2>4 DEF Added
  <2>8. /\ arrays' \in Seq(Seq(Nat)) /\ DOMAIN arrays' = DOMAIN arrays /\ arrays'[b] = t
        /\ \A a \in DOMAIN arrays : a # b => arrays'[a] = arrays[a]
    BY <1>1, <2>2, <2>7
  <2>9. AddedAt(e, once, id, b, k)
    <3>1. k \in DOMAIN t
      BY <2>6
    <3>2. \A a \in DOMAIN arrays : \A j \in DOMAIN arrays[a] :
             j \in DOMAIN arrays'[a] /\ arrays'[a][j] = arrays[a][j]
      BY <2>3, <2>6, <2>8
    <3>3. \A a \in DOMAIN arrays' : \A j \in DOMAIN arrays'[a] :
             \/ a = b /\ j = k
             \/ a \in DOMAIN arrays /\ j \in DOMAIN arrays[a] /\ arrays'[a][j] = arrays[a][j]
      BY <2>3, <2>6, <2>8
    <3>4. QED
      BY <1>3, <2>1, <2>2, <2>6, <2>7, <2>8, <3>1, <3>2, <3>3 DEF AddedAt
  <2>10. QED
    BY <1>1, <2>1, <2>7, <2>8, <2>9
<1>4. QED
  BY <1>2, <1>3

(* A listener is excused from an emission that runs.                       *)
LEMMA EmissionRuns ==
  ASSUME ObjectInv, NEW e
  PROVE  (\E i \in 1..Len(frames) : frames[i].at = "emit" /\ frames[i].event = e)
           <=> \E p \in Emissions(frames) : p[2].event = e
<1>1. Len(frames) \in Nat
  BY DEF ObjectInv
<1>2. ASSUME NEW i \in 1..Len(frames), frames[i].at = "emit", frames[i].event = e
      PROVE  \E p \in Emissions(frames) : p[2].event = e
  <2>1. PICK n \in 0..(Len(frames) - 1) : n = Len(frames) - i /\ Len(frames) - n = i
    BY <1>1, SMTT(30)
  <2>2. PICK p : p = <<n, frames[i]>>
    OBVIOUS
  <2>3. p \in Emissions(frames)
    BY <1>2, <2>1, <2>2, EmissionIs
  <2>4. QED
    BY <1>2, <2>2, <2>3
<1>3. ASSUME NEW p \in Emissions(frames), p[2].event = e
      PROVE  \E i \in 1..Len(frames) : frames[i].at = "emit" /\ frames[i].event = e
  <2>1. p = <<p[1], p[2]>>
    BY EmissionPair
  <2>2. p[1] \in 0..(Len(frames) - 1) /\ p[2] = frames[Len(frames) - p[1]] /\ p[2].at = "emit"
    BY <2>1, EmissionIs
  <2>3. Len(frames) - p[1] \in 1..Len(frames)
    BY <1>1, <2>2
  <2>4. QED
    BY <1>3, <2>2, <2>3
<1>4. QED
  BY <1>2, <1>3

(* The listener that on and once register.                                 *)
LEMMA ListenerIs ==
  ASSUME ObjectInv, NEW e \in StreamEvents, NEW cb \in Callbacks, NEW once \in BOOLEAN,
         NEW atOnce \in BOOLEAN
  PROVE  \E r \in ListenerRecord :
           /\ r = IF atOnce THEN Heard(Listener(e, cb, once)) ELSE Listener(e, cb, once)
           /\ r.event = e /\ r.once = once /\ r.heard = IF atOnce THEN 1 ELSE 0
           /\ r.excused <=> \E p \in Emissions(frames) : p[2].event = e
<1>1. PICK x \in BOOLEAN :
        x = (\E i \in 1..Len(frames) : frames[i].at = "emit" /\ frames[i].event = e)
  OBVIOUS
<1>2. PICK l : l = Listener(e, cb, once)
  OBVIOUS
<1>3. /\ l \in ListenerRecord /\ l.event = e /\ l.once = once /\ l.heard = 0 /\ l.excused = x
  BY <1>1, <1>2 DEF Listener, ListenerRecord
<1>4. /\ Heard(l) \in ListenerRecord /\ Heard(l).event = e /\ Heard(l).once = once
      /\ Heard(l).heard = 1 /\ Heard(l).excused = x
  BY <1>3, HeardIs
<1>5. x <=> \E p \in Emissions(frames) : p[2].event = e
  BY <1>1, EmissionRuns
<1>6. CASE atOnce
  BY <1>2, <1>4, <1>5, <1>6
<1>7. CASE ~atOnce
  BY <1>2, <1>3, <1>5, <1>7
<1>8. QED
  BY <1>6, <1>7

(* on and once call a listener at once for an end that happened, and for   *)
(* none that has not.                                                      *)
LEMMA AtOnceIs ==
  ASSUME StreamInv, NEW e \in script.events, Terminal(e)
  PROVE  (AlreadyFor(e) <=> Happened(e)) /\ (AlreadyForOnce(e) <=> Happened(e))
<1>1. CASE e = "close"
  <2>1. Closable
    BY <1>1, ScriptFacts DEF StreamInv, ObjectInv
  <2>2. props.closed <=> props.closeEmitted
    BY <2>1 DEF StreamInv, HandleInv
  <2>3. QED
    BY <1>1, <2>2 DEF AlreadyFor, AlreadyForOnce, Happened
<1>2. CASE e = "finish" /\ OfKind({"WriteStream"})
  <2>1. ~OfKind({"CompressionStream"})
    BY <1>2 DEF OfKind
  <2>2. QED
    BY <1>2, <2>1 DEF AlreadyFor, AlreadyForOnce, Happened
<1>3. QED
  BY <1>1, <1>2 DEF Terminal

(* A listener, id, joins the registry: he has one place in the array of    *)
(* his key, or none if he is called at once and not kept.                  *)
Joins(e, once, id, r) ==
  /\ id \notin DOMAIN registry /\ DOMAIN registry' = DOMAIN registry \union {id}
  /\ registry'[id] = r /\ r.event = e /\ r.once = once
  /\ \A i \in DOMAIN registry : registry'[i] = registry[i]
Grown(e, once, id, kept) ==
  /\ \A a \in DOMAIN arrays : a \in DOMAIN arrays' /\ \A j \in DOMAIN arrays[a] :
        j \in DOMAIN arrays'[a] /\ arrays'[a][j] = arrays[a][j]
  /\ \A a \in DOMAIN arrays' : \A j \in DOMAIN arrays'[a] :
        \/ /\ arrays'[a][j] = id /\ a = book'[e][once] /\ kept
           /\ a \notin DOMAIN arrays \/ (book[e][once] # 0 /\ a = book[e][once])
        \/ a \in DOMAIN arrays /\ j \in DOMAIN arrays[a] /\ arrays'[a][j] = arrays[a][j]
  /\ \A a, b \in DOMAIN arrays' : \A j \in DOMAIN arrays'[a], k \in DOMAIN arrays'[b] :
        arrays'[a][j] = id /\ arrays'[b][k] = id => a = b /\ j = k
  /\ \A x \in StreamEvents, o \in BOOLEAN :
        \/ book'[x][o] = book[x][o]
        \/ x = e /\ o = once /\ book[x][o] = 0 /\ book'[x][o] \notin DOMAIN arrays
  /\ \A x \in StreamEvents, o \in BOOLEAN : book'[x][o] # 0 =>
        book'[x][o] \in DOMAIN arrays' /\ arrays'[book'[x][o]] # <<>>
  /\ kept => /\ book'[e][once] # 0
             /\ \E j \in DOMAIN arrays'[book'[e][once]] :
                   1 <= j /\ arrays'[book'[e][once]][j] = id

(* Places in arrays are positive.                                          *)
LEMMA PlaceIs ==
  ASSUME NEW s \in Seq(Seq(Nat)), NEW a \in DOMAIN s, NEW j \in DOMAIN s[a]
  PROVE  j \in Nat /\ 1 <= j
<1>1. s[a] \in Seq(Nat)
  OBVIOUS
<1>2. QED
  BY <1>1

(* Who is added is kept.                                                   *)
LEMMA AddedGrows ==
  ASSUME StreamInv, NEW e \in StreamEvents, NEW once \in BOOLEAN, NEW id \in Nat,
         id \notin DOMAIN registry, Added(e, once, id)
  PROVE  Grown(e, once, id, TRUE)
<1>1. /\ arrays' \in Seq(Seq(Nat)) /\ book' \in [StreamEvents -> [BOOLEAN -> Nat]]
      /\ \A x \in StreamEvents, o \in BOOLEAN :
            (x # e \/ o # once) => book'[x][o] = book[x][o]
  BY AddedIs
<1>2. PICK b \in Nat, k \in Nat : AddedAt(e, once, id, b, k)
  BY AddedIs
<1>3. \A a \in DOMAIN arrays : a \in DOMAIN arrays' /\ \A j \in DOMAIN arrays[a] :
         j \in DOMAIN arrays'[a] /\ arrays'[a][j] = arrays[a][j]
  BY <1>2 DEF AddedAt
<1>4. \A a \in DOMAIN arrays' : \A j \in DOMAIN arrays'[a] :
        \/ /\ arrays'[a][j] = id /\ a = book'[e][once]
           /\ a \notin DOMAIN arrays \/ (book[e][once] # 0 /\ a = book[e][once])
        \/ a \in DOMAIN arrays /\ j \in DOMAIN arrays[a] /\ arrays'[a][j] = arrays[a][j]
  BY <1>2 DEF AddedAt
<1>5. \A a \in DOMAIN arrays' : \A j \in DOMAIN arrays'[a] :
         arrays'[a][j] = id => a = b /\ j = k
  <2>1. \A a \in DOMAIN arrays : \A j \in DOMAIN arrays[a] : arrays[a][j] # id
    BY DEF StreamInv, BookInv
  <2>2. QED
    BY <1>2, <2>1 DEF AddedAt
<1>6. \A x \in StreamEvents, o \in BOOLEAN :
        \/ book'[x][o] = book[x][o]
        \/ x = e /\ o = once /\ book[x][o] = 0 /\ book'[x][o] \notin DOMAIN arrays
  <2>1. CASE book[e][once] = 0
    BY <1>1, <1>2, <2>1 DEF AddedAt
  <2>2. CASE book[e][once] # 0
    BY <1>1, <1>2, <2>2 DEF AddedAt
  <2>3. QED
    BY <2>1, <2>2
<1>7. ASSUME NEW x \in StreamEvents, NEW o \in BOOLEAN, book'[x][o] # 0
      PROVE  book'[x][o] \in DOMAIN arrays' /\ arrays'[book'[x][o]] # <<>>
  <2>1. CASE book'[x][o] = b
    BY <1>2, <2>1 DEF AddedAt
  <2>2. CASE book'[x][o] # b
    <3>1. x # e \/ o # once
      BY <1>2, <2>2 DEF AddedAt
    <3>2. book'[x][o] = book[x][o]
      BY <1>1, <3>1
    <3>3. book[x][o] \in DOMAIN arrays /\ arrays[book[x][o]] # <<>>
      BY <1>7, <3>2, BookFacts DEF StreamInv
    <3>4. QED
      BY <1>2, <2>2, <3>2, <3>3 DEF AddedAt
  <2>3. QED
    BY <2>1, <2>2
<1>8. b = book'[e][once] /\ b # 0 /\ k \in DOMAIN arrays'[b] /\ 1 <= k /\ arrays'[b][k] = id
  BY <1>1, <1>2, PlaceIs DEF AddedAt
<1>9. QED
  BY <1>3, <1>4, <1>5, <1>6, <1>7, <1>8 DEF Grown

(* Who is not added has no place.                                          *)
LEMMA NoneGrows ==
  ASSUME StreamInv, NEW e \in StreamEvents, NEW once \in BOOLEAN, NEW id,
         id \notin DOMAIN registry, UNCHANGED <<book, arrays>>
  PROVE  Grown(e, once, id, FALSE)
<1>1. \A a \in DOMAIN arrays : \A j \in DOMAIN arrays[a] : arrays[a][j] # id
  BY DEF StreamInv, BookInv
<1>2. \A x \in StreamEvents, o \in BOOLEAN : book[x][o] # 0 =>
        book[x][o] \in DOMAIN arrays /\ arrays[book[x][o]] # <<>>
  BY DEF StreamInv, BookInv
<1>3. QED
  BY <1>1, <1>2 DEF Grown

(* The arrays stay those of the listeners.                                 *)
LEMMA BookGrows ==
  ASSUME StreamInv, NEW e \in StreamEvents, NEW once \in BOOLEAN, NEW id, NEW r,
         Joins(e, once, id, r), NEW kept \in BOOLEAN, Grown(e, once, id, kept),
         e \in script.events, UNCHANGED script
  PROVE  BookInv'
<1>1. \A i \in DOMAIN registry' : registry'[i].event \in script.events
  BY DEF StreamInv, BookInv, Joins
<1>2. \A a \in DOMAIN arrays' : \A j \in DOMAIN arrays'[a] : arrays'[a][j] \in DOMAIN registry'
  BY DEF StreamInv, BookInv, Joins, Grown
<1>3. ASSUME NEW a \in DOMAIN arrays', NEW b \in DOMAIN arrays',
             NEW j \in DOMAIN arrays'[a], NEW k \in DOMAIN arrays'[b],
             arrays'[a][j] = arrays'[b][k]
      PROVE  a = b /\ j = k
  <2>1. CASE arrays'[a][j] = id
    <3>1. arrays'[b][k] = id
      BY <1>3, <2>1
    <3>2. \A c, d \in DOMAIN arrays' : \A l \in DOMAIN arrays'[c], n \in DOMAIN arrays'[d] :
             arrays'[c][l] = id /\ arrays'[d][n] = id => c = d /\ l = n
      BY DEF Grown
    <3>3. QED
      BY <2>1, <3>1, <3>2
  <2>2. CASE arrays'[a][j] # id
    <3>1. /\ a \in DOMAIN arrays /\ j \in DOMAIN arrays[a] /\ arrays'[a][j] = arrays[a][j]
          /\ b \in DOMAIN arrays /\ k \in DOMAIN arrays[b] /\ arrays'[b][k] = arrays[b][k]
      BY <1>3, <2>2 DEF Grown
    <3>2. QED
      <4>1. arrays[a][j] = arrays[b][k]
        BY <1>3, <3>1
      <4>2. \A c, d \in DOMAIN arrays : \A l \in DOMAIN arrays[c], n \in DOMAIN arrays[d] :
               arrays[c][l] = arrays[d][n] => c = d /\ l = n
        BY DEF StreamInv, BookInv
      <4>3. QED
        BY <3>1, <4>1, <4>2
  <2>3. QED
    BY <2>1, <2>2
<1>4. ASSUME NEW x \in StreamEvents, NEW o \in BOOLEAN, book'[x][o] # 0,
             NEW j \in DOMAIN arrays'[book'[x][o]]
      PROVE  LET i == arrays'[book'[x][o]][j]
             IN registry'[i].event = x /\ registry'[i].once = o
  <2>1. PICK a : a = book'[x][o] /\ a \in DOMAIN arrays'
    BY <1>4 DEF Grown
  <2>2. \/ arrays'[a][j] = id /\ x = e /\ o = once
        \/ /\ a \in DOMAIN arrays /\ j \in DOMAIN arrays[a]
           /\ arrays'[a][j] = arrays[a][j] /\ a = book[x][o]
    <3>1. CASE a \in DOMAIN arrays
      <4>1. a = book[x][o] /\ a # 0
        BY <1>4, <2>1, <3>1 DEF Grown
      <4>2. \/ arrays'[a][j] = id /\ book[e][once] # 0 /\ a = book[e][once]
            \/ j \in DOMAIN arrays[a] /\ arrays'[a][j] = arrays[a][j]
        BY <1>4, <2>1, <3>1 DEF Grown
      <4>3. book[e][once] # 0 /\ a = book[e][once] => x = e /\ o = once
        <5>1. ASSUME book[e][once] # 0, a = book[e][once] PROVE x = e /\ o = once
          <6>1. book[x][o] = book[e][once]
            BY <4>1, <5>1
          <6>2. QED
            BY <5>1, <6>1, BookApart
        <5>2. QED
          BY <5>1
      <4>4. QED
        BY <3>1, <4>1, <4>2, <4>3
    <3>2. CASE a \notin DOMAIN arrays
      <4>1. arrays'[a][j] = id
        BY <1>4, <2>1, <3>2 DEF Grown
      <4>2. book[x][o] # 0 => book[x][o] \in DOMAIN arrays
        BY BookFacts DEF StreamInv
      <4>3. book'[x][o] # book[x][o]
        BY <1>4, <2>1, <3>2, <4>2
      <4>4. x = e /\ o = once
        BY <4>3 DEF Grown
      <4>5. QED
        BY <4>1, <4>4
    <3>3. QED
      BY <3>1, <3>2
  <2>3. CASE arrays'[a][j] = id /\ x = e /\ o = once
    BY <2>1, <2>3 DEF Joins
  <2>4. CASE /\ a \in DOMAIN arrays /\ j \in DOMAIN arrays[a]
             /\ arrays'[a][j] = arrays[a][j] /\ a = book[x][o]
    <3>1. book[x][o] # 0
      BY <1>4, <2>1, <2>4
    <3>2. LET i == arrays[a][j] IN registry[i].event = x /\ registry[i].once = o
      BY <2>4, <3>1, BookFacts DEF StreamInv
    <3>3. arrays[a][j] \in DOMAIN registry
      BY <2>4 DEF StreamInv, BookInv
    <3>4. QED
      BY <2>1, <2>4, <3>2, <3>3 DEF Joins
  <2>5. QED
    BY <2>2, <2>3, <2>4
<1>5. \A x \in StreamEvents, o \in BOOLEAN : book'[x][o] # 0 =>
        book'[x][o] \in DOMAIN arrays' /\ arrays'[book'[x][o]] # <<>>
  BY DEF Grown
<1>6. QED
  BY <1>1, <1>2, <1>3, <1>4, <1>5 DEF BookInv

(* An emission that runs over the array that grows is one of its event.    *)
LEMMA RunGrows ==
  ASSUME StreamInv, NEW e \in StreamEvents, NEW once \in BOOLEAN, NEW id, NEW r,
         Joins(e, once, id, r), NEW kept \in BOOLEAN, Grown(e, once, id, kept),
         Emissions(frames') = Emissions(frames)
  PROVE  RunInv'
<1>1. ASSUME NEW p \in Emissions(frames), p[2].list # 0
      PROVE  /\ p[2].list \in DOMAIN arrays'
             /\ \A j \in DOMAIN arrays'[p[2].list] :
                   LET i == arrays'[p[2].list][j]
                   IN registry'[i].event = p[2].event /\ registry'[i].once = p[2].once
  <2>1. PICK a : a = p[2].list /\ a \in DOMAIN arrays
    BY <1>1 DEF StreamInv, RunInv
  <2>2. \A j \in DOMAIN arrays[a] :
           LET i == arrays[a][j] IN registry[i].event = p[2].event /\ registry[i].once = p[2].once
    BY <1>1, <2>1 DEF StreamInv, RunInv
  <2>3. ASSUME NEW j \in DOMAIN arrays'[a]
        PROVE  LET i == arrays'[a][j]
               IN registry'[i].event = p[2].event /\ registry'[i].once = p[2].once
    <3>1. a \in DOMAIN arrays'
      BY <2>1 DEF Grown
    <3>2. CASE j \in DOMAIN arrays[a] /\ arrays'[a][j] = arrays[a][j]
      <4>1. arrays[a][j] \in DOMAIN registry
        BY <2>1, <3>2 DEF StreamInv, BookInv
      <4>2. QED
        BY <2>2, <3>2, <4>1 DEF Joins
    <3>3. CASE arrays'[a][j] = id /\ book[e][once] # 0 /\ a = book[e][once]
      <4>1. /\ arrays[a] # <<>>
            /\ \A k \in DOMAIN arrays[a] :
                 LET i == arrays[a][k] IN registry[i].event = e /\ registry[i].once = once
        BY <3>3, BookFacts DEF StreamInv
      <4>2. 1 \in DOMAIN arrays[a]
        <5>1. arrays[a] \in Seq(Nat)
          BY <2>1 DEF StreamInv, ObjectInv
        <5>2. QED
          BY <4>1, <5>1
      <4>3. p[2].event = e /\ p[2].once = once
        BY <2>2, <4>1, <4>2
      <4>4. QED
        BY <3>3, <4>3 DEF Joins
    <3>4. QED
      BY <2>1, <3>1, <3>2, <3>3 DEF Grown
  <2>4. QED
    BY <2>1, <2>3 DEF Grown
<1>2. QED
  BY <1>1 DEF RunInv

(* A once listener who is kept has heard nothing.                          *)
LEMMA OnceGrows ==
  ASSUME StreamInv, NEW e \in StreamEvents, NEW once \in BOOLEAN, NEW id, NEW r,
         Joins(e, once, id, r), NEW kept \in BOOLEAN, Grown(e, once, id, kept),
         Emissions(frames') = Emissions(frames), BookInv',
         r.heard \in 0..1, kept /\ once => r.heard = 0
  PROVE  OnceListenerInv'
<1> DEFINE E == Emissions(frames)
<1>1. Emissions(frames)' = E
  OBVIOUS
<1> HIDE DEF E
<1>2. \A i \in DOMAIN registry' : registry'[i].once => registry'[i].heard <= 1
  BY DEF StreamInv, OnceListenerInv, Joins
<1>3. ASSUME NEW x \in StreamEvents, book'[x][TRUE] # 0,
             NEW j \in DOMAIN arrays'[book'[x][TRUE]]
      PROVE  registry'[arrays'[book'[x][TRUE]][j]].heard = 0
  <2>1. PICK o \in BOOLEAN : o = TRUE
    OBVIOUS
  <2>2. PICK a : a = book'[x][o] /\ a # 0 /\ a \in DOMAIN arrays' /\ j \in DOMAIN arrays'[a]
    BY <1>3, <2>1 DEF Grown
  <2>3. registry'[arrays'[a][j]].once = o
    BY <1>3, <2>1, <2>2 DEF BookInv
  <2>4. CASE arrays'[a][j] = id /\ kept
    BY <2>1, <2>2, <2>3, <2>4 DEF Joins
  <2>5. CASE a \in DOMAIN arrays /\ j \in DOMAIN arrays[a] /\ arrays'[a][j] = arrays[a][j]
    <3>1. a = book[x][o]
      BY <2>2, <2>5 DEF Grown
    <3>2. a = book[x][TRUE]
      BY <2>1, <3>1
    <3>3. registry[arrays[a][j]].heard = 0
      BY <2>2, <2>5, <3>2 DEF StreamInv, OnceListenerInv
    <3>4. arrays[a][j] \in DOMAIN registry
      BY <2>5 DEF StreamInv, BookInv
    <3>5. QED
      BY <2>1, <2>2, <2>5, <3>3, <3>4 DEF Joins
  <2>6. QED
    <3>1. \/ arrays'[a][j] = id /\ kept
          \/ a \in DOMAIN arrays /\ j \in DOMAIN arrays[a] /\ arrays'[a][j] = arrays[a][j]
      <4>1. \A c \in DOMAIN arrays' : \A k \in DOMAIN arrays'[c] :
               \/ arrays'[c][k] = id /\ kept
               \/ c \in DOMAIN arrays /\ k \in DOMAIN arrays[c] /\ arrays'[c][k] = arrays[c][k]
        BY DEF Grown
      <4>2. QED
        BY <2>2, <4>1
    <3>2. QED
      BY <2>4, <2>5, <3>1
<1>4. ASSUME NEW p \in E, p[2].once, p[2].list # 0
      PROVE  /\ \A x \in StreamEvents, o \in BOOLEAN : book'[x][o] # p[2].list
             /\ \A j \in DOMAIN arrays'[p[2].list] :
                   p[2].next <= j => registry'[arrays'[p[2].list][j]].heard = 0
             /\ \A q \in E : q[2].once /\ q[2].list = p[2].list => q = p
  <2>1. PICK a : a = p[2].list /\ a \in DOMAIN arrays
    BY <1>4 DEF StreamInv, RunInv, E
  <2>2. /\ \A x \in StreamEvents, o \in BOOLEAN : book[x][o] # a
        /\ \A j \in DOMAIN arrays[a] : p[2].next <= j => registry[arrays[a][j]].heard = 0
        /\ \A q \in E : q[2].once /\ q[2].list = a => q = p
    BY <1>4, <2>1 DEF StreamInv, OnceListenerInv, E
  <2>3. \A x \in StreamEvents, o \in BOOLEAN : book'[x][o] # a
    BY <2>1, <2>2 DEF Grown
  <2>4. ASSUME NEW j \in DOMAIN arrays'[a], p[2].next <= j
        PROVE  registry'[arrays'[a][j]].heard = 0
    <3>1. a \in DOMAIN arrays'
      BY <2>1 DEF Grown
    <3>2. j \in DOMAIN arrays[a] /\ arrays'[a][j] = arrays[a][j]
      BY <2>1, <2>2, <3>1 DEF Grown
    <3>3. arrays[a][j] \in DOMAIN registry /\ registry[arrays[a][j]].heard = 0
      BY <2>1, <2>2, <2>4, <3>2 DEF StreamInv, BookInv
    <3>4. QED
      BY <3>2, <3>3 DEF Joins
  <2>5. QED
    BY <2>1, <2>2, <2>3, <2>4
<1>5. QED
  BY <1>1, <1>2, <1>3, <1>4 DEF OnceListenerInv

(* The others are listed as they were.                                     *)
LEMMA ListedGrows ==
  ASSUME StreamInv, NEW e \in StreamEvents, NEW once \in BOOLEAN, NEW id, NEW r,
         Joins(e, once, id, r), NEW kept \in BOOLEAN, Grown(e, once, id, kept),
         NEW i \in DOMAIN registry, NEW n
  PROVE  /\ \A a \in DOMAIN arrays \union {0} : Listed(a, n, i)' <=> Listed(a, n, i)
         /\ \A x \in StreamEvents, o \in BOOLEAN :
               Listed(book[x][o], n, i)' <=> Listed(book[x][o], n, i)
<1>1. i # id
  BY DEF Joins
<1>2. ASSUME NEW a \in DOMAIN arrays
      PROVE  Listed(a, n, i)' <=> Listed(a, n, i)
  <2>1. a \in DOMAIN arrays'
    BY DEF Grown
  <2>2. \A j \in DOMAIN arrays[a] : j \in DOMAIN arrays'[a] /\ arrays'[a][j] = arrays[a][j]
    BY DEF Grown
  <2>3. \A j \in DOMAIN arrays'[a] :
           arrays'[a][j] = i => j \in DOMAIN arrays[a] /\ arrays'[a][j] = arrays[a][j]
    BY <1>1, <2>1 DEF Grown
  <2>4. QED
    BY <2>2, <2>3 DEF Listed
<1>3. \A a \in {0} : ~Listed(a, n, i)' /\ ~Listed(a, n, i)
  BY DEF Listed
<1>4. ASSUME NEW x \in StreamEvents, NEW o \in BOOLEAN
      PROVE  Listed(book[x][o], n, i)' <=> Listed(book[x][o], n, i)
  <2>1. CASE book'[x][o] = book[x][o]
    <3>1. PICK a : a = book[x][o]
      OBVIOUS
    <3>2. a = 0 \/ a \in DOMAIN arrays
      BY <3>1, BookFacts DEF StreamInv
    <3>3. Listed(a, n, i)' <=> Listed(a, n, i)
      BY <1>2, <1>3, <3>2
    <3>4. QED
      BY <2>1, <3>1, <3>3
  <2>2. CASE book[x][o] = 0 /\ book'[x][o] \notin DOMAIN arrays
    <3>1. PICK b : b = book'[x][o] /\ b \notin DOMAIN arrays
      BY <2>2
    <3>2. b # 0 => \A j \in DOMAIN arrays'[b] : arrays'[b][j] # i
      <4>1. b # 0 => b \in DOMAIN arrays'
        BY <3>1 DEF Grown
      <4>2. QED
        BY <1>1, <3>1, <4>1 DEF Grown
    <3>3. ~Listed(b, n, i)'
      BY <3>2 DEF Listed
    <3>4. ~Listed(book[x][o], n, i)
      BY <2>2 DEF Listed
    <3>5. QED
      BY <3>1, <3>3, <3>4
  <2>3. QED
    BY <2>1, <2>2 DEF Grown
<1>5. QED
  BY <1>2, <1>3, <1>4

(* Who joins before the end is listed, after it he was called at once.     *)
LEMMA EndGrows ==
  ASSUME StreamInv, NEW e \in StreamEvents, NEW once \in BOOLEAN, NEW id, NEW r,
         Joins(e, once, id, r), NEW kept \in BOOLEAN, Grown(e, once, id, kept),
         Emissions(frames') = Emissions(frames), UNCHANGED script,
         \A x : (Happened(x)' <=> Happened(x)) /\ (Terminal(x)' <=> Terminal(x)),
         Terminal(e) => r.heard = (IF Happened(e) THEN 1 ELSE 0) /\ (Happened(e) \/ kept),
         r.excused <=> \E p \in Emissions(frames) : p[2].event = e
  PROVE  EndInv'
<1> DEFINE E == Emissions(frames)
<1>1. Emissions(frames)' = E
  OBVIOUS
<1> HIDE DEF E
<1> SUFFICES ASSUME NEW x \in script.events, Terminal(x)'
             PROVE  IF Happened(x)' THEN Told(x)' ELSE Waiting(x)'
  BY DEF EndInv
<1>2. Terminal(x) /\ x \in StreamEvents
  BY ScriptFacts DEF StreamInv, ObjectInv
<1>3. CASE ~Happened(x)
  <2>1. Waiting(x)
    BY <1>2, <1>3 DEF StreamInv, EndInv
  <2>2. \A p \in E : p[2].event # x
    BY <2>1 DEF Waiting, E
  <2>3. ASSUME NEW i \in DOMAIN registry', registry'[i].event = x, ~registry'[i].excused
        PROVE  registry'[i].heard = 0 /\ Listed(book[x][registry[i].once], 1, i)'
    <3>1. CASE i = id
      <4>1. x = e /\ registry'[i].once = once /\ registry'[i].heard = 0 /\ kept
        BY <1>2, <1>3, <2>3, <3>1 DEF Joins
      <4>2. \A b : b = book'[e][once] => Listed(b, 1, id)'
        BY <4>1 DEF Grown, Listed
      <4>3. Listed(book[e][once], 1, id)'
        BY <4>2
      <4>4. QED
        BY <3>1, <4>1, <4>3
    <3>2. CASE i # id
      <4>1. i \in DOMAIN registry /\ registry'[i] = registry[i]
        BY <2>3, <3>2 DEF Joins
      <4>2. PICK o \in BOOLEAN : o = registry[i].once /\ o = registry'[i].once
        BY <4>1, ListenerFacts DEF StreamInv
      <4>3. registry[i].heard = 0 /\ Listed(book[x][o], 1, i)
        BY <2>1, <2>3, <4>1, <4>2 DEF Waiting
      <4>4. Listed(book[x][o], 1, i)'
        BY <1>2, <4>1, <4>3, ListedGrows
      <4>5. QED
        BY <4>1, <4>2, <4>3, <4>4
    <3>3. QED
      BY <3>1, <3>2
  <2>4. Waiting(x)'
    BY <1>1, <2>2, <2>3 DEF Waiting
  <2>5. QED
    BY <1>3, <2>4
<1>4. CASE Happened(x)
  <2>1. Told(x)
    BY <1>2, <1>4 DEF StreamInv, EndInv
  <2>2. \A p, q \in E : p[2].event = x /\ q[2].event = x => p = q
    BY <2>1 DEF Told, E
  <2>3. ASSUME NEW i \in DOMAIN registry', registry'[i].event = x, ~registry'[i].excused
        PROVE  /\ registry'[i].heard <= 1
               /\ registry'[i].heard = 0 <=> \E p \in E : p[2].event = x /\ Owes(p[2], i)'
    <3>1. CASE i = id
      <4>1. x = e /\ registry'[i].heard = 1 /\ ~r.excused
        BY <1>2, <1>4, <2>3, <3>1 DEF Joins
      <4>2. \A p \in E : p[2].event # x
        BY <4>1 DEF E
      <4>3. QED
        BY <4>1, <4>2
    <3>2. CASE i # id
      <4>1. i \in DOMAIN registry /\ registry'[i] = registry[i]
        BY <2>3, <3>2 DEF Joins
      <4>2. /\ registry[i].heard <= 1
            /\ registry[i].heard = 0 <=> \E p \in E : p[2].event = x /\ Owes(p[2], i)
        BY <2>1, <2>3, <4>1 DEF Told, E
      <4>3. ASSUME NEW p \in E PROVE Owes(p[2], i)' <=> Owes(p[2], i)
        <5>1. PICK h : h = p[2]
          OBVIOUS
        <5>2. h.event \in StreamEvents /\ h.list \in DOMAIN arrays \union {0}
          BY <5>1, EmissionFacts DEF StreamInv, RunInv, E
        <5>3. Listed(h.list, h.next, i)' <=> Listed(h.list, h.next, i)
          BY <4>1, <5>2, ListedGrows
        <5>4. PICK o \in BOOLEAN : o = TRUE
          OBVIOUS
        <5>5. Listed(book[h.event][o], 1, i)' <=> Listed(book[h.event][o], 1, i)
          BY <4>1, <5>2, ListedGrows
        <5>6. Listed(book[h.event][TRUE], 1, i)' <=> Listed(book[h.event][TRUE], 1, i)
          BY <5>4, <5>5
        <5>7. Owes(h, i)' <=> Owes(h, i)
          BY <4>1, <5>3, <5>6 DEF Owes
        <5>8. QED
          BY <5>1, <5>7
      <4>4. QED
        BY <4>1, <4>2, <4>3
    <3>3. QED
      BY <3>1, <3>2
  <2>4. Told(x)'
    BY <1>1, <2>2, <2>3 DEF Told
  <2>5. QED
    BY <1>4, <2>4
<1>5. QED
  BY <1>3, <1>4

(* on and once.                                                            *)
LEMMA AddListenerKeeps ==
  ASSUME StreamInv, NEW e \in script.events, NEW cb \in Callbacks, NEW once \in BOOLEAN,
         AddListener(e, cb, once)
  PROVE  StreamInv'
<1>1. e \in StreamEvents
  BY ScriptFacts DEF StreamInv, ObjectInv
<1>2. PICK atOnce \in BOOLEAN : atOnce <=> IF once THEN AlreadyForOnce(e) ELSE AlreadyFor(e)
  BY DEF AlreadyForOnce, AlreadyFor
<1>3. PICK r \in ListenerRecord :
        /\ r = IF atOnce THEN Heard(Listener(e, cb, once)) ELSE Listener(e, cb, once)
        /\ r.event = e /\ r.once = once /\ r.heard = IF atOnce THEN 1 ELSE 0
        /\ r.excused <=> \E p \in Emissions(frames) : p[2].event = e
  BY <1>1, ListenerIs DEF StreamInv
<1>4. /\ registry' = Append(registry, r)
      /\ IF once /\ atOnce THEN UNCHANGED <<book, arrays>>
                           ELSE Added(e, once, Len(registry) + 1)
      /\ frames' = IF atOnce THEN <<InCallback>> \o frames ELSE frames
      /\ UNCHANGED <<script, props, thrown, streamCalls>> /\ KeepHandle
  BY <1>2, <1>3 DEF AddListener
<1>5. PICK id \in Nat : id = Len(registry) + 1
  <2>1. Len(registry) \in Nat
    BY DEF StreamInv, ObjectInv
  <2>2. QED
    BY <2>1
<1>6. registry' \in Seq(ListenerRecord) /\ Joins(e, once, id, r) /\ id \notin DOMAIN registry
  <2>1. registry \in Seq(ListenerRecord)
    BY DEF StreamInv, ObjectInv
  <2>2. /\ registry' \in Seq(ListenerRecord)
        /\ DOMAIN registry' = DOMAIN registry \union {id} /\ id \notin DOMAIN registry
        /\ registry'[id] = r /\ \A i \in DOMAIN registry : registry'[i] = registry[i]
    BY <1>4, <1>5, <2>1
  <2>3. QED
    BY <1>3, <2>2 DEF Joins
<1>7. frames' \in Seq(Frame) /\ Emissions(frames') = Emissions(frames)
  <2>1. PICK c : c = InCallback /\ c \in Frame /\ c.at # "emit"
    <3>1. InCallback \in [at : {"callback"}] /\ InCallback.at # "emit"
      BY DEF InCallback
    <3>2. QED
      BY <3>1 DEF Frame
  <2>2. frames \in Seq(Frame)
    BY DEF StreamInv, ObjectInv
  <2>3. <<c>> \o frames \in Seq(Frame) /\ Emissions(<<c>> \o frames) = Emissions(frames)
    BY <2>1, <2>2, EmissionsOfThen
  <2>4. QED
    BY <1>4, <2>1, <2>2, <2>3
<1>8. PICK kept \in BOOLEAN : kept <=> ~(once /\ atOnce)
  OBVIOUS
<1>9. /\ Grown(e, once, id, kept)
      /\ arrays' \in Seq(Seq(Nat)) /\ book' \in [StreamEvents -> [BOOLEAN -> Nat]]
  <2>1. CASE kept
    <3>1. Added(e, once, id)
      BY <1>4, <1>5, <1>8, <2>1
    <3>2. Grown(e, once, id, TRUE)
      BY <1>1, <1>6, <3>1, AddedGrows
    <3>3. arrays' \in Seq(Seq(Nat)) /\ book' \in [StreamEvents -> [BOOLEAN -> Nat]]
      BY <1>1, <1>6, <3>1, AddedIs
    <3>4. QED
      BY <2>1, <3>2, <3>3
  <2>2. CASE ~kept
    <3>1. UNCHANGED <<book, arrays>>
      BY <1>4, <1>8, <2>2
    <3>2. Grown(e, once, id, FALSE)
      BY <1>1, <1>6, <3>1, NoneGrows
    <3>3. QED
      BY <2>2, <3>1, <3>2 DEF StreamInv, ObjectInv
  <2>3. QED
    BY <2>1, <2>2
<1>10. Listens
  BY <1>4, <1>6, <1>7, <1>9 DEF KeepHandle, Listens, StreamInv, ObjectInv
<1>11. /\ ObjectInv' /\ HandleInv'
       /\ \A x : (Happened(x)' <=> Happened(x)) /\ (Terminal(x)' <=> Terminal(x))
  BY <1>10, ListensKeeps
<1>12. UNCHANGED script
  BY <1>4
<1>13. BookInv'
  BY <1>1, <1>6, <1>9, <1>12, BookGrows
<1>14. RunInv'
  BY <1>1, <1>6, <1>7, <1>9, RunGrows
<1>15. OnceListenerInv'
  <2>1. r.heard \in 0..1 /\ (kept /\ once => r.heard = 0)
    BY <1>3, <1>8
  <2>2. QED
    BY <1>1, <1>6, <1>7, <1>9, <1>13, <2>1, OnceGrows
<1>16. EndInv'
  <2>1. Terminal(e) => r.heard = (IF Happened(e) THEN 1 ELSE 0) /\ (Happened(e) \/ kept)
    <3>1. Terminal(e) => (atOnce <=> Happened(e))
      BY <1>2, AtOnceIs
    <3>2. QED
      BY <1>3, <1>8, <3>1
  <2>2. r.excused <=> \E p \in Emissions(frames) : p[2].event = e
    BY <1>3
  <2>3. QED
    BY <1>1, <1>6, <1>7, <1>9, <1>11, <1>12, <2>1, <2>2, EndGrows
<1>17. QED
  BY <1>11, <1>13, <1>14, <1>15, <1>16 DEF StreamInv

----------------------------------------------------------------------------
(* Listeners taken away one by one.                                        *)

(* A sequence without the element at a place.                              *)
LEMMA RemoveAtIs ==
  ASSUME NEW list \in Seq(Nat), NEW k \in DOMAIN list, NEW w, w = RemoveAt(list, k)
  PROVE  /\ w \in Seq(Nat) /\ DOMAIN w = 1..(Len(list) - 1)
         /\ \A i \in 1..(Len(list) - 1) : w[i] = IF i < k THEN list[i] ELSE list[i + 1]
<1> DEFINE l == Len(list)
           a == SubSeq(list, 1, k - 1)
           b == SubSeq(list, k + 1, l)
<1>1. /\ l \in Nat /\ DOMAIN list = 1..l /\ (\A i \in 1..l : list[i] \in Nat)
      /\ k \in Nat /\ 1 <= k /\ k <= l
  <2>1. l \in Nat /\ DOMAIN list = 1..l /\ \A i \in 1..l : list[i] \in Nat
    BY LenProperties, ElementOfSeq
  <2>2. QED
    BY <2>1
<1>2. w = a \o b
  BY DEF RemoveAt
<1> HIDE DEF l
<1>3. /\ a \in Seq(Nat) /\ Len(a) = k - 1
      /\ \A i \in 1..(k - 1) : a[i] = list[i]
  <2>1. 1 \in Int /\ k - 1 \in Int /\ \A i \in 1..(k - 1) : list[i] \in Nat
    BY <1>1
  <2>2. /\ a \in Seq(Nat) /\ Len(a) = IF 1 <= k - 1 THEN (k - 1) - 1 + 1 ELSE 0
        /\ \A i \in 1..((k - 1) - 1 + 1) : a[i] = list[1 + i - 1]
    BY <2>1, SubSeqProperties
  <2>3. /\ (IF 1 <= k - 1 THEN (k - 1) - 1 + 1 ELSE 0) = k - 1
        /\ (k - 1) - 1 + 1 = k - 1 /\ \A i \in 1..(k - 1) : 1 + i - 1 = i
    BY <1>1
  <2>4. QED
    BY <2>2, <2>3
<1>4. /\ b \in Seq(Nat) /\ Len(b) = l - k
      /\ \A i \in 1..(l - k) : b[i] = list[k + i]
  <2>1. k + 1 \in Int /\ l \in Int /\ \A i \in (k + 1)..l : list[i] \in Nat
    BY <1>1
  <2>2. /\ b \in Seq(Nat) /\ Len(b) = IF k + 1 <= l THEN l - (k + 1) + 1 ELSE 0
        /\ \A i \in 1..(l - (k + 1) + 1) : b[i] = list[(k + 1) + i - 1]
    BY <2>1, SubSeqProperties
  <2>3. (IF k + 1 <= l THEN l - (k + 1) + 1 ELSE 0) = l - k
    BY <1>1
  <2>4. l - (k + 1) + 1 = l - k
    BY <1>1
  <2>5. \A i \in 1..(l - k) : (k + 1) + i - 1 = k + i
    BY <1>1
  <2>6. QED
    BY <2>2, <2>3, <2>4, <2>5
<1> HIDE DEF a, b
<1>5. /\ w \in Seq(Nat) /\ Len(w) = Len(a) + Len(b)
      /\ \A i \in 1..(Len(a) + Len(b)) : w[i] = IF i <= Len(a) THEN a[i] ELSE b[i - Len(a)]
  <2>1. a \in Seq(Nat) /\ b \in Seq(Nat)
    BY <1>3, <1>4
  <2>2. /\ a \o b \in Seq(Nat) /\ Len(a \o b) = Len(a) + Len(b)
        /\ \A i \in 1..(Len(a) + Len(b)) :
              (a \o b)[i] = IF i <= Len(a) THEN a[i] ELSE b[i - Len(a)]
    BY <2>1, ConcatProperties
  <2>3. QED
    BY <1>2, <2>2
<1>6. Len(a) + Len(b) = l - 1
  BY <1>1, <1>3, <1>4
<1>7. ASSUME NEW i \in 1..(l - 1)
      PROVE  w[i] = IF i < k THEN list[i] ELSE list[i + 1]
  <2>1. w[i] = IF i <= k - 1 THEN a[i] ELSE b[i - (k - 1)]
    BY <1>3, <1>5, <1>6
  <2>2. CASE i < k
    <3>1. i \in 1..(k - 1) /\ i <= k - 1
      BY <1>1, <2>2
    <3>2. QED
      BY <1>3, <2>1, <2>2, <3>1
  <2>3. CASE ~(i < k)
    <3>1. i - (k - 1) \in 1..(l - k) /\ k + (i - (k - 1)) = i + 1 /\ ~(i <= k - 1)
      BY <1>1, <2>3
    <3>2. QED
      BY <1>4, <2>1, <2>3, <3>1
  <2>4. QED
    BY <2>2, <2>3
<1>8. DOMAIN w = 1..(l - 1)
  BY <1>5, <1>6, LenProperties
<1>9. QED
  BY <1>5, <1>7, <1>8 DEF l

(* A set of numbers has a smallest one.                                    *)
LEMMA SmallestIs ==
  ASSUME NEW S, S \subseteq Nat, S # {}
  PROVE  Min(S) \in S
<1>1. PICK x \in S : \A y \in S : ~ (<<y, x>> \in OpToRel(<, Nat))
  BY NatLessThanWellFounded, WFMin
<1>2. \A y \in S : x <= y
  <2>1. \A y \in S : ~(y < x)
    BY <1>1 DEF OpToRel
  <2>2. QED
    BY <2>1
<1>3. QED
  BY <1>2 DEF Min

(* Where an array has a callback.                                          *)
LEMMA FirstOfIs ==
  ASSUME NEW list \in Seq(Nat), NEW cb
  PROVE  \E k \in Nat : \/ FirstOf(list, cb) = {}
                        \/ FirstOf(list, cb) = {k} /\ k \in DOMAIN list
<1> DEFINE S == {i \in DOMAIN list : registry[list[i]].callback = cb}
<1>1. S \subseteq Nat /\ S \subseteq DOMAIN list
  OBVIOUS
<1>2. FirstOf(list, cb) = IF S = {} THEN {} ELSE {Min(S)}
  BY DEF FirstOf
<1> HIDE DEF S
<1>3. CASE S = {}
  <2>1. 0 \in Nat
    OBVIOUS
  <2>2. QED
    BY <1>2, <1>3, <2>1
<1>4. CASE S # {}
  <2>1. Min(S) \in S
    BY <1>1, <1>4, SmallestIs
  <2>2. Min(S) \in Nat /\ Min(S) \in DOMAIN list
    BY <1>1, <2>1
  <2>3. QED
    BY <1>2, <1>4, <2>2
<1>5. QED
  BY <1>3, <1>4

(* Arrays with at most one element less, the one at gone; where what they  *)
(* have now was before.                                                    *)
Was(gone, a, j) == IF gone[a] = 0 \/ j < gone[a] THEN j ELSE j + 1
Thinned(e, gone) ==
  /\ DOMAIN arrays' = DOMAIN arrays
  /\ \A a \in DOMAIN arrays : gone[a] \in Nat
  /\ \A a \in DOMAIN arrays : \A j \in DOMAIN arrays'[a] :
        Was(gone, a, j) \in DOMAIN arrays[a] /\ arrays'[a][j] = arrays[a][Was(gone, a, j)]
  /\ \A a \in DOMAIN arrays : \A k \in DOMAIN arrays[a] :
        k # gone[a] => \E j \in DOMAIN arrays'[a] : Was(gone, a, j) = k
  /\ \A a \in DOMAIN arrays : gone[a] # 0 =>
        /\ \E o \in BOOLEAN : book[e][o] = a
        /\ gone[a] \in DOMAIN arrays[a] /\ registry'[arrays[a][gone[a]]].excused
        /\ \A p \in Emissions(frames) :
              p[2].list = a /\ gone[a] < p[2].next /\ p[2].next \in DOMAIN arrays[a] =>
                registry'[arrays[a][p[2].next]].excused
  /\ \A x \in StreamEvents, o \in BOOLEAN :
        \/ book'[x][o] = book[x][o] /\ (book'[x][o] # 0 => arrays'[book'[x][o]] # <<>>)
        \/ book'[x][o] = 0 /\ book[x][o] # 0 /\ arrays'[book[x][o]] = <<>>

(* Different places now were different places before.                      *)
LEMMA WasIs ==
  ASSUME StreamInv, NEW e, NEW gone, Thinned(e, gone), arrays' \in Seq(Seq(Nat)),
         NEW a \in DOMAIN arrays
  PROVE  /\ \A j \in DOMAIN arrays'[a] : j \in Nat /\ 1 <= j /\ Was(gone, a, j) \in {j, j + 1}
         /\ \A j, k \in DOMAIN arrays'[a] : Was(gone, a, j) = Was(gone, a, k) => j = k
         /\ gone[a] = 0 => \A j \in DOMAIN arrays'[a] : Was(gone, a, j) = j
<1>1. gone[a] \in Nat /\ a \in DOMAIN arrays'
  BY DEF Thinned
<1>2. \A j \in DOMAIN arrays'[a] : j \in Nat /\ 1 <= j
  BY <1>1, PlaceIs
<1>3. gone[a] = 0 => \A j \in DOMAIN arrays'[a] : Was(gone, a, j) = j
  BY DEF Was
<1>4. \A j \in DOMAIN arrays'[a] : Was(gone, a, j) \in {j, j + 1}
  BY DEF Was
<1>5. \A j, k \in DOMAIN arrays'[a] : Was(gone, a, j) = Was(gone, a, k) => j = k
  <2>1. PICK n \in Nat : n = gone[a]
    BY <1>1
  <2>2. \A j, k \in Nat : (IF n = 0 \/ j < n THEN j ELSE j + 1)
                          = (IF n = 0 \/ k < n THEN k ELSE k + 1) => j = k
    OBVIOUS
  <2>3. \A j \in DOMAIN arrays'[a] : Was(gone, a, j) = IF n = 0 \/ j < n THEN j ELSE j + 1
    BY <2>1 DEF Was
  <2>4. QED
    BY <1>2, <2>2, <2>3
<1>6. QED
  BY <1>2, <1>3, <1>4, <1>5

(* The arrays stay those of the listeners.                                 *)
LEMMA BookThins ==
  ASSUME StreamInv, NEW e \in StreamEvents, NEW gone, Thinned(e, gone), Remembered,
         arrays' \in Seq(Seq(Nat)), UNCHANGED script
  PROVE  BookInv'
<1>1. \A i \in DOMAIN registry' : registry'[i].event \in script.events
  BY DEF StreamInv, BookInv, Remembered
<1>2. DOMAIN arrays' = DOMAIN arrays
  BY DEF Thinned
<1>3. \A a \in DOMAIN arrays : \A j \in DOMAIN arrays'[a] :
        Was(gone, a, j) \in DOMAIN arrays[a] /\ arrays'[a][j] = arrays[a][Was(gone, a, j)]
  BY DEF Thinned
<1>4. \A a \in DOMAIN arrays' : \A j \in DOMAIN arrays'[a] : arrays'[a][j] \in DOMAIN registry'
  BY <1>2, <1>3 DEF StreamInv, BookInv, Remembered
<1>5. ASSUME NEW a \in DOMAIN arrays', NEW b \in DOMAIN arrays',
             NEW j \in DOMAIN arrays'[a], NEW k \in DOMAIN arrays'[b],
             arrays'[a][j] = arrays'[b][k]
      PROVE  a = b /\ j = k
  <2>1. PICK m : m = Was(gone, a, j) /\ m \in DOMAIN arrays[a] /\ arrays'[a][j] = arrays[a][m]
    BY <1>2, <1>3
  <2>2. PICK n : n = Was(gone, b, k) /\ n \in DOMAIN arrays[b] /\ arrays'[b][k] = arrays[b][n]
    BY <1>2, <1>3
  <2>3. a = b /\ m = n
    <3>1. arrays[a][m] = arrays[b][n]
      BY <1>5, <2>1, <2>2
    <3>2. \A c, d \in DOMAIN arrays : \A l \in DOMAIN arrays[c], o \in DOMAIN arrays[d] :
             arrays[c][l] = arrays[d][o] => c = d /\ l = o
      BY DEF StreamInv, BookInv
    <3>3. QED
      BY <1>2, <2>1, <2>2, <3>1, <3>2
  <2>4. QED
    <3>1. \A l, o \in DOMAIN arrays'[a] : Was(gone, a, l) = Was(gone, a, o) => l = o
      BY <1>2, WasIs
    <3>2. QED
      BY <2>1, <2>2, <2>3, <3>1
<1>6. ASSUME NEW x \in StreamEvents, NEW o \in BOOLEAN, book'[x][o] # 0
      PROVE  /\ book'[x][o] \in DOMAIN arrays' /\ arrays'[book'[x][o]] # <<>>
             /\ \A j \in DOMAIN arrays'[book'[x][o]] :
                  LET i == arrays'[book'[x][o]][j]
                  IN registry'[i].event = x /\ registry'[i].once = o
  <2>1. PICK a : a = book'[x][o] /\ a = book[x][o] /\ a # 0 /\ arrays'[a] # <<>>
    BY <1>6 DEF Thinned
  <2>2. /\ a \in DOMAIN arrays
        /\ \A k \in DOMAIN arrays[a] :
             LET i == arrays[a][k] IN registry[i].event = x /\ registry[i].once = o
    BY <2>1, BookFacts DEF StreamInv
  <2>3. \A k \in DOMAIN arrays[a] : arrays[a][k] \in DOMAIN registry
    BY <2>2 DEF StreamInv, BookInv
  <2>4. \A j \in DOMAIN arrays'[a] :
             LET i == arrays'[a][j] IN registry'[i].event = x /\ registry'[i].once = o
    <3> SUFFICES ASSUME NEW j \in DOMAIN arrays'[a]
                 PROVE  LET i == arrays'[a][j]
                        IN registry'[i].event = x /\ registry'[i].once = o
      OBVIOUS
    <3>1. PICK k \in DOMAIN arrays[a] : arrays'[a][j] = arrays[a][k]
      BY <1>3, <2>2
    <3>2. PICK i \in DOMAIN registry :
            i = arrays[a][k] /\ registry[i].event = x /\ registry[i].once = o
      BY <2>2, <2>3
    <3>3. QED
      BY <3>1, <3>2 DEF Remembered
  <2>5. QED
    BY <1>2, <2>1, <2>2, <2>4
<1>7. QED
  BY <1>1, <1>4, <1>5, <1>6 DEF BookInv

(* An emission runs over listeners of its event still.                     *)
LEMMA RunThins ==
  ASSUME StreamInv, NEW e \in StreamEvents, NEW gone, Thinned(e, gone), Remembered,
         Emissions(frames') = Emissions(frames)
  PROVE  RunInv'
<1>1. ASSUME NEW p \in Emissions(frames), p[2].list # 0
      PROVE  /\ p[2].list \in DOMAIN arrays'
             /\ \A j \in DOMAIN arrays'[p[2].list] :
                   LET i == arrays'[p[2].list][j]
                   IN registry'[i].event = p[2].event /\ registry'[i].once = p[2].once
  <2>1. PICK a : a = p[2].list /\ a \in DOMAIN arrays
    BY <1>1 DEF StreamInv, RunInv
  <2>2. \A j \in DOMAIN arrays[a] :
           LET i == arrays[a][j] IN registry[i].event = p[2].event /\ registry[i].once = p[2].once
    BY <1>1, <2>1 DEF StreamInv, RunInv
  <2>3. \A k \in DOMAIN arrays[a] : arrays[a][k] \in DOMAIN registry
    BY <2>1 DEF StreamInv, BookInv
  <2>4. \A j \in DOMAIN arrays'[a] :
          Was(gone, a, j) \in DOMAIN arrays[a] /\ arrays'[a][j] = arrays[a][Was(gone, a, j)]
    BY <2>1 DEF Thinned
  <2>5. \A j \in DOMAIN arrays'[a] :
           LET i == arrays'[a][j]
           IN registry'[i].event = p[2].event /\ registry'[i].once = p[2].once
    BY <2>2, <2>3, <2>4 DEF Remembered
  <2>6. QED
    BY <2>1, <2>5 DEF Thinned
<1>2. QED
  BY <1>1 DEF RunInv

(* Nobody is put back into an array of once listeners.                     *)
LEMMA OnceThins ==
  ASSUME StreamInv, NEW e \in StreamEvents, NEW gone, Thinned(e, gone), Remembered,
         arrays' \in Seq(Seq(Nat)), Emissions(frames') = Emissions(frames),
         \A id \in DOMAIN registry : registry'[id].heard = registry[id].heard
  PROVE  OnceListenerInv'
<1> DEFINE E == Emissions(frames)
<1>1. Emissions(frames)' = E
  OBVIOUS
<1> HIDE DEF E
<1>2. \A i \in DOMAIN registry' : registry'[i].once => registry'[i].heard <= 1
  BY DEF StreamInv, OnceListenerInv, Remembered
<1>3. \A a \in DOMAIN arrays : \A j \in DOMAIN arrays'[a] :
        Was(gone, a, j) \in DOMAIN arrays[a] /\ arrays'[a][j] = arrays[a][Was(gone, a, j)]
  BY DEF Thinned
<1>4. ASSUME NEW x \in StreamEvents, book'[x][TRUE] # 0,
             NEW j \in DOMAIN arrays'[book'[x][TRUE]]
      PROVE  registry'[arrays'[book'[x][TRUE]][j]].heard = 0
  <2>1. PICK o \in BOOLEAN : o = TRUE
    OBVIOUS
  <2>2. PICK a : a = book'[x][o] /\ a = book[x][o] /\ a # 0
    BY <1>4, <2>1 DEF Thinned
  <2>3. a \in DOMAIN arrays
    BY <2>2, BookFacts DEF StreamInv
  <2>4. PICK k \in DOMAIN arrays[a] : arrays'[a][j] = arrays[a][k]
    BY <1>3, <1>4, <2>1, <2>2, <2>3
  <2>5. a = book[x][TRUE]
    BY <2>1, <2>2
  <2>6. registry[arrays[a][k]].heard = 0
    <3>1. \A y \in StreamEvents : book[y][TRUE] # 0 =>
            \A i \in DOMAIN arrays[book[y][TRUE]] : registry[arrays[book[y][TRUE]][i]].heard = 0
      BY DEF StreamInv, OnceListenerInv
    <3>2. QED
      BY <2>2, <2>5, <3>1
  <2>7. arrays[a][k] \in DOMAIN registry
    BY <2>3 DEF StreamInv, BookInv
  <2>8. QED
    BY <2>1, <2>2, <2>4, <2>6, <2>7
<1>5. ASSUME NEW p \in E, p[2].once, p[2].list # 0
      PROVE  /\ \A x \in StreamEvents, o \in BOOLEAN : book'[x][o] # p[2].list
             /\ \A j \in DOMAIN arrays'[p[2].list] :
                   p[2].next <= j => registry'[arrays'[p[2].list][j]].heard = 0
             /\ \A q \in E : q[2].once /\ q[2].list = p[2].list => q = p
  <2>1. PICK a : a = p[2].list /\ a \in DOMAIN arrays /\ a # 0
    BY <1>5 DEF StreamInv, RunInv, E
  <2>2. /\ \A x \in StreamEvents, o \in BOOLEAN : book[x][o] # a
        /\ \A j \in DOMAIN arrays[a] : p[2].next <= j => registry[arrays[a][j]].heard = 0
        /\ \A q \in E : q[2].once /\ q[2].list = a => q = p
    BY <1>5, <2>1 DEF StreamInv, OnceListenerInv, E
  <2>3. \A x \in StreamEvents, o \in BOOLEAN : book'[x][o] # a
    BY <2>1, <2>2 DEF Thinned
  <2>4. gone[a] = 0
    BY <2>1, <2>2 DEF Thinned
  <2>5. ASSUME NEW j \in DOMAIN arrays'[a], p[2].next <= j
        PROVE  registry'[arrays'[a][j]].heard = 0
    <3>1. j \in DOMAIN arrays[a] /\ arrays'[a][j] = arrays[a][j]
      BY <1>3, <2>1, <2>4, WasIs
    <3>2. arrays[a][j] \in DOMAIN registry /\ registry[arrays[a][j]].heard = 0
      BY <2>1, <2>2, <2>5, <3>1 DEF StreamInv, BookInv
    <3>3. QED
      BY <3>1, <3>2
  <2>6. QED
    BY <2>1, <2>2, <2>3, <2>5
<1>6. QED
  BY <1>1, <1>2, <1>4, <1>5 DEF OnceListenerInv

(* Who is not excused has his place still.                                 *)
LEMMA ListedThins ==
  ASSUME StreamInv, NEW e \in StreamEvents, NEW gone, Thinned(e, gone),
         arrays' \in Seq(Seq(Nat)), NEW i \in DOMAIN registry, ~registry'[i].excused
  PROVE  /\ \A x \in StreamEvents, o \in BOOLEAN :
               Listed(book[x][o], 1, i)' <=> Listed(book[x][o], 1, i)
         /\ \A p \in Emissions(frames) :
               Listed(p[2].list, p[2].next, i)' <=> Listed(p[2].list, p[2].next, i)
<1>1. \A a \in DOMAIN arrays : \A j \in DOMAIN arrays'[a] :
        Was(gone, a, j) \in DOMAIN arrays[a] /\ arrays'[a][j] = arrays[a][Was(gone, a, j)]
  BY DEF Thinned
<1>2. ASSUME NEW a \in DOMAIN arrays, NEW k \in DOMAIN arrays[a], arrays[a][k] = i
      PROVE  \E j \in DOMAIN arrays'[a] : Was(gone, a, j) = k
  <2>1. k \in Nat /\ 1 <= k
    <3>1. arrays \in Seq(Seq(Nat))
      BY DEF StreamInv, ObjectInv
    <3>2. QED
      BY <3>1, PlaceIs
  <2>2. k # gone[a]
    <3> SUFFICES ASSUME k = gone[a] PROVE FALSE
      OBVIOUS
    <3>1. gone[a] # 0
      BY <2>1
    <3>2. registry'[arrays[a][gone[a]]].excused
      BY <3>1 DEF Thinned
    <3>3. QED
      BY <1>2, <3>2
  <2>3. QED
    BY <2>2 DEF Thinned
<1>3. ASSUME NEW a \in DOMAIN arrays PROVE Listed(a, 1, i)' <=> Listed(a, 1, i)
  <2>1. a # 0
    BY <1>3 DEF StreamInv, ObjectInv
  <2>2. ASSUME NEW j \in DOMAIN arrays'[a], arrays'[a][j] = i
        PROVE  \E k \in DOMAIN arrays[a] : 1 <= k /\ arrays[a][k] = i
    <3>1. j \in Nat /\ 1 <= j /\ Was(gone, a, j) \in {j, j + 1}
      BY WasIs
    <3>2. 1 <= Was(gone, a, j)
      BY <3>1
    <3>3. QED
      BY <1>1, <2>2, <3>2
  <2>3. ASSUME NEW k \in DOMAIN arrays[a], arrays[a][k] = i
        PROVE  \E j \in DOMAIN arrays'[a] : 1 <= j /\ arrays'[a][j] = i
    <3>1. PICK j \in DOMAIN arrays'[a] : Was(gone, a, j) = k
      BY <1>2, <2>3
    <3>2. 1 <= j
      BY WasIs
    <3>3. QED
      BY <1>1, <2>3, <3>1, <3>2
  <2>4. QED
    BY <2>1, <2>2, <2>3 DEF Listed
<1>4. ASSUME NEW x \in StreamEvents, NEW o \in BOOLEAN
      PROVE  Listed(book[x][o], 1, i)' <=> Listed(book[x][o], 1, i)
  <2>1. PICK a : a = book[x][o] /\ (a # 0 => a \in DOMAIN arrays)
    BY BookFacts DEF StreamInv
  <2>2. ~Listed(0, 1, i) /\ ~Listed(0, 1, i)'
    BY DEF Listed
  <2>3. CASE book'[x][o] = a
    <3>1. Listed(a, 1, i)' <=> Listed(a, 1, i)
      BY <1>3, <2>1, <2>2
    <3>2. QED
      BY <2>1, <2>3, <3>1
  <2>4. CASE book'[x][o] = 0 /\ a # 0 /\ arrays'[a] = <<>>
    <3>1. ~Listed(a, 1, i)'
      BY <2>4 DEF Listed
    <3>2. ~Listed(a, 1, i)
      BY <1>3, <2>1, <2>4, <3>1
    <3>3. PICK z : z = book'[x][o] /\ z = 0
      BY <2>4
    <3>4. ~Listed(z, 1, i)'
      BY <2>2, <3>3
    <3>5. QED
      BY <2>1, <3>2, <3>3, <3>4
  <2>5. QED
    BY <2>1, <2>3, <2>4 DEF Thinned
<1>5. ASSUME NEW p \in Emissions(frames)
      PROVE  Listed(p[2].list, p[2].next, i)' <=> Listed(p[2].list, p[2].next, i)
  <2>1. PICK a \in Nat, n \in Nat : a = p[2].list /\ n = p[2].next /\ (a # 0 => a \in DOMAIN arrays)
    BY EmissionFacts DEF StreamInv, RunInv
  <2>2. CASE a = 0
    BY <2>1, <2>2 DEF Listed
  <2>3. CASE a # 0
    <3>1. a \in DOMAIN arrays
      BY <2>1, <2>3
    <3>2. ASSUME NEW j \in DOMAIN arrays'[a], n <= j, arrays'[a][j] = i
          PROVE  \E k \in DOMAIN arrays[a] : n <= k /\ arrays[a][k] = i
      <4>1. j \in Nat /\ Was(gone, a, j) \in {j, j + 1}
        BY <3>1, WasIs
      <4>2. n <= Was(gone, a, j)
        BY <3>2, <4>1
      <4>3. QED
        BY <1>1, <3>1, <3>2, <4>2
    <3>3. ASSUME NEW k \in DOMAIN arrays[a], n <= k, arrays[a][k] = i
          PROVE  \E j \in DOMAIN arrays'[a] : n <= j /\ arrays'[a][j] = i
      <4>1. PICK j \in DOMAIN arrays'[a] : Was(gone, a, j) = k
        BY <1>2, <3>1, <3>3
      <4>2. j \in Nat /\ gone[a] \in Nat
        BY <3>1, WasIs DEF Thinned
      <4>3. n <= j
        <5>1. CASE gone[a] = 0 \/ j < gone[a]
          BY <3>3, <4>1, <5>1 DEF Was
        <5>2. CASE gone[a] # 0 /\ ~(j < gone[a])
          <6>1. k = j + 1 /\ gone[a] < k
            BY <4>1, <4>2, <5>2 DEF Was
          <6>2. k # n
            <7> SUFFICES ASSUME k = n PROVE FALSE
              OBVIOUS
            <7>1. \A q \in Emissions(frames) :
                    q[2].list = a /\ gone[a] < q[2].next /\ q[2].next \in DOMAIN arrays[a] =>
                      registry'[arrays[a][q[2].next]].excused
              BY <3>1, <5>2 DEF Thinned
            <7>2. registry'[arrays[a][p[2].next]].excused
              BY <2>1, <3>3, <6>1, <7>1
            <7>3. QED
              BY <2>1, <3>3, <7>2
          <6>3. QED
            BY <3>3, <4>2, <6>1, <6>2
        <5>3. QED
          BY <5>1, <5>2
      <4>4. QED
        BY <1>1, <3>1, <3>3, <4>1, <4>3
    <3>4. QED
      BY <2>1, <2>3, <3>2, <3>3 DEF Listed
  <2>4. QED
    BY <2>2, <2>3
<1>6. QED
  BY <1>4, <1>5

(* Who is not excused is told as before.                                   *)
LEMMA EndThins ==
  ASSUME StreamInv, NEW e \in StreamEvents, NEW gone, Thinned(e, gone), Remembered,
         arrays' \in Seq(Seq(Nat)), Emissions(frames') = Emissions(frames), UNCHANGED script,
         \A id \in DOMAIN registry :
            registry'[id].heard = registry[id].heard /\ (registry[id].excused => registry'[id].excused),
         \A x : (Happened(x)' <=> Happened(x)) /\ (Terminal(x)' <=> Terminal(x))
  PROVE  EndInv'
<1> DEFINE E == Emissions(frames)
<1>1. Emissions(frames)' = E
  OBVIOUS
<1> HIDE DEF E
<1> SUFFICES ASSUME NEW x \in script.events, Terminal(x)'
             PROVE  IF Happened(x)' THEN Told(x)' ELSE Waiting(x)'
  BY DEF EndInv
<1>2. Terminal(x) /\ x \in StreamEvents
  BY ScriptFacts DEF StreamInv, ObjectInv
<1>3. ASSUME NEW i \in DOMAIN registry', registry'[i].event = x, ~registry'[i].excused
      PROVE  /\ i \in DOMAIN registry /\ registry[i].event = x /\ ~registry[i].excused
             /\ registry'[i].heard = registry[i].heard /\ registry'[i].once = registry[i].once
             /\ \A y \in StreamEvents, o \in BOOLEAN :
                   Listed(book[y][o], 1, i)' <=> Listed(book[y][o], 1, i)
             /\ \A p \in E :
                   Listed(p[2].list, p[2].next, i)' <=> Listed(p[2].list, p[2].next, i)
  <2>1. i \in DOMAIN registry
    BY <1>3 DEF Remembered
  <2>2. QED
    BY <1>3, <2>1, ListedThins DEF Remembered, E
<1>4. CASE ~Happened(x)
  <2>1. Waiting(x)
    BY <1>2, <1>4 DEF StreamInv, EndInv
  <2>2. \A p \in E : p[2].event # x
    BY <2>1 DEF Waiting, E
  <2>3. ASSUME NEW i \in DOMAIN registry', registry'[i].event = x, ~registry'[i].excused
        PROVE  registry'[i].heard = 0 /\ Listed(book[x][registry[i].once], 1, i)'
    <3>1. PICK o \in BOOLEAN : o = registry[i].once /\ o = registry'[i].once
      BY <1>3, <2>3, ListenerFacts DEF StreamInv
    <3>2. registry[i].heard = 0 /\ Listed(book[x][o], 1, i)
      BY <1>3, <2>1, <2>3, <3>1 DEF Waiting
    <3>3. Listed(book[x][o], 1, i)'
      BY <1>2, <1>3, <2>3, <3>2
    <3>4. QED
      BY <1>3, <2>3, <3>1, <3>2, <3>3
  <2>4. Waiting(x)'
    BY <1>1, <2>2, <2>3 DEF Waiting
  <2>5. QED
    BY <1>4, <2>4
<1>5. CASE Happened(x)
  <2>1. Told(x)
    BY <1>2, <1>5 DEF StreamInv, EndInv
  <2>2. \A p, q \in E : p[2].event = x /\ q[2].event = x => p = q
    BY <2>1 DEF Told, E
  <2>3. ASSUME NEW i \in DOMAIN registry', registry'[i].event = x, ~registry'[i].excused
        PROVE  /\ registry'[i].heard <= 1
               /\ registry'[i].heard = 0 <=> \E p \in E : p[2].event = x /\ Owes(p[2], i)'
    <3>1. /\ registry[i].heard <= 1
          /\ registry[i].heard = 0 <=> \E p \in E : p[2].event = x /\ Owes(p[2], i)
      BY <1>3, <2>1, <2>3 DEF Told, E
    <3>2. ASSUME NEW p \in E PROVE Owes(p[2], i)' <=> Owes(p[2], i)
      <4>1. PICK h : h = p[2]
        OBVIOUS
      <4>2. h.event \in StreamEvents
        BY <4>1, EmissionFacts DEF StreamInv, E
      <4>3. Listed(h.list, h.next, i)' <=> Listed(h.list, h.next, i)
        BY <1>3, <2>3, <4>1
      <4>4. PICK o \in BOOLEAN : o = TRUE
        OBVIOUS
      <4>5. Listed(book[h.event][o], 1, i)' <=> Listed(book[h.event][o], 1, i)
        BY <1>3, <2>3, <4>2
      <4>6. Listed(book[h.event][TRUE], 1, i)' <=> Listed(book[h.event][TRUE], 1, i)
        BY <4>4, <4>5
      <4>7. registry'[i].once = registry[i].once
        BY <1>3, <2>3
      <4>8. Owes(h, i)' <=> Owes(h, i)
        BY <4>3, <4>6, <4>7 DEF Owes
      <4>9. QED
        BY <4>1, <4>8
    <3>3. QED
      BY <1>3, <2>3, <3>1, <3>2
  <2>4. Told(x)'
    BY <1>1, <2>2, <2>3 DEF Told
  <2>5. QED
    BY <1>5, <2>4
<1>6. QED
  BY <1>4, <1>5

(* What off takes out of each array of the event, and who is excused.      *)
OffLists(e) == {book[e][FALSE], book[e][TRUE]} \ {0}
Takes(e, cb, gone) ==
  \A a \in DOMAIN arrays :
     /\ gone[a] \in Nat
     /\ a \in OffLists(e) => FirstOf(arrays[a], cb) = IF gone[a] = 0 THEN {} ELSE {gone[a]}
     /\ gone[a] # 0 => a \in OffLists(e) /\ gone[a] \in DOMAIN arrays[a]
     /\ arrays'[a] = IF gone[a] = 0 THEN arrays[a] ELSE RemoveAt(arrays[a], gone[a])

(* off takes the first listener with the callback out of each array.       *)
LEMMA OffTakes ==
  ASSUME StreamInv, NEW e \in StreamEvents, NEW cb, Off(e, cb)
  PROVE  \E gone : Takes(e, cb, gone)
<1> DEFINE F(a) == FirstOf(arrays[a], cb)
           gone == [a \in DOMAIN arrays |->
                      IF a \in OffLists(e) /\ F(a) # {} THEN CHOOSE i \in F(a) : TRUE ELSE 0]
<1>1. arrays \in Seq(Seq(Nat))
  BY DEF StreamInv, ObjectInv
<1>2. \A a \in DOMAIN arrays :
        arrays'[a] = IF a \in OffLists(e)
                     THEN IF F(a) = {} THEN arrays[a]
                                       ELSE RemoveAt(arrays[a], CHOOSE i \in F(a) : TRUE)
                     ELSE arrays[a]
  <2>1. PICK lists, found :
          /\ lists = OffLists(e) /\ found = [a \in lists |-> F(a)]
          /\ arrays' = [a \in DOMAIN arrays |->
                          IF a \in lists
                          THEN IF found[a] = {} THEN arrays[a]
                                               ELSE RemoveAt(arrays[a], CHOOSE i \in found[a] : TRUE)
                          ELSE arrays[a]]
    BY Zenon DEF Off, OffLists
  <2>2. \A a \in lists : found[a] = F(a)
    BY <2>1, Zenon
  <2>3. ASSUME NEW a \in DOMAIN arrays
        PROVE  arrays'[a] = IF a \in OffLists(e)
                            THEN IF F(a) = {} THEN arrays[a]
                                              ELSE RemoveAt(arrays[a], CHOOSE i \in F(a) : TRUE)
                            ELSE arrays[a]
    <3>1. arrays'[a] = IF a \in lists
                       THEN IF found[a] = {} THEN arrays[a]
                                             ELSE RemoveAt(arrays[a], CHOOSE i \in found[a] : TRUE)
                       ELSE arrays[a]
      BY <2>1, Zenon
    <3>2. CASE a \in lists
      <4>1. found[a] = F(a)
        BY <2>2, <3>2
      <4> HIDE DEF F
      <4>2. QED
        BY <2>1, <3>1, <3>2, <4>1
    <3>3. CASE a \notin lists
      BY <2>1, <3>1, <3>3
    <3>4. QED
      BY <3>2, <3>3
  <2>4. QED
    BY <2>3
<1>3. ASSUME NEW a \in DOMAIN arrays
      PROVE  /\ gone[a] \in Nat
             /\ a \in OffLists(e) => F(a) = IF gone[a] = 0 THEN {} ELSE {gone[a]}
             /\ gone[a] # 0 => a \in OffLists(e) /\ gone[a] \in DOMAIN arrays[a]
             /\ arrays'[a] = IF gone[a] = 0 THEN arrays[a] ELSE RemoveAt(arrays[a], gone[a])
  <2>1. arrays[a] \in Seq(Nat)
    BY <1>1, <1>3
  <2>2. PICK list \in Seq(Nat) : list = arrays[a]
    BY <2>1
  <2>3. PICK k \in Nat : \/ FirstOf(list, cb) = {}
                         \/ FirstOf(list, cb) = {k} /\ k \in DOMAIN list
    BY FirstOfIs
  <2>4. F(a) = {} \/ (F(a) = {k} /\ k \in DOMAIN arrays[a])
    BY <2>2, <2>3
  <2>5. gone[a] = IF a \in OffLists(e) /\ F(a) # {} THEN CHOOSE i \in F(a) : TRUE ELSE 0
    BY <1>3
  <2>6. k \in DOMAIN arrays[a] => k # 0
    BY <2>1
  <2> HIDE DEF F, gone
  <2>7. CASE a \in OffLists(e) /\ F(a) # {}
    <3>1. F(a) = {k} /\ k \in DOMAIN arrays[a]
      BY <2>4, <2>7
    <3>2. gone[a] = k
      BY <2>5, <2>7, <3>1
    <3>3. arrays'[a] = RemoveAt(arrays[a], gone[a])
      BY <1>2, <2>5, <2>7
    <3>4. QED
      BY <2>6, <2>7, <3>1, <3>2, <3>3
  <2>8. CASE ~(a \in OffLists(e) /\ F(a) # {})
    <3>1. gone[a] = 0
      BY <2>5, <2>8
    <3>2. arrays'[a] = arrays[a]
      BY <1>2, <2>8
    <3>3. QED
      BY <2>8, <3>1, <3>2
  <2>9. QED
    BY <2>7, <2>8
<1>4. Takes(e, cb, gone)
  BY <1>3 DEF Takes
<1>5. QED
  BY <1>4

(* The arrays after off.                                                   *)
LEMMA OffArrays ==
  ASSUME StreamInv, NEW e \in StreamEvents, NEW cb, Off(e, cb), NEW gone, Takes(e, cb, gone)
  PROVE  /\ arrays' \in Seq(Seq(Nat)) /\ DOMAIN arrays' = DOMAIN arrays
         /\ \A a \in DOMAIN arrays : \A j \in DOMAIN arrays'[a] :
               Was(gone, a, j) \in DOMAIN arrays[a] /\ arrays'[a][j] = arrays[a][Was(gone, a, j)]
         /\ \A a \in DOMAIN arrays : \A k \in DOMAIN arrays[a] :
               k # gone[a] => \E j \in DOMAIN arrays'[a] : Was(gone, a, j) = k
<1>1. arrays \in Seq(Seq(Nat))
  BY DEF StreamInv, ObjectInv
<1>2. DOMAIN arrays' = DOMAIN arrays /\ arrays' = [a \in DOMAIN arrays |-> arrays'[a]]
  BY DEF Off
<1>3. ASSUME NEW a \in DOMAIN arrays
      PROVE  /\ arrays'[a] \in Seq(Nat)
             /\ \A j \in DOMAIN arrays'[a] :
                  Was(gone, a, j) \in DOMAIN arrays[a] /\ arrays'[a][j] = arrays[a][Was(gone, a, j)]
             /\ \A k \in DOMAIN arrays[a] :
                  k # gone[a] => \E j \in DOMAIN arrays'[a] : Was(gone, a, j) = k
  <2>1. PICK list \in Seq(Nat) : list = arrays[a]
    BY <1>1, <1>3
  <2>2. PICK k \in Nat : k = gone[a]
    BY <1>3 DEF Takes
  <2>3. k # 0 => k \in DOMAIN list
    BY <1>3, <2>1, <2>2 DEF Takes
  <2>4. arrays'[a] = IF k = 0 THEN list ELSE RemoveAt(list, k)
    BY <1>3, <2>1, <2>2 DEF Takes
  <2>5. CASE k = 0
    BY <2>1, <2>2, <2>4, <2>5 DEF Was
  <2>6. CASE k # 0
    <3>1. PICK w : w = RemoveAt(list, k) /\ w = arrays'[a]
      BY <2>4, <2>6
    <3>2. k \in DOMAIN list
      BY <2>3, <2>6
    <3>3. /\ w \in Seq(Nat) /\ DOMAIN w = 1..(Len(list) - 1)
          /\ \A i \in 1..(Len(list) - 1) : w[i] = IF i < k THEN list[i] ELSE list[i + 1]
      BY <3>1, <3>2, RemoveAtIs
    <3>4. DOMAIN list = 1..Len(list) /\ Len(list) \in Nat
      OBVIOUS
    <3>5. PICK l \in Nat : l = Len(list)
      BY <3>4
    <3>6. ASSUME NEW j \in DOMAIN w
          PROVE  Was(gone, a, j) \in DOMAIN list /\ w[j] = list[Was(gone, a, j)]
      <4>1. j \in 1..(l - 1)
        BY <3>3, <3>5, <3>6
      <4>2. Was(gone, a, j) = IF j < k THEN j ELSE j + 1
        BY <2>2, <2>6 DEF Was
      <4>3. (IF j < k THEN j ELSE j + 1) \in 1..l
        BY <4>1
      <4>4. w[j] = IF j < k THEN list[j] ELSE list[j + 1]
        BY <3>3, <3>6
      <4>5. QED
        BY <3>4, <3>5, <4>2, <4>3, <4>4
    <3>7. ASSUME NEW m \in DOMAIN list, m # k
          PROVE  \E j \in DOMAIN w : Was(gone, a, j) = m
      <4>1. m \in 1..l /\ k \in 1..l
        BY <3>2, <3>4, <3>5
      <4>2. PICK j : j = IF m < k THEN m ELSE m - 1
        OBVIOUS
      <4>3. j \in 1..(l - 1) /\ (IF j < k THEN j ELSE j + 1) = m
        BY <3>7, <4>1, <4>2
      <4>4. Was(gone, a, j) = m
        BY <2>2, <2>6, <4>3 DEF Was
      <4>5. QED
        BY <3>3, <3>5, <4>3, <4>4
    <3>8. QED
      BY <2>1, <2>2, <3>1, <3>3, <3>6, <3>7
  <2>7. QED
    BY <2>5, <2>6
<1>4. arrays' \in Seq(Seq(Nat))
  <2>1. DOMAIN arrays = 1..Len(arrays) /\ Len(arrays) \in Nat
    BY <1>1
  <2>2. QED
    BY <1>2, <1>3, <2>1
<1>5. QED
  BY <1>2, <1>3, <1>4

(* The keys after off: an array that is empty now leaves the object.       *)
LEMMA OffBook ==
  ASSUME StreamInv, NEW e \in StreamEvents, NEW cb, Off(e, cb)
  PROVE  /\ book' \in [StreamEvents -> [BOOLEAN -> Nat]]
         /\ \A x \in StreamEvents, o \in BOOLEAN :
               book'[x][o] = IF x = e /\ book[e][o] # 0 /\ arrays'[book[e][o]] = <<>>
                             THEN 0 ELSE book[x][o]
<1> DEFINE F(a) == FirstOf(arrays[a], cb)
           lists == {book[e][FALSE], book[e][TRUE]} \ {0}
           found == [a \in lists |-> F(a)]
           W(a) == IF found[a] = {} THEN arrays[a]
                                    ELSE RemoveAt(arrays[a], CHOOSE i \in found[a] : TRUE)
           Key(k) == IF k \in lists /\ W(k) = <<>> THEN 0 ELSE k
<1>1. /\ lists = OffLists(e)
      /\ arrays' = [a \in DOMAIN arrays |-> IF a \in lists THEN W(a) ELSE arrays[a]]
      /\ book' = [book EXCEPT ![e] = [once \in BOOLEAN |-> Key(book[e][once])]]
  BY DEF Off, OffLists
<1> HIDE DEF F, lists, found, W
<1>2. book \in [StreamEvents -> [BOOLEAN -> Nat]]
  BY DEF StreamInv, ObjectInv
<1>3. PICK new : new = [once \in BOOLEAN |-> Key(book[e][once])]
  OBVIOUS
<1>4. book' = [book EXCEPT ![e] = new]
  BY <1>1, <1>3
<1>5. ASSUME NEW o \in BOOLEAN
      PROVE  /\ new[o] = IF book[e][o] # 0 /\ arrays'[book[e][o]] = <<>> THEN 0 ELSE book[e][o]
             /\ new[o] \in Nat
  <2>1. PICK a \in Nat : a = book[e][o]
    BY <1>2
  <2>2. new[o] = IF a \in lists /\ W(a) = <<>> THEN 0 ELSE a
    BY <1>3, <2>1
  <2>3. a \in lists <=> a # 0
    BY <1>1, <2>1 DEF OffLists
  <2>4. a # 0 => a \in DOMAIN arrays
    BY <2>1, BookFacts DEF StreamInv
  <2>5. a # 0 => arrays'[a] = W(a)
    BY <1>1, <2>3, <2>4
  <2>6. new[o] = IF a # 0 /\ arrays'[a] = <<>> THEN 0 ELSE a
    BY <2>2, <2>3, <2>5
  <2>7. QED
    BY <2>1, <2>6
<1>6. new \in [BOOLEAN -> Nat]
  <2>1. new = [o \in BOOLEAN |-> new[o]]
    BY <1>3
  <2>2. QED
    BY <1>5, <2>1
<1>7. book' \in [StreamEvents -> [BOOLEAN -> Nat]]
  BY <1>2, <1>4, <1>6
<1>8. \A x \in StreamEvents : book'[x] = IF x = e THEN new ELSE book[x]
  BY <1>2, <1>4
<1>9. QED
  BY <1>5, <1>7, <1>8

(* Who is excused by off: those taken out, and those passed over.          *)
LEMMA OffExcuses ==
  ASSUME StreamInv, NEW e \in StreamEvents, NEW cb, Off(e, cb), NEW gone, Takes(e, cb, gone)
  PROVE  /\ registry' \in Seq(ListenerRecord) /\ Remembered
         /\ \A id \in DOMAIN registry :
               /\ registry'[id].heard = registry[id].heard
               /\ registry[id].excused => registry'[id].excused
         /\ \A a \in DOMAIN arrays : gone[a] # 0 =>
               /\ registry'[arrays[a][gone[a]]].excused
               /\ \A p \in Emissions(frames) :
                     p[2].list = a /\ gone[a] < p[2].next /\ p[2].next \in DOMAIN arrays[a] =>
                       registry'[arrays[a][p[2].next]].excused
<1> DEFINE F(a) == FirstOf(arrays[a], cb)
           lists == {book[e][FALSE], book[e][TRUE]} \ {0}
           found == [a \in lists |-> F(a)]
           ids == UNION {UNION {{arrays[a][i]} \union PassedOver(a, i) : i \in found[a]} : a \in lists}
<1>1. lists = OffLists(e) /\ registry' = Excused(registry, ids)
  BY DEF Off, OffLists
<1> HIDE DEF F, lists
<1>2. \A a \in lists : found[a] = F(a)
  OBVIOUS
<1> HIDE DEF found
<1>3. \A a \in lists : \A i \in found[a] : {arrays[a][i]} \union PassedOver(a, i) \subseteq ids
  <2>1. PICK X : X = [a \in lists |->
                        UNION {{arrays[a][i]} \union PassedOver(a, i) : i \in found[a]}]
    OBVIOUS
  <2>2. \A a \in lists :
           X[a] = UNION {{arrays[a][i]} \union PassedOver(a, i) : i \in found[a]}
    BY <2>1
  <2>3. ids = UNION {X[a] : a \in lists}
    BY <2>2
  <2>4. \A a \in lists : X[a] \subseteq ids
    BY <2>3
  <2>5. ASSUME NEW a \in lists, NEW i \in found[a]
        PROVE  {arrays[a][i]} \union PassedOver(a, i) \subseteq X[a]
    BY <2>2
  <2>6. QED
    BY <2>4, <2>5
<1> HIDE DEF ids
<1>4. /\ registry' \in Seq(ListenerRecord) /\ DOMAIN registry' = DOMAIN registry
      /\ \A id \in DOMAIN registry :
            /\ registry'[id].event = registry[id].event /\ registry'[id].once = registry[id].once
            /\ registry'[id].heard = registry[id].heard
            /\ registry'[id].excused <=> registry[id].excused \/ id \in ids
  BY <1>1, ExcusedIs DEF StreamInv
<1>5. ASSUME NEW a \in DOMAIN arrays, gone[a] # 0
      PROVE  /\ registry'[arrays[a][gone[a]]].excused
             /\ \A p \in Emissions(frames) :
                   p[2].list = a /\ gone[a] < p[2].next /\ p[2].next \in DOMAIN arrays[a] =>
                     registry'[arrays[a][p[2].next]].excused
  <2>1. a \in OffLists(e) /\ gone[a] \in DOMAIN arrays[a] /\ FirstOf(arrays[a], cb) = {gone[a]}
    BY <1>5 DEF Takes
  <2>2. a \in lists /\ gone[a] \in found[a]
    BY <1>1, <1>2, <2>1 DEF F
  <2>3. arrays[a][gone[a]] \in ids /\ PassedOver(a, gone[a]) \subseteq ids
    BY <1>3, <2>2
  <2>4. \A k \in DOMAIN arrays[a] : arrays[a][k] \in DOMAIN registry
    BY DEF StreamInv, BookInv
  <2>5. ASSUME NEW p \in Emissions(frames), p[2].list = a, gone[a] < p[2].next,
               p[2].next \in DOMAIN arrays[a]
        PROVE  arrays[a][p[2].next] \in ids
    <3>1. PICK n \in 0..(Len(frames) - 1) : p = <<n, frames[Len(frames) - n]>> /\ p[2].at = "emit"
      BY EmissionPair, EmissionIs DEF Emissions
    <3>2. PICK f : f = p[2]
      OBVIOUS
    <3>3. f = frames[Len(frames) - n] /\ f.at = "emit"
      BY <3>1, <3>2
    <3>4. Len(frames) - n \in DOMAIN frames
      <4>1. frames \in Seq(Frame) /\ Len(frames) \in Nat
        BY DEF StreamInv, ObjectInv
      <4>2. Len(frames) - n \in 1..Len(frames)
        BY <4>1
      <4>3. QED
        BY <4>1, <4>2
    <3>5. f \in Range(frames)
      BY <3>3, <3>4 DEF Range
    <3>6. f.next <= Len(arrays[a])
      <4>1. arrays[a] \in Seq(Nat)
        BY DEF StreamInv, ObjectInv
      <4>2. QED
        BY <2>5, <3>2, <4>1
    <3>7. arrays[a][f.next] \in PassedOver(a, gone[a])
      BY <2>5, <3>2, <3>3, <3>5, <3>6 DEF PassedOver
    <3>8. QED
      BY <2>3, <3>2, <3>7
  <2>6. QED
    BY <1>4, <2>1, <2>3, <2>4, <2>5
<1>6. Remembered
  BY <1>4 DEF Remembered
<1>7. \A id \in DOMAIN registry :
         registry'[id].heard = registry[id].heard /\ (registry[id].excused => registry'[id].excused)
  BY <1>4
<1>8. QED
  BY <1>4, <1>5, <1>6, <1>7

(* A listener takes himself, or another, away.                             *)
LEMMA OffKeeps ==
  ASSUME StreamInv, NEW e \in script.events, NEW cb \in Callbacks, Off(e, cb)
  PROVE  StreamInv'
<1>1. e \in StreamEvents
  BY ScriptFacts DEF StreamInv, ObjectInv
<1>2. PICK gone : Takes(e, cb, gone)
  BY <1>1, OffTakes
<1>3. /\ arrays' \in Seq(Seq(Nat)) /\ DOMAIN arrays' = DOMAIN arrays
      /\ \A a \in DOMAIN arrays : \A j \in DOMAIN arrays'[a] :
            Was(gone, a, j) \in DOMAIN arrays[a] /\ arrays'[a][j] = arrays[a][Was(gone, a, j)]
      /\ \A a \in DOMAIN arrays : \A k \in DOMAIN arrays[a] :
            k # gone[a] => \E j \in DOMAIN arrays'[a] : Was(gone, a, j) = k
  BY <1>1, <1>2, OffArrays
<1>4. /\ book' \in [StreamEvents -> [BOOLEAN -> Nat]]
      /\ \A x \in StreamEvents, o \in BOOLEAN :
            book'[x][o] = IF x = e /\ book[e][o] # 0 /\ arrays'[book[e][o]] = <<>>
                          THEN 0 ELSE book[x][o]
  BY <1>1, OffBook
<1>5. /\ registry' \in Seq(ListenerRecord) /\ Remembered
      /\ \A id \in DOMAIN registry :
            registry'[id].heard = registry[id].heard /\ (registry[id].excused => registry'[id].excused)
      /\ \A a \in DOMAIN arrays : gone[a] # 0 =>
            /\ registry'[arrays[a][gone[a]]].excused
            /\ \A p \in Emissions(frames) :
                  p[2].list = a /\ gone[a] < p[2].next /\ p[2].next \in DOMAIN arrays[a] =>
                    registry'[arrays[a][p[2].next]].excused
  BY <1>1, <1>2, OffExcuses
<1>6. Thinned(e, gone)
  <2>1. \A a \in DOMAIN arrays : gone[a] \in Nat
    BY <1>2 DEF Takes
  <2>2. \A a \in DOMAIN arrays : gone[a] # 0 =>
          (\E o \in BOOLEAN : book[e][o] = a) /\ gone[a] \in DOMAIN arrays[a]
    BY <1>2 DEF Takes, OffLists
  <2>3. ASSUME NEW x \in StreamEvents, NEW o \in BOOLEAN
        PROVE  \/ book'[x][o] = book[x][o] /\ (book'[x][o] # 0 => arrays'[book'[x][o]] # <<>>)
               \/ book'[x][o] = 0 /\ book[x][o] # 0 /\ arrays'[book[x][o]] = <<>>
    <3>1. CASE x = e
      BY <1>4, <3>1
    <3>2. CASE x # e
      <4>1. PICK a : a = book[x][o]
        OBVIOUS
      <4>2. book'[x][o] = a
        BY <1>4, <3>2, <4>1
      <4>3. ASSUME a # 0 PROVE arrays'[a] # <<>>
        <5>1. a \in DOMAIN arrays /\ arrays[a] # <<>>
          BY <4>1, <4>3, BookFacts DEF StreamInv
        <5>2. a \notin OffLists(e)
          <6>1. \A y \in BOOLEAN : book[e][y] # a
            BY <1>1, <3>2, <4>1, <4>3, BookApart
          <6>2. QED
            BY <6>1 DEF OffLists
        <5>3. arrays'[a] = arrays[a]
          BY <1>2, <5>1, <5>2 DEF Takes
        <5>4. QED
          BY <5>1, <5>3
      <4>4. QED
        BY <4>1, <4>2, <4>3
    <3>3. QED
      BY <3>1, <3>2
  <2>4. \A a \in DOMAIN arrays : gone[a] # 0 =>
          /\ \E o \in BOOLEAN : book[e][o] = a
          /\ gone[a] \in DOMAIN arrays[a] /\ registry'[arrays[a][gone[a]]].excused
          /\ \A p \in Emissions(frames) :
                p[2].list = a /\ gone[a] < p[2].next /\ p[2].next \in DOMAIN arrays[a] =>
                  registry'[arrays[a][p[2].next]].excused
    BY <1>5, <2>2
  <2>5. QED
    BY <1>3, <2>1, <2>3, <2>4 DEF Thinned
<1>7. streamCalls' \in 0..MaxStreamCalls
  BY StreamsAssumption DEF Off, Calling, StreamInv, ObjectInv
<1>8. UNCHANGED <<script, props, frames, thrown, held, closes, reentered>>
  BY DEF Off, KeepHandle
<1>9. Listens
  BY <1>3, <1>4, <1>5, <1>7, <1>8 DEF Listens, StreamInv, ObjectInv
<1>10. /\ ObjectInv' /\ HandleInv'
       /\ \A x : (Happened(x)' <=> Happened(x)) /\ (Terminal(x)' <=> Terminal(x))
  BY <1>9, ListensKeeps
<1>11. Emissions(frames') = Emissions(frames)
  BY <1>8
<1>12. BookInv'
  BY <1>1, <1>3, <1>5, <1>6, <1>8, BookThins
<1>13. RunInv'
  BY <1>1, <1>5, <1>6, <1>11, RunThins
<1>14. OnceListenerInv'
  BY <1>1, <1>3, <1>5, <1>6, <1>11, OnceThins
<1>15. EndInv'
  BY <1>1, <1>3, <1>5, <1>6, <1>8, <1>10, <1>11, EndThins
<1>16. QED
  BY <1>10, <1>12, <1>13, <1>14, <1>15 DEF StreamInv

----------------------------------------------------------------------------
(* The whole.                                                              *)

(* A new stream.                                                           *)
LEMMA StreamStarts ==
  ASSUME StreamsInit
  PROVE  StreamInv
<1>1. /\ script \in Scripts /\ props \in Props /\ held = TRUE /\ closes = 0
      /\ arrays = <<>> /\ frames = <<>> /\ registry = <<>>
      /\ book = [e \in StreamEvents |-> [once \in BOOLEAN |-> 0]]
      /\ ~props.closeEmitted /\ ~props.closed /\ ~props.writableEnded
  BY StreamsAssumption DEF StreamsInit, Props
<1>2. Emissions(frames) = {} /\ DOMAIN registry = {} /\ DOMAIN arrays = {}
  BY <1>1, NoEmission
<1>3. /\ book \in [StreamEvents -> [BOOLEAN -> Nat]]
      /\ \A e \in StreamEvents, once \in BOOLEAN : book[e][once] = 0
  BY <1>1
<1>4. ObjectInv
  <2>1. /\ thrown \in BOOLEAN /\ reentered \in BOOLEAN /\ closes \in 0..2
        /\ streamCalls \in 0..MaxStreamCalls
    <3>1. 0 \in 0..MaxStreamCalls
      BY StreamsAssumption
    <3>2. /\ thrown = FALSE /\ reentered = FALSE /\ closes = 0 /\ streamCalls = 0
      BY DEF StreamsInit
    <3>3. thrown \in BOOLEAN /\ reentered \in BOOLEAN
      BY <3>2, Zenon
    <3>4. closes \in 0..2 /\ streamCalls \in 0..MaxStreamCalls
      BY <3>1, <3>2
    <3>5. QED
      BY <3>3, <3>4
  <2>2. props.offset <= props.count /\ props.count <= MaxBytes /\ props.left <= MaxChunks
    BY StreamsAssumption DEF StreamsInit
  <2>3. frames \in Seq(Frame) /\ registry \in Seq(ListenerRecord) /\ arrays \in Seq(Seq(Nat))
    BY <1>1
  <2>4. QED
    BY <1>1, <1>3, <2>1, <2>2, <2>3 DEF ObjectInv
<1>5. HandleInv
  BY <1>1 DEF HandleInv
<1>6. BookInv /\ RunInv /\ OnceListenerInv
  BY <1>2, <1>3 DEF BookInv, RunInv, OnceListenerInv
<1>7. EndInv
  <2>1. \A e : ~Happened(e)
    BY <1>1 DEF Happened
  <2>2. \A e : Waiting(e)
    BY <1>2 DEF Waiting
  <2>3. QED
    BY <2>1, <2>2 DEF EndInv
<1>8. QED
  BY <1>4, <1>5, <1>6, <1>7 DEF StreamInv

(* Every step keeps the invariant.                                         *)
LEMMA StreamInductive == StreamInv /\ [StreamsNext]_streamVars => StreamInv'
<1> SUFFICES ASSUME StreamInv, [StreamsNext]_streamVars PROVE StreamInv'
  OBVIOUS
<1>1. ASSUME NEW e \in script.events, NEW cb \in Callbacks, On(e, cb) PROVE StreamInv'
  BY <1>1, AddListenerKeeps DEF On
<1>2. ASSUME NEW e \in script.events, NEW cb \in Callbacks, Once(e, cb) PROVE StreamInv'
  BY <1>2, AddListenerKeeps DEF Once
<1>3. ASSUME NEW e \in script.events, NEW cb \in Callbacks, Off(e, cb) PROVE StreamInv'
  BY <1>3, OffKeeps
<1>4. ASSUME NEW e \in script.events, OffAll(e) PROVE StreamInv'
  BY <1>4, OffAllKeeps
<1>5. CASE EmitCalls \/ EmitTurnsToOnce \/ EmitEnds
  BY <1>5, EmitCallsKeeps, EmitTurnsToOnceKeeps, EmitEndsKeeps
<1>6. CASE CallbackReturns \/ CallbackThrows \/ CatchThrown
  BY <1>6, CallbackReturnsKeeps, CallbackThrowsKeeps, CatchThrownKeeps
<1>7. ASSUME NEW n \in 1..(HighWaterMark + 1), StreamWrite(n) \/ CompressionWrite(n)
      PROVE  StreamInv'
  <2>1. n \in Nat \ {0}
    BY StreamsAssumption
  <2>2. QED
    BY <1>7, <2>1, StreamWriteKeeps, CompressionWriteKeeps
<1>8. CASE End \/ EndDrains \/ EndCloses \/ CompressionEnd \/ CompressionEnds
  BY <1>8, EndKeeps, EndDrainsKeeps, EndClosesKeeps, CompressionEndKeeps, CompressionEndsKeeps
<1>9. CASE StreamRead \/ DataReads \/ DataGives \/ SocketRead \/ SocketDrops
  BY <1>9, StreamReadKeeps, DataReadsKeeps, DataGivesKeeps, SocketReadKeeps, SocketDropsKeeps
<1>10. ASSUME NEW loops \in BOOLEAN, OnData(loops) PROVE StreamInv'
  BY <1>10, OnDataKeeps
<1>11. CASE StreamClose \/ Accept \/ Poll
  BY <1>11, StreamCloseKeeps, AcceptKeeps, PollKeeps
<1>12. CASE UNCHANGED streamVars
  <2>1. Listens
    BY <1>12 DEF Listens, streamVars, StreamInv, ObjectInv
  <2>2. UNCHANGED <<book, arrays, registry>> /\ Emissions(frames') = Emissions(frames)
    BY <1>12 DEF streamVars
  <2>3. QED
    BY <2>1, <2>2, CallbackKeeps
<1>13. QED
  BY <1>1, <1>2, <1>3, <1>4, <1>5, <1>6, <1>7, <1>8, <1>9, <1>10, <1>11, <1>12 DEF StreamsNext

(* The object, its listeners and what is under way have their types: every *)
(* key leads to an array with listeners, every emission runs over one.     *)
LEMMA StreamTyped == StreamInv => StreamsTypeOK
<1> SUFFICES ASSUME StreamInv PROVE StreamsTypeOK
  OBVIOUS
<1>1. arrays \in Seq(Seq(Nat)) /\ DOMAIN arrays = 1..Len(arrays) /\ Len(arrays) \in Nat
  BY DEF StreamInv, ObjectInv
<1>2. book \in [StreamEvents -> [BOOLEAN -> 0..Len(arrays)]]
  <2>1. book \in [StreamEvents -> [BOOLEAN -> Nat]]
    BY DEF StreamInv, ObjectInv
  <2>2. ASSUME NEW e \in StreamEvents PROVE book[e] \in [BOOLEAN -> 0..Len(arrays)]
    <3>1. ASSUME NEW o \in BOOLEAN PROVE book[e][o] \in 0..Len(arrays)
      BY <1>1, BookFacts DEF StreamInv
    <3>2. book[e] = [o \in BOOLEAN |-> book[e][o]]
      BY <2>1
    <3>3. QED
      BY <3>1, <3>2
  <2>3. QED
    BY <2>1, <2>2
<1>3. \A e \in StreamEvents, once \in BOOLEAN :
         book[e][once] # 0 => arrays[book[e][once]] # <<>>
  BY DEF StreamInv, BookInv
<1>4. arrays \in Seq(Seq(DOMAIN registry))
  <2>1. ASSUME NEW a \in DOMAIN arrays PROVE arrays[a] \in Seq(DOMAIN registry)
    <3>1. PICK list \in Seq(Nat) : list = arrays[a]
      BY <1>1
    <3>2. \A j \in DOMAIN list : list[j] \in DOMAIN registry
      BY <3>1 DEF StreamInv, BookInv
    <3>3. list \in Seq(DOMAIN registry)
      BY <3>2
    <3>4. QED
      BY <3>1, <3>3
  <2>2. PICK T : T = Seq(DOMAIN registry)
    OBVIOUS
  <2>3. \A a \in 1..Len(arrays) : arrays[a] \in T
    BY <1>1, <2>1, <2>2
  <2>4. arrays \in Seq(T)
    BY <1>1, <2>3
  <2>5. QED
    BY <2>2, <2>4
<1>5. \A i \in DOMAIN frames :
        /\ frames[i].at \in {"callback", "emit", "draining", "closing", "ending", "read",
                             "data", "give", "dropping"}
        /\ frames[i].at = "emit" => frames[i].list \in 0..Len(arrays)
  <2> TAKE i \in DOMAIN frames
  <2>1. frames \in Seq(Frame) /\ DOMAIN frames = 1..Len(frames) /\ Len(frames) \in Nat
    BY DEF StreamInv, ObjectInv
  <2>2. frames[i] \in Frame
    BY <2>1
  <2>3. frames[i].at \in {"callback", "emit", "draining", "closing", "ending", "read",
                          "data", "give", "dropping"}
    BY <2>2 DEF Frame, RestsOf, EmissionFrame
  <2>4. ASSUME frames[i].at = "emit" PROVE frames[i].list \in 0..Len(arrays)
    <3>1. PICK n : n = Len(frames) - i
      OBVIOUS
    <3>2. n \in 0..(Len(frames) - 1) /\ Len(frames) - n = i
      BY <2>1, <3>1
    <3>3. <<n, frames[i]>> \in Emissions(frames)
      BY <2>4, <3>2, EmissionIs
    <3>4. PICK p \in Emissions(frames) : p = <<n, frames[i]>>
      BY <3>3
    <3>5. p[2] = frames[i]
      BY <3>4
    <3>6. p[2].list \in Nat /\ (p[2].list # 0 => p[2].list \in DOMAIN arrays)
      BY EmissionFacts DEF StreamInv, RunInv
    <3>7. QED
      BY <1>1, <3>5, <3>6
  <2>5. QED
    BY <2>3, <2>4
<1>6. \A i \in DOMAIN registry : registry[i].event \in StreamEvents /\ registry[i].heard <= 2
  BY ListenerFacts DEF StreamInv
<1>7. QED
  BY <1>2, <1>3, <1>4, <1>5, <1>6 DEF StreamInv, ObjectInv, StreamsTypeOK

(* The invariant always holds.                                             *)
LEMMA StreamAlways == StreamsSpec => []StreamInv
<1>1. StreamsInit => StreamInv
  BY StreamStarts
<1>2. QED
  BY <1>1, StreamInductive, PTL DEF StreamsSpec

(* The object, its listeners and the frames hold what the code can put     *)
(* there.                                                                  *)
THEOREM StreamsTypeCorrect == StreamsSpec => []StreamsTypeOK
<1>1. QED
  BY StreamAlways, StreamTyped, PTL

(* However listeners call the stream's methods while they are told, the    *)
(* stream is closed once, and who listens for the end of a file, or for    *)
(* the close of a socket, server or watcher, is told of it exactly once.   *)
THEOREM StreamsEndOnce == StreamsSpec => []EndsOnce
<1>1. QED
  BY StreamAlways, StreamImplies, PTL
====
