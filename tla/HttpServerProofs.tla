---- MODULE HttpServerProofs ----
(***************************************************************************)
(* Theorems about the HTTP server's listeners, goroutines and channels,    *)
(* for any programs and any number of goroutines, listeners and calls.     *)
(***************************************************************************)
EXTENDS HttpServer, SequenceTheorems, FiniteSetTheorems, TLAPS

(* What a goroutine can have to do.                                        *)
PlainSteps == {"handler", "publish", "go", "put back", "go serve", "serve", "wait", "report",
          "shut down"}
Step ==
  [do : PlainSteps] \union [do : {"emit"}, event : ServerEvents]
    \union [do : {"tell"}, event : ServerEvents, left : Seq(Nat)]
    \union [do : {"forget"}, event : ServerEvents, id : Nat]
    \union [do : {"start"}, connection : Connections]

(* A routine grows and shrinks at its front, so a step is named by its     *)
(* place from the end, which it keeps.                                     *)
At(r, n) == r[Len(r) - n]

(* The steps that the invariants speak of, with their places.              *)
Marked == {"tell", "forget", "put back", "start", "serve", "go serve"}
Marks(r) == {<<n, At(r, n)>> : n \in {n \in 0..(Len(r) - 1) : At(r, n).do \in Marked}}

(* The fields of a step.                                                   *)
LEMMA StepFields ==
  ASSUME NEW s \in Step
  PROVE  /\ s.do \in PlainSteps \union {"emit", "tell", "forget", "start"}
         /\ s.do \in {"emit", "tell", "forget"} => s.event \in ServerEvents
         /\ s.do = "tell" => s.left \in Seq(Nat)
         /\ s.do = "forget" => s.id \in Nat
         /\ s.do = "start" => s.connection \in Connections
BY DEF Step, PlainSteps

(* A mark is a step at its place.                                          *)
LEMMA MarkIs ==
  ASSUME NEW r \in Seq(Step), NEW n, NEW s
  PROVE  <<n, s>> \in Marks(r) <=>
           n \in 0..(Len(r) - 1) /\ s = At(r, n) /\ s.do \in Marked
BY DEF Marks

(* Marks are pairs.                                                        *)
LEMMA MarkPair ==
  ASSUME NEW r, NEW p \in Marks(r)
  PROVE  p = <<p[1], p[2]>>
BY DEF Marks

(* The first of one step.                                                  *)
LEMMA HeadOfOne ==
  ASSUME NEW s
  PROVE  Head(<<s>>) = s /\ Len(<<s>>) = 1 /\ <<s>> # <<>>
<1>1. Head(<<s>>) = <<s>>[1]
  BY LenProperties
<1>2. QED
  BY <1>1

(* Two steps are one and one.                                              *)
LEMMA TwoSteps ==
  ASSUME NEW s, NEW t
  PROVE  <<s>> \o <<t>> = <<s, t>>
<1>1. /\ <<s>> \in Seq({s, t}) /\ <<t>> \in Seq({s, t}) /\ <<s, t>> \in Seq({s, t})
  OBVIOUS
<1>2. /\ Len(<<s>>) = 1 /\ Len(<<t>>) = 1 /\ Len(<<s, t>>) = 2
      /\ <<s>>[1] = s /\ <<t>>[1] = t /\ <<s, t>>[1] = s /\ <<s, t>>[2] = t
  OBVIOUS
<1>3. /\ <<s>> \o <<t>> \in Seq({s, t}) /\ Len(<<s>> \o <<t>>) = 2
      /\ \A i \in 1..2 : (<<s>> \o <<t>>)[i] = IF i <= 1 THEN <<s>>[i] ELSE <<t>>[i - 1]
  BY <1>1, <1>2, ConcatProperties
<1>4. \A i \in 1..Len(<<s, t>>) : (<<s>> \o <<t>>)[i] = <<s, t>>[i]
  <2>1. 1..2 = {1, 2}
    OBVIOUS
  <2>2. (<<s>> \o <<t>>)[1] = s /\ (<<s>> \o <<t>>)[2] = t
    BY <1>2, <1>3
  <2>3. QED
    BY <1>2, <2>1, <2>2
<1>5. QED
  BY <1>1, <1>2, <1>3, <1>4, SeqEqual

(* A number that is nought when one less is one.                           *)
LEMMA OneIfNoneLess ==
  ASSUME NEW l \in Nat, l - 1 = 0
  PROVE  l = 1
OBVIOUS

(* What a mark says.                                                       *)
LEMMA MarkAt ==
  ASSUME NEW r \in Seq(Step), NEW p \in Marks(r)
  PROVE  /\ p[1] \in 0..(Len(r) - 1) /\ p[2] = At(r, p[1])
         /\ p[2] \in Step /\ p[2].do \in Marked /\ r # <<>> /\ Len(r) \in Nat \ {0}
<1>1. PICK n \in 0..(Len(r) - 1) : p = <<n, At(r, n)>> /\ At(r, n).do \in Marked
  BY DEF Marks
<1>2. Len(r) \in Nat
  BY LenProperties
<1>3. Len(r) - n \in 1..Len(r) /\ Len(r) # 0
  BY <1>2
<1>4. r[Len(r) - n] \in Step
  BY <1>3, ElementOfSeq
<1>5. r # <<>>
  BY <1>3, EmptySeq
<1>6. QED
  BY <1>1, <1>2, <1>3, <1>4, <1>5 DEF At

(* Steps put before a routine leave those that are there.                  *)
LEMMA Before ==
  ASSUME NEW r \in Seq(Step), NEW steps \in Seq(Step)
  PROVE  /\ steps \o r \in Seq(Step) /\ Len(steps \o r) = Len(steps) + Len(r)
         /\ \A n \in 0..(Len(r) - 1) : At(steps \o r, n) = At(r, n)
         /\ \A j \in 1..Len(steps) : At(steps \o r, Len(r) + Len(steps) - j) = steps[j]
<1>1. /\ steps \o r \in Seq(Step) /\ Len(steps \o r) = Len(steps) + Len(r)
      /\ \A i \in 1..Len(steps) + Len(r) :
           (steps \o r)[i] = IF i <= Len(steps) THEN steps[i] ELSE r[i - Len(steps)]
  BY ConcatProperties
<1>2. Len(r) \in Nat /\ Len(steps) \in Nat
  BY LenProperties
<1>3. ASSUME NEW n \in 0..(Len(r) - 1) PROVE At(steps \o r, n) = At(r, n)
  <2>1. /\ Len(steps) + Len(r) - n \in 1..Len(steps) + Len(r)
        /\ Len(steps) + Len(r) - n > Len(steps)
        /\ (Len(steps) + Len(r) - n) - Len(steps) = Len(r) - n
    BY <1>2
  <2>2. QED
    BY <1>1, <2>1 DEF At
<1>4. ASSUME NEW j \in 1..Len(steps)
      PROVE  At(steps \o r, Len(r) + Len(steps) - j) = steps[j]
  <2>1. /\ Len(steps) + Len(r) - (Len(r) + Len(steps) - j) = j
        /\ j \in 1..Len(steps) + Len(r) /\ j <= Len(steps)
    BY <1>2
  <2>2. QED
    BY <1>1, <2>1 DEF At
<1>5. QED
  BY <1>1, <1>3, <1>4

(* And so their marks.                                                     *)
LEMMA MarksBefore ==
  ASSUME NEW r \in Seq(Step), NEW steps \in Seq(Step)
  PROVE  Marks(steps \o r) =
           Marks(r) \union {<<Len(r) + Len(steps) - j, steps[j]>> :
                              j \in {j \in 1..Len(steps) : steps[j].do \in Marked}}
<1> DEFINE new == {<<Len(r) + Len(steps) - j, steps[j]>> :
                     j \in {j \in 1..Len(steps) : steps[j].do \in Marked}}
<1>1. Len(r) \in Nat /\ Len(steps) \in Nat
  BY LenProperties
<1>2. ASSUME NEW p \in Marks(steps \o r) PROVE p \in Marks(r) \union new
  <2>1. PICK n \in 0..(Len(steps) + Len(r) - 1) :
          p = <<n, At(steps \o r, n)>> /\ At(steps \o r, n).do \in Marked
    BY Before DEF Marks
  <2>2. CASE n < Len(r)
    BY <1>1, <2>1, <2>2, Before DEF Marks
  <2>3. CASE n >= Len(r)
    <3>1. PICK j \in 1..Len(steps) : n = Len(r) + Len(steps) - j
      <4>1. Len(r) + Len(steps) - n \in 1..Len(steps)
        BY <1>1, <2>3
      <4>2. n = Len(r) + Len(steps) - (Len(r) + Len(steps) - n)
        BY <1>1
      <4>3. QED
        BY <4>1, <4>2
    <3>2. p = <<n, steps[j]>> /\ steps[j].do \in Marked
      BY <2>1, <3>1, Before
    <3>3. QED
      BY <3>1, <3>2
  <2>4. QED
    BY <1>1, <2>2, <2>3
<1>3. ASSUME NEW p \in Marks(r) PROVE p \in Marks(steps \o r)
  BY <1>1, Before DEF Marks
<1>4. ASSUME NEW p \in new PROVE p \in Marks(steps \o r)
  <2>1. PICK j \in 1..Len(steps) :
          p = <<Len(r) + Len(steps) - j, steps[j]>> /\ steps[j].do \in Marked
    OBVIOUS
  <2>2. Len(r) + Len(steps) - j \in 0..(Len(steps) + Len(r) - 1)
    BY <1>1
  <2>3. QED
    BY <2>1, <2>2, Before DEF Marks
<1>5. QED
  BY <1>2, <1>3, <1>4

(* The mark of one step that is put before a routine.                      *)
LEMMA MarkFirst ==
  ASSUME NEW r \in Seq(Step), NEW s \in Step, s.do \in Marked
  PROVE  /\ <<s>> \o r \in Seq(Step) /\ Len(<<s>> \o r) = Len(r) + 1
         /\ Marks(<<s>> \o r) = Marks(r) \union {<<Len(r), s>>}
<1>1. <<s>> \in Seq(Step) /\ Len(<<s>>) = 1 /\ <<s>>[1] = s /\ Len(r) \in Nat
  BY LenProperties
<1>2. 1..Len(<<s>>) = {1}
  BY <1>1
<1>3. {j \in 1..Len(<<s>>) : <<s>>[j].do \in Marked} = {1}
  BY <1>1, <1>2
<1>4. Len(r) + Len(<<s>>) - 1 = Len(r)
  BY <1>1
<1>5. Marks(<<s>> \o r) = Marks(r) \union {<<Len(r) + Len(<<s>>) - j, <<s>>[j]>> : j \in {1}}
  <2>1. Marks(<<s>> \o r) = Marks(r) \union {<<Len(r) + Len(<<s>>) - j, <<s>>[j]>> :
                               j \in {j \in 1..Len(<<s>>) : <<s>>[j].do \in Marked}}
    BY <1>1, MarksBefore
  <2>2. QED
    BY <1>3, <2>1
<1>6. QED
  BY <1>1, <1>4, <1>5, Before

(* A step that is done takes its mark away.                                *)
LEMMA MarksTail ==
  ASSUME NEW r \in Seq(Step), r # <<>>
  PROVE  /\ Tail(r) \in Seq(Step) /\ Len(Tail(r)) = Len(r) - 1
         /\ Len(r) \in Nat \ {0} /\ Head(r) \in Step /\ Head(r) = At(r, Len(r) - 1)
         /\ \A n \in 0..(Len(r) - 2) : At(Tail(r), n) = At(r, n)
         /\ Marks(Tail(r)) = Marks(r) \ {<<Len(r) - 1, Head(r)>>}
         /\ Head(r).do \in Marked => <<Len(r) - 1, Head(r)>> \in Marks(r)
<1>1. /\ Tail(r) \in Seq(Step) /\ Len(Tail(r)) = Len(r) - 1 /\ Head(r) \in Step
      /\ \A i \in 1..Len(Tail(r)) : Tail(r)[i] = r[i + 1]
  BY HeadTailProperties
<1>2. Len(r) \in Nat \ {0}
  BY EmptySeq
<1>3. Head(r) = At(r, Len(r) - 1)
  BY <1>2 DEF At
<1>4. ASSUME NEW n \in 0..(Len(r) - 2) PROVE At(Tail(r), n) = At(r, n)
  <2>1. /\ Len(Tail(r)) - n \in 1..Len(Tail(r))
        /\ (Len(Tail(r)) - n) + 1 = Len(r) - n
    BY <1>1, <1>2
  <2>2. QED
    BY <1>1, <2>1 DEF At
<1>5. ASSUME NEW n, NEW s
      PROVE  <<n, s>> \in Marks(Tail(r)) <=>
               <<n, s>> \in Marks(r) /\ <<n, s>> # <<Len(r) - 1, Head(r)>>
  <2>1. n \in 0..(Len(Tail(r)) - 1) <=> n \in 0..(Len(r) - 1) /\ n # Len(r) - 1
    BY <1>1, <1>2
  <2>2. n \in 0..(Len(Tail(r)) - 1) => At(Tail(r), n) = At(r, n)
    BY <1>1, <1>2, <1>4
  <2>3. <<n, s>> \in Marks(Tail(r)) <=>
          n \in 0..(Len(Tail(r)) - 1) /\ s = At(Tail(r), n) /\ s.do \in Marked
    BY <1>1, MarkIs
  <2>4. <<n, s>> \in Marks(r) <=>
          n \in 0..(Len(r) - 1) /\ s = At(r, n) /\ s.do \in Marked
    BY MarkIs
  <2>5. <<n, s>> # <<Len(r) - 1, Head(r)>> <=> n # Len(r) - 1 \/ s # Head(r)
    OBVIOUS
  <2>6. n = Len(r) - 1 /\ s = At(r, n) => s = Head(r)
    BY <1>3
  <2>7. QED
    BY <2>1, <2>2, <2>3, <2>4, <2>5, <2>6
<1>6. Marks(Tail(r)) = Marks(r) \ {<<Len(r) - 1, Head(r)>>}
  BY <1>5, MarkPair
<1>7. Head(r).do \in Marked => <<Len(r) - 1, Head(r)>> \in Marks(r)
  BY <1>2, <1>3, MarkIs
<1>8. QED
  BY <1>1, <1>2, <1>3, <1>4, <1>6, <1>7

(* Steps that the invariants do not speak of.                              *)
Quiet == {s \in Step : s.do \notin Marked}

(* They leave no mark.                                                     *)
LEMMA QuietMarks ==
  ASSUME NEW r \in Seq(Step), NEW steps \in Seq(Quiet)
  PROVE  /\ steps \o r \in Seq(Step) /\ Len(steps \o r) = Len(steps) + Len(r)
         /\ Marks(steps \o r) = Marks(r)
<1>1. steps \in Seq(Step)
  <2>1. Quiet \subseteq Step
    BY DEF Quiet
  <2>2. QED
    BY <2>1
<1>2. \A j \in 1..Len(steps) : steps[j].do \notin Marked
  <2>1. \A j \in 1..Len(steps) : steps[j] \in Quiet
    BY ElementOfSeq
  <2>2. QED
    BY <2>1 DEF Quiet
<1>3. {j \in 1..Len(steps) : steps[j].do \in Marked} = {}
  BY <1>2
<1>4. Marks(steps \o r) =
        Marks(r) \union {<<Len(r) + Len(steps) - j, steps[j]>> :
                           j \in {j \in 1..Len(steps) : steps[j].do \in Marked}}
  BY <1>1, MarksBefore
<1>5. Marks(steps \o r) = Marks(r)
  BY <1>3, <1>4
<1>6. QED
  BY <1>1, <1>5, Before

(* The marks of a routine that has only just begun.                        *)
LEMMA MarksOfOne ==
  ASSUME NEW s \in Step
  PROVE  /\ Marks(<<>>) = {} /\ <<s>> \in Seq(Step)
         /\ s.do \in Marked => Marks(<<s>>) = {<<0, s>>}
         /\ s.do \notin Marked => Marks(<<s>>) = {}
<1>1. Marks(<<>>) = {}
  BY MarkAt, EmptySeq
<1>2. <<s>> \in Seq(Step) /\ Len(<<s>>) = 1 /\ At(<<s>>, 0) = s
  BY HeadOfOne DEF At
<1>3. ASSUME NEW p \in Marks(<<s>>) PROVE p = <<0, s>> /\ s.do \in Marked
  <2>1. p[1] \in 0..0 /\ p[2] = At(<<s>>, p[1]) /\ p[2].do \in Marked
    BY <1>2, MarkAt
  <2>2. QED
    BY <1>2, <2>1, MarkPair
<1>4. s.do \in Marked => <<0, s>> \in Marks(<<s>>)
  <2>1. 0 \in 0..(Len(<<s>>) - 1)
    BY <1>2
  <2>2. QED
    BY <1>2, <2>1, MarkIs
<1>5. QED
  BY <1>1, <1>2, <1>3, <1>4

(* Steps that leave no mark have none.                                     *)
LEMMA QuietHasNone ==
  ASSUME NEW steps \in Seq(Quiet)
  PROVE  steps \in Seq(Step) /\ Marks(steps) = {}
<1>1. steps \in Seq(Step)
  <2>1. Quiet \subseteq Step
    BY DEF Quiet
  <2>2. QED
    BY <2>1
<1>2. ASSUME NEW p \in Marks(steps) PROVE FALSE
  <2>1. p[1] \in 0..(Len(steps) - 1) /\ p[2] = At(steps, p[1]) /\ p[2].do \in Marked
    BY <1>1, MarkAt
  <2>2. Len(steps) - p[1] \in 1..Len(steps)
    BY <2>1, LenProperties
  <2>3. p[2] \in Quiet
    BY <2>1, <2>2, ElementOfSeq DEF At
  <2>4. QED
    BY <2>1, <2>3 DEF Quiet
<1>3. QED
  BY <1>1, <1>2

(* The steps the code takes that leave no mark.                            *)
LEMMA QuietSteps ==
  /\ <<>> \in Seq(Quiet)
  /\ \A p \in PlainSteps \ Marked : <<To(p)>> \in Seq(Quiet)
  /\ \A e \in ServerEvents : <<Emits(e)>> \in Seq(Quiet)
  /\ \A d, e \in ServerEvents : <<Emits(d), Emits(e)>> \in Seq(Quiet)
<1>1. ASSUME NEW p \in PlainSteps \ Marked PROVE To(p) \in Quiet
  BY DEF Quiet, Step, To
<1>2. ASSUME NEW e \in ServerEvents PROVE Emits(e) \in Quiet
  BY DEF Quiet, Step, Emits, Marked
<1>3. QED
  BY <1>1, <1>2

----------------------------------------------------------------------------
(* Goroutines and the two channels.                                        *)

ShapeInv ==
  /\ routine \in [Goroutines -> Seq(Step)]
  /\ program \in ServerPrograms /\ shutdown \in BOOLEAN
  /\ address \in {0, 1} /\ lastError \in {0, 1} /\ published \in Nat
  /\ serverCalls \in 0..MaxServerCalls

(* Who has taken the address out puts it back before anything else.  A     *)
(* goroutine that serves has nothing to do after that, and above it at     *)
(* most one connection to start, which waits and which nobody else starts. *)
PlaceInv ==
  /\ \A g \in Goroutines : \A p \in Marks(routine[g]) :
       /\ p[2].do = "put back" => p[1] = Len(routine[g]) - 1
       /\ p[2].do \in {"serve", "go serve"} => p[1] = 0
       /\ p[2].do = "start" => p[1] = 1 /\ routine[p[2].connection] = <<To("wait")>>
  /\ \A g, h \in Goroutines : \A p \in Marks(routine[g]), q \in Marks(routine[h]) :
       p[2].do = "start" /\ q[2].do = "start" /\ p[2].connection = q[2].connection => g = h

(* The goroutines that have the address in hand.                           *)
Holders == {g \in Goroutines : \E p \in Marks(routine[g]) : p[2].do = "put back"}

HolderInv == IsFiniteSet(Holders) /\ published = address + Cardinality(Holders)

ControlInv == ShapeInv /\ PlaceInv /\ HolderInv

(* The steps that speak of listeners.                                      *)
Speaks(r) == {p \in Marks(r) : p[2].do \in {"tell", "forget"}}

(* A goroutine about to do something else has no address in hand.          *)
LEMMA NoAddressInHand ==
  ASSUME ShapeInv, PlaceInv, NEW g \in Goroutines,
         routine[g] = <<>> \/ Head(routine[g]).do # "put back"
  PROVE  \A p \in Marks(routine[g]) : p[2].do # "put back"
<1> SUFFICES ASSUME NEW p \in Marks(routine[g]), p[2].do = "put back"
             PROVE  FALSE
  OBVIOUS
<1>1. routine[g] \in Seq(Step)
  BY DEF ShapeInv
<1>2. p[1] = Len(routine[g]) - 1
  BY DEF PlaceInv
<1>3. p[2] = At(routine[g], p[1]) /\ routine[g] # <<>>
  BY <1>1, MarkAt
<1>4. p[2] = Head(routine[g])
  BY <1>1, <1>2, <1>3, MarksTail
<1>5. QED
  BY <1>3, <1>4

(* Goroutines that change their steps keep the places, as long as what     *)
(* they newly have to do is in its place and starts no connection.         *)
LEMMA PlaceKeeps ==
  ASSUME ShapeInv, PlaceInv, NEW changed \in SUBSET Goroutines,
         \A h \in Goroutines \ changed : routine'[h] = routine[h],
         \A h \in changed : routine[h] # <<To("wait")>>,
         \A h \in changed : \A p \in Marks(routine'[h]) :
           /\ p[2].do = "put back" => p[1] = Len(routine'[h]) - 1
           /\ p[2].do \in {"serve", "go serve"} => p[1] = 0
           /\ p[2].do = "start" => p \in Marks(routine[h])
  PROVE  PlaceInv'
<1>1. ASSUME NEW h \in Goroutines, NEW p \in Marks(routine'[h]), p[2].do = "start"
      PROVE  p \in Marks(routine[h])
  <2>1. CASE h \in changed
    BY <1>1, <2>1
  <2>2. CASE h \notin changed
    BY <1>1, <2>2
  <2>3. QED
    BY <2>1, <2>2
<1>2. ASSUME NEW h \in Goroutines, NEW p \in Marks(routine'[h]), p[2].do = "put back"
      PROVE  p[1] = Len(routine'[h]) - 1
  <2>1. CASE h \in changed
    BY <1>2, <2>1
  <2>2. CASE h \notin changed
    <3>1. routine'[h] = routine[h] /\ p \in Marks(routine[h])
      BY <1>2, <2>2
    <3>2. p[1] = Len(routine[h]) - 1
      BY <1>2, <3>1 DEF PlaceInv
    <3>3. QED
      BY <3>1, <3>2
  <2>3. QED
    BY <2>1, <2>2
<1>3. ASSUME NEW h \in Goroutines, NEW p \in Marks(routine'[h]), p[2].do = "start"
      PROVE  p[1] = 1 /\ routine'[p[2].connection] = <<To("wait")>>
  <2>1. p \in Marks(routine[h]) /\ routine[h] \in Seq(Step)
    BY <1>1, <1>3 DEF ShapeInv
  <2>2. p[1] = 1 /\ routine[p[2].connection] = <<To("wait")>>
    BY <1>3, <2>1 DEF PlaceInv
  <2>3. p[2].connection \in Goroutines
    <3>1. p[2] \in Step
      BY <2>1, MarkAt
    <3>2. QED
      BY <1>3, <3>1, StepFields DEF Goroutines
  <2>4. QED
    BY <2>2, <2>3
<1>4. ASSUME NEW h \in Goroutines, NEW p \in Marks(routine'[h]), p[2].do \in {"serve", "go serve"}
      PROVE  p[1] = 0
  <2>1. CASE h \in changed
    BY <1>4, <2>1
  <2>2. CASE h \notin changed
    <3>1. p \in Marks(routine[h])
      BY <1>4, <2>2
    <3>2. QED
      BY <1>4, <3>1 DEF PlaceInv
  <2>3. QED
    BY <2>1, <2>2
<1>5. ASSUME NEW h \in Goroutines, NEW k \in Goroutines,
             NEW p \in Marks(routine'[h]), NEW q \in Marks(routine'[k]),
             p[2].do = "start", q[2].do = "start", p[2].connection = q[2].connection
      PROVE  h = k
  <2>1. p \in Marks(routine[h]) /\ q \in Marks(routine[k])
    BY <1>1, <1>5
  <2>2. \A a, b \in Goroutines : \A x \in Marks(routine[a]), y \in Marks(routine[b]) :
          x[2].do = "start" /\ y[2].do = "start" /\ x[2].connection = y[2].connection => a = b
    BY DEF PlaceInv
  <2>3. QED
    BY <1>5, <2>1, <2>2
<1>6. ASSUME NEW h \in Goroutines, NEW p \in Marks(routine'[h])
      PROVE  /\ p[2].do = "put back" => p[1] = Len(routine'[h]) - 1
             /\ p[2].do \in {"serve", "go serve"} => p[1] = 0
             /\ p[2].do = "start" => p[1] = 1 /\ routine'[p[2].connection] = <<To("wait")>>
  <2>1. p[2].do = "put back" => p[1] = Len(routine'[h]) - 1
    BY <1>2
  <2>2. p[2].do \in {"serve", "go serve"} => p[1] = 0
    BY <1>4
  <2>3. p[2].do = "start" => p[1] = 1 /\ routine'[p[2].connection] = <<To("wait")>>
    BY <1>3
  <2>4. QED
    BY <2>1, <2>2, <2>3
<1>7. QED
  BY <1>5, <1>6 DEF PlaceInv

(* The same where one goroutine changes.                                   *)
LEMMA OnePlaceKeeps ==
  ASSUME ShapeInv, PlaceInv, NEW g \in Goroutines,
         \A h \in Goroutines \ {g} : routine'[h] = routine[h],
         routine[g] # <<To("wait")>>,
         \A p \in Marks(routine'[g]) :
           /\ p[2].do = "put back" => p[1] = Len(routine'[g]) - 1
           /\ p[2].do \in {"serve", "go serve"} => p[1] = 0
           /\ p[2].do = "start" => p \in Marks(routine[g])
  PROVE  PlaceInv'
<1>1. PICK c \in SUBSET Goroutines : c = {g}
  OBVIOUS
<1>2. \A h \in Goroutines \ c : routine'[h] = routine[h]
  BY <1>1
<1>3. \A h \in c : routine[h] # <<To("wait")>>
  BY <1>1
<1>4. \A h \in c : \A p \in Marks(routine'[h]) :
        /\ p[2].do = "put back" => p[1] = Len(routine'[h]) - 1
        /\ p[2].do \in {"serve", "go serve"} => p[1] = 0
        /\ p[2].do = "start" => p \in Marks(routine[h])
  BY <1>1
<1>5. QED
  BY <1>2, <1>3, <1>4, PlaceKeeps


(* The account of the address when the same goroutines have it in hand.    *)
LEMMA HolderKeeps ==
  ASSUME HolderInv, Holders' = Holders, UNCHANGED <<address, published>>
  PROVE  HolderInv'
BY DEF HolderInv

(* A goroutine that does something else does not wait.                     *)
LEMMA DoesNotWait ==
  ASSUME NEW g, Head(routine[g]).do # "wait"
  PROVE  routine[g] # <<To("wait")>>
<1>1. Head(<<To("wait")>>) = To("wait")
  BY HeadOfOne
<1>2. To("wait").do = "wait"
  BY DEF To
<1>3. QED
  BY <1>1, <1>2

(* A goroutine takes up more to do, none of it marked.                     *)
LEMMA QuietDoes ==
  ASSUME ControlInv, NEW g \in Goroutines, RunsProgram(g), NEW steps \in Seq(Quiet),
         Does(g, steps)
  PROVE  /\ routine' \in [Goroutines -> Seq(Step)] /\ PlaceInv' /\ Holders' = Holders
         /\ \A h \in Goroutines : Speaks(routine'[h]) = Speaks(routine[h])
<1>0. ShapeInv /\ PlaceInv
  BY DEF ControlInv
<1>1. /\ routine \in [Goroutines -> Seq(Step)] /\ routine[g] \in Seq(Step)
      /\ routine' = [routine EXCEPT ![g] = steps \o routine[g]]
  BY <1>0 DEF ShapeInv, Does
<1>2. /\ steps \o routine[g] \in Seq(Step) /\ Marks(steps \o routine[g]) = Marks(routine[g])
  BY <1>1, QuietMarks
<1>3. routine[g] = <<>> \/ Head(routine[g]).do = "handler"
  BY DEF RunsProgram, Doing
<1>4. routine[g] # <<To("wait")>>
  BY <1>3 DEF To
<1>5. \A p \in Marks(routine[g]) : p[2].do # "put back"
  BY <1>0, <1>3, NoAddressInHand
<1>6. /\ routine' \in [Goroutines -> Seq(Step)]
      /\ \A h \in Goroutines \ {g} : routine'[h] = routine[h]
      /\ Marks(routine'[g]) = Marks(routine[g])
  BY <1>1, <1>2
<1>7. \A h \in Goroutines : Marks(routine'[h]) = Marks(routine[h])
  BY <1>6
<1>8. PlaceInv'
  <2>1. \A p \in Marks(routine[g]) : p[2].do \in {"serve", "go serve"} => p[1] = 0
    BY <1>0 DEF PlaceInv
  <2>2. \A p \in Marks(routine'[g]) :
          /\ p[2].do = "put back" => p[1] = Len(routine'[g]) - 1
          /\ p[2].do \in {"serve", "go serve"} => p[1] = 0
          /\ p[2].do = "start" => p \in Marks(routine[g])
    BY <1>5, <1>6, <2>1
  <2>3. PlaceInv'
    BY <1>0, <1>4, <1>6, <2>2, OnePlaceKeeps
  <2>4. QED
    BY <2>3
<1>9. QED
  BY <1>6, <1>7, <1>8 DEF Holders, Speaks

(* A goroutine goes on to what is not marked; what it has done leaves its  *)
(* mark.                                                                   *)
LEMMA QuietInstead ==
  ASSUME ControlInv, NEW g \in Goroutines, NEW what, Doing(g, what),
         what \notin {"put back", "wait"}, NEW steps \in Seq(Quiet), DoesInstead(g, steps)
  PROVE  /\ routine' \in [Goroutines -> Seq(Step)] /\ PlaceInv' /\ Holders' = Holders
         /\ Marks(routine'[g]) = Marks(routine[g]) \ {<<Len(routine[g]) - 1, Head(routine[g])>>}
         /\ \A h \in Goroutines \ {g} : routine'[h] = routine[h]
         /\ what \notin {"tell", "forget"} =>
              \A h \in Goroutines : Speaks(routine'[h]) = Speaks(routine[h])
<1>0. ShapeInv /\ PlaceInv
  BY DEF ControlInv
<1>1. /\ routine \in [Goroutines -> Seq(Step)] /\ routine[g] \in Seq(Step) /\ routine[g] # <<>>
      /\ routine' = [routine EXCEPT ![g] = steps \o Tail(routine[g])]
      /\ Head(routine[g]).do = what
  BY <1>0 DEF ShapeInv, DoesInstead, Doing
<1>2. /\ Tail(routine[g]) \in Seq(Step)
      /\ Marks(Tail(routine[g])) = Marks(routine[g]) \ {<<Len(routine[g]) - 1, Head(routine[g])>>}
  BY <1>1, MarksTail
<1>3. /\ steps \o Tail(routine[g]) \in Seq(Step)
      /\ Marks(steps \o Tail(routine[g])) = Marks(Tail(routine[g]))
  BY <1>2, QuietMarks
<1>4. routine[g] # <<To("wait")>>
  <2>1. Head(<<To("wait")>>) = To("wait")
    BY HeadOfOne
  <2>2. To("wait").do = "wait"
    BY DEF To
  <2>3. QED
    BY <1>1, <2>1, <2>2
<1>5. \A p \in Marks(routine[g]) : p[2].do # "put back"
  BY <1>0, <1>1, NoAddressInHand
<1>6. /\ routine' \in [Goroutines -> Seq(Step)]
      /\ \A h \in Goroutines \ {g} : routine'[h] = routine[h]
      /\ Marks(routine'[g]) = Marks(routine[g]) \ {<<Len(routine[g]) - 1, Head(routine[g])>>}
  BY <1>1, <1>2, <1>3
<1>7. PlaceInv'
  <2>1. \A p \in Marks(routine[g]) : p[2].do \in {"serve", "go serve"} => p[1] = 0
    BY <1>0 DEF PlaceInv
  <2>2. \A p \in Marks(routine'[g]) :
          /\ p[2].do = "put back" => p[1] = Len(routine'[g]) - 1
          /\ p[2].do \in {"serve", "go serve"} => p[1] = 0
          /\ p[2].do = "start" => p \in Marks(routine[g])
    BY <1>5, <1>6, <2>1
  <2>3. PlaceInv'
    BY <1>0, <1>4, <1>6, <2>2, OnePlaceKeeps
  <2>4. QED
    BY <2>3
<1>8. Holders' = Holders
  <2>1. \A p \in Marks(routine'[g]) : p[2].do # "put back"
    BY <1>5, <1>6
  <2>2. QED
    BY <1>5, <1>6, <2>1 DEF Holders
<1>9. ASSUME what \notin {"tell", "forget"}, NEW h \in Goroutines
      PROVE  Speaks(routine'[h]) = Speaks(routine[h])
  <2>1. CASE h = g
    <3>1. <<Len(routine[g]) - 1, Head(routine[g])>>[2].do \notin {"tell", "forget"}
      BY <1>1, <1>9
    <3>2. \A p \in Marks(routine[g]) :
            p[2].do \in {"tell", "forget"} => p # <<Len(routine[g]) - 1, Head(routine[g])>>
      BY <3>1
    <3>3. QED
      BY <1>6, <2>1, <3>2 DEF Speaks
  <2>2. CASE h # g
    BY <1>6, <2>2 DEF Speaks
  <2>3. QED
    BY <2>1, <2>2
<1>10. QED
  BY <1>6, <1>7, <1>8, <1>9

----------------------------------------------------------------------------
(* The actions that have nothing to do with listeners.                     *)

(* What goroutines have to tell or take away stays.                        *)
Steady == \A h \in Goroutines : Speaks(routine'[h]) = Speaks(routine[h])

(* A call that only takes up more to do.                                   *)
LEMMA DoesKeeps ==
  ASSUME ControlInv, NEW g \in Goroutines, RunsProgram(g), NEW steps \in Seq(Quiet),
         Does(g, steps), UNCHANGED <<address, published, lastError, program>>,
         shutdown' \in BOOLEAN, serverCalls' \in 0..MaxServerCalls
  PROVE  ControlInv' /\ Steady
<1>1. ShapeInv /\ PlaceInv /\ HolderInv
  BY DEF ControlInv
<1>2. routine' \in [Goroutines -> Seq(Step)] /\ PlaceInv' /\ Holders' = Holders /\ Steady
  BY QuietDoes DEF Steady
<1>3. ShapeInv'
  BY <1>1, <1>2 DEF ShapeInv
<1>4. HolderInv'
  BY <1>1, <1>2, HolderKeeps
<1>5. QED
  BY <1>2, <1>3, <1>4 DEF ControlInv

(* A step that is done, and goes on to what is not marked.                 *)
LEMMA InsteadKeeps ==
  ASSUME ControlInv, NEW g \in Goroutines, NEW what, Doing(g, what),
         what \notin {"put back", "wait", "tell", "forget"},
         NEW steps \in Seq(Quiet), DoesInstead(g, steps),
         UNCHANGED <<address, published, program, shutdown, serverCalls>>, lastError' \in {0, 1}
  PROVE  ControlInv' /\ Steady
<1>1. ShapeInv /\ PlaceInv /\ HolderInv
  BY DEF ControlInv
<1>2. routine' \in [Goroutines -> Seq(Step)] /\ PlaceInv' /\ Holders' = Holders /\ Steady
  BY QuietInstead DEF Steady
<1>3. ShapeInv'
  BY <1>1, <1>2 DEF ShapeInv
<1>4. HolderInv'
  BY <1>1, <1>2, HolderKeeps
<1>5. QED
  BY <1>2, <1>3, <1>4 DEF ControlInv

(* A call leaves the number of calls in its bound.                         *)
LEMMA CallsCounted ==
  ASSUME ControlInv, serverCalls < MaxServerCalls, serverCalls' = serverCalls + 1
  PROVE  serverCalls' \in 0..MaxServerCalls
<1>1. serverCalls \in Nat /\ MaxServerCalls \in Nat
  BY HttpServerAssumption DEF ControlInv, ShapeInv
<1>2. QED
  BY <1>1

(* A step that leaves goroutines, the address and the published alone.     *)
LEMMA SameRoutine ==
  ASSUME ControlInv, UNCHANGED <<routine, address, published, program, shutdown>>,
         lastError' \in {0, 1}, serverCalls' \in 0..MaxServerCalls
  PROVE  ControlInv' /\ Steady
BY DEF ControlInv, ShapeInv, PlaceInv, HolderInv, Holders, Steady

(* Emitting an event is to have it to do.  (events.emit)                   *)
LEMMA EmitControl ==
  ASSUME ControlInv, NEW g \in Goroutines, NEW e \in program.events, ServerEmit(g, e)
  PROVE  ControlInv' /\ Steady
<1>1. e \in ServerEvents
  BY ServerProgramsAssumption DEF ControlInv, ShapeInv
<1>2. <<Emits(e)>> \in Seq(Quiet) /\ shutdown' \in BOOLEAN
  BY <1>1, QuietSteps DEF ServerEmit, KeepServer, ControlInv, ShapeInv
<1>3. serverCalls' \in 0..MaxServerCalls
  BY CallsCounted DEF ServerEmit, ServerCalling
<1>4. QED
  BY <1>2, <1>3, DoesKeeps DEF ServerEmit, ServerCalling, KeepServer

(* Listen has the address to publish, or an error to tell.                 *)
LEMMA ListenControl ==
  ASSUME ControlInv, NEW g \in Goroutines, Listen(g)
  PROVE  ControlInv' /\ Steady
<1>1. shutdown' \in BOOLEAN /\ serverCalls' \in 0..MaxServerCalls
  BY CallsCounted DEF Listen, ServerCalling, KeepServer, ControlInv, ShapeInv
<1>2. <<To("publish"), Emits("listening"), To("go")>> \in Seq(Quiet)
  <2>1. To("publish") \in Quiet /\ To("go") \in Quiet
    BY DEF Quiet, Step, To, PlainSteps, Marked
  <2>2. Emits("listening") \in Quiet
    BY DEF Quiet, Step, Emits, Marked, ServerEvents
  <2>3. QED
    BY <2>1, <2>2
<1>3. EmitsError("error") \in Seq(Quiet)
  BY QuietSteps DEF EmitsError, ServerEvents
<1>4. QED
  BY <1>1, <1>2, <1>3, DoesKeeps DEF Listen, ServerCalling, KeepServer

(* Close has to wait for the shutdown.                                     *)
LEMMA CloseControl ==
  ASSUME ControlInv, NEW g \in Goroutines, ServerClose(g)
  PROVE  ControlInv' /\ Steady
<1>1. <<To("shut down")>> \in Seq(Quiet)
  <2>1. "shut down" \in PlainSteps \ Marked
    BY DEF PlainSteps, Marked
  <2>2. QED
    BY <2>1, QuietSteps
<1>2. serverCalls' \in 0..MaxServerCalls
  BY CallsCounted DEF ServerClose, ServerCalling
<1>3. QED
  BY <1>1, <1>2, DoesKeeps DEF ServerClose, ServerCalling, KeepRegistered

(* A listener that returns, a report, what Serve and Shutdown answer.      *)
LEMMA ReturnsControl ==
  ASSUME ControlInv, NEW g \in Goroutines,
         HandlerReturns(g) \/ Report(g) \/ ServeReturns(g) \/ ShutdownReturns(g)
  PROVE  ControlInv' /\ Steady
<1>1. lastError \in {0, 1}
  BY DEF ControlInv, ShapeInv
<1>2. <<>> \in Seq(Quiet) /\ EmitsError("error") \in Seq(Quiet) /\ <<Emits("close")>> \in Seq(Quiet)
  BY QuietSteps DEF EmitsError, ServerEvents
<1>3. EmitsError("error") \o <<To("report")>> \in Seq(Quiet)
  <2>1. To("report") \in Quiet
    BY DEF Quiet, Step, To, PlainSteps, Marked
  <2>2. QED
    BY <1>2, <2>1, ConcatProperties
<1>4. CASE HandlerReturns(g)
  BY <1>1, <1>2, <1>4, InsteadKeeps DEF HandlerReturns, KeepRegistered, KeepServer
<1>5. CASE Report(g)
  BY <1>2, <1>5, InsteadKeeps DEF Report, KeepRegistered
<1>6. CASE ServeReturns(g)
  <2>1. \E steps \in Seq(Quiet) : DoesInstead(g, steps)
    BY <1>2, <1>3, <1>6 DEF ServeReturns
  <2>2. QED
    BY <1>1, <1>6, <2>1, InsteadKeeps DEF ServeReturns, KeepRegistered, KeepServer
<1>7. CASE ShutdownReturns(g)
  <2>1. \E steps \in Seq(Quiet) : DoesInstead(g, steps)
    BY <1>2, <1>7 DEF ShutdownReturns
  <2>2. QED
    BY <1>1, <1>7, <2>1, InsteadKeeps DEF ShutdownReturns, KeepRegistered, KeepServer
<1>8. QED
  BY <1>4, <1>5, <1>6, <1>7

(* The address of Listen goes into its channel.                            *)
LEMMA PublishControl ==
  ASSUME ControlInv, NEW g \in Goroutines, Publish(g)
  PROVE  ControlInv' /\ Steady
<1>1. ShapeInv /\ PlaceInv /\ HolderInv
  BY DEF ControlInv
<1>2. <<>> \in Seq(Quiet)
  BY QuietSteps
<1>3. routine' \in [Goroutines -> Seq(Step)] /\ PlaceInv' /\ Holders' = Holders /\ Steady
  <2>1. Doing(g, "publish") /\ DoesInstead(g, <<>>)
    BY DEF Publish
  <2>2. "publish" \notin {"put back", "wait"} /\ "publish" \notin {"tell", "forget"}
    OBVIOUS
  <2>3. QED
    BY <1>2, <2>1, <2>2, QuietInstead DEF Steady
<1>4. address = 0 /\ address' = 1 /\ published' = published + 1 /\ published \in Nat
  BY <1>1 DEF Publish, ShapeInv
<1>5. ShapeInv'
  BY <1>1, <1>3, <1>4 DEF ShapeInv, Publish, KeepRegistered
<1>6. HolderInv'
  <2>1. IsFiniteSet(Holders) /\ published = address + Cardinality(Holders)
    BY <1>1 DEF HolderInv
  <2>2. Cardinality(Holders) \in Nat
    BY <2>1, FS_CardinalityType
  <2>3. published' = address' + Cardinality(Holders)
    BY <1>4, <2>1, <2>2
  <2>4. QED
    BY <1>3, <2>1, <2>3 DEF HolderInv
<1>7. QED
  BY <1>3, <1>5, <1>6 DEF ControlInv

(* Addr takes it in hand, if it is there.                                  *)
LEMMA AddrControl ==
  ASSUME ControlInv, NEW g \in Goroutines, Addr(g)
  PROVE  ControlInv' /\ Steady
<1>1. ShapeInv /\ PlaceInv /\ HolderInv
  BY DEF ControlInv
<1>2. /\ RunsProgram(g) /\ serverCalls' \in 0..MaxServerCalls
      /\ address' = 0 /\ UNCHANGED <<lastError, shutdown, published, program>>
  BY CallsCounted DEF Addr, ServerCalling, KeepRegistered
<1>3. lastError \in {0, 1} /\ published \in Nat
  BY <1>1 DEF ShapeInv
<1>4. CASE address # 1
  <2>1. address = 0 /\ UNCHANGED routine
    BY <1>1, <1>4 DEF Addr, ShapeInv
  <2>2. QED
    BY <1>2, <1>3, <2>1, SameRoutine
<1>5. CASE address = 1
  <2> DEFINE r == routine[g]
             s == To("put back")
  <2>1. r \in Seq(Step) /\ Len(r) \in Nat
    BY <1>1, LenProperties DEF ShapeInv
  <2>2. s \in Step /\ s.do = "put back" /\ s.do \in Marked
    BY DEF To, Step, PlainSteps, Marked
  <2>3. routine' = [routine EXCEPT ![g] = <<s>> \o r]
    BY <1>5 DEF Addr, Does
  <2>4. /\ <<s>> \o r \in Seq(Step) /\ Len(<<s>> \o r) = Len(r) + 1
        /\ Marks(<<s>> \o r) = Marks(r) \union {<<Len(r), s>>}
    BY <2>1, <2>2, MarkFirst
  <2>5. r = <<>> \/ Head(r).do = "handler"
    BY <1>2 DEF RunsProgram, Doing
  <2>6. \A p \in Marks(r) : p[2].do # "put back"
    BY <1>1, <2>5, NoAddressInHand
  <2>7. routine[g] # <<To("wait")>>
    <3>1. Head(<<To("wait")>>) = To("wait") /\ <<To("wait")>> # <<>>
      BY HeadOfOne
    <3>2. To("wait").do = "wait"
      BY DEF To
    <3>3. QED
      BY <2>5, <3>1, <3>2
  <2> HIDE DEF s
  <2>8. /\ routine' \in [Goroutines -> Seq(Step)] /\ routine'[g] = <<s>> \o r
        /\ \A h \in Goroutines \ {g} : routine'[h] = routine[h]
    BY <1>1, <2>3, <2>4 DEF ShapeInv
  <2>9. Marks(routine'[g]) = Marks(r) \union {<<Len(r), s>>} /\ Len(routine'[g]) = Len(r) + 1
    BY <2>4, <2>8
  <2> HIDE DEF r
  <2>10. PlaceInv'
    <3>1. \A p \in Marks(r) : p[2].do \in {"serve", "go serve"} => p[1] = 0
      BY <1>1 DEF PlaceInv, r
    <3>2. \A p \in Marks(routine'[g]) :
            /\ p[2].do = "put back" => p[1] = Len(routine'[g]) - 1
            /\ p[2].do \in {"serve", "go serve"} => p[1] = 0
            /\ p[2].do = "start" => p \in Marks(r)
      <4>1. ASSUME NEW p \in Marks(r) PROVE p[2].do # "put back"
        BY <2>6
      <4>2. Len(r) = Len(routine'[g]) - 1
        BY <2>1, <2>9
      <4>3. <<Len(r), s>>[1] = Len(routine'[g]) - 1 /\ <<Len(r), s>>[2].do = "put back"
        BY <2>2, <4>2
      <4>4. QED
        BY <2>9, <3>1, <4>1, <4>3
    <3>3. PlaceInv'
      BY <1>1, <2>7, <2>8, <3>2, OnePlaceKeeps DEF r
    <3>4. QED
      BY <3>3
  <2>11. g \notin Holders /\ Holders' = Holders \union {g}
    <3>1. <<Len(r), s>> \in Marks(routine'[g]) /\ <<Len(r), s>>[2].do = "put back"
      BY <2>2, <2>9
    <3>2. g \notin Holders
      BY <2>6 DEF Holders, r
    <3>3. QED
      BY <2>8, <3>1, <3>2 DEF Holders
  <2>12. HolderInv'
    <3>1. IsFiniteSet(Holders) /\ published = address + Cardinality(Holders)
      BY <1>1 DEF HolderInv
    <3>2. Cardinality(Holders) \in Nat
      BY <3>1, FS_CardinalityType
    <3>3. /\ IsFiniteSet(Holders \union {g})
          /\ Cardinality(Holders \union {g}) = Cardinality(Holders) + 1
      BY <2>11, <3>1, FS_AddElement
    <3>4. published' = address' + Cardinality(Holders')
      BY <1>2, <1>5, <2>11, <3>1, <3>2, <3>3
    <3>5. QED
      BY <2>11, <3>3, <3>4 DEF HolderInv
  <2>13. ShapeInv'
    BY <1>1, <1>2, <2>8 DEF ShapeInv
  <2>14. ASSUME NEW h \in Goroutines PROVE Speaks(routine'[h]) = Speaks(routine[h])
    <3>1. CASE h = g
      <4>1. <<Len(r), s>>[2].do \notin {"tell", "forget"}
        BY <2>2
      <4>2. QED
        BY <2>9, <3>1, <4>1 DEF Speaks, r
    <3>2. CASE h # g
      BY <2>8, <3>2 DEF Speaks
    <3>3. QED
      BY <3>1, <3>2
  <2>15. QED
    BY <2>10, <2>12, <2>13, <2>14 DEF ControlInv, Steady
<1>6. QED
  BY <1>4, <1>5

(* And puts it back.                                                       *)
LEMMA PutBackControl ==
  ASSUME ControlInv, NEW g \in Goroutines, PutBack(g)
  PROVE  ControlInv' /\ Steady
<1> DEFINE r == routine[g]
           done == <<Len(r) - 1, Head(r)>>
<1>1. ShapeInv /\ PlaceInv /\ HolderInv
  BY DEF ControlInv
<1>2. /\ r \in Seq(Step) /\ r # <<>> /\ Head(r).do = "put back"
      /\ address = 0 /\ address' = 1
      /\ UNCHANGED <<lastError, shutdown, published, program, serverCalls>>
  BY <1>1 DEF PutBack, Doing, ShapeInv, KeepRegistered
<1>3. /\ Tail(r) \in Seq(Step) /\ Marks(Tail(r)) = Marks(r) \ {done} /\ done \in Marks(r)
  BY <1>2, MarksTail DEF Marked
<1>4. routine' = [routine EXCEPT ![g] = Tail(r)]
  <2>1. <<>> \o Tail(r) = Tail(r)
    BY <1>3, ConcatEmptySeq
  <2>2. QED
    BY <2>1 DEF PutBack, DoesInstead
<1>5. /\ routine' \in [Goroutines -> Seq(Step)] /\ routine'[g] = Tail(r)
      /\ \A h \in Goroutines \ {g} : routine'[h] = routine[h]
  BY <1>1, <1>3, <1>4 DEF ShapeInv
<1>6. done[2].do = "put back"
  BY <1>2
<1>7. \A p \in Marks(r) : p[2].do = "put back" => p = done
  <2>1. ASSUME NEW p \in Marks(r), p[2].do = "put back" PROVE p = done
    <3>1. p[1] = Len(r) - 1
      BY <1>1, <2>1 DEF PlaceInv
    <3>2. p[2] = At(r, p[1])
      BY <1>2, <2>1, MarkAt
    <3>3. Head(r) = At(r, Len(r) - 1)
      BY <1>2, MarksTail
    <3>4. QED
      BY <3>1, <3>2, <3>3, MarkPair
  <2>2. QED
    BY <2>1
<1>8. /\ Marks(routine'[g]) = Marks(r) \ {done}
      /\ \A p \in Marks(routine'[g]) : p[2].do # "put back"
  BY <1>3, <1>5, <1>7
<1>9. r # <<To("wait")>>
  BY <1>2, DoesNotWait
<1>10. PlaceInv'
  <2>1. \A p \in Marks(r) : p[2].do \in {"serve", "go serve"} => p[1] = 0
    BY <1>1 DEF PlaceInv
  <2>2. \A p \in Marks(routine'[g]) :
          /\ p[2].do = "put back" => p[1] = Len(routine'[g]) - 1
          /\ p[2].do \in {"serve", "go serve"} => p[1] = 0
          /\ p[2].do = "start" => p \in Marks(r)
    BY <1>8, <2>1
  <2>3. PlaceInv'
    BY <1>1, <1>5, <1>9, <2>2, OnePlaceKeeps
  <2>4. QED
    BY <2>3
<1>11. g \in Holders /\ Holders' = Holders \ {g}
  <2>1. g \in Holders
    BY <1>3, <1>6 DEF Holders
  <2>2. g \notin Holders'
    BY <1>8 DEF Holders
  <2>3. ASSUME NEW h \in Goroutines \ {g} PROVE h \in Holders' <=> h \in Holders
    <3>1. routine'[h] = routine[h]
      BY <1>5
    <3>2. QED
      BY <3>1 DEF Holders
  <2>4. Holders \subseteq Goroutines /\ Holders' \subseteq Goroutines
    BY DEF Holders
  <2>5. QED
    BY <2>1, <2>2, <2>3, <2>4
<1>12. HolderInv'
  <2>1. IsFiniteSet(Holders) /\ published = address + Cardinality(Holders)
    BY <1>1 DEF HolderInv
  <2>2. Cardinality(Holders) \in Nat
    BY <2>1, FS_CardinalityType
  <2>3. /\ IsFiniteSet(Holders \ {g}) /\ Cardinality(Holders \ {g}) = Cardinality(Holders) - 1
    BY <1>11, <2>1, FS_RemoveElement
  <2>4. Cardinality(Holders') = Cardinality(Holders) - 1
    BY <1>11, <2>3
  <2>5. address = 0 /\ address' = 1 /\ published' = published
    BY <1>2
  <2>6. published' = address' + (Cardinality(Holders) - 1)
    BY <2>1, <2>2, <2>5
  <2>7. QED
    BY <1>11, <2>3, <2>4, <2>6 DEF HolderInv
<1>13. ShapeInv'
  BY <1>1, <1>2, <1>5 DEF ShapeInv
<1>14. ASSUME NEW h \in Goroutines PROVE Speaks(routine'[h]) = Speaks(routine[h])
  <2>1. CASE h = g
    BY <1>6, <1>8, <2>1 DEF Speaks
  <2>2. CASE h # g
    BY <1>5, <2>2 DEF Speaks
  <2>3. QED
    BY <2>1, <2>2
<1>15. QED
  BY <1>10, <1>12, <1>13, <1>14 DEF ControlInv, Steady

(* Serve has a goroutine of its own, which has nothing else to do.         *)
LEMMA StartServeControl ==
  ASSUME ControlInv, NEW g \in Goroutines, NEW s \in Serves, StartServe(g, s)
  PROVE  ControlInv' /\ Steady
<1> DEFINE r == routine[g]
           go == To("go serve")
<1>1. ShapeInv /\ PlaceInv /\ HolderInv
  BY DEF ControlInv
<1>2. /\ r \in Seq(Step) /\ r # <<>> /\ Head(r).do = "go" /\ routine[s] = <<>> /\ s # g
      /\ s \in Goroutines
  BY <1>1 DEF StartServe, Doing, ShapeInv, Goroutines
<1>3. /\ go \in Step /\ go.do = "go serve" /\ go.do \in Marked
      /\ <<0, go>>[2].do = "go serve"
  BY DEF To, Step, PlainSteps, Marked
<1> HIDE DEF go
<1>4. Marks(<<>>) = {} /\ Marks(<<go>>) = {<<0, go>>} /\ <<go>> \in Seq(Step)
  BY <1>3, MarksOfOne
<1>5. Tail(r) \in Seq(Step) /\ Marks(Tail(r)) = Marks(r)
  <2>1. Tail(r) \in Seq(Step) /\ Marks(Tail(r)) = Marks(r) \ {<<Len(r) - 1, Head(r)>>}
    BY <1>2, MarksTail
  <2>2. ASSUME NEW p \in Marks(r) PROVE p # <<Len(r) - 1, Head(r)>>
    <3>1. p[2].do \in Marked
      BY <1>2, MarkAt
    <3>2. <<Len(r) - 1, Head(r)>>[2].do \notin Marked
      BY <1>2 DEF Marked
    <3>3. QED
      BY <3>1, <3>2
  <2>3. QED
    BY <2>1, <2>2
<1>6. /\ routine' \in [Goroutines -> Seq(Step)] /\ routine'[g] = Tail(r) /\ routine'[s] = <<go>>
      /\ \A h \in Goroutines \ {g, s} : routine'[h] = routine[h]
  BY <1>1, <1>2, <1>4, <1>5 DEF StartServe, ShapeInv, go
<1>7. /\ Marks(routine[s]) = {} /\ Marks(routine'[s]) = {<<0, go>>}
      /\ \A h \in Goroutines \ {s} : Marks(routine'[h]) = Marks(routine[h])
  BY <1>2, <1>4, <1>5, <1>6
<1>8. \A p \in Marks(r) : p[2].do # "put back"
  BY <1>1, <1>2, NoAddressInHand
<1>9. PlaceInv'
  <2>1. r # <<To("wait")>> /\ routine[s] # <<To("wait")>>
    BY <1>2, DoesNotWait, HeadOfOne
  <2>2. \A p \in Marks(r) : p[2].do \in {"serve", "go serve"} => p[1] = 0
    BY <1>1 DEF PlaceInv
  <2>3. <<0, go>>[1] = 0 /\ <<0, go>>[2].do = "go serve"
    BY <1>3
  <2>4. \A h \in {g, s} : \A p \in Marks(routine'[h]) :
          /\ p[2].do = "put back" => p[1] = Len(routine'[h]) - 1
          /\ p[2].do \in {"serve", "go serve"} => p[1] = 0
          /\ p[2].do = "start" => p \in Marks(routine[h])
    BY <1>2, <1>7, <1>8, <2>2, <2>3
  <2>5. \A c \in SUBSET Goroutines : c = {g, s} => PlaceInv'
    BY <1>1, <1>6, <2>1, <2>4, PlaceKeeps
  <2>6. QED
    BY <1>2, <2>5
<1>10. Holders' = Holders
  <2>1. \A p \in Marks(routine'[s]) : p[2].do # "put back"
    BY <1>3, <1>7
  <2>2. QED
    BY <1>7, <2>1 DEF Holders
<1>11. UNCHANGED <<address, lastError, shutdown, program, published, serverCalls>>
  BY DEF StartServe, KeepServer
<1>12. HolderInv'
  BY <1>1, <1>10, <1>11, HolderKeeps
<1>13. ShapeInv'
  BY <1>1, <1>6, <1>11 DEF ShapeInv
<1>14. ASSUME NEW h \in Goroutines PROVE Speaks(routine'[h]) = Speaks(routine[h])
  <2>1. CASE h = s
    BY <1>3, <1>7, <2>1 DEF Speaks
  <2>2. CASE h # s
    BY <1>7, <2>2 DEF Speaks
  <2>3. QED
    BY <2>1, <2>2
<1>15. QED
  BY <1>9, <1>12, <1>13, <1>14 DEF ControlInv, Steady

(* A goroutine that is about to serve, or serves, has nothing else to do.  *)
LEMMA ServesAlone ==
  ASSUME ControlInv, NEW g \in Goroutines, Doing(g, "serve") \/ Doing(g, "go serve")
  PROVE  /\ routine[g] \in Seq(Step) /\ routine[g] # <<>> /\ Len(routine[g]) = 1
         /\ Head(routine[g]).do \in {"serve", "go serve"} /\ Head(routine[g]) \in Step
         /\ Tail(routine[g]) = <<>> /\ Marks(routine[g]) = {<<0, Head(routine[g])>>}
<1> DEFINE r == routine[g]
<1>1. /\ r \in Seq(Step) /\ r # <<>> /\ Head(r).do \in {"serve", "go serve"}
  BY DEF ControlInv, ShapeInv, Doing
<1>2. Head(r).do \in Marked
  BY <1>1 DEF Marked
<1>3. /\ <<Len(r) - 1, Head(r)>> \in Marks(r) /\ Len(r) \in Nat \ {0}
      /\ Tail(r) \in Seq(Step) /\ Len(Tail(r)) = Len(r) - 1 /\ Head(r) \in Step
      /\ Marks(Tail(r)) = Marks(r) \ {<<Len(r) - 1, Head(r)>>}
  BY <1>1, <1>2, MarksTail
<1>4. Len(r) = 1 /\ Len(Tail(r)) = 0 /\ Len(r) - 1 = 0
  <2>1. <<Len(r) - 1, Head(r)>>[1] = 0
    <3>1. \A p \in Marks(r) : p[2].do \in {"serve", "go serve"} => p[1] = 0
      BY DEF ControlInv, PlaceInv
    <3>2. <<Len(r) - 1, Head(r)>>[2].do \in {"serve", "go serve"}
      BY <1>1
    <3>3. QED
      BY <1>3, <3>1, <3>2
  <2>2. Len(r) - 1 = 0
    BY <2>1
  <2>3. Len(r) = 1
    BY <1>3, <2>2, OneIfNoneLess
  <2>4. QED
    BY <1>3, <2>2, <2>3
<1>5. Tail(r) = <<>>
  BY <1>3, <1>4, EmptySeq
<1>6. Marks(r) = {<<0, Head(r)>>}
  <2>1. Len(r) - 1 = 0
    BY <1>4
  <2>2. {} = Marks(r) \ {<<0, Head(r)>>} /\ <<0, Head(r)>> \in Marks(r)
    BY <1>1, <1>3, <1>5, <2>1, MarksOfOne
  <2>3. QED
    BY <2>2
<1>7. QED
  BY <1>1, <1>3, <1>4, <1>5, <1>6

(* It begins to serve, unless the server is shut down.                     *)
LEMMA ServeStartsControl ==
  ASSUME ControlInv, NEW s \in Serves, ServeStarts(s)
  PROVE  ControlInv' /\ Steady
<1> DEFINE serve == To("serve")
<1>0. s \in Goroutines /\ Doing(s, "go serve")
  BY DEF ServeStarts, Goroutines
<1>1. ShapeInv /\ PlaceInv /\ HolderInv
  BY DEF ControlInv
<1>2. UNCHANGED <<address, lastError, shutdown, program, published, serverCalls>>
  BY DEF ServeStarts, KeepServer
<1>3. CASE shutdown
  <2>1. DoesInstead(s, <<>>) /\ <<>> \in Seq(Quiet)
    BY <1>3, QuietSteps DEF ServeStarts
  <2>2. lastError' \in {0, 1}
    BY <1>1, <1>2 DEF ShapeInv
  <2>3. "go serve" \notin {"put back", "wait", "tell", "forget"}
    OBVIOUS
  <2>4. QED
    BY <1>0, <1>2, <2>1, <2>2, <2>3, InsteadKeeps
<1>4. CASE ~shutdown
  <2>1. /\ routine[s] \in Seq(Step) /\ routine[s] # <<>> /\ Tail(routine[s]) = <<>>
        /\ Head(routine[s]).do = "go serve" /\ Marks(routine[s]) = {<<0, Head(routine[s])>>}
    BY <1>0, ServesAlone DEF Doing
  <2>2. /\ serve \in Step /\ serve.do = "serve" /\ serve.do \in Marked
        /\ <<0, serve>>[2].do = "serve" /\ <<0, serve>>[1] = 0
    BY DEF To, Step, PlainSteps, Marked
  <2> HIDE DEF serve
  <2>3. <<serve>> \in Seq(Step) /\ Marks(<<serve>>) = {<<0, serve>>}
    BY <2>2, MarksOfOne
  <2>4. routine' = [routine EXCEPT ![s] = <<serve>>]
    <3>1. <<serve>> \o <<>> = <<serve>>
      BY <2>3, ConcatEmptySeq
    <3>2. QED
      BY <1>4, <2>1, <3>1 DEF ServeStarts, DoesInstead, serve
  <2>5. /\ routine' \in [Goroutines -> Seq(Step)]
        /\ \A h \in Goroutines \ {s} : routine'[h] = routine[h]
        /\ Marks(routine'[s]) = {<<0, serve>>}
    BY <1>0, <1>1, <2>3, <2>4 DEF ShapeInv
  <2>6. PlaceInv'
    <3>1. routine[s] # <<To("wait")>>
      BY <2>1, DoesNotWait
    <3>2. \A p \in Marks(routine'[s]) :
            /\ p[2].do = "put back" => p[1] = Len(routine'[s]) - 1
            /\ p[2].do \in {"serve", "go serve"} => p[1] = 0
            /\ p[2].do = "start" => p \in Marks(routine[s])
      BY <2>2, <2>5
    <3>3. PlaceInv'
      BY <1>0, <1>1, <2>5, <3>1, <3>2, OnePlaceKeeps
    <3>4. QED
      BY <1>0, <3>3
  <2>7. <<0, Head(routine[s])>>[2].do = "go serve"
    BY <2>1
  <2>8. Holders' = Holders
    <3>1. \A p \in Marks(routine[s]) : p[2].do # "put back"
      BY <2>1, <2>7
    <3>2. \A p \in Marks(routine'[s]) : p[2].do # "put back"
      BY <2>2, <2>5
    <3>3. QED
      BY <2>5, <3>1, <3>2 DEF Holders
  <2>9. HolderInv'
    BY <1>1, <1>2, <2>8, HolderKeeps
  <2>10. ShapeInv'
    BY <1>1, <1>2, <2>5 DEF ShapeInv
  <2>11. ASSUME NEW h \in Goroutines PROVE Speaks(routine'[h]) = Speaks(routine[h])
    <3>1. CASE h = s
      <4>1. Speaks(routine[s]) = {}
        BY <2>1, <2>7 DEF Speaks
      <4>2. Speaks(routine'[s]) = {}
        BY <2>2, <2>5 DEF Speaks
      <4>3. QED
        BY <3>1, <4>1, <4>2
    <3>2. CASE h # s
      BY <2>5, <3>2 DEF Speaks
    <3>3. QED
      BY <3>1, <3>2
  <2>12. QED
    BY <2>6, <2>9, <2>10, <2>11 DEF ControlInv, Steady
<1>5. QED
  BY <1>3, <1>4

(* A connection is accepted: its event first, then its own goroutine.      *)
LEMMA AcceptControl ==
  ASSUME ControlInv, NEW s \in Serves, NEW c \in Connections, AcceptConnection(s, c)
  PROVE  ControlInv' /\ Steady
<1> DEFINE start == [do |-> "start", connection |-> c]
           emit == Emits("connection")
           wait == To("wait")
           r == routine[s]
<1>1. ShapeInv /\ PlaceInv /\ HolderInv
  BY DEF ControlInv
<1>2. /\ s \in Goroutines /\ c \in Goroutines /\ Doing(s, "serve") /\ routine[c] = <<>>
      /\ UNCHANGED <<address, lastError, shutdown, program, published>>
  BY DEF AcceptConnection, KeepServer, Goroutines
<1>3. /\ r \in Seq(Step) /\ r # <<>> /\ Len(r) = 1 /\ Head(r).do = "serve"
      /\ Marks(r) = {<<0, Head(r)>>} /\ c # s
  BY <1>2, ServesAlone DEF Doing
<1>4. serverCalls' \in 0..MaxServerCalls
  BY CallsCounted DEF AcceptConnection
<1>5. /\ start \in Step /\ start.do = "start" /\ start.connection = c /\ start.do \in Marked
      /\ <<1, start>>[1] = 1 /\ <<1, start>>[2] = start
  BY DEF Step, Marked
<1>6. <<emit>> \in Seq(Quiet)
  BY QuietSteps DEF ServerEvents
<1>7. wait \in Step /\ wait.do \notin Marked
  BY DEF To, Step, PlainSteps, Marked
<1> HIDE DEF start, emit, wait
<1>8. <<wait>> \in Seq(Step) /\ Marks(<<wait>>) = {} /\ Marks(<<>>) = {}
  BY <1>7, MarksOfOne
<1>9. <<start>> \o r \in Seq(Step) /\ Marks(<<start>> \o r) = {<<0, Head(r)>>, <<1, start>>}
  <2>1. /\ <<start>> \o r \in Seq(Step)
        /\ Marks(<<start>> \o r) = Marks(r) \union {<<Len(r), start>>}
    BY <1>3, <1>5, MarkFirst
  <2>2. QED
    BY <1>3, <2>1
<1>10. <<emit, start>> \o r = <<emit>> \o (<<start>> \o r)
  <2>1. <<emit>> \in Seq(Step) /\ <<start>> \in Seq(Step)
    BY <1>5, <1>6, QuietHasNone, MarksOfOne
  <2>2. <<emit>> \o (<<start>> \o r) = (<<emit>> \o <<start>>) \o r
    BY <1>3, <2>1, ConcatAssociative
  <2>3. <<emit>> \o <<start>> = <<emit, start>>
    BY TwoSteps
  <2>4. QED
    BY <2>2, <2>3
<1>11. /\ <<emit, start>> \o r \in Seq(Step)
       /\ Marks(<<emit, start>> \o r) = {<<0, Head(r)>>, <<1, start>>}
  BY <1>6, <1>9, <1>10, QuietMarks
<1>12. routine' = [routine EXCEPT ![s] = <<emit, start>> \o r, ![c] = <<wait>>]
  BY <1>2, <1>3 DEF AcceptConnection, emit, start, wait
<1>13. /\ routine' \in [Goroutines -> Seq(Step)] /\ routine'[c] = <<wait>>
       /\ Marks(routine'[c]) = {} /\ Marks(routine[c]) = {}
       /\ Marks(routine'[s]) = {<<0, Head(r)>>, <<1, start>>}
       /\ \A h \in Goroutines \ {s, c} : routine'[h] = routine[h]
  BY <1>1, <1>2, <1>3, <1>8, <1>11, <1>12 DEF ShapeInv
<1>14. <<0, Head(r)>>[1] = 0 /\ <<0, Head(r)>>[2].do = "serve"
  BY <1>3
<1>15. ASSUME NEW h \in Goroutines, NEW p \in Marks(routine'[h]), p[2].do = "start"
       PROVE  \/ h = s /\ p = <<1, start>>
              \/ /\ h \notin {s, c} /\ p \in Marks(routine[h])
                 /\ p[1] = 1 /\ routine[p[2].connection] = <<To("wait")>>
                 /\ p[2].connection \in Goroutines \ {s, c}
  <2>1. CASE h = s
    BY <1>13, <1>14, <1>15, <2>1
  <2>2. CASE h = c
    BY <1>13, <1>15, <2>2
  <2>3. CASE h \notin {s, c}
    <3>1. p \in Marks(routine[h])
      BY <1>13, <2>3
    <3>2. p[1] = 1 /\ routine[p[2].connection] = <<To("wait")>>
      BY <1>1, <1>15, <3>1 DEF PlaceInv
    <3>3. p[2].connection \in Goroutines
      <4>1. p[2] \in Step
        BY <1>1, <3>1, MarkAt DEF ShapeInv
      <4>2. QED
        BY <1>15, <4>1, StepFields DEF Goroutines
    <3>4. routine[s] # <<To("wait")>> /\ routine[c] # <<To("wait")>>
      BY <1>2, <1>3, DoesNotWait, HeadOfOne
    <3>5. QED
      BY <2>3, <3>1, <3>2, <3>3, <3>4
  <2>4. QED
    BY <2>1, <2>2, <2>3
<1>16. PlaceInv'
  <2>1. ASSUME NEW h \in Goroutines, NEW p \in Marks(routine'[h])
        PROVE  /\ p[2].do = "put back" => p[1] = Len(routine'[h]) - 1
               /\ p[2].do \in {"serve", "go serve"} => p[1] = 0
    <3>1. CASE h = s
      <4>1. CASE p = <<0, Head(r)>>
        BY <1>14, <4>1
      <4>2. CASE p = <<1, start>>
        BY <1>5, <4>2
      <4>3. QED
        BY <1>13, <2>1, <3>1, <4>1, <4>2
    <3>2. CASE h = c
      BY <1>13, <2>1, <3>2
    <3>3. CASE h \notin {s, c}
      BY <1>1, <1>13, <2>1, <3>3 DEF PlaceInv
    <3>4. QED
      BY <3>1, <3>2, <3>3
  <2>2. ASSUME NEW h \in Goroutines, NEW p \in Marks(routine'[h]), p[2].do = "start"
        PROVE  p[1] = 1 /\ routine'[p[2].connection] = <<To("wait")>>
    <3>1. CASE h = s /\ p = <<1, start>>
      BY <1>5, <1>13, <3>1 DEF wait
    <3>2. CASE ~(h = s /\ p = <<1, start>>)
      BY <1>13, <1>15, <2>2, <3>2
    <3>3. QED
      BY <3>1, <3>2
  <2>3. ASSUME NEW h \in Goroutines, NEW k \in Goroutines,
               NEW p \in Marks(routine'[h]), NEW q \in Marks(routine'[k]),
               p[2].do = "start", q[2].do = "start", p[2].connection = q[2].connection
        PROVE  h = k
    <3>1. \/ h = s /\ p[2].connection = c
          \/ p \in Marks(routine[h]) /\ p[2].connection # c
      BY <1>5, <1>15, <2>3
    <3>2. \/ k = s /\ q[2].connection = c
          \/ q \in Marks(routine[k]) /\ q[2].connection # c
      BY <1>5, <1>15, <2>3
    <3>3. QED
      BY <1>1, <2>3, <3>1, <3>2 DEF PlaceInv
  <2>4. QED
    BY <2>1, <2>2, <2>3 DEF PlaceInv
<1>17. Holders' = Holders
  <2>1. \A p \in Marks(routine[s]) \union Marks(routine'[s]) : p[2].do # "put back"
    BY <1>3, <1>5, <1>13, <1>14
  <2>2. ASSUME NEW h \in Goroutines
        PROVE  (\E p \in Marks(routine'[h]) : p[2].do = "put back")
                 <=> (\E p \in Marks(routine[h]) : p[2].do = "put back")
    BY <1>13, <2>1
  <2>3. QED
    BY <2>2 DEF Holders
<1>18. HolderInv'
  BY <1>1, <1>2, <1>17, HolderKeeps
<1>19. ShapeInv'
  BY <1>1, <1>2, <1>4, <1>13 DEF ShapeInv
<1>20. ASSUME NEW h \in Goroutines PROVE Speaks(routine'[h]) = Speaks(routine[h])
  <2>1. CASE h = s
    <3>1. \A p \in Marks(routine[s]) \union Marks(routine'[s]) : p[2].do \notin {"tell", "forget"}
      BY <1>3, <1>5, <1>13, <1>14
    <3>2. QED
      BY <2>1, <3>1 DEF Speaks
  <2>2. CASE h = c
    BY <1>13, <2>2 DEF Speaks
  <2>3. CASE h \notin {s, c}
    BY <1>13, <2>3 DEF Speaks
  <2>4. QED
    BY <2>1, <2>2, <2>3
<1>21. QED
  BY <1>16, <1>18, <1>19, <1>20 DEF ControlInv, Steady

(* The connection that waited has its events to emit.                      *)
LEMMA StartConnectionControl ==
  ASSUME ControlInv, NEW s \in Serves, StartConnection(s)
  PROVE  ControlInv' /\ Steady
<1> DEFINE r == routine[s]
           c == Head(r).connection
           done == <<Len(r) - 1, Head(r)>>
<1>1. ShapeInv /\ PlaceInv /\ HolderInv
  BY DEF ControlInv
<1>2. /\ s \in Goroutines
      /\ UNCHANGED <<address, lastError, shutdown, program, published, serverCalls>>
  BY DEF StartConnection, KeepServer, Goroutines
<1>3. r \in Seq(Step) /\ r # <<>> /\ Head(r).do = "start"
  BY <1>1, <1>2 DEF StartConnection, Doing, ShapeInv
<1>4. /\ Tail(r) \in Seq(Step) /\ Marks(Tail(r)) = Marks(r) \ {done} /\ done \in Marks(r)
      /\ Head(r) \in Step /\ c \in Goroutines
  <2>1. Head(r).do \in Marked
    BY <1>3 DEF Marked
  <2>2. Head(r) \in Step
    BY <1>3, MarksTail
  <2>3. QED
    BY <1>3, <2>1, <2>2, MarksTail, StepFields DEF Goroutines
<1>5. done[2] = Head(r) /\ done[2].do = "start"
  BY <1>3
<1>6. done[1] = 1 /\ routine[c] = <<To("wait")>>
  BY <1>1, <1>2, <1>4, <1>5 DEF PlaceInv
<1>7. r # <<To("wait")>> /\ c # s
  <2>1. r # <<To("wait")>>
    BY <1>3, DoesNotWait
  <2>2. QED
    BY <1>6, <2>1
<1>8. PICK events \in Seq(Quiet) : routine' = [routine EXCEPT ![s] = Tail(@), ![c] = events]
  <2>1. \A d, e \in ServerEvents : <<Emits(d)>> \in Seq(Quiet) /\ <<Emits(d), Emits(e)>> \in Seq(Quiet)
    BY QuietSteps
  <2>2. \A events \in {<<Emits("request")>>, <<Emits("upgrade"), Emits("request")>>,
                       EmitsError("clientError")} : events \in Seq(Quiet)
    BY <2>1 DEF EmitsError, ServerEvents
  <2>3. QED
    BY <2>2 DEF StartConnection
<1>9. events \in Seq(Step) /\ Marks(events) = {}
  BY QuietHasNone
<1>10. Marks(<<To("wait")>>) = {}
  <2>1. To("wait") \in Step /\ To("wait").do \notin Marked
    BY DEF To, Step, PlainSteps, Marked
  <2>2. QED
    BY <2>1, MarksOfOne
<1> HIDE DEF c, done
<1>11. routine' = [routine EXCEPT ![s] = Tail(r), ![c] = events]
  BY <1>7, <1>8
<1>12. /\ routine' \in [Goroutines -> Seq(Step)] /\ routine'[c] = events
       /\ Marks(routine'[s]) = Marks(r) \ {done}
       /\ \A h \in Goroutines \ {s, c} : routine'[h] = routine[h]
  BY <1>1, <1>2, <1>4, <1>7, <1>9, <1>11 DEF ShapeInv
<1>13. /\ Marks(routine'[c]) = {} /\ Marks(routine[c]) = {}
       /\ \A h \in Goroutines : Marks(routine'[h]) \subseteq Marks(routine[h])
       /\ \A h \in Goroutines \ {s} : Marks(routine'[h]) = Marks(routine[h])
  BY <1>4, <1>6, <1>9, <1>10, <1>12
<1>14. \A p \in Marks(r) : p[2].do # "put back"
  <2>1. Head(r).do # "put back"
    BY <1>3
  <2>2. QED
    BY <1>1, <1>2, <2>1, NoAddressInHand
<1>15. ASSUME NEW h \in Goroutines, NEW p \in Marks(routine'[h]), p[2].do = "start"
       PROVE  p[1] = 1 /\ routine'[p[2].connection] = <<To("wait")>>
  <2>1. p \in Marks(routine[h])
    BY <1>13, <1>15
  <2>2. p[1] = 1 /\ routine[p[2].connection] = <<To("wait")>>
    BY <1>1, <1>15, <2>1 DEF PlaceInv
  <2>3. p[2].connection \in Goroutines
    <3>1. p[2] \in Step
      BY <1>1, <2>1, MarkAt DEF ShapeInv
    <3>2. QED
      BY <1>15, <3>1, StepFields DEF Goroutines
  <2>4. p[2].connection # c
    <3>1. CASE p[2].connection = c
      <4>1. h = s
        BY <1>1, <1>2, <1>4, <1>5, <1>15, <2>1, <3>1 DEF PlaceInv, c
      <4>2. p[2] = At(r, p[1]) /\ done[2] = At(r, done[1])
        BY <1>3, <1>4, <2>1, <4>1, MarkAt
      <4>3. p[1] = done[1]
        BY <1>6, <2>2
      <4>4. p = <<p[1], p[2]>> /\ done = <<done[1], done[2]>>
        BY <1>4, <2>1, MarkPair
      <4>5. p = done
        BY <4>2, <4>3, <4>4
      <4>6. QED
        BY <1>12, <1>15, <4>1, <4>5
    <3>2. QED
      BY <3>1
  <2>5. QED
    BY <1>7, <1>12, <2>2, <2>3, <2>4
<1>16. PlaceInv'
  <2>1. ASSUME NEW h \in Goroutines, NEW p \in Marks(routine'[h])
        PROVE  /\ p[2].do = "put back" => p[1] = Len(routine'[h]) - 1
               /\ p[2].do \in {"serve", "go serve"} => p[1] = 0
    <3>1. p \in Marks(routine[h])
      BY <1>13, <2>1
    <3>2. p[2].do \in {"serve", "go serve"} => p[1] = 0
      BY <1>1, <3>1 DEF PlaceInv
    <3>3. CASE h = s
      BY <1>14, <3>1, <3>2, <3>3
    <3>4. CASE h = c
      BY <1>13, <2>1, <3>4
    <3>5. CASE h \notin {s, c}
      BY <1>1, <1>12, <3>1, <3>2, <3>5 DEF PlaceInv
    <3>6. QED
      BY <3>3, <3>4, <3>5
  <2>2. ASSUME NEW h \in Goroutines, NEW k \in Goroutines,
               NEW p \in Marks(routine'[h]), NEW q \in Marks(routine'[k]),
               p[2].do = "start", q[2].do = "start", p[2].connection = q[2].connection
        PROVE  h = k
    <3>1. p \in Marks(routine[h]) /\ q \in Marks(routine[k])
      BY <1>13, <2>2
    <3>2. QED
      BY <1>1, <2>2, <3>1 DEF PlaceInv
  <2>3. QED
    BY <1>15, <2>1, <2>2 DEF PlaceInv
<1>17. Holders' = Holders
  <2>1. \A p \in Marks(routine'[s]) : p[2].do # "put back"
    BY <1>2, <1>13, <1>14
  <2>2. ASSUME NEW h \in Goroutines
        PROVE  (\E p \in Marks(routine'[h]) : p[2].do = "put back")
                 <=> (\E p \in Marks(routine[h]) : p[2].do = "put back")
    BY <1>13, <1>14, <2>1
  <2>3. QED
    BY <2>2 DEF Holders
<1>18. HolderInv'
  BY <1>1, <1>2, <1>17, HolderKeeps
<1>19. ShapeInv'
  BY <1>1, <1>2, <1>12 DEF ShapeInv
<1>20. ASSUME NEW h \in Goroutines PROVE Speaks(routine'[h]) = Speaks(routine[h])
  <2>1. CASE h = s
    BY <1>5, <1>12, <2>1 DEF Speaks
  <2>2. CASE h # s
    BY <1>13, <2>2 DEF Speaks
  <2>3. QED
    BY <2>1, <2>2
<1>21. QED
  BY <1>16, <1>18, <1>19, <1>20 DEF ControlInv, Steady

----------------------------------------------------------------------------
(* Lists of listeners: their numbers, in the order of registration.        *)
Ascending(list) == \A i, j \in DOMAIN list : i < j => list[i] < list[j]

(* Who is in a list.                                                       *)
LEMMA InRange ==
  ASSUME NEW list \in Seq(Nat), NEW x
  PROVE  x \in Range(list) <=> \E i \in 1..Len(list) : list[i] = x
BY DEF Range

(* The rest of a list is the list without its first.                       *)
LEMMA ListTail ==
  ASSUME NEW list \in Seq(Nat), list # <<>>, Ascending(list)
  PROVE  /\ Tail(list) \in Seq(Nat) /\ Ascending(Tail(list)) /\ Head(list) \in Range(list)
         /\ Range(Tail(list)) = Range(list) \ {Head(list)}
         /\ Len(list) \in Nat \ {0} /\ Len(Tail(list)) = Len(list) - 1
<1>1. /\ Tail(list) \in Seq(Nat) /\ Len(Tail(list)) = Len(list) - 1
      /\ \A i \in 1..Len(Tail(list)) : Tail(list)[i] = list[i + 1]
      /\ Len(list) \in Nat \ {0} /\ Head(list) = list[1]
  BY HeadTailProperties, EmptySeq
<1>2. /\ DOMAIN list = 1..Len(list) /\ DOMAIN Tail(list) = 1..(Len(list) - 1)
      /\ \A i \in 1..Len(list) : list[i] \in Nat
  BY <1>1, LenProperties, ElementOfSeq
<1>3. Ascending(Tail(list))
  <2>1. ASSUME NEW i \in 1..(Len(list) - 1), NEW j \in 1..(Len(list) - 1), i < j
        PROVE  Tail(list)[i] < Tail(list)[j]
    <3>1. i + 1 \in 1..Len(list) /\ j + 1 \in 1..Len(list) /\ i + 1 < j + 1
      BY <1>1, <2>1
    <3>2. QED
      BY <1>1, <1>2, <3>1 DEF Ascending
  <2>2. QED
    BY <1>2, <2>1 DEF Ascending
<1>4. 1 \in 1..Len(list)
  BY <1>1
<1>5. ASSUME NEW x PROVE x \in Range(Tail(list)) <=> x \in Range(list) \ {Head(list)}
  <2>1. ASSUME NEW i \in 1..(Len(list) - 1), Tail(list)[i] = x
        PROVE  x \in Range(list) \ {Head(list)}
    <3>1. i + 1 \in 1..Len(list) /\ 1 < i + 1
      BY <1>1, <2>1
    <3>2. list[i + 1] = x /\ list[1] < list[i + 1]
      BY <1>1, <1>2, <1>4, <2>1, <3>1 DEF Ascending
    <3>3. x # list[1]
      BY <1>2, <1>4, <3>1, <3>2
    <3>4. QED
      BY <1>1, <3>1, <3>2, <3>3, InRange
  <2>2. ASSUME NEW i \in 1..Len(list), list[i] = x, x # Head(list)
        PROVE  \E k \in 1..(Len(list) - 1) : Tail(list)[k] = x
    <3>1. i # 1
      BY <1>1, <2>2
    <3>2. i - 1 \in 1..(Len(list) - 1) /\ (i - 1) + 1 = i
      BY <1>1, <2>2, <3>1
    <3>3. QED
      BY <1>1, <2>2, <3>2
  <2>3. x \in Range(Tail(list)) <=> \E i \in 1..(Len(list) - 1) : Tail(list)[i] = x
    <3>1. Tail(list) \in Seq(Nat) /\ Len(Tail(list)) = Len(list) - 1
      BY <1>1
    <3>2. PICK t : t = Tail(list)
      OBVIOUS
    <3>3. x \in Range(t) <=> \E i \in 1..Len(t) : t[i] = x
      BY <3>1, <3>2, InRange
    <3>4. QED
      BY <3>1, <3>2, <3>3
  <2>4. x \in Range(list) <=> \E i \in 1..Len(list) : list[i] = x
    BY InRange
  <2>5. QED
    BY <2>1, <2>2, <2>3, <2>4
<1>6. Head(list) \in Range(list)
  BY <1>1, <1>4, InRange
<1>7. QED
  BY <1>1, <1>3, <1>5, <1>6

(* A new number, larger than all, goes to the end.                         *)
LEMMA ListAppend ==
  ASSUME NEW list \in Seq(Nat), Ascending(list), NEW n \in Nat, \A x \in Range(list) : x < n
  PROVE  /\ Append(list, n) \in Seq(Nat) /\ Ascending(Append(list, n))
         /\ Range(Append(list, n)) = Range(list) \union {n}
<1>1. /\ Append(list, n) \in Seq(Nat) /\ Len(Append(list, n)) = Len(list) + 1
      /\ \A i \in 1..Len(list) : Append(list, n)[i] = list[i]
      /\ Append(list, n)[Len(list) + 1] = n
  BY AppendProperties
<1>2. /\ Len(list) \in Nat /\ DOMAIN list = 1..Len(list)
      /\ DOMAIN Append(list, n) = 1..(Len(list) + 1)
  BY <1>1, LenProperties
<1>3. \A i \in 1..Len(list) : list[i] < n
  BY InRange
<1>4. Ascending(Append(list, n))
  <2>1. ASSUME NEW i \in 1..(Len(list) + 1), NEW j \in 1..(Len(list) + 1), i < j
        PROVE  Append(list, n)[i] < Append(list, n)[j]
    <3>1. i \in 1..Len(list)
      BY <1>2, <2>1
    <3>2. CASE j = Len(list) + 1
      BY <1>1, <1>3, <3>1, <3>2
    <3>3. CASE j # Len(list) + 1
      <4>1. j \in 1..Len(list)
        BY <1>2, <3>3
      <4>2. list[i] < list[j]
        BY <1>2, <2>1, <3>1, <4>1 DEF Ascending
      <4>3. QED
        BY <1>1, <3>1, <4>1, <4>2
    <3>4. QED
      BY <3>2, <3>3
  <2>2. QED
    BY <1>2, <2>1 DEF Ascending
<1>5. ASSUME NEW x PROVE x \in Range(Append(list, n)) <=> x \in Range(list) \/ x = n
  <2>1. x \in Range(Append(list, n)) <=> \E i \in 1..(Len(list) + 1) : Append(list, n)[i] = x
    <3>1. PICK a \in Seq(Nat) : a = Append(list, n)
      BY <1>1
    <3>2. Len(a) = Len(list) + 1
      BY <1>1, <3>1
    <3>3. x \in Range(a) <=> \E i \in 1..Len(a) : a[i] = x
      BY InRange
    <3>4. QED
      BY <3>1, <3>2, <3>3
  <2>2. x \in Range(list) <=> \E i \in 1..Len(list) : list[i] = x
    BY InRange
  <2>3. \A i : i \in 1..(Len(list) + 1) <=> i \in 1..Len(list) \/ i = Len(list) + 1
    BY <1>2
  <2>4. QED
    BY <1>1, <2>1, <2>2, <2>3
<1>6. QED
  BY <1>1, <1>4, <1>5

(* One is taken out wherever it is, and no other.                          *)
LEMMA ListWithout ==
  ASSUME NEW list \in Seq(Nat), Ascending(list), NEW id
  PROVE  /\ Without(list, id) \in Seq(Nat) /\ Ascending(Without(list, id))
         /\ Range(Without(list, id)) = Range(list) \ {id}
<1> DEFINE w == Without(list, id)
           l == Len(list)
<1>0. /\ l \in Nat /\ DOMAIN list = 1..l /\ \A i \in 1..l : list[i] \in Nat
      /\ \A i, j \in 1..l : i < j => list[i] < list[j]
  BY LenProperties, ElementOfSeq DEF Ascending
<1>1. CASE \A i \in 1..l : list[i] # id
  <2>1. w = list
    BY <1>1 DEF Without, RemoveFirst
  <2>2. id \notin Range(list)
    BY <1>1, InRange
  <2>3. QED
    BY <2>1, <2>2
<1>2. CASE \E i \in 1..l : list[i] = id
  <2>1. PICK k \in 1..l : list[k] = id
    BY <1>2
  <2>2. ASSUME NEW i \in 1..l, list[i] = id PROVE i = k
    <3>1. ~(i < k) /\ ~(k < i)
      BY <1>0, <2>1, <2>2
    <3>2. QED
      BY <1>0, <3>1
  <2>3. w = SubSeq(list, 1, k - 1) \o SubSeq(list, k + 1, l)
    <3>1. {i \in 1..l : list[i] = id} = {k}
      BY <2>1, <2>2
    <3>2. Min({k}) = k
      BY <1>0 DEF Min
    <3>3. SelectInSeq(list, LAMBDA v : v = id) = k
      BY <3>1, <3>2 DEF SelectInSeq
    <3>4. QED
      BY <1>2, <3>3 DEF Without, RemoveFirst, RemoveAt
  <2> HIDE DEF w
  <2> DEFINE a == SubSeq(list, 1, k - 1)
             b == SubSeq(list, k + 1, l)
  <2>4. /\ a \in Seq(Nat) /\ Len(a) = k - 1
        /\ \A i \in 1..(k - 1) : a[i] = list[i]
    <3>1. 1 \in Int /\ k - 1 \in Int /\ \A i \in 1..(k - 1) : list[i] \in Nat
      BY <1>0
    <3>2. /\ a \in Seq(Nat) /\ Len(a) = IF 1 <= k - 1 THEN (k - 1) - 1 + 1 ELSE 0
          /\ \A i \in 1..((k - 1) - 1 + 1) : a[i] = list[1 + i - 1]
      BY <3>1, SubSeqProperties
    <3>3. /\ (IF 1 <= k - 1 THEN (k - 1) - 1 + 1 ELSE 0) = k - 1
          /\ (k - 1) - 1 + 1 = k - 1 /\ \A i \in 1..(k - 1) : 1 + i - 1 = i
      BY <1>0
    <3>4. QED
      BY <3>2, <3>3
  <2>5. /\ b \in Seq(Nat) /\ Len(b) = l - k
        /\ \A i \in 1..(l - k) : b[i] = list[k + i]
    <3>1. k + 1 \in Int /\ l \in Int /\ \A i \in (k + 1)..l : list[i] \in Nat
      BY <1>0
    <3>2. /\ b \in Seq(Nat) /\ Len(b) = IF k + 1 <= l THEN l - (k + 1) + 1 ELSE 0
          /\ \A i \in 1..(l - (k + 1) + 1) : b[i] = list[(k + 1) + i - 1]
      BY <3>1, SubSeqProperties, SMTT(30)
    <3>3. k \in Nat /\ l \in Nat /\ k <= l
      BY <1>0
    <3>4. (IF k + 1 <= l THEN l - (k + 1) + 1 ELSE 0) = l - k
      BY <3>3
    <3>5. l - (k + 1) + 1 = l - k
      BY <3>3
    <3>6. \A i \in 1..(l - k) : (k + 1) + i - 1 = k + i
      BY <3>3
    <3>7. QED
      BY <3>2, <3>4, <3>5, <3>6
  <2> HIDE DEF a, b
  <2>6. /\ w \in Seq(Nat) /\ Len(w) = l - 1
        /\ \A i \in 1..(l - 1) : w[i] = IF i < k THEN list[i] ELSE list[i + 1]
    <3>1. w = a \o b
      BY <2>3 DEF a, b
    <3>2. /\ w \in Seq(Nat) /\ Len(w) = Len(a) + Len(b)
          /\ \A i \in 1..(Len(a) + Len(b)) : w[i] = IF i <= Len(a) THEN a[i] ELSE b[i - Len(a)]
      BY <2>4, <2>5, <3>1, ConcatProperties
    <3>3. Len(a) + Len(b) = l - 1
      BY <1>0, <2>4, <2>5
    <3>4. ASSUME NEW i \in 1..(l - 1)
          PROVE  w[i] = IF i < k THEN list[i] ELSE list[i + 1]
      <4>1. w[i] = IF i <= k - 1 THEN a[i] ELSE b[i - (k - 1)]
        BY <2>4, <3>2, <3>3
      <4>2. CASE i < k
        <5>1. i \in 1..(k - 1) /\ i <= k - 1
          BY <1>0, <4>2
        <5>2. QED
          BY <2>4, <4>1, <4>2, <5>1
      <4>3. CASE ~(i < k)
        <5>1. i - (k - 1) \in 1..(l - k) /\ k + (i - (k - 1)) = i + 1 /\ ~(i <= k - 1)
          BY <1>0, <4>3
        <5>2. QED
          BY <2>5, <4>1, <4>3, <5>1
      <4>4. QED
        BY <4>2, <4>3
    <3>5. QED
      BY <3>2, <3>3, <3>4
  <2>7. DOMAIN w = 1..(l - 1)
    BY <2>6, LenProperties
  <2>8. Ascending(w)
    <3>1. ASSUME NEW i \in 1..(l - 1), NEW j \in 1..(l - 1), i < j PROVE w[i] < w[j]
      <4>1. /\ i \in 1..l /\ j \in 1..l /\ i + 1 \in 1..l /\ j + 1 \in 1..l
            /\ i < j + 1 /\ i + 1 < j + 1 /\ (j < k => i < k)
        BY <1>0, <3>1
      <4>2. QED
        BY <1>0, <2>6, <3>1, <4>1
    <3>2. QED
      BY <2>7, <3>1 DEF Ascending
  <2>9. ASSUME NEW x PROVE x \in Range(w) <=> x \in Range(list) /\ x # id
    <3>1. x \in Range(w) <=> \E i \in 1..(l - 1) : w[i] = x
      BY <2>6, InRange
    <3>2. x \in Range(list) <=> \E i \in 1..l : list[i] = x
      BY InRange
    <3>3. ASSUME NEW i \in 1..(l - 1), w[i] = x PROVE x # id /\ \E j \in 1..l : list[j] = x
      <4>1. i \in 1..l /\ i + 1 \in 1..l /\ (i < k => i # k) /\ (~(i < k) => i + 1 # k)
        BY <1>0
      <4>2. QED
        BY <2>2, <2>6, <3>3, <4>1
    <3>4. ASSUME NEW i \in 1..l, list[i] = x, x # id PROVE \E j \in 1..(l - 1) : w[j] = x
      <4>1. i # k
        BY <2>1, <3>4
      <4>2. CASE i < k
        <5>1. i \in 1..(l - 1)
          BY <1>0, <4>2
        <5>2. QED
          BY <2>6, <3>4, <4>2, <5>1
      <4>3. CASE i > k
        <5>1. i - 1 \in 1..(l - 1) /\ ~(i - 1 < k) /\ (i - 1) + 1 = i
          BY <1>0, <4>3
        <5>2. QED
          BY <2>6, <3>4, <5>1
      <4>4. QED
        BY <1>0, <4>1, <4>2, <4>3
    <3>5. QED
      BY <3>1, <3>2, <3>3, <3>4
  <2>10. QED
    BY <2>6, <2>8, <2>9 DEF w
<1>3. QED
  BY <1>1, <1>2

----------------------------------------------------------------------------
(* Listeners and what is under way to them.                                *)
ListenerRecords == [event : ServerEvents, once : BOOLEAN, removed : BOOLEAN, due : Nat, heard : Nat,
             overlapped : BOOLEAN]

(* The same as StillTelling and Telling, by the marks of what goroutines   *)
(* have to do.                                                             *)
ToldBy(todo, id) ==
  {q \in Goroutines \X Nat : \E p \in Speaks(todo[q[1]]) :
     p[1] = q[2] /\ p[2].do = "tell" /\ id \in Range(p[2].left)}
HeldBy(todo, id) ==
  {g \in Goroutines : \E p \in Speaks(todo[g]) :
     \/ p[2].do = "tell" /\ id \in Range(p[2].left)
     \/ p[2].do = "forget" /\ p[2].id = id}

(* A list has the listeners of its event that are not removed, in order.   *)
ListInv ==
  /\ registered \in Seq(ListenerRecords) /\ listeners \in [ServerEvents -> Seq(Nat)]
  /\ \A e \in ServerEvents :
       /\ Range(listeners[e]) =
            {id \in DOMAIN registered : registered[id].event = e /\ ~registered[id].removed}
       /\ Ascending(listeners[e])

(* Who is to be called or taken away is a listener of the event; an        *)
(* emission calls in order, and always has one left to call.               *)
TellInv ==
  \A g \in Goroutines : \A p \in Speaks(routine[g]) :
    /\ p[2].do = "tell" =>
         /\ p[2].left # <<>> /\ Ascending(p[2].left)
         /\ \A id \in Range(p[2].left) :
              id \in DOMAIN registered /\ registered[id].event = p[2].event
    /\ p[2].do = "forget" =>
         p[2].id \in DOMAIN registered /\ registered[p[2].id].event = p[2].event

(* What a listener is still to hear is what is under way to it.            *)
DueInv ==
  \A id \in DOMAIN registered :
    /\ IsFiniteSet(ToldBy(routine, id))
    /\ registered[id].heard + Cardinality(ToldBy(routine, id)) = registered[id].due

(* A listener given to once that has heard and that nobody is at, is       *)
(* removed; it is due again only while somebody is at it.                  *)
OnceInv ==
  \A id \in DOMAIN registered :
    /\ registered[id].once /\ registered[id].due > 1 => registered[id].overlapped
    /\ registered[id].once /\ registered[id].heard > 0 /\ HeldBy(routine, id) = {} =>
         registered[id].removed

HearInv == ListInv /\ TellInv /\ DueInv /\ OnceInv

(* Nobody new speaks of a listener, and the listeners are the same.        *)
LEMMA SpeechKeeps ==
  ASSUME TellInv, DOMAIN registered' = DOMAIN registered,
         \A k \in DOMAIN registered : registered'[k].event = registered[k].event,
         \A h \in Goroutines : Speaks(routine'[h]) \subseteq Speaks(routine[h])
  PROVE  TellInv'
<1>1. ASSUME NEW h \in Goroutines, NEW p \in Speaks(routine'[h])
      PROVE  /\ p[2].do = "tell" =>
                   /\ p[2].left # <<>> /\ Ascending(p[2].left)
                   /\ \A id \in Range(p[2].left) :
                         id \in DOMAIN registered' /\ registered'[id].event = p[2].event
             /\ p[2].do = "forget" =>
                   p[2].id \in DOMAIN registered' /\ registered'[p[2].id].event = p[2].event
  <2>1. p \in Speaks(routine[h])
    BY <1>1
  <2>2. p[2].do = "tell" =>
          /\ p[2].left # <<>> /\ Ascending(p[2].left)
          /\ \A id \in Range(p[2].left) :
                id \in DOMAIN registered /\ registered[id].event = p[2].event
    BY <2>1 DEF TellInv
  <2>3. p[2].do = "forget" =>
          p[2].id \in DOMAIN registered /\ registered[p[2].id].event = p[2].event
    BY <2>1 DEF TellInv
  <2>4. QED
    BY <2>2, <2>3
<1>2. QED
  BY <1>1 DEF TellInv

(* Those two ways to say it agree.                                         *)
LEMMA Tellers ==
  ASSUME NEW todo \in [Goroutines -> Seq(Step)], NEW id
  PROVE  /\ ToldBy(todo, id) =
              UNION {{<<g, n>> : n \in {n \in 0..(Len(todo[g]) - 1) :
                                          LET step == todo[g][Len(todo[g]) - n]
                                          IN step.do = "tell" /\ id \in Range(step.left)}} :
                     g \in Goroutines}
         /\ HeldBy(todo, id) =
              {g \in Goroutines : \E i \in DOMAIN todo[g] :
                 LET step == todo[g][i]
                 IN \/ step.do = "tell" /\ id \in Range(step.left)
                    \/ step.do = "forget" /\ step.id = id}
<1>0. \A g \in Goroutines : todo[g] \in Seq(Step)
  OBVIOUS
<1>1. ASSUME NEW g \in Goroutines, NEW n, NEW s
      PROVE  <<n, s>> \in Speaks(todo[g]) <=>
               /\ n \in 0..(Len(todo[g]) - 1) /\ s = todo[g][Len(todo[g]) - n]
               /\ s.do \in {"tell", "forget"}
  <2>1. <<n, s>> \in Speaks(todo[g]) <=> <<n, s>> \in Marks(todo[g]) /\ s.do \in {"tell", "forget"}
    BY DEF Speaks
  <2>2. QED
    BY <1>0, <2>1, MarkIs DEF At, Marked
<1>2. ASSUME NEW g \in Goroutines, NEW p \in Speaks(todo[g])
      PROVE  p = <<p[1], p[2]>>
  BY <1>2, MarkPair DEF Speaks
<1>3. ASSUME NEW g \in Goroutines, NEW n
      PROVE  (\E p \in Speaks(todo[g]) :
                p[1] = n /\ p[2].do = "tell" /\ id \in Range(p[2].left))
               <=> /\ n \in 0..(Len(todo[g]) - 1)
                   /\ todo[g][Len(todo[g]) - n].do = "tell"
                   /\ id \in Range(todo[g][Len(todo[g]) - n].left)
  <2>1. ASSUME NEW p \in Speaks(todo[g]), p[1] = n, p[2].do = "tell", id \in Range(p[2].left)
        PROVE  /\ n \in 0..(Len(todo[g]) - 1)
               /\ todo[g][Len(todo[g]) - n].do = "tell"
               /\ id \in Range(todo[g][Len(todo[g]) - n].left)
    <3>1. <<n, p[2]>> \in Speaks(todo[g])
      BY <1>2, <2>1
    <3>2. QED
      BY <1>1, <2>1, <3>1
  <2>2. ASSUME n \in 0..(Len(todo[g]) - 1), todo[g][Len(todo[g]) - n].do = "tell",
               id \in Range(todo[g][Len(todo[g]) - n].left)
        PROVE  \E p \in Speaks(todo[g]) :
                 p[1] = n /\ p[2].do = "tell" /\ id \in Range(p[2].left)
    <3>1. <<n, todo[g][Len(todo[g]) - n]>> \in Speaks(todo[g])
      BY <1>1, <2>2
    <3>2. QED
      BY <2>2, <3>1
  <2>3. QED
    BY <2>1, <2>2
<1>4. \A g \in Goroutines : 0..(Len(todo[g]) - 1) \subseteq Nat
  OBVIOUS
<1>5. ToldBy(todo, id) =
        UNION {{<<g, n>> : n \in {n \in 0..(Len(todo[g]) - 1) :
                                    LET step == todo[g][Len(todo[g]) - n]
                                    IN step.do = "tell" /\ id \in Range(step.left)}} :
               g \in Goroutines}
  <2> DEFINE Places(g) == {n \in 0..(Len(todo[g]) - 1) :
                             LET step == todo[g][Len(todo[g]) - n]
                             IN step.do = "tell" /\ id \in Range(step.left)}
  <2>1. ASSUME NEW g \in Goroutines, NEW n
        PROVE  <<g, n>> \in ToldBy(todo, id) <=> n \in Places(g)
    <3>1. n \in Places(g) => n \in Nat
      BY <1>4
    <3>2. <<g, n>> \in ToldBy(todo, id) <=>
            n \in Nat /\ \E p \in Speaks(todo[g]) :
                            p[1] = n /\ p[2].do = "tell" /\ id \in Range(p[2].left)
      BY DEF ToldBy
    <3>3. QED
      BY <1>3, <3>1, <3>2
  <2>2. \A q \in ToldBy(todo, id) : q[1] \in Goroutines /\ q = <<q[1], q[2]>>
    BY DEF ToldBy
  <2> HIDE DEF Places
  <2>3. ToldBy(todo, id) = UNION {{<<g, n>> : n \in Places(g)} : g \in Goroutines}
    BY <2>1, <2>2
  <2>4. QED
    BY <2>3 DEF Places
<1>6. ASSUME NEW g \in Goroutines
      PROVE  (\E p \in Speaks(todo[g]) :
                \/ p[2].do = "tell" /\ id \in Range(p[2].left)
                \/ p[2].do = "forget" /\ p[2].id = id)
               <=> \E i \in DOMAIN todo[g] :
                     \/ todo[g][i].do = "tell" /\ id \in Range(todo[g][i].left)
                     \/ todo[g][i].do = "forget" /\ todo[g][i].id = id
  <2>1. Len(todo[g]) \in Nat /\ DOMAIN todo[g] = 1..Len(todo[g])
    BY <1>0, LenProperties
  <2>2. ASSUME NEW p \in Speaks(todo[g])
        PROVE  \E i \in DOMAIN todo[g] : todo[g][i] = p[2]
    <3>1. <<p[1], p[2]>> \in Speaks(todo[g])
      BY <1>2, <2>2
    <3>2. p[1] \in 0..(Len(todo[g]) - 1) /\ p[2] = todo[g][Len(todo[g]) - p[1]]
      BY <1>1, <3>1
    <3>3. Len(todo[g]) - p[1] \in 1..Len(todo[g])
      BY <2>1, <3>2
    <3>4. QED
      BY <2>1, <3>2, <3>3
  <2>3. ASSUME NEW i \in DOMAIN todo[g], todo[g][i].do \in {"tell", "forget"}
        PROVE  \E p \in Speaks(todo[g]) : p[2] = todo[g][i]
    <3>1. Len(todo[g]) - i \in 0..(Len(todo[g]) - 1) /\ Len(todo[g]) - (Len(todo[g]) - i) = i
      BY <2>1, <2>3
    <3>2. <<Len(todo[g]) - i, todo[g][i]>> \in Speaks(todo[g])
      BY <1>1, <2>3, <3>1
    <3>3. QED
      BY <3>2
  <2>4. QED
    BY <2>2, <2>3
<1>7. HeldBy(todo, id) =
        {g \in Goroutines : \E i \in DOMAIN todo[g] :
           LET step == todo[g][i]
           IN \/ step.do = "tell" /\ id \in Range(step.left)
              \/ step.do = "forget" /\ step.id = id}
  BY <1>6 DEF HeldBy
<1>8. QED
  BY <1>5, <1>7

(* The invariants say of listeners what the property says.                 *)
LEMMA HearImplies ==
  ASSUME ShapeInv, HearInv
  PROVE  ListenersHear
<1>1. \A id : StillTelling(id) = ToldBy(routine, id) /\ Telling(id) = HeldBy(routine, id)
  BY Tellers DEF ShapeInv, StillTelling, Telling
<1>2. QED
  BY <1>1 DEF HearInv, ListInv, DueInv, OnceInv, Ascending, ListenersHear

(* A step that leaves listeners and what is under way to them alone.       *)
LEMMA SteadyHears ==
  ASSUME HearInv, Steady, UNCHANGED <<listeners, registered>>
  PROVE  HearInv'
<1>1. \A g \in Goroutines : Speaks(routine'[g]) = Speaks(routine[g])
  BY DEF Steady
<1>2. \A id : ToldBy(routine', id) = ToldBy(routine, id) /\ HeldBy(routine', id) = HeldBy(routine, id)
  BY <1>1 DEF ToldBy, HeldBy
<1>3. ListInv'
  BY DEF HearInv, ListInv
<1>4. TellInv'
  BY <1>1 DEF HearInv, TellInv
<1>5. DueInv'
  BY <1>2 DEF HearInv, DueInv
<1>6. OnceInv'
  BY <1>2 DEF HearInv, OnceInv
<1>7. QED
  BY <1>3, <1>4, <1>5, <1>6 DEF HearInv

(* Listeners are numbered from one.                                        *)
LEMMA Numbers ==
  ASSUME ListInv
  PROVE  /\ Len(registered) \in Nat /\ DOMAIN registered = 1..Len(registered)
         /\ \A id \in DOMAIN registered : id \in Nat /\ registered[id] \in ListenerRecords
BY LenProperties, ElementOfSeq DEF ListInv

(* A new listener has heard nothing and nothing is under way to it.        *)
LEMMA OnHears ==
  ASSUME ControlInv, HearInv, NEW g \in Goroutines, NEW e \in program.events,
         NEW once \in BOOLEAN, ServerOn(g, e, once)
  PROVE  HearInv'
<1> DEFINE n == Len(registered) + 1
           new == [event |-> e, once |-> once, removed |-> FALSE, due |-> 0, heard |-> 0,
                   overlapped |-> FALSE]
<1>1. ListInv /\ TellInv /\ DueInv /\ OnceInv
  BY DEF HearInv
<1>2. e \in ServerEvents
  BY ServerProgramsAssumption DEF ControlInv, ShapeInv
<1>3. /\ new \in ListenerRecords /\ new.event = e /\ ~new.removed /\ new.due = 0 /\ new.heard = 0
      /\ new.removed = FALSE
  BY <1>2 DEF ListenerRecords
<1>4. /\ Len(registered) \in Nat /\ DOMAIN registered = 1..Len(registered) /\ n \in Nat
      /\ registered \in Seq(ListenerRecords)
  BY <1>1, Numbers DEF ListInv
<1>5. /\ registered' = Append(registered, new) /\ UNCHANGED routine
      /\ listeners' = [listeners EXCEPT ![e] = Append(listeners[e], n)]
  BY DEF ServerOn
<1> HIDE DEF new
<1>6. /\ registered' \in Seq(ListenerRecords) /\ Len(registered') = n
      /\ \A id \in 1..Len(registered) : registered'[id] = registered[id]
      /\ registered'[n] = new
  BY <1>3, <1>4, <1>5, AppendProperties
<1>7. /\ DOMAIN registered' = DOMAIN registered \union {n} /\ n \notin DOMAIN registered
      /\ \A id \in DOMAIN registered : registered'[id] = registered[id]
  <2>1. DOMAIN registered' = 1..n
    BY <1>6, LenProperties
  <2>2. 1..n = (1..Len(registered)) \union {n} /\ n \notin 1..Len(registered)
    BY <1>4
  <2>3. QED
    BY <1>4, <1>6, <2>1, <2>2
<1>8. /\ Append(listeners[e], n) \in Seq(Nat) /\ Ascending(Append(listeners[e], n))
      /\ Range(Append(listeners[e], n)) = Range(listeners[e]) \union {n}
  <2>1. listeners[e] \in Seq(Nat) /\ Ascending(listeners[e])
    BY <1>1, <1>2 DEF ListInv
  <2>2. \A x \in Range(listeners[e]) : x \in 1..Len(registered)
    BY <1>1, <1>2, <1>4 DEF ListInv
  <2>3. \A x \in Range(listeners[e]) : x < n
    BY <1>4, <2>2
  <2>4. QED
    BY <1>4, <2>1, <2>3, ListAppend
<1> HIDE DEF n
<1>9. ListInv'
  <2>1. listeners' \in [ServerEvents -> Seq(Nat)]
    BY <1>1, <1>2, <1>5, <1>8 DEF ListInv
  <2>2. ASSUME NEW d \in ServerEvents
        PROVE  /\ Range(listeners'[d]) =
                    {id \in DOMAIN registered' : registered'[id].event = d /\ ~registered'[id].removed}
               /\ Ascending(listeners'[d])
    <3>1. /\ Range(listeners[d]) =
               {id \in DOMAIN registered : registered[id].event = d /\ ~registered[id].removed}
          /\ Ascending(listeners[d])
      BY <1>1 DEF ListInv
    <3>2. CASE d = e
      <4>1. listeners'[d] = Append(listeners[e], n)
        BY <1>1, <1>2, <1>5, <3>2 DEF ListInv
      <4>2. QED
        BY <1>3, <1>6, <1>7, <1>8, <3>1, <3>2, <4>1
    <3>3. CASE d # e
      <4>1. listeners'[d] = listeners[d]
        BY <1>1, <1>5, <3>3 DEF ListInv
      <4>2. QED
        BY <1>3, <1>6, <1>7, <3>1, <3>3, <4>1
    <3>4. QED
      BY <3>2, <3>3
  <2>3. QED
    BY <1>6, <2>1, <2>2 DEF ListInv
<1>10. TellInv'
  BY <1>1, <1>5, <1>7 DEF TellInv
<1>11. ToldBy(routine, n) = {}
  <2>1. ASSUME NEW h \in Goroutines, NEW p \in Speaks(routine[h]), p[2].do = "tell"
        PROVE  n \notin Range(p[2].left)
    BY <1>1, <1>7, <2>1 DEF TellInv
  <2>2. QED
    BY <2>1 DEF ToldBy
<1>12. DueInv'
  <2>1. IsFiniteSet(ToldBy(routine, n)) /\ Cardinality(ToldBy(routine, n)) = 0
    BY <1>11, FS_EmptySet
  <2>2. registered'[n].heard + Cardinality(ToldBy(routine, n)) = registered'[n].due
    BY <1>3, <1>6, <2>1
  <2>3. QED
    BY <1>1, <1>5, <1>7, <2>1, <2>2 DEF DueInv
<1>13. OnceInv'
  <2>1. ~(registered'[n].due > 1) /\ ~(registered'[n].heard > 0)
    BY <1>3, <1>6
  <2>2. QED
    BY <1>1, <1>5, <1>7, <2>1 DEF OnceInv
<1>14. QED
  BY <1>9, <1>10, <1>12, <1>13 DEF HearInv

(* A listener is taken out of its list.                                    *)
LEMMA RemovesKeeps ==
  ASSUME ListInv, NEW id \in DOMAIN registered, Removes(registered[id].event, id)
  PROVE  /\ ListInv' /\ DOMAIN registered' = DOMAIN registered
         /\ registered'[id].removed
         /\ \A k \in DOMAIN registered :
              /\ registered'[k].event = registered[k].event
              /\ registered'[k].once = registered[k].once
              /\ registered'[k].due = registered[k].due
              /\ registered'[k].heard = registered[k].heard
              /\ registered'[k].overlapped = registered[k].overlapped
              /\ registered[k].removed => registered'[k].removed
<1> DEFINE e == registered[id].event
           gone == [registered[id] EXCEPT !.removed = TRUE]
<1>1. /\ Len(registered) \in Nat /\ DOMAIN registered = 1..Len(registered) /\ id \in Nat
      /\ registered \in Seq(ListenerRecords) /\ registered[id] \in ListenerRecords
  BY Numbers DEF ListInv
<1>2. e \in ServerEvents
  BY <1>1 DEF ListenerRecords
<1>3. /\ gone \in ListenerRecords /\ gone.event = e /\ gone.once = registered[id].once /\ gone.removed
      /\ gone.due = registered[id].due /\ gone.heard = registered[id].heard
      /\ gone.overlapped = registered[id].overlapped
  BY <1>1 DEF ListenerRecords
<1>4. /\ registered' = [registered EXCEPT ![id] = gone]
      /\ listeners' = [listeners EXCEPT ![e] = Without(listeners[e], id)]
  BY DEF Removes
<1> HIDE DEF gone
<1>5. /\ registered' \in Seq(ListenerRecords) /\ Len(registered') = Len(registered)
      /\ \A k \in 1..Len(registered) : registered'[k] = IF k = id THEN gone ELSE registered[k]
  BY <1>1, <1>3, <1>4, ExceptSeq
<1>6. DOMAIN registered' = DOMAIN registered
  BY <1>1, <1>5, LenProperties
<1>7. registered'[id] = gone /\ \A k \in DOMAIN registered \ {id} : registered'[k] = registered[k]
  BY <1>1, <1>5
<1>8. /\ Without(listeners[e], id) \in Seq(Nat) /\ Ascending(Without(listeners[e], id))
      /\ Range(Without(listeners[e], id)) = Range(listeners[e]) \ {id}
  BY <1>2, ListWithout DEF ListInv
<1>9. ListInv'
  <2>1. listeners' \in [ServerEvents -> Seq(Nat)]
    BY <1>2, <1>4, <1>8 DEF ListInv
  <2>2. ASSUME NEW d \in ServerEvents
        PROVE  /\ Range(listeners'[d]) =
                    {k \in DOMAIN registered' : registered'[k].event = d /\ ~registered'[k].removed}
               /\ Ascending(listeners'[d])
    <3>1. /\ Range(listeners[d]) =
               {k \in DOMAIN registered : registered[k].event = d /\ ~registered[k].removed}
          /\ Ascending(listeners[d])
      BY DEF ListInv
    <3>2. CASE d = e
      <4>1. listeners'[d] = Without(listeners[e], id)
        BY <1>2, <1>4, <3>2 DEF ListInv
      <4>2. QED
        BY <1>3, <1>6, <1>7, <1>8, <3>1, <3>2, <4>1
    <3>3. CASE d # e
      <4>1. listeners'[d] = listeners[d]
        BY <1>4, <3>3 DEF ListInv
      <4>2. QED
        BY <1>3, <1>6, <1>7, <3>1, <3>3, <4>1
    <3>4. QED
      BY <3>2, <3>3
  <2>3. QED
    BY <1>5, <2>1, <2>2 DEF ListInv
<1>10. QED
  BY <1>3, <1>6, <1>7, <1>9

(* To remove a listener stops nothing that is under way.                   *)
LEMMA OffHears ==
  ASSUME ControlInv, HearInv, NEW g \in Goroutines, NEW id \in DOMAIN registered,
         ServerOff(g, id)
  PROVE  HearInv'
<1>1. ListInv /\ TellInv /\ DueInv /\ OnceInv /\ UNCHANGED routine
  BY DEF HearInv, ServerOff
<1>2. /\ ListInv' /\ DOMAIN registered' = DOMAIN registered
      /\ \A k \in DOMAIN registered :
           /\ registered'[k].event = registered[k].event
           /\ registered'[k].once = registered[k].once
           /\ registered'[k].due = registered[k].due
           /\ registered'[k].heard = registered[k].heard
           /\ registered'[k].overlapped = registered[k].overlapped
           /\ registered[k].removed => registered'[k].removed
  BY <1>1, RemovesKeeps DEF ServerOff
<1>3. TellInv'
  BY <1>1, <1>2 DEF TellInv
<1>4. DueInv'
  BY <1>1, <1>2 DEF DueInv
<1>5. OnceInv'
  BY <1>1, <1>2 DEF OnceInv
<1>6. QED
  BY <1>2, <1>3, <1>4, <1>5 DEF HearInv

(* Nor does it to remove all of an event's.                                *)
LEMMA RemoveAllHears ==
  ASSUME ControlInv, HearInv, NEW g \in Goroutines, NEW e \in program.events,
         RemoveAllListeners(g, e)
  PROVE  HearInv'
<1>1. ListInv /\ TellInv /\ DueInv /\ OnceInv /\ UNCHANGED routine
  BY DEF HearInv, RemoveAllListeners
<1>2. e \in ServerEvents
  BY ServerProgramsAssumption DEF ControlInv, ShapeInv
<1>3. /\ Len(registered) \in Nat /\ DOMAIN registered = 1..Len(registered)
      /\ \A k \in DOMAIN registered : registered[k] \in ListenerRecords
  BY <1>1, Numbers
<1>4. /\ listeners' = [listeners EXCEPT ![e] = <<>>]
      /\ DOMAIN registered' = DOMAIN registered
      /\ \A k \in DOMAIN registered :
           registered'[k] = IF registered[k].event = e
                            THEN [registered[k] EXCEPT !.removed = TRUE] ELSE registered[k]
      /\ registered' = [k \in DOMAIN registered |-> registered'[k]]
  BY DEF RemoveAllListeners
<1>5. ASSUME NEW k \in DOMAIN registered
      PROVE  /\ registered'[k] \in ListenerRecords
             /\ registered'[k].event = registered[k].event
             /\ registered'[k].once = registered[k].once
             /\ registered'[k].due = registered[k].due
             /\ registered'[k].heard = registered[k].heard
             /\ registered'[k].overlapped = registered[k].overlapped
             /\ registered'[k].removed = IF registered[k].event = e THEN TRUE
                                         ELSE registered[k].removed
  BY <1>3, <1>4 DEF ListenerRecords
<1>6. registered' \in Seq(ListenerRecords)
  <2>1. registered' \in [1..Len(registered) -> ListenerRecords]
    BY <1>3, <1>4, <1>5
  <2>2. QED
    BY <1>3, <2>1
<1>7. ListInv'
  <2>1. listeners' \in [ServerEvents -> Seq(Nat)] /\ Range(<<>>) = {} /\ Ascending(<<>>)
    BY <1>1, <1>2, <1>4 DEF ListInv, Range, Ascending
  <2>2. ASSUME NEW d \in ServerEvents
        PROVE  /\ Range(listeners'[d]) =
                    {k \in DOMAIN registered' : registered'[k].event = d /\ ~registered'[k].removed}
               /\ Ascending(listeners'[d])
    <3>1. /\ Range(listeners[d]) =
               {k \in DOMAIN registered : registered[k].event = d /\ ~registered[k].removed}
          /\ Ascending(listeners[d])
      BY <1>1 DEF ListInv
    <3>2. CASE d = e
      <4>1. listeners'[d] = <<>>
        BY <1>1, <1>2, <1>4, <3>2 DEF ListInv
      <4>2. {k \in DOMAIN registered' : registered'[k].event = d /\ ~registered'[k].removed} = {}
        <5>1. ASSUME NEW k \in DOMAIN registered', registered'[k].event = d
              PROVE  registered'[k].removed
          BY <1>4, <1>5, <3>2, <5>1
        <5>2. QED
          BY <5>1
      <4>3. QED
        BY <2>1, <4>1, <4>2
    <3>3. CASE d # e
      <4>1. listeners'[d] = listeners[d]
        BY <1>1, <1>4, <3>3 DEF ListInv
      <4>2. {k \in DOMAIN registered' : registered'[k].event = d /\ ~registered'[k].removed}
            = {k \in DOMAIN registered : registered[k].event = d /\ ~registered[k].removed}
        <5>1. DOMAIN registered' = DOMAIN registered
          BY <1>4
        <5>2. ASSUME NEW k \in DOMAIN registered
              PROVE  (registered'[k].event = d /\ ~registered'[k].removed)
                     <=> (registered[k].event = d /\ ~registered[k].removed)
          BY <1>5, <3>3
        <5>3. QED
          BY <5>1, <5>2
      <4>3. QED
        BY <3>1, <4>1, <4>2
    <3>4. QED
      BY <3>2, <3>3
  <2>3. QED
    BY <1>6, <2>1, <2>2 DEF ListInv
<1>8. TellInv'
  <2>1. \A h \in Goroutines : Speaks(routine'[h]) \subseteq Speaks(routine[h])
    BY <1>1
  <2>2. \A k \in DOMAIN registered : registered'[k].event = registered[k].event
    BY <1>5
  <2>3. QED
    BY <1>1, <1>4, <2>1, <2>2, SpeechKeeps
<1>9. DueInv'
  BY <1>1, <1>4, <1>5 DEF DueInv
<1>10. OnceInv'
  BY <1>1, <1>4, <1>5 DEF OnceInv
<1>11. QED
  BY <1>7, <1>8, <1>9, <1>10 DEF HearInv

(* The listener given to once is removed when its call has returned.       *)
LEMMA ForgetKeeps ==
  ASSUME ControlInv, HearInv, NEW g \in Goroutines, Forget(g)
  PROVE  ControlInv' /\ HearInv'
<1> DEFINE r == routine[g]
           step == Head(r)
           id == step.id
           done == <<Len(r) - 1, step>>
<1>1. /\ ListInv /\ TellInv /\ DueInv /\ OnceInv
      /\ ShapeInv /\ PlaceInv /\ HolderInv
  BY DEF HearInv, ControlInv
<1>2. /\ r \in Seq(Step) /\ r # <<>> /\ step.do = "forget"
      /\ Removes(step.event, id) /\ DoesInstead(g, <<>>)
      /\ UNCHANGED <<address, lastError, shutdown, program, published, serverCalls>>
  BY <1>1 DEF Forget, Doing, ShapeInv, KeepServer
<1>3. done \in Marks(r) /\ done \in Speaks(r) /\ done[2] = step
  BY <1>2, MarksTail DEF Marked, Speaks
<1>4. id \in DOMAIN registered /\ registered[id].event = step.event
  BY <1>1, <1>2, <1>3 DEF TellInv
<1>5. /\ routine' \in [Goroutines -> Seq(Step)] /\ PlaceInv' /\ Holders' = Holders
      /\ Marks(routine'[g]) = Marks(r) \ {done}
      /\ \A h \in Goroutines \ {g} : routine'[h] = routine[h]
  <2>1. <<>> \in Seq(Quiet) /\ Doing(g, "forget") /\ "forget" \notin {"put back", "wait"}
    BY QuietSteps DEF Forget
  <2>2. QED
    BY <1>2, <2>1, QuietInstead
<1>6. /\ ListInv' /\ DOMAIN registered' = DOMAIN registered
      /\ registered'[id].removed
      /\ \A k \in DOMAIN registered :
           /\ registered'[k].event = registered[k].event
           /\ registered'[k].once = registered[k].once
           /\ registered'[k].due = registered[k].due
           /\ registered'[k].heard = registered[k].heard
           /\ registered'[k].overlapped = registered[k].overlapped
           /\ registered[k].removed => registered'[k].removed
  BY <1>1, <1>2, <1>4, RemovesKeeps
<1>7. ControlInv'
  <2>1. ShapeInv'
    BY <1>1, <1>2, <1>5 DEF ShapeInv
  <2>2. HolderInv'
    BY <1>1, <1>2, <1>5, HolderKeeps
  <2>3. QED
    BY <1>5, <2>1, <2>2 DEF ControlInv
<1>8. /\ Speaks(routine'[g]) = Speaks(r) \ {done}
      /\ \A h \in Goroutines \ {g} : Speaks(routine'[h]) = Speaks(routine[h])
  BY <1>5 DEF Speaks
<1> HIDE DEF done, id
<1>9. \A h \in Goroutines : Speaks(routine'[h]) \subseteq Speaks(routine[h])
  BY <1>8
<1>10. TellInv'
  BY <1>1, <1>6, <1>9, SpeechKeeps
<1>11. \A k : ToldBy(routine', k) = ToldBy(routine, k)
  <2>1. ASSUME NEW h \in Goroutines, NEW p \in Speaks(routine[h]), p[2].do = "tell"
        PROVE  p \in Speaks(routine'[h])
    <3>1. done[2].do # "tell"
      BY <1>2, <1>3
    <3>2. p # done
      BY <2>1, <3>1
    <3>3. QED
      BY <1>8, <2>1, <3>2
  <2>2. QED
    BY <1>9, <2>1 DEF ToldBy
<1>12. DueInv'
  BY <1>1, <1>6, <1>11 DEF DueInv
<1>13. \A k : k # id => HeldBy(routine', k) = HeldBy(routine, k)
  <2>1. ASSUME NEW k, k # id, NEW h \in Goroutines, NEW p \in Speaks(routine[h]),
               \/ p[2].do = "tell" /\ k \in Range(p[2].left)
               \/ p[2].do = "forget" /\ p[2].id = k
        PROVE  p \in Speaks(routine'[h])
    <3>1. p # done
      BY <1>2, <1>3, <2>1 DEF id
    <3>2. QED
      BY <1>8, <2>1, <3>1
  <2>2. QED
    BY <1>9, <2>1 DEF HeldBy
<1>14. OnceInv'
  BY <1>1, <1>6, <1>13 DEF OnceInv
<1>15. QED
  BY <1>6, <1>7, <1>10, <1>12, <1>14 DEF HearInv

(* An emission copies the list of its event.                               *)
LEMMA SnapshotKeeps ==
  ASSUME ControlInv, HearInv, NEW g \in Goroutines, Snapshot(g)
  PROVE  ControlInv' /\ HearInv'
<1> DEFINE r == routine[g]
           e == Head(r).event
           list == listeners[e]
           taken == Range(list)
           tell == [do |-> "tell", event |-> e, left |-> list]
           place == Len(r) - 1
           added == IF list = <<>> THEN {} ELSE {<<place, tell>>}
<1>1. /\ ListInv /\ TellInv /\ DueInv /\ OnceInv
      /\ ShapeInv /\ PlaceInv /\ HolderInv
  BY DEF HearInv, ControlInv
<1>2. /\ r \in Seq(Step) /\ r # <<>> /\ Head(r).do = "emit" /\ Doing(g, "emit")
      /\ UNCHANGED <<listeners, address, lastError, shutdown, program, published, serverCalls>>
      /\ DoesInstead(g, IF list = <<>> THEN <<>> ELSE <<tell>>)
      /\ registered' = [id \in DOMAIN registered |->
           IF id \in taken
           THEN [registered[id] EXCEPT !.due = @ + 1, !.overlapped = @ \/ Telling(id) # {}]
           ELSE registered[id]]
  BY <1>1 DEF Snapshot, Doing, ShapeInv, KeepServer
<1>3. /\ Head(r) \in Step /\ Tail(r) \in Seq(Step) /\ Len(r) \in Nat \ {0}
      /\ Len(Tail(r)) = place
      /\ Marks(Tail(r)) = Marks(r) \ {<<place, Head(r)>>}
  BY <1>2, MarksTail
<1>4. e \in ServerEvents
  BY <1>2, <1>3, StepFields
<1>5. /\ list \in Seq(Nat) /\ Ascending(list)
      /\ taken = {id \in DOMAIN registered : registered[id].event = e /\ ~registered[id].removed}
  BY <1>1, <1>4 DEF ListInv
<1>6. /\ tell \in Step /\ tell.do = "tell" /\ tell.left = list /\ tell.event = e
      /\ tell.do \in Marked
  BY <1>4, <1>5 DEF Step, Marked
<1> HIDE DEF tell
<1>7. ASSUME NEW p \in Marks(r) PROVE p[2].do # "emit" /\ p[1] \in Nat /\ p[1] < place
  <2>1. /\ p[1] \in 0..(Len(r) - 1) /\ p[2] = At(r, p[1]) /\ p[2].do \in Marked
    BY <1>2, MarkAt
  <2>2. p[2].do # "emit"
    BY <2>1 DEF Marked
  <2>3. p[1] # place
    <3>1. Head(r) = At(r, place)
      BY <1>2, MarksTail
    <3>2. QED
      BY <1>2, <2>1, <2>2, <3>1
  <2>4. QED
    BY <1>3, <2>1, <2>2, <2>3
<1>8. Marks(Tail(r)) = Marks(r)
  <2>1. \A p \in Marks(r) : p # <<place, Head(r)>>
    <3>1. <<place, Head(r)>>[2].do = "emit"
      BY <1>2
    <3>2. QED
      BY <1>7, <3>1
  <2>2. QED
    BY <1>3, <2>1
<1>9. /\ routine' \in [Goroutines -> Seq(Step)]
      /\ \A h \in Goroutines \ {g} : routine'[h] = routine[h]
      /\ Marks(routine'[g]) = Marks(r) \union added
  <2>1. CASE list = <<>>
    <3>1. <<>> \in Seq(Quiet) /\ "emit" \notin {"put back", "wait"}
      BY QuietSteps
    <3>2. DoesInstead(g, <<>>)
      BY <1>2, <2>1
    <3>3. /\ routine' \in [Goroutines -> Seq(Step)]
          /\ \A h \in Goroutines \ {g} : routine'[h] = routine[h]
          /\ Marks(routine'[g]) = Marks(r) \ {<<place, Head(r)>>}
      BY <1>2, <3>1, <3>2, QuietInstead
    <3>4. QED
      BY <1>3, <1>8, <2>1, <3>3
  <2>2. CASE list # <<>>
    <3>1. routine' = [routine EXCEPT ![g] = <<tell>> \o Tail(r)]
      BY <1>2, <2>2 DEF DoesInstead
    <3>2. /\ <<tell>> \o Tail(r) \in Seq(Step)
          /\ Marks(<<tell>> \o Tail(r)) = Marks(Tail(r)) \union {<<place, tell>>}
      BY <1>3, <1>6, MarkFirst
    <3>3. QED
      BY <1>1, <1>8, <2>2, <3>1, <3>2 DEF ShapeInv
  <2>3. QED
    BY <2>1, <2>2
<1>10. /\ \A p \in added : p = <<place, tell>> /\ p[1] = place /\ p[2] = tell /\ list # <<>>
       /\ list # <<>> => <<place, tell>> \in added
  OBVIOUS
<1> HIDE DEF added
<1>11. PlaceInv' /\ Holders' = Holders
  <2>1. \A p \in Marks(r) : p[2].do # "put back"
    BY <1>1, <1>2, NoAddressInHand
  <2>2. r # <<To("wait")>>
    BY <1>2, DoesNotWait
  <2>3. \A p \in Marks(r) : p[2].do \in {"serve", "go serve"} => p[1] = 0
    BY <1>1 DEF PlaceInv
  <2>4. \A p \in Marks(routine'[g]) :
          /\ p[2].do = "put back" => p[1] = Len(routine'[g]) - 1
          /\ p[2].do \in {"serve", "go serve"} => p[1] = 0
          /\ p[2].do = "start" => p \in Marks(r)
    BY <1>6, <1>9, <1>10, <2>1, <2>3
  <2>5. PlaceInv'
    BY <1>1, <1>9, <2>2, <2>4, OnePlaceKeeps
  <2>6. \A p \in Marks(routine'[g]) : p[2].do # "put back"
    BY <1>6, <1>9, <1>10, <2>1
  <2>7. Holders' = Holders
    BY <1>9, <2>1, <2>6 DEF Holders
  <2>8. QED
    BY <2>5, <2>7
<1>12. ControlInv'
  <2>1. ShapeInv'
    BY <1>1, <1>2, <1>9 DEF ShapeInv
  <2>2. HolderInv'
    BY <1>1, <1>2, <1>11, HolderKeeps
  <2>3. QED
    BY <1>11, <2>1, <2>2 DEF ControlInv
<1>13. /\ Speaks(routine'[g]) = Speaks(r) \union added
       /\ \A h \in Goroutines \ {g} : Speaks(routine'[h]) = Speaks(routine[h])
  BY <1>6, <1>9, <1>10 DEF Speaks
<1>14. /\ Len(registered) \in Nat /\ DOMAIN registered = 1..Len(registered)
       /\ \A k \in DOMAIN registered : k \in Nat /\ registered[k] \in ListenerRecords
  BY <1>1, Numbers
<1>15. \A id : Telling(id) = HeldBy(routine, id)
  BY <1>1, Tellers DEF ShapeInv, Telling
<1> HIDE DEF taken
<1>16. ASSUME NEW k \in DOMAIN registered
       PROVE  /\ registered'[k] \in ListenerRecords
              /\ registered'[k].event = registered[k].event
              /\ registered'[k].once = registered[k].once
              /\ registered'[k].heard = registered[k].heard
              /\ registered'[k].removed = registered[k].removed
              /\ k \in taken =>
                   /\ registered'[k].due = registered[k].due + 1
                   /\ registered'[k].overlapped =
                        (registered[k].overlapped \/ HeldBy(routine, k) # {})
              /\ k \notin taken =>
                   /\ registered'[k].due = registered[k].due
                   /\ registered'[k].overlapped = registered[k].overlapped
  <2>1. registered'[k] =
          IF k \in taken
          THEN [registered[k] EXCEPT !.due = @ + 1, !.overlapped = @ \/ HeldBy(routine, k) # {}]
          ELSE registered[k]
    BY <1>2, <1>15
  <2> DEFINE overlaps == registered[k].overlapped \/ HeldBy(routine, k) # {}
  <2>2. PICK o \in BOOLEAN : o = overlaps
    OBVIOUS
  <2>3. CASE k \in taken
    <3>1. registered'[k] = [registered[k] EXCEPT !.due = registered[k].due + 1, !.overlapped = o]
      BY <2>1, <2>2, <2>3
    <3>2. registered[k] \in ListenerRecords /\ registered[k].due + 1 \in Nat
      BY <1>14 DEF ListenerRecords
    <3> HIDE DEF overlaps
    <3>3. registered'[k] \in ListenerRecords
      BY <3>1, <3>2 DEF ListenerRecords
    <3>4. /\ registered'[k].event = registered[k].event
          /\ registered'[k].once = registered[k].once
          /\ registered'[k].heard = registered[k].heard
          /\ registered'[k].removed = registered[k].removed
          /\ registered'[k].due = registered[k].due + 1
      BY <3>1, <3>2 DEF ListenerRecords
    <3>5. registered'[k].overlapped = o
      BY <3>1, <3>2 DEF ListenerRecords
    <3>6. QED
      BY <2>2, <2>3, <3>3, <3>4, <3>5 DEF overlaps
  <2>4. CASE k \notin taken
    BY <1>14, <2>1, <2>4
  <2>5. QED
    BY <2>3, <2>4
<1>17. registered' \in Seq(ListenerRecords) /\ DOMAIN registered' = DOMAIN registered
  <2>1. DOMAIN registered' = DOMAIN registered /\ registered' = [k \in DOMAIN registered |-> registered'[k]]
    BY <1>2
  <2>2. registered' \in [1..Len(registered) -> ListenerRecords]
    BY <1>14, <1>16, <2>1
  <2>3. QED
    BY <1>14, <2>1, <2>2
<1>18. ListInv'
  <2>1. /\ listeners \in [ServerEvents -> Seq(Nat)] /\ listeners' = listeners
        /\ \A d \in ServerEvents :
             /\ Range(listeners[d]) =
                  {k \in DOMAIN registered : registered[k].event = d /\ ~registered[k].removed}
             /\ Ascending(listeners[d])
    BY <1>1, <1>2 DEF ListInv
  <2>2. ASSUME NEW d \in ServerEvents
        PROVE  {k \in DOMAIN registered' : registered'[k].event = d /\ ~registered'[k].removed}
               = {k \in DOMAIN registered : registered[k].event = d /\ ~registered[k].removed}
    BY <1>16, <1>17
  <2>3. QED
    BY <1>17, <2>1, <2>2 DEF ListInv
<1>19. TellInv'
  <2>1. ASSUME NEW h \in Goroutines, NEW p \in Speaks(routine'[h])
        PROVE  p \in Speaks(routine[h]) \/ (h = g /\ p[2] = tell /\ list # <<>>)
    BY <1>10, <1>13, <2>1
  <2>2. \A id \in taken : id \in DOMAIN registered /\ registered[id].event = e
    BY <1>5 DEF taken
  <2>3. ASSUME NEW h \in Goroutines, NEW p \in Speaks(routine'[h])
        PROVE  /\ p[2].do = "tell" =>
                    /\ p[2].left # <<>> /\ Ascending(p[2].left)
                    /\ \A id \in Range(p[2].left) :
                         id \in DOMAIN registered' /\ registered'[id].event = p[2].event
               /\ p[2].do = "forget" =>
                    p[2].id \in DOMAIN registered' /\ registered'[p[2].id].event = p[2].event
    <3>1. CASE p \in Speaks(routine[h])
      BY <1>1, <1>16, <1>17, <3>1 DEF TellInv
    <3>2. CASE p[2] = tell /\ list # <<>>
      BY <1>5, <1>6, <1>16, <1>17, <2>2, <3>2 DEF taken
    <3>3. QED
      BY <2>1, <2>3, <3>1, <3>2
  <2>4. QED
    BY <2>3 DEF TellInv
<1>20. taken # {} => list # <<>>
  <2>1. Range(<<>>) = {}
    BY DEF Range
  <2>2. QED
    BY <2>1 DEF taken
<1>21. ASSUME NEW k
       PROVE  /\ k \in taken => ToldBy(routine', k) = ToldBy(routine, k) \union {<<g, place>>}
              /\ k \notin taken => ToldBy(routine', k) = ToldBy(routine, k)
              /\ <<g, place>> \notin ToldBy(routine, k)
  <2>1. place \in Nat
    BY <1>3
  <2>2. <<g, place>> \notin ToldBy(routine, k)
    <3>1. \A p \in Speaks(r) : p[1] # place
      BY <1>3, <1>7 DEF Speaks
    <3>2. QED
      BY <3>1 DEF ToldBy
  <2>3. ASSUME NEW h \in Goroutines, NEW n \in Nat
        PROVE  <<h, n>> \in ToldBy(routine', k) <=>
                 \/ <<h, n>> \in ToldBy(routine, k)
                 \/ h = g /\ n = place /\ k \in taken
    <3>1. /\ <<h, n>> \in ToldBy(routine', k) <=>
               \E p \in Speaks(routine'[h]) : p[1] = n /\ p[2].do = "tell" /\ k \in Range(p[2].left)
          /\ <<h, n>> \in ToldBy(routine, k) <=>
               \E p \in Speaks(routine[h]) : p[1] = n /\ p[2].do = "tell" /\ k \in Range(p[2].left)
      BY DEF ToldBy
    <3>2. CASE h # g
      BY <1>13, <3>1, <3>2
    <3>3. CASE h = g
      <4>1. (\E p \in added : p[1] = n /\ p[2].do = "tell" /\ k \in Range(p[2].left))
              <=> n = place /\ k \in taken
        <5>1. ASSUME NEW p \in added, p[1] = n, k \in Range(p[2].left)
              PROVE  n = place /\ k \in taken
          BY <1>6, <1>10, <5>1 DEF taken
        <5>2. ASSUME n = place, k \in taken
              PROVE  \E p \in added : p[1] = n /\ p[2].do = "tell" /\ k \in Range(p[2].left)
          <6>1. <<place, tell>> \in added
            BY <1>10, <1>20, <5>2
          <6>2. <<place, tell>>[1] = n /\ <<place, tell>>[2] = tell
            BY <5>2
          <6>3. QED
            BY <1>6, <5>2, <6>1, <6>2 DEF taken
        <5>3. QED
          BY <5>1, <5>2
      <4>2. QED
        BY <1>13, <3>1, <3>3, <4>1
    <3>4. QED
      BY <3>2, <3>3
  <2>4. \A q \in ToldBy(routine', k) \union ToldBy(routine, k) :
          q[1] \in Goroutines /\ q[2] \in Nat /\ q = <<q[1], q[2]>>
    BY DEF ToldBy
  <2> HIDE DEF place
  <2>5. k \in taken => ToldBy(routine', k) = ToldBy(routine, k) \union {<<g, place>>}
    BY <2>1, <2>3, <2>4
  <2>6. k \notin taken => ToldBy(routine', k) = ToldBy(routine, k)
    BY <2>3, <2>4
  <2>7. QED
    BY <2>2, <2>5, <2>6
<1>22. \A k : HeldBy(routine, k) \subseteq HeldBy(routine', k)
  <2>1. \A h \in Goroutines : Speaks(routine[h]) \subseteq Speaks(routine'[h])
    BY <1>13
  <2>2. QED
    BY <2>1 DEF HeldBy
<1> HIDE DEF place
<1>23. DueInv'
  <2>1. ASSUME NEW k \in DOMAIN registered
        PROVE  /\ IsFiniteSet(ToldBy(routine', k))
               /\ registered'[k].heard + Cardinality(ToldBy(routine', k)) = registered'[k].due
    <3>1. /\ IsFiniteSet(ToldBy(routine, k))
          /\ registered[k].heard + Cardinality(ToldBy(routine, k)) = registered[k].due
      BY <1>1 DEF DueInv
    <3>2. Cardinality(ToldBy(routine, k)) \in Nat
      BY <3>1, FS_CardinalityType
    <3>3. registered[k].heard \in Nat /\ registered[k].due \in Nat
      BY <1>14 DEF ListenerRecords
    <3>4. CASE k \in taken
      <4>1. /\ IsFiniteSet(ToldBy(routine', k))
            /\ Cardinality(ToldBy(routine', k)) = Cardinality(ToldBy(routine, k)) + 1
        BY <1>21, <3>1, <3>4, FS_AddElement
      <4>2. registered'[k].heard = registered[k].heard /\ registered'[k].due = registered[k].due + 1
        BY <1>16, <3>4
      <4>3. QED
        BY <3>1, <3>2, <3>3, <4>1, <4>2
    <3>5. CASE k \notin taken
      BY <1>16, <1>21, <3>1, <3>5
    <3>6. QED
      BY <3>4, <3>5
  <2>2. QED
    BY <1>17, <2>1 DEF DueInv
<1>24. OnceInv'
  <2>1. ASSUME NEW k \in DOMAIN registered
        PROVE  /\ registered'[k].once /\ registered'[k].due > 1 => registered'[k].overlapped
               /\ registered'[k].once /\ registered'[k].heard > 0 /\ HeldBy(routine', k) = {} =>
                    registered'[k].removed
    <3>1. /\ registered[k].once /\ registered[k].due > 1 => registered[k].overlapped
          /\ registered[k].once /\ registered[k].heard > 0 /\ HeldBy(routine, k) = {} =>
               registered[k].removed
      BY <1>1 DEF OnceInv
    <3>2. registered'[k].once /\ registered'[k].heard > 0 /\ HeldBy(routine', k) = {} =>
            registered'[k].removed
      BY <1>16, <1>22, <3>1
    <3>3. CASE k \notin taken
      BY <1>16, <3>1, <3>2, <3>3
    <3>4. CASE k \in taken /\ HeldBy(routine, k) # {}
      BY <1>16, <3>2, <3>4
    <3>5. CASE k \in taken /\ HeldBy(routine, k) = {} /\ registered[k].once
      <4>1. ~registered[k].removed
        BY <1>5, <3>5 DEF taken
      <4>2. ~(registered[k].heard > 0)
        BY <3>1, <3>5, <4>1
      <4>3. ToldBy(routine, k) = {}
        BY <3>5 DEF ToldBy, HeldBy
      <4>4. Cardinality(ToldBy(routine, k)) = 0
        BY <4>3, FS_EmptySet
      <4>5. registered[k].heard + 0 = registered[k].due
        BY <1>1, <4>4 DEF DueInv
      <4>6. registered[k].heard \in Nat
        BY <1>14 DEF ListenerRecords
      <4>7. registered[k].due = 0
        BY <4>2, <4>5, <4>6
      <4>8. registered'[k].due = 1
        BY <1>16, <3>5, <4>7
      <4>9. QED
        BY <3>2, <4>8
    <3>6. CASE ~registered[k].once
      BY <1>16, <3>6
    <3>7. QED
      BY <3>3, <3>4, <3>5, <3>6
  <2>2. QED
    BY <1>17, <2>1 DEF OnceInv
<1>25. QED
  BY <1>12, <1>18, <1>19, <1>23, <1>24 DEF HearInv

(* A call that is made is heard, and no longer due.  It leaves to do the   *)
(* listener itself, then to take it away if it was given to once, then the *)
(* others.                                                                 *)
LEMMA TellKeeps ==
  ASSUME ControlInv, HearInv, NEW g \in Goroutines, Tell(g)
  PROVE  ControlInv' /\ HearInv'
<1>r. PICK r : r = routine[g]
  OBVIOUS
<1>s. PICK step : step = Head(r)
  OBVIOUS
<1>i. PICK id : id = Head(step.left)
  OBVIOUS
<1>p. PICK place : place = Len(r) - 1
  OBVIOUS
<1>d. PICK done : done = <<place, step>>
  OBVIOUS
<1>m. PICK more : more = [step EXCEPT !.left = Tail(@)]
  OBVIOUS
<1>f. PICK forget : forget = [do |-> "forget", event |-> step.event, id |-> id]
  OBVIOUS
<1>1. /\ ListInv /\ TellInv /\ DueInv /\ OnceInv
      /\ ShapeInv /\ PlaceInv /\ HolderInv
  BY DEF HearInv, ControlInv
<1>2. PICK n \in Nat :
        /\ routine' \in [Goroutines -> Seq(Step)]
        /\ \A h \in Goroutines \ {g} : routine'[h] = routine[h]
        /\ Marks(routine'[g]) =
             (Marks(r) \ {done}) \union (IF Len(step.left) = 1 THEN {} ELSE {<<place, more>>})
               \union (IF registered[id].once THEN {<<n, forget>>} ELSE {})
        /\ r \in Seq(Step) /\ r # <<>> /\ place \in Nat /\ step.do = "tell" /\ done \in Speaks(r)
        /\ step.left \in Seq(Nat) /\ step.left # <<>> /\ Ascending(step.left)
        /\ step.event \in ServerEvents
        /\ \A k \in Range(step.left) :
             k \in DOMAIN registered /\ registered[k].event = step.event
        /\ id \in Range(step.left) /\ id \in DOMAIN registered /\ id \in Nat
        /\ more.do = "tell" /\ more.left = Tail(step.left) /\ more.event = step.event
        /\ \A p \in Marks(r) : p[1] \in Nat /\ (p[1] = place => p = done)
  <2>1. /\ r \in Seq(Step) /\ r # <<>> /\ step.do = "tell"
        /\ routine' = [routine EXCEPT ![g] =
             (<<To("handler")>>
                \o (IF registered[id].once THEN <<forget>> ELSE <<>>)
                \o (IF Len(step.left) = 1 THEN <<>> ELSE <<more>>)) \o Tail(r)]
    BY <1>1, <1>r, <1>s, <1>i, <1>m, <1>f DEF Tell, Doing, ShapeInv, DoesInstead
  <2>2. /\ step \in Step /\ Tail(r) \in Seq(Step) /\ Len(r) \in Nat \ {0} /\ place \in Nat
        /\ Len(Tail(r)) = place /\ Marks(Tail(r)) = Marks(r) \ {done} /\ done \in Marks(r)
        /\ step = At(r, place)
    <3>1. Head(r).do \in Marked
      BY <1>s, <2>1 DEF Marked
    <3>2. /\ Tail(r) \in Seq(Step) /\ Len(Tail(r)) = Len(r) - 1 /\ Len(r) \in Nat \ {0}
          /\ Head(r) \in Step /\ Head(r) = At(r, Len(r) - 1)
          /\ Marks(Tail(r)) = Marks(r) \ {<<Len(r) - 1, Head(r)>>}
          /\ <<Len(r) - 1, Head(r)>> \in Marks(r)
      BY <2>1, <3>1, MarksTail
    <3>3. Len(r) - 1 \in Nat
      BY <3>2
    <3>4. QED
      BY <1>s, <1>p, <1>d, <3>2, <3>3
  <2>3. done \in Speaks(r) /\ done[2] = step
    BY <1>d, <2>1, <2>2 DEF Speaks
  <2>4. /\ step.left \in Seq(Nat) /\ step.event \in ServerEvents
        /\ step.left # <<>> /\ Ascending(step.left)
        /\ \A k \in Range(step.left) : k \in DOMAIN registered /\ registered[k].event = step.event
    BY <1>1, <1>r, <2>1, <2>2, <2>3, StepFields DEF TellInv
  <2>5. /\ Tail(step.left) \in Seq(Nat) /\ id \in Range(step.left)
        /\ id \in DOMAIN registered /\ id \in Nat
    BY <1>1, <1>i, <2>4, ListTail, Numbers
  <2>6. step \in [do : {"tell"}, event : ServerEvents, left : Seq(Nat)]
    BY <2>1, <2>2 DEF Step, PlainSteps
  <2>7. /\ more \in Step /\ more.do = "tell" /\ more.left = Tail(step.left) /\ more.event = step.event
        /\ more.do \in Marked
    <3>1. more \in [do : {"tell"}, event : ServerEvents, left : Seq(Nat)]
      BY <1>m, <2>5, <2>6
    <3>2. more.do = "tell" /\ more.left = Tail(step.left) /\ more.event = step.event
      BY <1>m, <2>5, <2>6
    <3>3. QED
      BY <3>1, <3>2 DEF Step, Marked
  <2>8. forget \in Step /\ forget.do \in Marked
    BY <1>f, <2>4, <2>5 DEF Step, Marked
  <2> DEFINE F == IF registered[id].once THEN <<forget>> ELSE <<>>
             R == IF Len(step.left) = 1 THEN <<>> ELSE <<more>>
             h1 == <<To("handler")>>
             r1 == R \o Tail(r)
             r2 == F \o r1
  <2>9. /\ h1 \in Seq(Quiet) /\ h1 \in Seq(Step) /\ F \in Seq(Step) /\ R \in Seq(Step)
    <3>1. "handler" \in PlainSteps \ Marked
      BY DEF PlainSteps, Marked
    <3>2. h1 \in Seq(Quiet) /\ h1 \in Seq(Step)
      BY <3>1, QuietSteps, QuietHasNone
    <3>3. <<forget>> \in Seq(Step) /\ <<more>> \in Seq(Step) /\ <<>> \in Seq(Step)
      BY <2>7, <2>8, MarksOfOne, EmptySeq
    <3>4. QED
      BY <3>2, <3>3
  <2>10. /\ r1 \in Seq(Step)
         /\ Marks(r1) = (Marks(r) \ {done})
                          \union (IF Len(step.left) = 1 THEN {} ELSE {<<place, more>>})
    <3>1. CASE Len(step.left) = 1
      <4>1. r1 = Tail(r)
        BY <2>2, <3>1, ConcatEmptySeq
      <4>2. QED
        BY <2>2, <3>1, <4>1
    <3>2. CASE Len(step.left) # 1
      <4>1. r1 = <<more>> \o Tail(r)
        BY <3>2
      <4>2. r1 \in Seq(Step) /\ Marks(r1) = Marks(Tail(r)) \union {<<Len(Tail(r)), more>>}
        BY <2>2, <2>7, <4>1, MarkFirst
      <4>3. QED
        BY <2>2, <3>2, <4>2
    <3>3. QED
      BY <3>1, <3>2
  <2> HIDE DEF r1
  <2>11. /\ r2 \in Seq(Step)
         /\ Marks(r2) = Marks(r1) \union (IF registered[id].once THEN {<<Len(r1), forget>>} ELSE {})
    <3>1. CASE registered[id].once
      <4>1. r2 = <<forget>> \o r1
        BY <3>1
      <4>2. /\ <<forget>> \o r1 \in Seq(Step)
            /\ Marks(<<forget>> \o r1) = Marks(r1) \union {<<Len(r1), forget>>}
        BY <2>8, <2>10, MarkFirst
      <4>3. QED
        BY <3>1, <4>1, <4>2
    <3>2. CASE ~registered[id].once
      <4>1. r2 = r1
        BY <2>10, <3>2, ConcatEmptySeq
      <4>2. QED
        BY <2>10, <3>2, <4>1
    <3>3. QED
      BY <3>1, <3>2
  <2>12. (h1 \o F \o R) \o Tail(r) = h1 \o r2
    <3>1. r1 = R \o Tail(r) /\ r2 = F \o r1
      BY DEF r1
    <3> HIDE DEF h1, F, R, r2
    <3>2. PICK hf \in Seq(Step) : hf = h1 \o F
      BY <2>9, ConcatProperties
    <3>3. (hf \o R) \o Tail(r) = hf \o (R \o Tail(r))
      <4>1. \A a, b, c \in Seq(Step) : (a \o b) \o c = a \o (b \o c)
        BY ConcatAssociative
      <4>2. hf \in Seq(Step) /\ R \in Seq(Step) /\ Tail(r) \in Seq(Step)
        BY <2>2, <2>9
      <4>3. QED
        BY <4>1, <4>2
    <3>4. (h1 \o F) \o r1 = h1 \o (F \o r1)
      <4>1. \A a, b, c \in Seq(Step) : (a \o b) \o c = a \o (b \o c)
        BY ConcatAssociative
      <4>2. h1 \in Seq(Step) /\ F \in Seq(Step) /\ r1 \in Seq(Step)
        BY <2>9, <2>10
      <4> HIDE DEF r1
      <4>3. QED
        BY <4>1, <4>2
    <3>5. QED
      BY <3>1, <3>2, <3>3, <3>4
  <2> HIDE DEF r2
  <2>13. h1 \o r2 \in Seq(Step) /\ Marks(h1 \o r2) = Marks(r2)
    BY <2>9, <2>11, QuietMarks
  <2>14. routine' = [routine EXCEPT ![g] = h1 \o r2]
    BY <2>1, <2>12
  <2> HIDE DEF h1, F, R
  <2>15. /\ routine' \in [Goroutines -> Seq(Step)]
         /\ \A h \in Goroutines \ {g} : routine'[h] = routine[h]
         /\ Marks(routine'[g]) = Marks(r2)
    BY <1>1, <1>r, <2>13, <2>14 DEF ShapeInv
  <2>16. ASSUME NEW p \in Marks(r) PROVE p[1] \in Nat /\ (p[1] = place => p = done)
    <3>1. p[1] \in 0..(Len(r) - 1) /\ p[2] = At(r, p[1]) /\ p = <<p[1], p[2]>>
      BY <2>1, MarkAt, MarkPair
    <3>2. QED
      BY <1>d, <2>2, <3>1
  <2>17. Len(r1) \in Nat
    BY <2>10, LenProperties
  <2>18. Marks(routine'[g]) =
           (Marks(r) \ {done}) \union (IF Len(step.left) = 1 THEN {} ELSE {<<place, more>>})
             \union (IF registered[id].once THEN {<<Len(r1), forget>>} ELSE {})
    BY <2>10, <2>11, <2>15
  <2>19. QED
    BY <2>1, <2>2, <2>3, <2>4, <2>5, <2>7, <2>15, <2>16, <2>17, <2>18

<1> DEFINE away == IF registered[id].once THEN {<<n, forget>>} ELSE {}
<1> DEFINE added == IF Len(step.left) = 1 THEN {} ELSE {<<place, more>>}
<1>3. /\ forget.do = "forget" /\ forget.id = id /\ forget.event = step.event
      /\ done[1] = place /\ done[2] = step
  BY <1>d, <1>f
<1>4. /\ \A p \in added : p[1] = place /\ p[2] = more /\ Len(step.left) # 1
      /\ Len(step.left) # 1 => <<place, more>> \in added
      /\ \A p \in away : p[1] = n /\ p[2] = forget /\ registered[id].once
      /\ registered[id].once => <<n, forget>> \in away
      /\ <<place, more>>[1] = place /\ <<place, more>>[2] = more
      /\ <<n, forget>>[2] = forget
  OBVIOUS
<1>5. Marks(routine'[g]) = (Marks(r) \ {done}) \union added \union away
  BY <1>2
<1>6. /\ Range(Tail(step.left)) = Range(step.left) \ {id} /\ Ascending(Tail(step.left))
      /\ Tail(step.left) \in Seq(Nat)
      /\ Len(step.left) = 1 <=> Tail(step.left) = <<>>
      /\ Len(step.left) = 1 => Range(step.left) \ {id} = {}
  <2>1. /\ Tail(step.left) \in Seq(Nat) /\ Ascending(Tail(step.left))
        /\ Range(Tail(step.left)) = Range(step.left) \ {id}
        /\ Len(step.left) \in Nat \ {0} /\ Len(Tail(step.left)) = Len(step.left) - 1
    <3>1. step.left \in Seq(Nat) /\ step.left # <<>> /\ Ascending(step.left)
      BY <1>2
    <3>2. QED
      BY <1>i, <3>1, ListTail
  <2>2. Len(step.left) = 1 <=> Len(Tail(step.left)) = 0
    BY <2>1
  <2>3. Len(Tail(step.left)) = 0 <=> Tail(step.left) = <<>>
    BY <2>1, EmptySeq
  <2>4. Range(<<>>) = {}
    BY DEF Range
  <2>5. QED
    BY <2>1, <2>2, <2>3, <2>4
<1> HIDE DEF added, away
<1>7. PlaceInv' /\ Holders' = Holders
  <2>1. \A p \in Marks(r) : p[2].do # "put back"
    <3>1. Head(routine[g]).do # "put back"
      BY <1>r, <1>s, <1>2
    <3>2. QED
      BY <1>1, <1>r, <3>1, NoAddressInHand
  <2>2. routine[g] # <<To("wait")>>
    BY <1>r, <1>s, <1>2, DoesNotWait
  <2>3. \A p \in Marks(r) : p[2].do \in {"serve", "go serve"} => p[1] = 0
    BY <1>1, <1>r DEF PlaceInv
  <2>4. \A p \in Marks(routine'[g]) : p \in Marks(r) \/ p[2].do \in {"tell", "forget"}
    BY <1>2, <1>3, <1>4, <1>5
  <2>5. \A p \in Marks(routine'[g]) :
          /\ p[2].do = "put back" => p[1] = Len(routine'[g]) - 1
          /\ p[2].do \in {"serve", "go serve"} => p[1] = 0
          /\ p[2].do = "start" => p \in Marks(routine[g])
    BY <1>r, <2>1, <2>3, <2>4
  <2>6. PlaceInv'
    <3>1. \A h \in Goroutines \ {g} : routine'[h] = routine[h]
      BY <1>2
    <3>2. QED
      BY <1>1, <2>2, <2>5, <3>1, OnePlaceKeeps
  <2>7. \A p \in Marks(routine'[g]) : p[2].do # "put back"
    BY <2>1, <2>4
  <2>8. Holders' = Holders
    BY <1>2, <1>r, <2>1, <2>7 DEF Holders
  <2>9. QED
    BY <2>6, <2>8
<1>8. /\ UNCHANGED <<listeners, address, lastError, shutdown, program, published, serverCalls>>
      /\ registered' = [registered EXCEPT ![id].heard = @ + 1]
  BY <1>r, <1>s, <1>i DEF Tell, KeepServer
<1>9. ControlInv'
  <2>1. ShapeInv'
    BY <1>1, <1>2, <1>8 DEF ShapeInv
  <2>2. HolderInv'
    BY <1>1, <1>7, <1>8, HolderKeeps
  <2>3. QED
    BY <1>7, <2>1, <2>2 DEF ControlInv
<1>10. /\ Speaks(routine'[g]) = (Speaks(r) \ {done}) \union added \union away
       /\ \A h \in Goroutines \ {g} : Speaks(routine'[h]) = Speaks(routine[h])
  <2>1. \A p \in added \union away : p[2].do \in {"tell", "forget"}
    BY <1>2, <1>3, <1>4
  <2>2. QED
    BY <1>2, <1>5, <2>1 DEF Speaks
<1>11. /\ Len(registered) \in Nat /\ DOMAIN registered = 1..Len(registered)
       /\ registered \in Seq(ListenerRecords)
       /\ \A k \in DOMAIN registered : k \in Nat /\ registered[k] \in ListenerRecords
  BY <1>1, Numbers DEF ListInv
<1>12. /\ registered' \in Seq(ListenerRecords) /\ DOMAIN registered' = DOMAIN registered
       /\ registered'[id].heard = registered[id].heard + 1
       /\ \A k \in DOMAIN registered :
            /\ registered'[k].event = registered[k].event
            /\ registered'[k].once = registered[k].once
            /\ registered'[k].due = registered[k].due
            /\ registered'[k].removed = registered[k].removed
            /\ registered'[k].overlapped = registered[k].overlapped
            /\ k # id => registered'[k].heard = registered[k].heard
  <2> DEFINE heard == [registered[id] EXCEPT !.heard = registered[id].heard + 1]
  <2>1. registered[id] \in ListenerRecords /\ registered[id].heard + 1 \in Nat
    <3>1. registered[id] \in ListenerRecords
      BY <1>2, <1>11
    <3>2. registered[id].heard \in Nat
      BY <3>1 DEF ListenerRecords
    <3>3. QED
      BY <3>1, <3>2
  <2>2. heard \in ListenerRecords
    BY <2>1 DEF ListenerRecords
  <2>3. /\ heard.event = registered[id].event /\ heard.once = registered[id].once
        /\ heard.due = registered[id].due /\ heard.removed = registered[id].removed
        /\ heard.overlapped = registered[id].overlapped
        /\ heard.heard = registered[id].heard + 1
    BY <2>1 DEF ListenerRecords
  <2>4. registered' = [registered EXCEPT ![id] = heard]
    BY <1>8
  <2> HIDE DEF heard
  <2>5. /\ registered' \in Seq(ListenerRecords) /\ Len(registered') = Len(registered)
        /\ \A k \in 1..Len(registered) : registered'[k] = IF k = id THEN heard ELSE registered[k]
    BY <1>2, <1>11, <2>2, <2>4, ExceptSeq
  <2>6. DOMAIN registered' = DOMAIN registered
    BY <1>11, <2>5, LenProperties
  <2>7. registered'[id] = heard /\ \A k \in DOMAIN registered \ {id} : registered'[k] = registered[k]
    BY <1>2, <1>11, <2>5
  <2>8. QED
    BY <2>3, <2>5, <2>6, <2>7
<1>13. ListInv'
  <2>1. \A e : {k \in DOMAIN registered' : registered'[k].event = e /\ ~registered'[k].removed} =
                {k \in DOMAIN registered : registered[k].event = e /\ ~registered[k].removed}
    BY <1>12
  <2>2. listeners' = listeners
    BY <1>8
  <2>3. QED
    BY <1>1, <1>12, <2>1, <2>2 DEF ListInv
<1>14. TellInv'
  <2>1. ASSUME NEW h \in Goroutines, NEW p \in Speaks(routine'[h])
        PROVE  \/ p \in Speaks(routine[h])
               \/ p[2] = more /\ Len(step.left) # 1
               \/ p[2] = forget
    BY <1>2, <1>r, <1>4, <1>10, <2>1
  <2>2. ASSUME NEW h \in Goroutines, NEW p \in Speaks(routine'[h])
        PROVE  /\ p[2].do = "tell" =>
                    /\ p[2].left # <<>> /\ Ascending(p[2].left)
                    /\ \A k \in Range(p[2].left) :
                         k \in DOMAIN registered' /\ registered'[k].event = p[2].event
               /\ p[2].do = "forget" =>
                    p[2].id \in DOMAIN registered' /\ registered'[p[2].id].event = p[2].event
    <3>1. CASE p \in Speaks(routine[h])
      BY <1>1, <1>12, <3>1 DEF TellInv
    <3>2. CASE p[2] = more /\ Len(step.left) # 1
      <4>1. more.left # <<>> /\ Ascending(more.left) /\ Range(more.left) \subseteq Range(step.left)
        BY <1>2, <1>6, <3>2
      <4>2. \A k \in Range(step.left) : k \in DOMAIN registered' /\ registered'[k].event = step.event
        BY <1>2, <1>12
      <4>3. QED
        BY <1>2, <3>2, <4>1, <4>2
    <3>3. CASE p[2] = forget
      BY <1>2, <1>3, <1>12, <3>3
    <3>4. QED
      BY <2>1, <2>2, <3>1, <3>2, <3>3
  <2>3. QED
    BY <2>2 DEF TellInv
<1>15. ASSUME NEW k
       PROVE  (\E p \in added : p[2].do = "tell" /\ k \in Range(p[2].left))
                <=> k \in Range(step.left) /\ k # id
  <2>1. ASSUME NEW p \in added, k \in Range(p[2].left)
        PROVE  k \in Range(step.left) /\ k # id
    <3>1. p[2] = more
      BY <1>4, <2>1
    <3>2. Range(more.left) = Range(step.left) \ {id}
      BY <1>2, <1>6
    <3>3. QED
      BY <2>1, <3>1, <3>2
  <2>2. ASSUME k \in Range(step.left), k # id
        PROVE  \E p \in added : p[2].do = "tell" /\ k \in Range(p[2].left)
    <3>1. <<place, more>> \in added
      BY <1>4, <1>6, <2>2
    <3>2. QED
      BY <1>2, <1>4, <1>6, <2>2, <3>1
  <2>3. QED
    BY <2>1, <2>2
<1>16. ASSUME NEW k
       PROVE  ToldBy(routine', k) = ToldBy(routine, k) \ (IF k = id THEN {<<g, place>>} ELSE {})
  <2>1. ASSUME NEW h \in Goroutines, NEW m \in Nat
        PROVE  <<h, m>> \in ToldBy(routine', k) <=>
                 <<h, m>> \in ToldBy(routine, k) /\ ~(h = g /\ m = place /\ k = id)
    <3>1. /\ <<h, m>> \in ToldBy(routine', k) <=>
               \E p \in Speaks(routine'[h]) : p[1] = m /\ p[2].do = "tell" /\ k \in Range(p[2].left)
          /\ <<h, m>> \in ToldBy(routine, k) <=>
               \E p \in Speaks(routine[h]) : p[1] = m /\ p[2].do = "tell" /\ k \in Range(p[2].left)
      BY DEF ToldBy
    <3>2. CASE h # g
      BY <1>10, <3>1, <3>2
    <3>3. CASE h = g /\ m # place
      <4>1. \A p \in added \union away : p[1] # m \/ p[2].do # "tell"
        BY <1>3, <1>4, <3>3
      <4>2. done[1] # m
        BY <1>3, <3>3
      <4>3. QED
        BY <1>10, <1>r, <3>1, <3>3, <4>1, <4>2
    <3>4. CASE h = g /\ m = place
      <4>1. <<h, m>> \in ToldBy(routine, k) <=> k \in Range(step.left)
        <5>1. \A p \in Speaks(r) : p[1] = place => p = done
          BY <1>2 DEF Speaks
        <5>2. QED
          BY <1>2, <1>3, <1>r, <3>1, <3>4, <5>1
      <4>2. <<h, m>> \in ToldBy(routine', k) <=> k \in Range(step.left) /\ k # id
        <5>1. \A p \in Speaks(r) \ {done} : p[1] # place
          BY <1>2 DEF Speaks
        <5>2. \A p \in away : p[2].do # "tell"
          BY <1>3, <1>4
        <5>3. \A p \in added : p[1] = place
          BY <1>4
        <5>4. (\E p \in Speaks(routine'[g]) : p[1] = place /\ p[2].do = "tell" /\ k \in Range(p[2].left))
                <=> \E p \in added : p[2].do = "tell" /\ k \in Range(p[2].left)
          BY <1>10, <5>1, <5>2, <5>3
        <5>5. QED
          BY <1>15, <3>1, <3>4, <5>4
      <4>3. QED
        BY <3>4, <4>1, <4>2
    <3>5. QED
      BY <3>2, <3>3, <3>4
  <2>2. \A q \in ToldBy(routine', k) \union ToldBy(routine, k) :
          q[1] \in Goroutines /\ q[2] \in Nat /\ q = <<q[1], q[2]>>
    BY DEF ToldBy
  <2>3. ASSUME NEW q PROVE q \in ToldBy(routine', k) <=>
                             q \in ToldBy(routine, k) /\ ~(q = <<g, place>> /\ k = id)
    BY <2>1, <2>2
  <2>4. QED
    BY <2>3
<1>17. <<g, place>> \in ToldBy(routine, id)
  BY <1>2, <1>3, <1>r DEF ToldBy
<1>18. DueInv'
  <2>1. ASSUME NEW k \in DOMAIN registered
        PROVE  /\ IsFiniteSet(ToldBy(routine', k))
               /\ registered'[k].heard + Cardinality(ToldBy(routine', k)) = registered'[k].due
    <3>1. /\ IsFiniteSet(ToldBy(routine, k))
          /\ registered[k].heard + Cardinality(ToldBy(routine, k)) = registered[k].due
      BY <1>1 DEF DueInv
    <3>2. Cardinality(ToldBy(routine, k)) \in Nat
      BY <3>1, FS_CardinalityType
    <3>3. registered[k].heard \in Nat /\ registered[k].due \in Nat
      BY <1>11 DEF ListenerRecords
    <3>4. CASE k = id
      <4>1. ToldBy(routine', k) = ToldBy(routine, k) \ {<<g, place>>}
        BY <1>16, <3>4
      <4>2. /\ IsFiniteSet(ToldBy(routine', k))
            /\ Cardinality(ToldBy(routine', k)) = Cardinality(ToldBy(routine, k)) - 1
        BY <1>17, <3>1, <3>4, <4>1, FS_RemoveElement
      <4>3. registered'[k].heard = registered[k].heard + 1 /\ registered'[k].due = registered[k].due
        BY <1>12, <3>4
      <4>4. QED
        BY <3>1, <3>2, <3>3, <4>2, <4>3
    <3>5. CASE k # id
      <4>1. ToldBy(routine', k) = ToldBy(routine, k)
        BY <1>16, <3>5
      <4>2. registered'[k].heard = registered[k].heard /\ registered'[k].due = registered[k].due
        BY <1>12, <3>5
      <4>3. QED
        BY <3>1, <4>1, <4>2
    <3>6. QED
      BY <3>4, <3>5
  <2>2. QED
    BY <1>12, <2>1 DEF DueInv
<1>19. ASSUME NEW k, k # id PROVE HeldBy(routine', k) = HeldBy(routine, k)
  <2>1. ASSUME NEW h \in Goroutines
        PROVE  (\E p \in Speaks(routine'[h]) :
                  (p[2].do = "tell" /\ k \in Range(p[2].left)) \/ (p[2].do = "forget" /\ p[2].id = k))
                <=> (\E p \in Speaks(routine[h]) :
                       (p[2].do = "tell" /\ k \in Range(p[2].left)) \/ (p[2].do = "forget" /\ p[2].id = k))
    <3>1. CASE h # g
      BY <1>10, <3>1
    <3>2. CASE h = g
      <4>1. \A p \in away : p[2].do = "forget" /\ p[2].id # k
        BY <1>3, <1>4, <1>19
      <4>2. \A p \in added : p[2].do = "tell"
        BY <1>2, <1>4
      <4>3. (\E p \in added : p[2].do = "tell" /\ k \in Range(p[2].left)) <=> k \in Range(step.left)
        BY <1>15, <1>19
      <4>4. done \in Speaks(r) /\ done[2].do = "tell" /\ done[2].left = step.left
        BY <1>2, <1>3
      <4>5. ASSUME k \in Range(step.left)
            PROVE  /\ \E p \in Speaks(routine'[g]) : p[2].do = "tell" /\ k \in Range(p[2].left)
                   /\ \E p \in Speaks(r) : p[2].do = "tell" /\ k \in Range(p[2].left)
        BY <1>10, <4>2, <4>3, <4>4, <4>5
      <4>6. ASSUME k \notin Range(step.left), NEW p,
                   (p[2].do = "tell" /\ k \in Range(p[2].left)) \/ (p[2].do = "forget" /\ p[2].id = k)
            PROVE  p \in Speaks(routine'[g]) <=> p \in Speaks(r)
        <5>1. p \notin away
          BY <4>1, <4>6
        <5>2. p \notin added
          BY <4>2, <4>3, <4>6
        <5>3. p # done
          BY <4>4, <4>6
        <5>4. QED
          BY <1>10, <5>1, <5>2, <5>3
      <4>7. CASE k \in Range(step.left)
        BY <1>r, <3>2, <4>5, <4>7
      <4>8. CASE k \notin Range(step.left)
        BY <1>r, <3>2, <4>6, <4>8
      <4>9. QED
        BY <4>7, <4>8
    <3>3. QED
      BY <3>1, <3>2
  <2>2. ASSUME NEW h PROVE h \in HeldBy(routine', k) <=> h \in HeldBy(routine, k)
    BY <2>1 DEF HeldBy
  <2>3. QED
    BY <2>2 DEF HeldBy
<1>20. registered[id].once => g \in HeldBy(routine', id)
  BY <1>3, <1>4, <1>10 DEF HeldBy
<1>21. OnceInv'
  <2>1. ASSUME NEW k \in DOMAIN registered
        PROVE  /\ registered'[k].once /\ registered'[k].due > 1 => registered'[k].overlapped
               /\ registered'[k].once /\ registered'[k].heard > 0 /\ HeldBy(routine', k) = {} =>
                    registered'[k].removed
    <3>1. CASE k = id
      BY <1>1, <1>12, <1>20, <3>1 DEF OnceInv
    <3>2. CASE k # id
      BY <1>1, <1>12, <1>19, <3>2 DEF OnceInv
    <3>3. QED
      BY <3>1, <3>2
  <2>2. QED
    BY <1>12, <2>1 DEF OnceInv
<1>22. QED
  BY <1>9, <1>13, <1>14, <1>18, <1>21 DEF HearInv

----------------------------------------------------------------------------
(* The whole server.                                                       *)

(* Who has the address in hand has to put it back.                         *)
LEMMA HoldersAre ==
  ASSUME ShapeInv
  PROVE  Holders = {g \in Goroutines : \E i \in DOMAIN routine[g] : routine[g][i].do = "put back"}
<1>1. ASSUME NEW g \in Goroutines
      PROVE  (\E p \in Marks(routine[g]) : p[2].do = "put back")
               <=> \E i \in DOMAIN routine[g] : routine[g][i].do = "put back"
  <2>1. routine[g] \in Seq(Step)
    BY DEF ShapeInv
  <2>2. Len(routine[g]) \in Nat /\ DOMAIN routine[g] = 1..Len(routine[g])
    BY <2>1, LenProperties
  <2>3. ASSUME NEW p \in Marks(routine[g])
        PROVE  \E i \in DOMAIN routine[g] : routine[g][i] = p[2]
    <3>1. p[1] \in 0..(Len(routine[g]) - 1) /\ p[2] = routine[g][Len(routine[g]) - p[1]]
      BY <2>1, MarkAt DEF At
    <3>2. Len(routine[g]) - p[1] \in 1..Len(routine[g])
      BY <2>2, <3>1
    <3>3. QED
      BY <2>2, <3>1, <3>2
  <2>4. ASSUME NEW i \in DOMAIN routine[g], routine[g][i].do = "put back"
        PROVE  \E p \in Marks(routine[g]) : p[2] = routine[g][i]
    <3>1. /\ Len(routine[g]) - i \in 0..(Len(routine[g]) - 1)
          /\ Len(routine[g]) - (Len(routine[g]) - i) = i
      BY <2>2
    <3>2. <<Len(routine[g]) - i, routine[g][i]>> \in Marks(routine[g])
      BY <2>1, <2>4, <3>1, MarkIs DEF At, Marked
    <3>3. QED
      BY <3>2
  <2>5. QED
    BY <2>3, <2>4
<1>2. QED
  BY <1>1 DEF Holders

(* The invariants say what the properties say.                             *)
LEMMA ServerImplies ==
  ASSUME ControlInv, HearInv
  PROVE  HttpServerTypeOK /\ ServerKeeps
<1>1. ShapeInv /\ ListInv /\ HolderInv
  BY DEF ControlInv, HearInv
<1>2. ListenersHear
  BY <1>1, HearImplies
<1>3. AddressKept
  BY <1>1, HoldersAre DEF HolderInv, AddressKept
<1>4. ASSUME NEW e \in ServerEvents, NEW i \in DOMAIN listeners[e]
      PROVE  listeners[e][i] \in DOMAIN registered /\ registered[listeners[e][i]].event = e
  <2>1. listeners[e][i] \in Range(listeners[e])
    BY DEF Range
  <2>2. QED
    BY <1>1, <2>1 DEF ListInv
<1>5. ASSUME NEW g \in Goroutines, NEW i \in DOMAIN routine[g]
      PROVE  routine[g][i].do \in {"emit", "tell", "handler", "forget", "publish", "go", "put back",
                                   "go serve", "serve", "start", "wait", "report", "shut down"}
  <2>1. routine[g] \in Seq(Step)
    BY <1>1 DEF ShapeInv
  <2>2. routine[g][i] \in Step
    BY <2>1, LenProperties, ElementOfSeq
  <2>3. QED
    BY <2>2, StepFields DEF PlainSteps
<1>6. HttpServerTypeOK
  BY <1>1, <1>4, <1>5 DEF HttpServerTypeOK, ShapeInv
<1>7. QED
  BY <1>2, <1>3, <1>6 DEF ServerKeeps

(* The invariants hold at the start.                                       *)
LEMMA ServerStarts ==
  ASSUME HttpServerInit
  PROVE  ControlInv /\ HearInv
<1>1. /\ program \in ServerPrograms /\ registered = <<>>
      /\ listeners = [e \in ServerEvents |-> <<>>]
      /\ routine = [g \in Goroutines |-> <<>>]
      /\ address = 0 /\ lastError = 0 /\ shutdown = FALSE /\ published = 0 /\ serverCalls = 0
  BY DEF HttpServerInit
<1>2. Marks(<<>>) = {} /\ Speaks(<<>>) = {}
  <2>1. <<>> \in Seq(Quiet)
    BY QuietSteps
  <2>2. Marks(<<>>) = {}
    BY <2>1, QuietHasNone
  <2>3. QED
    BY <2>2 DEF Speaks
<1>3. \A g \in Goroutines : Marks(routine[g]) = {} /\ Speaks(routine[g]) = {}
  BY <1>1, <1>2
<1>4. ShapeInv
  <2>1. routine \in [Goroutines -> Seq(Step)]
    BY <1>1
  <2>2. 0 \in 0..MaxServerCalls
    BY HttpServerAssumption
  <2>3. QED
    BY <1>1, <2>1, <2>2 DEF ShapeInv
<1>5. PlaceInv
  BY <1>3 DEF PlaceInv
<1>6. HolderInv
  <2>1. Holders = {}
    BY <1>3 DEF Holders
  <2>2. IsFiniteSet(Holders) /\ Cardinality(Holders) = 0
    BY <2>1, FS_EmptySet
  <2>3. QED
    BY <1>1, <2>2 DEF HolderInv
<1>7. DOMAIN registered = {}
  <2>1. registered \in Seq(ListenerRecords) /\ Len(registered) = 0
    BY <1>1, EmptySeq
  <2>2. DOMAIN registered = 1..0
    BY <2>1, LenProperties
  <2>3. QED
    BY <2>2
<1>8. ListInv
  <2>1. listeners \in [ServerEvents -> Seq(Nat)] /\ registered \in Seq(ListenerRecords)
    BY <1>1, EmptySeq
  <2>2. Range(<<>>) = {} /\ Ascending(<<>>)
    BY DEF Range, Ascending
  <2>3. QED
    BY <1>1, <1>7, <2>1, <2>2 DEF ListInv
<1>9. TellInv /\ DueInv /\ OnceInv
  BY <1>3, <1>7 DEF TellInv, DueInv, OnceInv
<1>10. QED
  BY <1>4, <1>5, <1>6, <1>8, <1>9 DEF ControlInv, HearInv

(* Every step keeps them.                                                  *)
LEMMA ServerStep ==
  ASSUME ControlInv, HearInv, [HttpServerNext]_httpVars
  PROVE  ControlInv' /\ HearInv'
<1>0. /\ lastError \in {0, 1} /\ serverCalls \in 0..MaxServerCalls
      /\ \A s \in Serves : s \in Goroutines
  BY DEF ControlInv, ShapeInv, Goroutines
<1>1. CASE UNCHANGED httpVars
  <2>1. ControlInv' /\ Steady
    BY <1>0, <1>1, SameRoutine DEF httpVars
  <2>2. QED
    BY <1>1, <2>1, SteadyHears DEF httpVars
<1>2. ASSUME NEW g \in Goroutines, NEW e \in program.events, NEW once \in BOOLEAN,
             ServerOn(g, e, once)
      PROVE  ControlInv' /\ HearInv'
  <2>1. ControlInv'
    BY <1>0, <1>2, SameRoutine DEF ServerOn, KeepServer
  <2>2. QED
    BY <1>2, <2>1, OnHears
<1>3. ASSUME NEW g \in Goroutines, NEW e \in program.events, RemoveAllListeners(g, e)
      PROVE  ControlInv' /\ HearInv'
  <2>1. serverCalls' \in 0..MaxServerCalls
    BY <1>3, CallsCounted DEF RemoveAllListeners, ServerCalling
  <2>2. ControlInv'
    BY <1>0, <1>3, <2>1, SameRoutine DEF RemoveAllListeners, KeepServer
  <2>3. QED
    BY <1>3, <2>2, RemoveAllHears
<1>4. ASSUME NEW g \in Goroutines, NEW id \in DOMAIN registered, ServerOff(g, id)
      PROVE  ControlInv' /\ HearInv'
  <2>1. serverCalls' \in 0..MaxServerCalls
    BY <1>4, CallsCounted DEF ServerOff, ServerCalling
  <2>2. ControlInv'
    BY <1>0, <1>4, <2>1, SameRoutine DEF ServerOff, KeepServer
  <2>3. QED
    BY <1>4, <2>2, OffHears
<1>5. ASSUME NEW g \in Goroutines, NEW e \in program.events, ServerEmit(g, e)
      PROVE  ControlInv' /\ HearInv'
  <2>1. UNCHANGED <<listeners, registered>>
    BY <1>5 DEF ServerEmit, KeepRegistered
  <2>2. QED
    BY <1>5, <2>1, EmitControl, SteadyHears
<1>6. ASSUME NEW g \in Goroutines, LastError(g)
      PROVE  ControlInv' /\ HearInv'
  <2>1. serverCalls' \in 0..MaxServerCalls
    BY <1>6, CallsCounted DEF LastError, ServerCalling
  <2>2. ControlInv' /\ Steady
    BY <1>6, <2>1, SameRoutine DEF LastError, KeepRegistered
  <2>3. UNCHANGED <<listeners, registered>>
    BY <1>6 DEF LastError, KeepRegistered
  <2>4. QED
    BY <2>2, <2>3, SteadyHears
<1>7. ASSUME NEW g \in Goroutines,
             \/ HandlerReturns(g) \/ Report(g) \/ ServeReturns(g) \/ ShutdownReturns(g)
             \/ Listen(g) \/ Publish(g) \/ Addr(g) \/ PutBack(g) \/ ServerClose(g)
      PROVE  ControlInv' /\ HearInv'
  <2>1. ControlInv' /\ Steady
    BY <1>7, ReturnsControl, ListenControl, PublishControl, AddrControl, PutBackControl,
       CloseControl
  <2>2. UNCHANGED <<listeners, registered>>
    BY <1>7 DEF HandlerReturns, Report, ServeReturns, ShutdownReturns, Listen, Publish, Addr,
                PutBack, ServerClose, KeepRegistered
  <2>3. QED
    BY <2>1, <2>2, SteadyHears
<1>8. ASSUME NEW g \in Goroutines, NEW s \in Serves, StartServe(g, s)
      PROVE  ControlInv' /\ HearInv'
  <2>1. UNCHANGED <<listeners, registered>>
    BY <1>8 DEF StartServe, KeepRegistered
  <2>2. QED
    BY <1>8, <2>1, StartServeControl, SteadyHears
<1>9. ASSUME NEW s \in Serves, NEW c \in Connections, AcceptConnection(s, c)
      PROVE  ControlInv' /\ HearInv'
  <2>1. UNCHANGED <<listeners, registered>>
    BY <1>9 DEF AcceptConnection, KeepRegistered
  <2>2. QED
    BY <1>9, <2>1, AcceptControl, SteadyHears
<1>10. ASSUME NEW s \in Serves, ServeStarts(s) \/ StartConnection(s)
       PROVE  ControlInv' /\ HearInv'
  <2>1. UNCHANGED <<listeners, registered>>
    BY <1>10 DEF ServeStarts, StartConnection, KeepRegistered
  <2>2. QED
    BY <1>10, <2>1, ServeStartsControl, StartConnectionControl, SteadyHears
<1>11. CASE HttpServerNext
  BY <1>0, <1>2, <1>3, <1>4, <1>5, <1>6, <1>7, <1>8, <1>9, <1>10, <1>11,
     SnapshotKeeps, TellKeeps, ForgetKeeps DEF HttpServerNext
<1>12. QED
  BY <1>1, <1>11

(* The state of a server has the types that its model says: listeners of   *)
(* the events they are in, channels of one place, steps of the code.       *)
THEOREM HttpServerTypeCorrect == HttpServerSpec => []HttpServerTypeOK
<1>1. HttpServerInit => ControlInv /\ HearInv
  BY ServerStarts
<1>2. (ControlInv /\ HearInv) /\ [HttpServerNext]_httpVars => (ControlInv /\ HearInv)'
  BY ServerStep
<1>3. ControlInv /\ HearInv => HttpServerTypeOK
  BY ServerImplies
<1>4. QED
  BY <1>1, <1>2, <1>3, PTL DEF HttpServerSpec

(* Listeners are lost only by their own removal, and hear each emission    *)
(* that found them once and in order; the address stays in the channel or  *)
(* in the hands of one about to put it back.  (emit, on, off, Addr)        *)
THEOREM ServerIsKept == HttpServerSpec => []ServerKeeps
<1>1. HttpServerInit => ControlInv /\ HearInv
  BY ServerStarts
<1>2. (ControlInv /\ HearInv) /\ [HttpServerNext]_httpVars => (ControlInv /\ HearInv)'
  BY ServerStep
<1>3. ControlInv /\ HearInv => ServerKeeps
  BY ServerImplies
<1>4. QED
  BY <1>1, <1>2, <1>3, PTL DEF HttpServerSpec
====
