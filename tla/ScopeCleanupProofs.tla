---- MODULE ScopeCleanupProofs ----
(***************************************************************************)
(* The cleanups of the statement emitter for every nesting depth, every    *)
(* number of bindings and every set of names and labels.                   *)
(***************************************************************************)
EXTENDS ScopeCleanup, SequenceTheorems, WellFoundedInduction, TLAPS

(* The registered bindings are declared ones, oldest first; a scope that   *)
(* was left is not registered any more; two open bindings of one name have *)
(* been marked as clashing; only declared bindings have been released.     *)
Registry ==
  /\ \A i, j \in 1..Height : i < j => cleanups[i] < cleanups[j]
  /\ \A i \in 1..Height : cleanups[i] <= next
  /\ \A i \in 1..Height : cleanups[i] \notin left
  /\ \A i, j \in 1..Height :
       i # j /\ name[cleanups[i]] = name[cleanups[j]] => cleanups[i] \in clashed
  /\ left \subseteq 1..next
  /\ released \subseteq 1..next
  /\ doubled \subseteq released

(* The heights of the constructs o nest below height h; what a jump keeps  *)
(* is what is registered where it lands; a label belongs to a statement    *)
(* that can be left by it, and only the last construct can be at its end.  *)
Nested(o, h) ==
  /\ \A i \in 1..Len(o) : o[i].base <= h
  /\ \A i, j \in 1..Len(o) : i < j => o[i].base <= o[j].base
  /\ \A i \in 1..Len(o) : o[i].kind \in Breakable =>
        o[i].keep = IF i = Len(o) THEN h ELSE o[i + 1].base
  /\ \A i \in 1..Len(o) : o[i].kind = "labeled" => o[i].keep = o[i].base
  /\ \A i \in 1..Len(o) : o[i].label # NoLabel =>
        o[i].kind \in Breakable \cup {"labeled", "end"}
  /\ \A i \in 1..Len(o) : o[i].kind = "end" => i = Len(o)

Inv ==
  /\ TypeOK
  /\ Registry
  /\ Nested(open, Height)
  /\ LeftReleasedOnce
  /\ OpenNotReleased
  /\ ReverseOrder
  /\ JumpsStayInside

USE CleanupAssumption DEF CleanupAssumption, Height, Depth, Bindings

----------------------------------------------------------------------------
(* A set of indices has a largest one.                                     *)
LEMMA LargestExists ==
  ASSUME NEW n \in Nat, NEW S, S \subseteq 1..n, S # {}
  PROVE  \E m \in S : \A j \in S : j <= m
<1> DEFINE T == {n - j : j \in S}
<1>1. T \subseteq Nat
  BY SMT
<1>2. T # {}
  OBVIOUS
<1>3. PICK x \in T : \A y \in T : ~ (<<y, x>> \in OpToRel(<, Nat))
  <2> HIDE DEF T
  <2> QED
    BY <1>1, <1>2, NatLessThanWellFounded, WFMin
<1>4. \A y \in T : ~(y < x)
  BY <1>1, <1>3 DEF OpToRel
<1>5. PICK m \in S : x = n - m
  OBVIOUS
<1>6. ASSUME NEW j \in S
      PROVE  j <= m
  <2>1. j \in Int /\ m \in Int /\ n - j \in T
    OBVIOUS
  <2> HIDE DEF T
  <2>2. ~(n - j < x)
    BY <2>1, <1>4
  <2> QED
    BY <2>1, <2>2, <1>5
<1>7. QED
  BY <1>5, <1>6

(* What LoadLocal finds for the name of an open binding is an open binding *)
(* of that name: the binding itself unless two have clashed.               *)
LEMMA ResolveFinds ==
  ASSUME TypeOK, Registry, NEW i \in 1..Height
  PROVE  \E m \in 1..Height :
           /\ Resolve(name[cleanups[i]]) = cleanups[m]
           /\ name[cleanups[m]] = name[cleanups[i]]
           /\ cleanups[i] \notin clashed => m = i
<1> DEFINE n == name[cleanups[i]]
           Found(b) == name[b] = n /\ \A c \in OpenBindings : name[c] = n => c <= b
<1>0. /\ Height \in Nat
      /\ \A j \in 1..Height : cleanups[j] \in 1..MaxBindings
  BY DEF TypeOK
<1>1. PICK m \in 1..Height : name[cleanups[m]] = n /\
                             \A j \in 1..Height : name[cleanups[j]] = n => j <= m
  <2> DEFINE Twins == {j \in 1..Height : name[cleanups[j]] = n}
  <2>1. Twins \subseteq 1..Height /\ i \in Twins
    OBVIOUS
  <2> HIDE DEF Twins
  <2>2. PICK m \in Twins : \A j \in Twins : j <= m
    BY <2>1, <1>0, LargestExists
  <2> QED
    BY <2>2, <2>1 DEF Twins
<1>2. \A j \in 1..Height : j <= m => cleanups[j] <= cleanups[m]
  <2> TAKE j \in 1..Height
  <2>1. CASE j = m
    BY <2>1, <1>0
  <2>2. CASE j # m
    BY <2>2, <1>0 DEF Registry
  <2> QED
    BY <2>1, <2>2
<1>3. cleanups[m] \in OpenBindings /\ Found(cleanups[m])
  BY <1>0, <1>1, <1>2 DEF OpenBindings
<1>4. \E b \in OpenBindings : Found(b)
  BY <1>3
<1>5. Resolve(n) = CHOOSE b \in OpenBindings : Found(b)
  BY DEF Resolve
<1>6. Resolve(n) \in OpenBindings /\ Found(Resolve(n))
  <2> HIDE DEF Found
  <2> QED
    BY <1>4, <1>5
<1>7. PICK k \in 1..Height : Resolve(n) = cleanups[k]
  BY <1>6 DEF OpenBindings
<1>8. cleanups[i] \notin clashed => k = i
  BY <1>6, <1>7 DEF Registry
<1>9. QED
  BY <1>6, <1>7, <1>8

(* Running the releases down to height h: an open binding that has not     *)
(* clashed is released, once, if it lies above h; nothing else is.         *)
LEMMA ReleaseEffect ==
  ASSUME TypeOK, Registry, NEW h \in 0..Height, Release(h)
  PROVE  /\ released' \subseteq 1..next
         /\ doubled' \subseteq released'
         /\ \A b \in released' : b \in released \/ b \in OpenBindings
         /\ \A b \in doubled' : b \in doubled \/ b \in OpenBindings
         /\ released \subseteq released'
         /\ \A i \in 1..Height : cleanups[i] \notin clashed =>
              /\ cleanups[i] \in released' <=> cleanups[i] \in released \/ i > h
              /\ cleanups[i] \in doubled' <=>
                   cleanups[i] \in doubled \/ (i > h /\ cleanups[i] \in released)
<1> DEFINE list == Releases(h)
           targets == {list[i] : i \in 1..Len(list)}
           repeated == {b \in targets : \E i, j \in 1..Len(list) :
                                          i # j /\ list[i] = b /\ list[j] = b}
<1>0. /\ Height \in Nat
      /\ \A j \in 1..Height : cleanups[j] \in 1..MaxBindings /\ cleanups[j] <= next
      /\ next \in Nat
  BY DEF TypeOK, Registry
<1>1. /\ Len(list) = Height - h
      /\ \A i \in 1..(Height - h) : list[i] = Resolve(name[cleanups[Height + 1 - i]])
  BY <1>0 DEF Releases
<1>2. /\ released' = released \cup targets
      /\ doubled' = doubled \cup repeated \cup (released \cap targets)
  BY DEF Release
<1>3. ASSUME NEW i \in 1..Len(list)
      PROVE  \E m \in 1..Height :
               /\ list[i] = cleanups[m]
               /\ name[cleanups[m]] = name[cleanups[Height + 1 - i]]
               /\ cleanups[Height + 1 - i] \notin clashed => m = Height + 1 - i
  <2>1. Height + 1 - i \in 1..Height
    BY <1>0, <1>1
  <2>2. list[i] = Resolve(name[cleanups[Height + 1 - i]])
    BY <1>1
  <2>3. PICK p \in 1..Height : p = Height + 1 - i
    BY <2>1
  <2>4. \E m \in 1..Height :
          /\ Resolve(name[cleanups[p]]) = cleanups[m]
          /\ name[cleanups[m]] = name[cleanups[p]]
          /\ cleanups[p] \notin clashed => m = p
    BY ResolveFinds
  <2> HIDE DEF list
  <2> QED
    BY <2>2, <2>3, <2>4
<1>4. targets \subseteq OpenBindings /\ targets \subseteq 1..next
  <2> HIDE DEF list
  <2>1. targets \subseteq OpenBindings
    BY <1>3 DEF OpenBindings
  <2>2. OpenBindings \subseteq 1..next
    BY <1>0 DEF OpenBindings
  <2>3. QED
    BY <2>1, <2>2
<1>5. repeated \subseteq targets
  OBVIOUS
<1>6. ASSUME NEW i \in 1..Height, cleanups[i] \notin clashed
      PROVE  /\ cleanups[i] \in targets <=> i > h
             /\ cleanups[i] \notin repeated
  <2>1. ASSUME NEW j \in 1..Len(list), list[j] = cleanups[i]
        PROVE  Height + 1 - j = i
    <3>1. PICK m \in 1..Height :
            /\ cleanups[i] = cleanups[m]
            /\ name[cleanups[m]] = name[cleanups[Height + 1 - j]]
      BY <2>1, <1>3
    <3>2. Height + 1 - j \in 1..Height
      BY <1>0, <1>1
    <3> QED
      BY <3>1, <3>2, <1>6 DEF Registry
  <2>2. ASSUME i > h
        PROVE  cleanups[i] \in targets
    <3>1. Height + 1 - i \in 1..Len(list) /\ Height + 1 - (Height + 1 - i) = i
      BY <2>2, <1>0, <1>1
    <3>2. list[Height + 1 - i] = cleanups[i]
      BY <3>1, <1>3, <1>6
    <3> QED
      BY <3>1, <3>2
  <2>3. ASSUME cleanups[i] \in targets
        PROVE  i > h
    <3>1. PICK j \in 1..Len(list) : list[j] = cleanups[i]
      BY <2>3
    <3> QED
      BY <3>1, <2>1, <1>0, <1>1
  <2>4. cleanups[i] \notin repeated
    <3> SUFFICES ASSUME NEW j \in 1..Len(list), NEW k \in 1..Len(list),
                        j # k, list[j] = cleanups[i], list[k] = cleanups[i]
                 PROVE  FALSE
      OBVIOUS
    <3> QED
      BY <2>1, <1>0, <1>1
  <2> QED
    BY <2>2, <2>3, <2>4
<1> HIDE DEF targets, repeated
<1>7. released' \subseteq 1..next /\ released \subseteq released' /\ doubled' \subseteq released'
  BY <1>2, <1>4, <1>5 DEF Registry
<1>8. /\ \A b \in released' : b \in released \/ b \in OpenBindings
      /\ \A b \in doubled' : b \in doubled \/ b \in OpenBindings
  BY <1>2, <1>4, <1>5
<1>9. ASSUME NEW i \in 1..Height, cleanups[i] \notin clashed
      PROVE  /\ cleanups[i] \in released' <=> cleanups[i] \in released \/ i > h
             /\ cleanups[i] \in doubled' <=>
                   cleanups[i] \in doubled \/ (i > h /\ cleanups[i] \in released)
  BY <1>9, <1>2, <1>6
<1>10. QED
  BY <1>7, <1>8, <1>9

----------------------------------------------------------------------------
(* What a step does to the registered bindings: it keeps the first h of    *)
(* them, and may declare one more.                                         *)
Registers(h) ==
  \/ cleanups' = Below(h) /\ UNCHANGED <<next, name, clashed>>
  \/ \E n \in Names : DeclareAbove(Below(h), n)

(* The bindings up to a height.                                            *)
LEMMA BelowFacts ==
  ASSUME TypeOK, NEW h \in 0..Height
  PROVE  /\ Below(h) \in Seq(Bindings)
         /\ Len(Below(h)) = h
         /\ \A i \in 1..h : Below(h)[i] = cleanups[i]
<1>1. /\ h \in Int /\ 1 \in Int
      /\ \A i \in 1..h : cleanups[i] \in Bindings
  BY DEF TypeOK
<1>2. QED
  BY <1>1, SubSeqProperties DEF Below, TypeOK

(* The two cases of Registers, element by element.                         *)
LEMMA RegistersFacts ==
  ASSUME TypeOK, NEW h \in 0..Height, Registers(h)
  PROVE  /\ cleanups' \in Seq(Bindings)
         /\ next' \in 0..MaxBindings
         /\ name' \in [Bindings -> Names \cup {NoName}]
         /\ clashed \subseteq clashed'
         /\ clashed' \subseteq Bindings
         /\ \A i \in 1..h : cleanups'[i] = cleanups[i]
         /\ \A b \in 1..next : name'[b] = name[b]
         /\ \/ Height' = h /\ next' = next
            \/ /\ Height' = h + 1
               /\ next' = next + 1
               /\ cleanups'[h + 1] = next + 1
               /\ next + 1 \in Bindings
               /\ \A i \in 1..h : name[cleanups[i]] = name'[next + 1] =>
                                    {cleanups[i], next + 1} \subseteq clashed'
<1>0. /\ Below(h) \in Seq(Bindings) /\ Len(Below(h)) = h
      /\ \A i \in 1..h : Below(h)[i] = cleanups[i]
  BY BelowFacts
<1>1. CASE cleanups' = Below(h) /\ UNCHANGED <<next, name, clashed>>
  BY <1>0, <1>1 DEF TypeOK
<1>2. ASSUME NEW n \in Names, DeclareAbove(Below(h), n)
      PROVE  /\ cleanups' \in Seq(Bindings)
             /\ next' \in 0..MaxBindings
             /\ name' \in [Bindings -> Names \cup {NoName}]
             /\ clashed \subseteq clashed'
             /\ clashed' \subseteq Bindings
             /\ \A i \in 1..h : cleanups'[i] = cleanups[i]
             /\ \A b \in 1..next : name'[b] = name[b]
             /\ Height' = h + 1
             /\ next' = next + 1
             /\ cleanups'[h + 1] = next + 1
             /\ next + 1 \in Bindings
             /\ \A i \in 1..h : name[cleanups[i]] = name'[next + 1] =>
                                  {cleanups[i], next + 1} \subseteq clashed'
  <2> DEFINE twins == {Below(h)[i] : i \in {j \in 1..Len(Below(h)) : name[Below(h)[j]] = n}}
  <2>1. /\ next' = next + 1 /\ next + 1 \in Bindings /\ next \in Nat
        /\ name' = [name EXCEPT ![next + 1] = n]
        /\ cleanups' = Append(Below(h), next + 1)
        /\ clashed' = IF twins = {} THEN clashed ELSE clashed \cup twins \cup {next + 1}
    BY <1>2 DEF DeclareAbove, TypeOK
  <2>2. /\ cleanups' \in Seq(Bindings) /\ Height' = h + 1
        /\ \A i \in 1..h : cleanups'[i] = Below(h)[i]
        /\ cleanups'[h + 1] = next + 1
    <3>1. Below(h) \in Seq(Bindings) /\ next + 1 \in Bindings /\ Len(Below(h)) = h
      BY <1>0, <2>1
    <3>2. PICK q : q = Append(Below(h), next + 1)
      OBVIOUS
    <3>3. /\ q \in Seq(Bindings) /\ Len(q) = Len(Below(h)) + 1
          /\ \A i \in 1..Len(Below(h)) : q[i] = Below(h)[i]
          /\ q[Len(Below(h)) + 1] = next + 1
      BY <3>1, <3>2, AppendProperties
    <3>4. QED
      BY <2>1, <3>1, <3>2, <3>3 DEF Height
  <2>3. /\ name' \in [Bindings -> Names \cup {NoName}]
        /\ name'[next + 1] = n
        /\ \A b \in 1..next : name'[b] = name[b]
    BY <2>1 DEF TypeOK
  <2>4. twins \subseteq Bindings
    BY <1>0 DEF TypeOK
  <2>5. \A i \in 1..h : name[cleanups[i]] = n => cleanups[i] \in twins
    BY <1>0
  <2> HIDE DEF twins
  <2>6. /\ clashed \subseteq clashed' /\ clashed' \subseteq Bindings
        /\ \A i \in 1..h : name[cleanups[i]] = n => {cleanups[i], next + 1} \subseteq clashed'
    BY <2>1, <2>4, <2>5 DEF TypeOK
  <2>7. next' \in 0..MaxBindings
    BY <2>1
  <2> QED
    BY <1>0, <2>1, <2>2, <2>3, <2>6, <2>7
<1>3. QED
  BY <1>1, <1>2 DEF Registers

(* Registry survives every step that releases declared         *)
(* bindings only, leaves the scopes above h and registers.                 *)
LEMMA RegistryStep ==
  ASSUME TypeOK, Registry, NEW h \in 0..Height, Registers(h), LeaveTo(h),
         released' \subseteq 1..next, doubled' \subseteq released'
  PROVE  Registry'
<1>0. /\ Height \in Nat /\ next \in Nat
      /\ \A i \in 1..Height : cleanups[i] \in 1..next
  <2>1. Height \in Nat /\ next \in Nat /\ \A i \in 1..Height : cleanups[i] \in 1..MaxBindings
    BY DEF TypeOK
  <2>2. \A i \in 1..Height : cleanups[i] <= next
    BY DEF Registry
  <2>3. QED
    BY <2>1, <2>2
<1>1. /\ cleanups' \in Seq(Bindings)
      /\ next' \in 0..MaxBindings
      /\ clashed \subseteq clashed'
      /\ \A i \in 1..h : cleanups'[i] = cleanups[i]
      /\ \A b \in 1..next : name'[b] = name[b]
  BY RegistersFacts
<1>2. \/ Height' = h /\ next' = next
      \/ /\ Height' = h + 1
         /\ next' = next + 1
         /\ cleanups'[h + 1] = next + 1
         /\ next + 1 \in Bindings
         /\ \A i \in 1..h : name[cleanups[i]] = name'[next + 1] =>
                              {cleanups[i], next + 1} \subseteq clashed'
  BY RegistersFacts
<1>3. left' = left \cup {cleanups[i] : i \in (h + 1)..Height}
  BY DEF LeaveTo
<1>4. \A i \in 1..h : /\ cleanups'[i] \in 1..next
                       /\ name'[cleanups'[i]] = name[cleanups[i]]
  BY <1>0, <1>1
<1>5. next <= next' /\ next' \in Nat /\ Height' \in Nat /\ h <= Height'
  BY <1>0, <1>1, <1>2
<1>6. \A i \in 1..Height' : i \in 1..h \/ (i = h + 1 /\ cleanups'[i] = next + 1 /\ next' = next + 1)
  BY <1>2
<1>7. (\A i, j \in 1..Height : i < j => cleanups[i] < cleanups[j])'
  <2> SUFFICES ASSUME NEW i \in 1..Height', NEW j \in 1..Height', i < j
               PROVE  cleanups'[i] < cleanups'[j]
    OBVIOUS
  <2>1. i \in 1..h
    BY <1>6
  <2>2. CASE j \in 1..h
    <3>1. cleanups[i] < cleanups[j]
      BY <2>1, <2>2, <1>0 DEF Registry
    <3> QED
      BY <3>1, <2>1, <2>2, <1>1
  <2>3. CASE j = h + 1 /\ cleanups'[j] = next + 1
    BY <2>1, <2>3, <1>4, <1>0
  <2> QED
    BY <2>2, <2>3, <1>6
<1>8. (\A i \in 1..Height : cleanups[i] <= next)'
  <2> SUFFICES ASSUME NEW i \in 1..Height' PROVE cleanups'[i] <= next'
    OBVIOUS
  <2> QED
    BY <1>4, <1>5, <1>6, <1>0
<1>9. (\A i \in 1..Height : cleanups[i] \notin left)'
  <2> SUFFICES ASSUME NEW i \in 1..Height' PROVE cleanups'[i] \notin left'
    OBVIOUS
  <2>1. CASE i \in 1..h
    <3>1. cleanups[i] \notin left /\ \A j \in (h + 1)..Height : cleanups[i] # cleanups[j]
      BY <2>1, <1>0 DEF Registry
    <3> QED
      BY <3>1, <2>1, <1>1, <1>3
  <2>2. CASE cleanups'[i] = next + 1
    <3>1. next + 1 \notin left
      BY <1>0 DEF Registry
    <3>2. \A j \in (h + 1)..Height : cleanups[j] # next + 1
      <4>1. \A j \in 1..Height : cleanups[j] \in 1..next /\ next \in Nat /\ Height \in Nat
        BY <1>0
      <4>2. \A j \in (h + 1)..Height : j \in 1..Height
        BY <1>0
      <4>3. QED
        BY <4>1, <4>2
    <3> QED
      BY <3>1, <3>2, <2>2, <1>3
  <2> QED
    BY <2>1, <2>2, <1>6
<1>10. (\A i, j \in 1..Height :
          i # j /\ name[cleanups[i]] = name[cleanups[j]] => cleanups[i] \in clashed)'
  <2> SUFFICES ASSUME NEW i \in 1..Height', NEW j \in 1..Height', i # j,
                      name'[cleanups'[i]] = name'[cleanups'[j]]
               PROVE  cleanups'[i] \in clashed'
    OBVIOUS
  <2>1. CASE i \in 1..h /\ j \in 1..h
    <3>1. cleanups[i] \in clashed
      BY <2>1, <1>0, <1>4 DEF Registry
    <3> QED
      BY <3>1, <2>1, <1>1
  <2>2. CASE i \in 1..h /\ j \notin 1..h
    <3>1. cleanups'[j] = next + 1 /\ name[cleanups[i]] = name'[next + 1]
      BY <2>2, <1>4, <1>6
    <3> QED
      BY <3>1, <2>2, <1>1, <1>2, <1>5, <1>6
  <2>3. CASE i \notin 1..h
    <3>1. j \in 1..h /\ cleanups'[i] = next + 1 /\ name[cleanups[j]] = name'[next + 1]
      BY <2>3, <1>4, <1>6
    <3> QED
      BY <3>1, <2>3, <1>2, <1>5, <1>6
  <2> QED
    BY <2>1, <2>2, <2>3
<1>11. /\ left' \subseteq 1..next'
       /\ released' \subseteq 1..next'
       /\ doubled' \subseteq released'
  <2>1. {cleanups[i] : i \in (h + 1)..Height} \subseteq 1..next
    BY <1>0
  <2>2. 1..next \subseteq 1..next'
    BY <1>0, <1>5
  <2>3. left' \subseteq 1..next
    BY <2>1, <1>3 DEF Registry
  <2> QED
    BY <2>2, <2>3
<1>12. QED
  BY <1>7, <1>8, <1>9, <1>10, <1>11 DEF Registry

(* The list of one exit's releases, and its order if no names clash.       *)
LEMMA ReleasesFacts ==
  ASSUME TypeOK, Registry, NEW h \in 0..Height
  PROVE  /\ Releases(h) \in Seq(Bindings)
         /\ clashed = {} =>
              \A i, j \in 1..Len(Releases(h)) : i < j => Releases(h)[i] > Releases(h)[j]
<1> DEFINE list == Releases(h)
<1>0. /\ Height \in Nat
      /\ \A j \in 1..Height : cleanups[j] \in Bindings
  BY DEF TypeOK
<1>1. /\ Len(list) = Height - h
      /\ list = [i \in 1..(Height - h) |-> Resolve(name[cleanups[Height + 1 - i]])]
  BY <1>0 DEF Releases
<1>2. ASSUME NEW i \in 1..(Height - h)
      PROVE  /\ list[i] \in Bindings
             /\ clashed = {} => list[i] = cleanups[Height + 1 - i]
  <2>0. Height + 1 - i \in 1..Height
    BY <1>0
  <2>1. PICK p \in 1..Height : p = Height + 1 - i
    BY <2>0
  <2>2. PICK m \in 1..Height :
          /\ Resolve(name[cleanups[p]]) = cleanups[m]
          /\ cleanups[p] \notin clashed => m = p
    BY ResolveFinds
  <2>3. list[i] = Resolve(name[cleanups[p]])
    BY <1>1, <2>1
  <2> HIDE DEF list
  <2> QED
    BY <1>0, <2>1, <2>2, <2>3
<1>3. list \in Seq(Bindings)
  <2>1. Height - h \in Nat
    BY <1>0
  <2> QED
    BY <1>1, <1>2, <2>1
<1>4. ASSUME clashed = {}, NEW i \in 1..Len(list), NEW j \in 1..Len(list), i < j
      PROVE  list[i] > list[j]
  <2> HIDE DEF list
  <2>1. list[i] = cleanups[Height + 1 - i] /\ list[j] = cleanups[Height + 1 - j]
    BY <1>1, <1>2, <1>4
  <2>2. /\ Height + 1 - i \in 1..Height
        /\ Height + 1 - j \in 1..Height
        /\ Height + 1 - j < Height + 1 - i
    BY <1>0, <1>1, <1>4
  <2>3. cleanups[Height + 1 - j] < cleanups[Height + 1 - i]
    BY <2>2 DEF Registry
  <2> QED
    BY <1>0, <2>1, <2>2, <2>3
<1>5. QED
  BY <1>3, <1>4

(* The effect of every step that is not an exit: it releases nothing.      *)
LEMMA NothingReleased ==
  ASSUME TypeOK, UNCHANGED Released
  PROVE  /\ Height \in 0..Height
         /\ Below(Height) = cleanups
         /\ Release(Height)
         /\ LeaveTo(Height)
<1>1. Height \in Nat /\ cleanups \in Seq(Bindings)
  BY DEF TypeOK
<1>2. Below(Height) = cleanups
  BY <1>1, SubSeqFull DEF Below
<1>3. Len(Releases(Height)) = 0
  BY <1>1 DEF Releases
<1>4. Release(Height)
  BY <1>3 DEF Release, Released
<1>5. {cleanups[i] : i \in (Height + 1)..Height} = {}
  BY <1>1
<1>6. LeaveTo(Height)
  BY <1>5 DEF LeaveTo, Released
<1>7. QED
  BY <1>1, <1>2, <1>4, <1>6

(* A step that leaves the scopes above h, releases down to r and takes     *)
(* the bindings between r and h for caught over: the invariant holds after *)
(* it if the constructs nest.                                              *)
LEMMA StepInv ==
  ASSUME Inv, NEW h \in 0..Height, NEW r \in 0..h,
         Registers(h), LeaveTo(h), Release(r),
         caughtOver \subseteq caughtOver', caughtOver' \subseteq Bindings,
         \A i \in (r + 1)..h : cleanups[i] \in caughtOver',
         open' \in Seq(Constructs), Nested(open', Height'),
         lastExit' \in [releases : {<<>>, Releases(r)}, wanted : Nat, got : Nat],
         lastExit'.got >= lastExit'.wanted
  PROVE  Inv'
<1> USE DEF Inv
<1>0. /\ Height \in Nat /\ next \in Nat /\ r \in 0..Height
      /\ \A i \in 1..Height : cleanups[i] \in 1..next
  <2>1. Height \in Nat /\ next \in Nat /\ \A i \in 1..Height : cleanups[i] \in 1..MaxBindings
    BY SMTT(30) DEF TypeOK
  <2>2. \A i \in 1..Height : cleanups[i] <= next
    BY DEF Registry
  <2> HIDE DEF Inv
  <2>3. QED
    BY <2>1, <2>2
<1>1. /\ released' \subseteq 1..next
      /\ doubled' \subseteq released'
      /\ \A b \in doubled' : b \in doubled \/ b \in OpenBindings
      /\ released \subseteq released'
      /\ \A i \in 1..Height : cleanups[i] \notin clashed =>
           /\ cleanups[i] \in released' <=> cleanups[i] \in released \/ i > r
           /\ cleanups[i] \in doubled' <=>
                cleanups[i] \in doubled \/ (i > r /\ cleanups[i] \in released)
  BY <1>0, ReleaseEffect
<1>2. Registry'
  BY <1>1, RegistryStep
<1>3. /\ cleanups' \in Seq(Bindings)
      /\ next' \in 0..MaxBindings
      /\ name' \in [Bindings -> Names \cup {NoName}]
      /\ clashed \subseteq clashed'
      /\ clashed' \subseteq Bindings
      /\ \A i \in 1..h : cleanups'[i] = cleanups[i]
      /\ \/ Height' = h
         \/ Height' = h + 1 /\ cleanups'[h + 1] = next + 1
  BY RegistersFacts
<1>4. Releases(r) \in Seq(Bindings) /\ <<>> \in Seq(Bindings)
  BY <1>0, ReleasesFacts
<1>5. TypeOK'
  <2>1. 1..next' \subseteq Bindings
    BY <1>3
  <2>2. released' \subseteq Bindings /\ doubled' \subseteq Bindings /\ left' \subseteq Bindings
    BY <1>2, <2>1 DEF Registry
  <2>3. lastExit' \in [releases : Seq(Bindings), wanted : Nat, got : Nat]
    BY <1>4
  <2> QED
    BY <1>3, <2>2, <2>3 DEF TypeOK
<1>6. LeftReleasedOnce'
  <2> SUFFICES ASSUME NEW b \in left', b \notin clashed', b \notin caughtOver'
               PROVE  b \in released' /\ b \notin doubled'
    BY DEF LeftReleasedOnce
  <2>1. CASE b \in left
    <3>1. b \in released /\ b \notin doubled
      BY <2>1, <1>3 DEF LeftReleasedOnce
    <3>2. b \notin OpenBindings
      BY <2>1 DEF OpenBindings, Registry
    <3> QED
      BY <3>1, <3>2, <1>1
  <2>2. ASSUME NEW i \in (h + 1)..Height, b = cleanups[i]
        PROVE  b \in released' /\ b \notin doubled'
    <3>1. i \in 1..Height /\ i > r /\ cleanups[i] \notin clashed
      BY <2>2, <1>0, <1>3
    <3>2. b \notin released
      BY <2>2, <3>1 DEF OpenNotReleased, OpenBindings
    <3>3. b \notin doubled
      BY <3>2 DEF Registry
    <3> QED
      BY <3>1, <3>2, <3>3, <2>2, <1>1
  <2> QED
    BY <2>1, <2>2 DEF LeaveTo
<1>7. OpenNotReleased'
  <2> SUFFICES ASSUME NEW i \in 1..Height', cleanups'[i] \notin clashed',
                      cleanups'[i] \notin caughtOver'
               PROVE  cleanups'[i] \notin released'
    BY DEF OpenNotReleased, OpenBindings
  <2>1. CASE i \in 1..h
    <3>1. /\ i \in 1..Height /\ cleanups'[i] = cleanups[i]
          /\ cleanups[i] \notin clashed /\ cleanups[i] \notin caughtOver
      <4>1. i \in 1..Height /\ cleanups'[i] = cleanups[i]
        BY <2>1, <1>0, <1>3
      <4>2. clashed \subseteq clashed' /\ caughtOver \subseteq caughtOver'
        BY <1>0, <1>3
      <4>3. QED
        BY <4>1, <4>2
    <3>2. cleanups[i] \notin released
      BY <3>1 DEF OpenNotReleased, OpenBindings
    <3>3. ~(i > r)
      BY <2>1, <3>1, <1>0
    <3> QED
      BY <3>1, <3>2, <3>3, <1>1
  <2>2. CASE cleanups'[i] = next + 1
    BY <2>2, <1>0, <1>1
  <2>3. i \in 1..h \/ cleanups'[i] = next + 1
    BY <1>3, SMTT(30)
  <2> QED
    BY <2>1, <2>2, <2>3
<1>8. ReverseOrder'
  <2> SUFFICES ASSUME clashed' = {}, NEW i \in 1..Len(lastExit'.releases),
                      NEW j \in 1..Len(lastExit'.releases), i < j
               PROVE  lastExit'.releases[i] > lastExit'.releases[j]
    BY DEF ReverseOrder
  <2>1. lastExit'.releases = Releases(r)
    <3>1. lastExit'.releases # <<>>
      OBVIOUS
    <3> QED
      BY <3>1
  <2>2. clashed = {}
    BY <1>3
  <2> QED
    BY <2>1, <2>2, <1>0, ReleasesFacts
<1>9. JumpsStayInside'
  BY DEF JumpsStayInside
<1>10. QED
  BY <1>2, <1>5, <1>6, <1>7, <1>8, <1>9

----------------------------------------------------------------------------
(* How the constructs nest.                                                *)
LEMMA ConstructFacts ==
  ASSUME NEW o \in Seq(Constructs)
  PROVE  /\ Len(o) \in Nat
         /\ \A i \in 1..Len(o) : o[i] \in Constructs
         /\ \A i \in 1..Len(o) : o[i].base \in Nat /\ o[i].keep \in Nat
<1>1. Len(o) \in Nat /\ \A i \in 1..Len(o) : o[i] \in Constructs
  OBVIOUS
<1>2. \A c \in Constructs : c.base \in Nat /\ c.keep \in Nat
  BY DEF Constructs
<1>3. QED
  BY <1>1, <1>2

(* Leaving construct k and those inside it.                                *)
LEMMA NestedPrefix ==
  ASSUME NEW o \in Seq(Constructs), NEW h \in Nat, Nested(o, h), NEW k \in 1..Len(o)
  PROVE  /\ SubSeq(o, 1, k - 1) \in Seq(Constructs)
         /\ Len(SubSeq(o, 1, k - 1)) = k - 1
         /\ \A i \in 1..(k - 1) : SubSeq(o, 1, k - 1)[i] = o[i]
         /\ o[k].base \in 0..h
         /\ Nested(SubSeq(o, 1, k - 1), o[k].base)
<1> DEFINE p == SubSeq(o, 1, k - 1)
<1>0. /\ Len(o) \in Nat /\ k \in Int /\ k - 1 \in Int /\ 1 \in Int
      /\ \A i \in 1..Len(o) : o[i] \in Constructs /\ o[i].base \in Nat
      /\ \A i \in 1..(k - 1) : o[i] \in Constructs
  BY ConstructFacts
<1>1. /\ p \in Seq(Constructs)
      /\ Len(p) = k - 1
      /\ \A i \in 1..(k - 1) : p[i] = o[i]
  BY <1>0, SubSeqProperties
<1> HIDE DEF p
<1>2. o[k].base \in 0..h
  BY <1>0 DEF Nested
<1>3. \A i \in 1..Len(p) : i \in 1..Len(o) /\ i < k /\ p[i] = o[i] /\ o[i].base <= o[k].base
  BY <1>0, <1>1 DEF Nested
<1>4. \A i, j \in 1..Len(p) : i < j => p[i].base <= p[j].base
  BY <1>3 DEF Nested
<1>5. ASSUME NEW i \in 1..Len(p), p[i].kind \in Breakable
      PROVE  p[i].keep = IF i = Len(p) THEN o[k].base ELSE p[i + 1].base
  <2>1. o[i].keep = o[i + 1].base
    BY <1>0, <1>3, <1>5 DEF Nested
  <2>2. CASE i = Len(p)
    BY <2>1, <2>2, <1>1, <1>3
  <2>3. CASE i # Len(p)
    <3>1. i + 1 \in 1..(k - 1)
      BY <2>3, <1>0, <1>1
    <3> QED
      BY <2>1, <2>3, <3>1, <1>1, <1>3
  <2> QED
    BY <2>2, <2>3
<1>6. /\ \A i \in 1..Len(p) : p[i].kind = "labeled" => p[i].keep = p[i].base
      /\ \A i \in 1..Len(p) : p[i].label # NoLabel =>
           p[i].kind \in Breakable \cup {"labeled", "end"}
  <2>1. /\ \A i \in 1..Len(o) : o[i].kind = "labeled" => o[i].keep = o[i].base
        /\ \A i \in 1..Len(o) : o[i].label # NoLabel =>
             o[i].kind \in Breakable \cup {"labeled", "end"}
    BY DEF Nested
  <2>2. \A i \in 1..Len(p) : i \in 1..Len(o) /\ p[i] = o[i]
    BY <1>3
  <2>3. QED
    BY <2>1, <2>2
<1>7. \A i \in 1..Len(p) : p[i].kind # "end"
  BY <1>0, <1>3 DEF Nested
<1>8. Nested(p, o[k].base)
  BY <1>3, <1>4, <1>5, <1>6, <1>7 DEF Nested
<1>9. QED
  BY <1>1, <1>2, <1>8 DEF p

(* Entering a construct whose own scope starts at or above the height of   *)
(* the constructs around it.                                               *)
LEMMA NestedPush ==
  ASSUME NEW o \in Seq(Constructs), NEW h \in Nat, Nested(o, h),
         NEW c \in Constructs, NEW g \in Nat,
         h <= c.base, c.base <= g,
         Len(o) > 0 => o[Len(o)].kind # "end"
                       /\ (o[Len(o)].kind \in Breakable => c.base = h),
         c.kind \in Breakable => c.keep = g,
         c.kind = "labeled" => c.keep = c.base,
         c.label # NoLabel => c.kind \in Breakable \cup {"labeled"},
         c.kind # "end"
  PROVE  /\ Append(o, c) \in Seq(Constructs)
         /\ Len(Append(o, c)) = Len(o) + 1
         /\ Append(o, c)[Len(o) + 1] = c
         /\ Nested(Append(o, c), g)
<1> DEFINE p == Append(o, c)
<1>0. /\ Len(o) \in Nat /\ c.base \in Nat
      /\ \A i \in 1..Len(o) : o[i].base \in Nat
  BY ConstructFacts DEF Constructs
<1>1. /\ p \in Seq(Constructs)
      /\ Len(p) = Len(o) + 1
      /\ \A i \in 1..Len(o) : p[i] = o[i]
      /\ p[Len(o) + 1] = c
  BY AppendProperties
<1> HIDE DEF p
<1>2. \A i \in 1..Len(p) : i \in 1..Len(o) \/ (i = Len(o) + 1 /\ p[i] = c)
  BY <1>0, <1>1
<1>3. \A i \in 1..Len(o) : p[i] = o[i] /\ o[i].base <= h
  BY <1>1 DEF Nested
<1>4. \A i \in 1..Len(p) : p[i].base <= g
  BY <1>0, <1>2, <1>3
<1>5. \A i, j \in 1..Len(p) : i < j => p[i].base <= p[j].base
  <2> SUFFICES ASSUME NEW i \in 1..Len(p), NEW j \in 1..Len(p), i < j
               PROVE  p[i].base <= p[j].base
    OBVIOUS
  <2>1. i \in 1..Len(o)
    BY <1>0, <1>1
  <2>2. CASE j \in 1..Len(o)
    BY <2>1, <2>2, <1>1 DEF Nested
  <2>3. CASE p[j] = c
    BY <2>1, <2>3, <1>0, <1>3
  <2> QED
    BY <2>2, <2>3, <1>2
<1>6. ASSUME NEW i \in 1..Len(p), p[i].kind \in Breakable
      PROVE  p[i].keep = IF i = Len(p) THEN g ELSE p[i + 1].base
  <2>1. CASE i = Len(p)
    BY <2>1, <1>0, <1>1, <1>6
  <2>2. CASE i = Len(o)
    <3>1. o[i].keep = h /\ c.base = h
      BY <2>2, <1>0, <1>1, <1>3, <1>6 DEF Nested
    <3> QED
      BY <3>1, <2>2, <1>0, <1>1, <1>3
  <2>3. CASE i \in 1..Len(o) /\ i # Len(o)
    <3>1. i + 1 \in 1..Len(o) /\ o[i].keep = o[i + 1].base
      BY <2>3, <1>0, <1>1, <1>6 DEF Nested
    <3> QED
      BY <3>1, <2>3, <1>0, <1>1
  <2> QED
    BY <2>1, <2>2, <2>3, <1>0, <1>1
<1>7. \A i \in 1..Len(p) : p[i].kind = "labeled" => p[i].keep = p[i].base
  BY <1>2, <1>3 DEF Nested
<1>8. \A i \in 1..Len(p) :
        p[i].label # NoLabel => p[i].kind \in Breakable \cup {"labeled", "end"}
  BY <1>2, <1>3 DEF Nested
<1>9. \A i \in 1..Len(p) : p[i].kind = "end" => i = Len(p)
  BY <1>0, <1>2, <1>3 DEF Nested
<1>10. Nested(p, g)
  BY <1>4, <1>5, <1>6, <1>7, <1>8, <1>9 DEF Nested
<1>11. QED
  BY <1>1, <1>10 DEF p

(* A declaration in the innermost construct.                               *)
LEMMA NestedRaise ==
  ASSUME NEW o \in Seq(Constructs), NEW h \in Nat, Nested(o, h), NEW g \in Nat, h <= g,
         Len(o) > 0 => o[Len(o)].kind \notin Breakable
  PROVE  Nested(o, g)
<1>0. Len(o) \in Nat /\ \A i \in 1..Len(o) : o[i].base \in Nat
  BY ConstructFacts
<1>1. \A i \in 1..Len(o) : o[i].base <= g
  BY <1>0 DEF Nested
<1>2. ASSUME NEW i \in 1..Len(o), o[i].kind \in Breakable
      PROVE  o[i].keep = o[i + 1].base /\ i # Len(o)
  BY <1>0, <1>2 DEF Nested
<1>3. QED
  BY <1>1, <1>2 DEF Nested

(* The end label of the innermost construct is reached.                    *)
LEMMA NestedEnd ==
  ASSUME NEW o \in Seq(Constructs), NEW h \in Nat, Nested(o, h), Len(o) > 0
  PROVE  /\ [o EXCEPT ![Len(o)].kind = "end"] \in Seq(Constructs)
         /\ Nested([o EXCEPT ![Len(o)].kind = "end"], h)
<1> DEFINE p == [o EXCEPT ![Len(o)].kind = "end"]
<1>0. /\ Len(o) \in 1..Len(o)
      /\ \A i \in 1..Len(o) : o[i] \in Constructs
  OBVIOUS
<1>1. [o[Len(o)] EXCEPT !.kind = "end"] \in Constructs
  BY <1>0 DEF Constructs, Kinds
<1>2. p = [o EXCEPT ![Len(o)] = [o[Len(o)] EXCEPT !.kind = "end"]]
  OBVIOUS
<1>3. p \in Seq(Constructs) /\ Len(p) = Len(o)
  BY <1>0, <1>1, <1>2, ExceptSeq
<1>4. /\ \A i \in 1..Len(o) : i # Len(o) => p[i] = o[i]
      /\ p[Len(o)].kind = "end"
      /\ \A i \in 1..Len(o) : p[i].base = o[i].base /\ p[i].keep = o[i].keep
  <2>1. PICK c : c = o[Len(o)] /\ c \in Constructs
    BY <1>0
  <2>2. PICK e : e = [c EXCEPT !.kind = "end"]
    OBVIOUS
  <2>3. e.kind = "end" /\ e.base = c.base /\ e.keep = c.keep
    BY <2>1, <2>2 DEF Constructs
  <2>4. \A i \in 1..Len(o) : p[i] = IF i = Len(o) THEN e ELSE o[i]
    BY <1>0, <1>2, <2>1, <2>2
  <2>5. QED
    BY <1>0, <2>1, <2>3, <2>4
<1> HIDE DEF p
<1>5. Nested(p, h)
  BY <1>0, <1>3, <1>4 DEF Nested, Breakable, Loops
<1>6. QED
  BY <1>3, <1>5 DEF p

----------------------------------------------------------------------------
(* The steps that enter a construct or declare a binding.                  *)
LEMMA RegistersAll ==
  ASSUME TypeOK
  PROVE  /\ UNCHANGED Registered => Registers(Height)
         /\ \A n \in Names : DeclareAbove(cleanups, n) => Registers(Height)
         /\ UNCHANGED Registered => Height' = Height
         /\ \A n \in Names : DeclareAbove(cleanups, n) => Height' = Height + 1
<1>1. Below(Height) = cleanups
  BY SubSeqFull DEF TypeOK, Below
<1>2. UNCHANGED Registered => Registers(Height) /\ Height' = Height
  BY <1>1 DEF Registers, Registered
<1>3. ASSUME NEW n \in Names, DeclareAbove(cleanups, n)
      PROVE  Registers(Height) /\ Height' = Height + 1
  <2>1. DeclareAbove(Below(Height), n)
    BY <1>1, <1>3 DEF DeclareAbove
  <2>2. next + 1 \in Bindings
    BY <1>3 DEF TypeOK, DeclareAbove
  <2>3. Height' = Height + 1
    BY <2>2, <1>3, AppendProperties DEF TypeOK, DeclareAbove
  <2> QED
    BY <2>1, <2>3 DEF Registers
<1>4. QED
  BY <1>2, <1>3

(* The invariant holds after a step that releases nothing, whatever        *)
(* constructs it opens, if they nest.                                      *)
LEMMA EntersInv ==
  ASSUME Inv, UNCHANGED Released, lastExit' = NoExit, Registers(Height),
         open' \in Seq(Constructs), Nested(open', Height')
  PROVE  Inv'
<1>1. TypeOK /\ Height \in Nat
  BY DEF Inv, TypeOK
<1>2. /\ Height \in 0..Height /\ Release(Height) /\ LeaveTo(Height)
      /\ caughtOver' = caughtOver /\ caughtOver \subseteq Bindings
  BY <1>1, NothingReleased DEF Released, TypeOK
<1>3. \A i \in (Height + 1)..Height : cleanups[i] \in caughtOver'
  BY <1>1
<1>4. /\ lastExit' \in [releases : {<<>>, Releases(Height)}, wanted : Nat, got : Nat]
      /\ lastExit'.got >= lastExit'.wanted
  BY DEF NoExit
<1> HIDE DEF Height
<1>5. QED
  BY <1>2, <1>3, <1>4, StepInv

(* One construct is entered.                                               *)
LEMMA PushInv ==
  ASSUME Inv, UNCHANGED Released, lastExit' = NoExit, Registers(Height),
         NEW c \in Constructs, open' = Append(open, c),
         Height <= c.base, c.base <= Height',
         AcceptsStatement \/ (Depth > 0 /\ Top.kind \in Breakable /\ c.base = Height),
         c.kind \in Breakable => c.keep = Height',
         c.kind = "labeled" => c.keep = c.base,
         c.label # NoLabel => c.kind \in Breakable \cup {"labeled"},
         c.kind # "end"
  PROVE  Inv'
<1>1. /\ TypeOK /\ Nested(open, Height) /\ open \in Seq(Constructs)
      /\ Height \in Nat /\ Height \in 0..Height
  BY DEF Inv, TypeOK
<1>2. Height' \in Nat
  BY <1>1, RegistersFacts
<1>3. Depth > 0 => Top.kind # "end" /\ (Top.kind \in Breakable => c.base = Height)
  BY DEF AcceptsStatement, WithStatements, Breakable, Loops
<1>4. Append(open, c) \in Seq(Constructs) /\ Nested(Append(open, c), Height')
  <2> DEFINE h == Height
             g == Height'
  <2>1. h \in Nat /\ g \in Nat /\ Nested(open, h)
    BY <1>1, <1>2
  <2> HIDE DEF h, g
  <2>2. /\ h <= c.base /\ c.base <= g
        /\ Len(open) > 0 => open[Len(open)].kind # "end"
                            /\ (open[Len(open)].kind \in Breakable => c.base = h)
        /\ c.kind \in Breakable => c.keep = g
    BY <1>3 DEF h, g, Top
  <2>3. Append(open, c) \in Seq(Constructs) /\ Nested(Append(open, c), g)
    BY <1>1, <2>1, <2>2, NestedPush
  <2> QED
    BY <2>3 DEF g
<1>5. QED
  BY <1>4, EntersInv

(* The fields of a construct when it is entered.                           *)
LEMMA ConstructType ==
  ASSUME NEW k \in Kinds, NEW l \in Labels \cup {NoLabel}, NEW b \in Nat, NEW h \in Nat
  PROVE  /\ Construct(k, l, b, h) \in Constructs
         /\ Construct(k, l, b, h).kind = k
         /\ Construct(k, l, b, h).label = l
         /\ Construct(k, l, b, h).base = b
         /\ Construct(k, l, b, h).keep = h
BY DEF Construct, Constructs, CleanupDepth

(* A construct entered without a declaration.                              *)
LEMMA PlainEntry ==
  ASSUME Inv, NEW k \in Kinds \ {"end"}, NEW l \in Labels \cup {NoLabel},
         Push(Construct(k, l, Height, Height)),
         lastExit' = NoExit, UNCHANGED <<Registered, Released>>,
         AcceptsStatement \/ (Depth > 0 /\ Top.kind \in Breakable),
         l # NoLabel => k \in Breakable \cup {"labeled"}
  PROVE  Inv'
<1> DEFINE c == Construct(k, l, Height, Height)
<1>1. TypeOK /\ Height \in Nat
  BY DEF Inv, TypeOK
<1>2. Registers(Height) /\ Height' = Height /\ UNCHANGED Released
  BY <1>1, RegistersAll DEF Registered
<1>3. /\ c \in Constructs /\ c.kind = k /\ c.label = l
      /\ c.base = Height /\ c.keep = Height
  BY <1>1, ConstructType
<1>4. open' = Append(open, c)
  BY DEF Push
<1> HIDE DEF c
<1>5. QED
  BY <1>1, <1>2, <1>3, <1>4, PushInv

(* A construct that declares a binding as it is entered.                   *)
LEMMA DeclaringEntry ==
  ASSUME Inv, NEW n \in Names, NEW k \in Loops, NEW l \in Labels \cup {NoLabel},
         NEW b \in {Height, Height + 1},
         DeclareAbove(cleanups, n), Push(Construct(k, l, b, Height + 1)),
         lastExit' = NoExit, UNCHANGED Released, AcceptsStatement
  PROVE  Inv'
<1> DEFINE c == Construct(k, l, b, Height + 1)
<1>1. TypeOK /\ Height \in Nat
  BY DEF Inv, TypeOK
<1>2. Registers(Height) /\ Height' = Height + 1
  BY <1>1, RegistersAll
<1>3. b \in Nat /\ Height <= b /\ b <= Height + 1
  BY <1>1
<1>4. k \in Kinds /\ k # "end" /\ k # "labeled" /\ k \in Breakable
  BY DEF Loops, Kinds, Breakable
<1>5. /\ c \in Constructs /\ c.kind = k /\ c.label = l
      /\ c.base = b /\ c.keep = Height + 1
  BY <1>1, <1>3, <1>4, ConstructType
<1>6. open' = Append(open, c)
  BY DEF Push
<1> HIDE DEF c
<1>7. QED
  BY <1>2, <1>3, <1>4, <1>5, <1>6, PushInv

(* A do while opens its construct and the body of its first turn.          *)
LEMMA DoWhileStep ==
  ASSUME Inv, NEW l \in Labels \cup {NoLabel}, EnterDoWhile(l)
  PROVE  Inv'
<1> DEFINE c == Construct("loop", l, Height, Height)
           d == Construct("body", NoLabel, Height, Height)
           p == Append(open, c)
           h == Height
<1>1. TypeOK /\ h \in Nat /\ open \in Seq(Constructs) /\ Nested(open, h)
  BY DEF Inv, TypeOK
<1>2. /\ Registers(Height) /\ Height' = h
      /\ UNCHANGED Released /\ lastExit' = NoExit /\ AcceptsStatement
  BY <1>1, RegistersAll DEF EnterDoWhile
<1>3. /\ c \in Constructs /\ c.kind = "loop" /\ c.base = h /\ c.keep = h
      /\ d \in Constructs /\ d.kind = "body" /\ d.label = NoLabel /\ d.base = h
  BY <1>1 DEF Construct, Constructs, CleanupDepth, Kinds
<1>4. open' = Append(p, d)
  <2>1. open' = open \o <<c, d>>
    BY DEF EnterDoWhile
  <2> HIDE DEF c, d
  <2>2. QED
    BY <2>1, <1>1, <1>3
<1> HIDE DEF c, d, h
<1>5. Len(open) > 0 => open[Len(open)].kind # "end" /\ open[Len(open)].kind \notin Breakable
  BY <1>2 DEF AcceptsStatement, Top, WithStatements, Breakable, Loops
<1>6. /\ p \in Seq(Constructs) /\ Len(p) = Len(open) + 1 /\ p[Len(open) + 1] = c
      /\ Nested(p, h)
  BY <1>1, <1>3, <1>5, NestedPush DEF Breakable, Loops
<1> HIDE DEF p
<1>7. Len(p) > 0 => p[Len(p)].kind # "end" /\ (p[Len(p)].kind \in Breakable => d.base = h)
  BY <1>3, <1>6
<1>8. Append(p, d) \in Seq(Constructs) /\ Nested(Append(p, d), h)
  BY <1>1, <1>3, <1>6, <1>7, NestedPush DEF Breakable, Loops
<1>9. QED
  BY <1>2, <1>4, <1>8, EntersInv

(* A try body is entered with its handler pushed.                          *)
LEMMA TryStep ==
  ASSUME Inv, NEW c \in BOOLEAN, NEW f \in BOOLEAN, EnterTry(c, f)
  PROVE  Inv'
<1> DEFINE t == [Construct("try", NoLabel, Height, Height) EXCEPT !.catches = c, !.finally = f]
<1>1. TypeOK /\ Height \in Nat
  BY DEF Inv, TypeOK
<1>2. /\ Registers(Height) /\ Height' = Height
      /\ UNCHANGED Released /\ lastExit' = NoExit /\ AcceptsStatement
  BY <1>1, RegistersAll DEF EnterTry, Registered
<1>3. /\ t \in Constructs /\ t.kind = "try" /\ t.label = NoLabel /\ t.base = Height
  BY <1>1 DEF Construct, Constructs, CleanupDepth, Kinds
<1>4. open' = Append(open, t)
  BY DEF EnterTry, Push
<1> HIDE DEF t
<1>5. QED
  BY <1>1, <1>2, <1>3, <1>4, PushInv DEF Breakable, Loops

(* Every step that enters a construct.                                     *)
LEMMA EnterInv ==
  ASSUME Inv, Enter
  PROVE  Inv'
<1>1. ASSUME EnterBlock PROVE Inv'
  BY <1>1, PlainEntry DEF EnterBlock, Kinds
<1>2. ASSUME NEW l \in Labels, EnterLabeledBlock(l) PROVE Inv'
  BY <1>2, PlainEntry DEF EnterLabeledBlock, Kinds
<1>3. ASSUME NEW l \in Labels \cup {NoLabel}, EnterLoop(l) PROVE Inv'
  BY <1>3, PlainEntry DEF EnterLoop, Kinds, Breakable, Loops
<1>4. ASSUME NEW l \in Labels \cup {NoLabel}, EnterSwitch(l) PROVE Inv'
  BY <1>4, PlainEntry DEF EnterSwitch, Kinds, Breakable
<1>5. ASSUME EnterBody PROVE Inv'
  BY <1>5, PlainEntry DEF EnterBody, Kinds
<1>6. ASSUME NEW n \in Names, NEW l \in Labels \cup {NoLabel}, EnterForEach(n, l)
      PROVE  Inv'
  BY <1>6, DeclaringEntry DEF EnterForEach, Loops
<1>7. ASSUME NEW n \in Names \cup {NoName}, NEW l \in Labels \cup {NoLabel}, EnterFor(n, l)
      PROVE  Inv'
  <2>1. CASE n = NoName
    BY <2>1, <1>7, PlainEntry DEF EnterFor, Kinds, Breakable, Loops
  <2>2. CASE n # NoName
    BY <2>2, <1>7, DeclaringEntry DEF EnterFor, Loops
  <2> QED
    BY <2>1, <2>2
<1>8. QED
  BY <1>1, <1>2, <1>3, <1>4, <1>5, <1>6, <1>7, DoWhileStep, TryStep DEF Enter

(* A declaration in an open scope.                                         *)
LEMMA DeclareInv ==
  ASSUME Inv, NEW n \in Names, Declare(n)
  PROVE  Inv'
<1> DEFINE h == Height
           g == Height'
<1>1. TypeOK /\ h \in Nat /\ open \in Seq(Constructs) /\ Nested(open, h)
  BY DEF Inv, TypeOK
<1>2. /\ Registers(Height) /\ g = h + 1 /\ open' = open
      /\ UNCHANGED Released /\ lastExit' = NoExit /\ AcceptsStatement
  BY <1>1, RegistersAll DEF Declare
<1>3. Len(open) > 0 => open[Len(open)].kind \notin Breakable
  BY <1>2 DEF AcceptsStatement, Top, WithStatements, Breakable, Loops
<1>4. Nested(open, g)
  <2> HIDE DEF h, g
  <2>1. g \in Nat /\ h <= g
    BY <1>1, <1>2
  <2>2. QED
    BY <2>1, <1>1, <1>3, NestedRaise
<1>5. QED
  BY <1>1, <1>2, <1>4, EntersInv

----------------------------------------------------------------------------
(* The steps that leave constructs.                                        *)
LEMMA LeaveFunctionInv ==
  ASSUME Inv, LeaveFunction
  PROVE  Inv'
<1>1. TypeOK /\ Height \in Nat /\ 0 \in 0..Height
  BY DEF Inv, TypeOK
<1>2. Below(0) = <<>>
  BY DEF Below
<1>3. /\ Registers(0) /\ Release(0) /\ LeaveTo(0)
      /\ caughtOver' = caughtOver /\ caughtOver \subseteq Bindings
  BY <1>1, <1>2 DEF LeaveFunction, Registers, TypeOK
<1>4. open' \in Seq(Constructs) /\ Nested(open', Height')
  BY DEF LeaveFunction, Nested
<1>5. /\ lastExit' \in [releases : {<<>>, Releases(0)}, wanted : Nat, got : Nat]
      /\ lastExit'.got >= lastExit'.wanted
  BY DEF LeaveFunction, NoExit
<1>6. 0 \in 0..0 /\ \A i \in (0 + 1)..0 : cleanups[i] \in caughtOver'
  OBVIOUS
<1> HIDE DEF Height
<1>7. QED
  BY <1>1, <1>3, <1>4, <1>5, <1>6, StepInv

(* Leaving construct k and those inside it: what stays registered.         *)
LEMMA LeavingFacts ==
  ASSUME Inv, NEW k \in 1..Depth, cleanups' = Below(open[k].base)
  PROVE  /\ open[k].base \in 0..Height
         /\ Height' = open[k].base
         /\ SubSeq(open, 1, k - 1) \in Seq(Constructs)
         /\ Nested(SubSeq(open, 1, k - 1), open[k].base)
<1>1. TypeOK /\ Height \in Nat /\ open \in Seq(Constructs) /\ Nested(open, Height)
  BY DEF Inv, TypeOK
<1>2. /\ open[k].base \in 0..Height
      /\ SubSeq(open, 1, k - 1) \in Seq(Constructs)
      /\ Nested(SubSeq(open, 1, k - 1), open[k].base)
  <2> DEFINE h == Height
  <2>1. h \in Nat /\ Nested(open, h)
    BY <1>1
  <2> HIDE DEF h
  <2>2. /\ open[k].base \in 0..h
        /\ SubSeq(open, 1, k - 1) \in Seq(Constructs)
        /\ Nested(SubSeq(open, 1, k - 1), open[k].base)
    BY <1>1, <2>1, NestedPrefix
  <2> QED
    BY <2>2 DEF h
<1>3. Len(Below(open[k].base)) = open[k].base
  BY <1>1, <1>2, BelowFacts
<1>4. QED
  BY <1>2, <1>3

(* The section that follows a try body or a catch body goes where the      *)
(* construct was.                                                          *)
LEMMA SectionPush ==
  ASSUME Inv, NEW k \in 1..Depth, NEW kind \in {"catch", "finally"}, NEW f \in BOOLEAN,
         NEW g \in {open[k].base, open[k].base + 1}
  PROVE  LET o == Append(SubSeq(open, 1, k - 1), Section(kind, open[k], f))
         IN  o \in Seq(Constructs) /\ Nested(o, g)
<1> DEFINE p == SubSeq(open, 1, k - 1)
           b == open[k].base
           s == Section(kind, open[k], f)
           h == Height
<1>1. open \in Seq(Constructs) /\ h \in Nat /\ Nested(open, h)
  BY DEF Inv, TypeOK
<1>2. /\ p \in Seq(Constructs) /\ Len(p) = k - 1
      /\ \A i \in 1..(k - 1) : p[i] = open[i]
      /\ b \in Nat /\ Nested(p, b)
  <2> HIDE DEF h
  <2>1. /\ SubSeq(open, 1, k - 1) \in Seq(Constructs)
        /\ Len(SubSeq(open, 1, k - 1)) = k - 1
        /\ \A i \in 1..(k - 1) : SubSeq(open, 1, k - 1)[i] = open[i]
        /\ open[k].base \in 0..h
        /\ Nested(SubSeq(open, 1, k - 1), open[k].base)
    BY <1>1, NestedPrefix
  <2> QED
    BY <1>1, <2>1
<1>3. /\ s \in Constructs /\ s.kind = kind /\ s.base = b /\ s.label = NoLabel
  BY <1>2 DEF Section, Construct, Constructs, CleanupDepth, Kinds
<1>4. g \in Nat /\ b <= g
  BY <1>2
<1>5. Len(p) > 0 => p[Len(p)].kind # "end"
  <2> SUFFICES ASSUME Len(p) > 0 PROVE p[Len(p)].kind # "end"
    OBVIOUS
  <2>1. k - 1 \in 1..Len(open) /\ k - 1 # Len(open) /\ p[k - 1] = open[k - 1]
    BY <1>1, <1>2
  <2> QED
    BY <2>1, <1>1, <1>2 DEF Nested
<1> HIDE DEF p, b, s
<1>6. Append(p, s) \in Seq(Constructs) /\ Nested(Append(p, s), g)
  BY <1>2, <1>3, <1>4, <1>5, NestedPush DEF Breakable, Loops
<1>7. QED
  BY <1>6 DEF p, s

(* An exit that releases what it leaves, and no more.                      *)
LEMMA LandInv ==
  ASSUME Inv, NEW k \in 1..Depth, NEW wanted \in Nat, NEW got \in Nat, got >= wanted,
         Release(open[k].base), LeaveTo(open[k].base), cleanups' = Below(open[k].base),
         UNCHANGED <<next, name, clashed, caughtOver>>,
         lastExit' = [releases |-> Releases(open[k].base), wanted |-> wanted, got |-> got],
         open' \in Seq(Constructs), Nested(open', open[k].base)
  PROVE  Inv'
<1> DEFINE b == open[k].base
<1>1. b \in 0..Height /\ Height' = b /\ TypeOK
  <2> HIDE DEF Height, Depth
  <2>1. QED
    BY LeavingFacts DEF Inv
<1>2. /\ lastExit' \in [releases : {<<>>, Releases(b)}, wanted : Nat, got : Nat]
      /\ lastExit'.got >= lastExit'.wanted
  OBVIOUS
<1>3. Registers(b) /\ caughtOver' = caughtOver /\ caughtOver \subseteq Bindings
  BY <1>1 DEF Registers, TypeOK
<1>4. b \in 0..b /\ \A i \in (b + 1)..b : cleanups[i] \in caughtOver'
  BY <1>1
<1>5. Nested(open', Height')
  BY <1>1
<1>6. Release(b) /\ LeaveTo(b)
  OBVIOUS
<1> HIDE DEF b, Height
<1>7. QED
  BY <1>1, <1>2, <1>3, <1>4, <1>5, <1>6, StepInv

(* The end of a construct is reached.                                      *)
LEMMA LeaveInv ==
  ASSUME Inv, Leave
  PROVE  Inv'
<1> DEFINE b == open[Depth].base
<1>1. /\ Depth \in 1..Depth /\ open[Depth] \in Constructs
  BY DEF Inv, TypeOK, Leave
<1>2. /\ Release(b) /\ LeaveTo(b) /\ cleanups' = Below(b)
      /\ UNCHANGED <<next, name, clashed, caughtOver>>
      /\ lastExit' = [releases |-> Releases(b), wanted |-> 0, got |-> 0]
      /\ open' = IF open[Depth].finally
                 THEN Append(SubSeq(open, 1, Depth - 1), Section("finally", open[Depth], FALSE))
                 ELSE SubSeq(open, 1, Depth - 1)
  BY DEF Leave, Top, NoExit
<1>3. SubSeq(open, 1, Depth - 1) \in Seq(Constructs) /\ Nested(SubSeq(open, 1, Depth - 1), b)
  <2> HIDE DEF Depth, Height
  <2>1. QED
    BY <1>1, <1>2, LeavingFacts
<1>4. open' \in Seq(Constructs) /\ Nested(open', b)
  <2>1. CASE open[Depth].finally
    BY <2>1, <1>1, <1>2, SectionPush
  <2>2. CASE ~open[Depth].finally
    BY <2>2, <1>2, <1>3
  <2> QED
    BY <2>1, <2>2
<1>5. 0 \in Nat /\ 0 >= 0
  OBVIOUS
<1> HIDE DEF Depth, Height
<1>6. QED
  BY <1>1, <1>2, <1>4, <1>5, LandInv

(* The exit or handler a search from the inside finds.                     *)
LEMMA InnermostIs ==
  ASSUME Inv, NEW S, S \subseteq 1..Depth, S # {}
  PROVE  /\ Innermost(S) \in S /\ \A j \in S : j <= Innermost(S)
         /\ Nearest(S) \in S
<1>1. Depth \in Nat
  BY DEF Inv, TypeOK
<1>2. \E m \in S : \A j \in S : j <= m
  BY <1>1, LargestExists
<1>3. QED
  BY <1>2 DEF Innermost, Nearest

(* What a jump keeps is what is registered where it lands.                 *)
LEMMA BoundaryLands ==
  ASSUME Inv, AcceptsStatement, NEW k \in 1..Depth
  PROVE  /\ open[k].kind = "labeled" =>
              Boundary(k) = open[k].base /\ LandingHeight(k) = open[k].base
         /\ open[k].kind \in Breakable =>
              /\ k + 1 \in 1..Depth
              /\ Boundary(k) = open[k + 1].base /\ LandingHeight(k) = open[k + 1].base
<1>1. Depth \in Nat /\ Nested(open, Height)
  BY DEF Inv, TypeOK
<1>2. open[k].kind = "labeled" =>
        Boundary(k) = open[k].base /\ LandingHeight(k) = open[k].base
  BY <1>1 DEF Boundary, LandingHeight, Nested
<1>3. ASSUME open[k].kind \in Breakable
      PROVE  /\ k + 1 \in 1..Depth
             /\ Boundary(k) = open[k + 1].base /\ LandingHeight(k) = open[k + 1].base
  <2>1. k # Depth
    BY <1>1, <1>3 DEF AcceptsStatement, Top, WithStatements, Breakable, Loops
  <2>2. k + 1 \in 1..Depth
    BY <1>1, <2>1
  <2>3. open[k].kind # "labeled"
    BY <1>3 DEF Breakable, Loops
  <2> QED
    BY <1>1, <1>3, <2>1, <2>2, <2>3 DEF Boundary, LandingHeight, Nested
<1>4. QED
  BY <1>2, <1>3

(* The statement a jump names is among the exits the search looks at.      *)
LEMMA TargetsAreExits ==
  ASSUME Inv, AcceptsStatement, NEW l \in Labels \cup {NoLabel}
  PROVE  /\ BreakTargets(l) \subseteq BreakExits(l)
         /\ ContinueTargets(l) \subseteq ContinueExits(l)
         /\ BreakExits(l) \subseteq 1..Depth
         /\ ContinueExits(l) \subseteq 1..Depth
<1>1. Depth \in Nat /\ Nested(open, Height)
  BY DEF Inv, TypeOK
<1>2. ASSUME NEW k \in 1..Depth, l # NoLabel, open[k].label = l
      PROVE  l \in ExitLabels(k) /\ open[k].kind \in Breakable \cup {"labeled"}
  <2>1. l \in ExitLabels(k)
    BY <1>2 DEF ExitLabels
  <2>2. open[k].kind # "end"
    BY <1>1 DEF Nested, AcceptsStatement, Top, WithStatements
  <2>3. open[k].kind \in Breakable \cup {"labeled", "end"}
    BY <1>1, <1>2 DEF Nested
  <2> QED
    BY <2>1, <2>2, <2>3
<1>3. BreakTargets(l) \subseteq BreakExits(l)
  BY <1>2 DEF BreakTargets, BreakExits
<1>4. ContinueTargets(l) \subseteq ContinueExits(l)
  BY <1>2 DEF ContinueTargets, ContinueExits
<1>5. QED
  BY <1>3, <1>4 DEF BreakExits, ContinueExits

(* A break, with or without a label.                                       *)
LEMMA BreakInv ==
  ASSUME Inv, NEW l \in Labels \cup {NoLabel}, Break(l)
  PROVE  Inv'
<1> DEFINE k == Innermost(BreakExits(l))
           w == Nearest(BreakTargets(l))
<1>1. AcceptsStatement /\ BreakTargets(l) # {} /\ JumpTo(k, w)
  BY DEF Break
<1>2. /\ k \in BreakExits(l) /\ k \in 1..Depth
      /\ w \in 1..Depth /\ w <= k
  <2>1. BreakExits(l) \subseteq 1..Depth /\ BreakTargets(l) \subseteq BreakExits(l)
    BY <1>1, TargetsAreExits
  <2>2. /\ k \in BreakExits(l) /\ \A j \in BreakExits(l) : j <= k
        /\ w \in BreakTargets(l)
    BY <1>1, <2>1, InnermostIs
  <2> QED
    BY <2>1, <2>2
<1>3. /\ Release(Boundary(k)) /\ LeaveTo(LandingHeight(k)) /\ cleanups' = Below(LandingHeight(k))
      /\ lastExit' = [releases |-> Releases(Boundary(k)), wanted |-> w, got |-> k]
      /\ UNCHANGED <<next, name, clashed, caughtOver>>
  BY <1>1 DEF JumpTo
<1>4. open' = IF open[k].kind = "labeled" THEN SubSeq(open, 1, k - 1)
              ELSE [SubSeq(open, 1, k) EXCEPT ![k].kind = "end"]
  BY DEF Break
<1>5. open[k].kind \in Breakable \cup {"labeled"}
  BY <1>2 DEF BreakExits
<1> HIDE DEF k, w
<1>6. w \in Nat /\ k \in Nat /\ k >= w
  BY <1>2
<1>7. CASE open[k].kind = "labeled"
  <2>1. Boundary(k) = open[k].base /\ LandingHeight(k) = open[k].base
    BY <1>1, <1>2, <1>7, BoundaryLands
  <2>2. cleanups' = Below(open[k].base)
    BY <1>3, <2>1
  <2>3. open' \in Seq(Constructs) /\ Nested(open', open[k].base)
    <3> HIDE DEF Height, Depth
    <3>1. QED
      BY <2>2, <1>2, <1>4, <1>7, LeavingFacts
  <2>4. Release(open[k].base) /\ LeaveTo(open[k].base)
        /\ lastExit' = [releases |-> Releases(open[k].base), wanted |-> w, got |-> k]
    BY <1>3, <2>1
  <2>5. QED
    BY <1>2, <1>3, <1>6, <2>2, <2>3, <2>4, LandInv
<1>8. CASE open[k].kind \in Breakable
  <2> DEFINE j == k + 1
             p == SubSeq(open, 1, k)
  <2>1. j \in 1..Depth /\ Boundary(k) = open[j].base /\ LandingHeight(k) = open[j].base
    BY <1>1, <1>2, <1>8, BoundaryLands
  <2>2. cleanups' = Below(open[j].base)
    BY <1>3, <2>1
  <2>3. p = SubSeq(open, 1, j - 1) /\ Len(p) = k /\ open[j].base \in Nat
    BY <1>2, <2>1, ConstructFacts, SMTT(30) DEF Inv, TypeOK
  <2>4. p \in Seq(Constructs) /\ Nested(p, open[j].base)
    <3> HIDE DEF Height, Depth, j, p
    <3>1. QED
      BY <2>1, <2>2, <2>3, LeavingFacts
  <2>5. open' = [p EXCEPT ![Len(p)].kind = "end"]
    BY <1>4, <1>8, <2>3 DEF Breakable, Loops
  <2>6. Release(open[j].base) /\ LeaveTo(open[j].base)
        /\ lastExit' = [releases |-> Releases(open[j].base), wanted |-> w, got |-> k]
    BY <1>3, <2>1
  <2> HIDE DEF j, p
  <2>7. open' \in Seq(Constructs) /\ Nested(open', open[j].base)
    <3> DEFINE h == open[j].base
    <3>1. h \in Nat /\ Nested(p, h) /\ Len(p) > 0
      BY <1>2, <2>3, <2>4
    <3> HIDE DEF h
    <3>2. open' \in Seq(Constructs) /\ Nested(open', h)
      BY <2>4, <2>5, <3>1, NestedEnd
    <3> QED
      BY <3>2 DEF h
  <2>8. QED
    BY <1>3, <1>6, <2>1, <2>2, <2>6, <2>7, LandInv
<1>9. QED
  BY <1>5, <1>7, <1>8

(* A continue, with or without a label.                                    *)
LEMMA ContinueInv ==
  ASSUME Inv, NEW l \in Labels \cup {NoLabel}, Continue(l)
  PROVE  Inv'
<1> DEFINE k == Innermost(ContinueExits(l))
           w == Nearest(ContinueTargets(l))
           j == k + 1
<1>1. AcceptsStatement /\ ContinueTargets(l) # {} /\ JumpTo(k, w)
  BY DEF Continue
<1>2. /\ k \in ContinueExits(l) /\ k \in 1..Depth
      /\ w \in 1..Depth /\ w <= k
  <2>1. ContinueExits(l) \subseteq 1..Depth /\ ContinueTargets(l) \subseteq ContinueExits(l)
    BY <1>1, TargetsAreExits
  <2>2. /\ k \in ContinueExits(l) /\ \A i \in ContinueExits(l) : i <= k
        /\ w \in ContinueTargets(l)
    BY <1>1, <2>1, InnermostIs
  <2> QED
    BY <2>1, <2>2
<1>3. /\ Release(Boundary(k)) /\ LeaveTo(LandingHeight(k)) /\ cleanups' = Below(LandingHeight(k))
      /\ lastExit' = [releases |-> Releases(Boundary(k)), wanted |-> w, got |-> k]
      /\ UNCHANGED <<next, name, clashed, caughtOver>>
  BY <1>1 DEF JumpTo
<1>4. open' = SubSeq(open, 1, k)
  BY DEF Continue
<1>5. open[k].kind \in Breakable
  BY <1>2 DEF ContinueExits, Breakable
<1> HIDE DEF k, w
<1>6. w \in Nat /\ k \in Nat /\ k >= w
  BY <1>2
<1>7. j \in 1..Depth /\ Boundary(k) = open[j].base /\ LandingHeight(k) = open[j].base
  BY <1>1, <1>2, <1>5, BoundaryLands
<1>8. /\ cleanups' = Below(open[j].base)
      /\ Release(open[j].base) /\ LeaveTo(open[j].base)
      /\ lastExit' = [releases |-> Releases(open[j].base), wanted |-> w, got |-> k]
  BY <1>3, <1>7
<1>9. open' = SubSeq(open, 1, j - 1)
  BY <1>2, <1>4
<1>10. open' \in Seq(Constructs) /\ Nested(open', open[j].base)
  <2> HIDE DEF Height, Depth, j
  <2>1. QED
    BY <1>7, <1>8, <1>9, LeavingFacts
<1> HIDE DEF j
<1>11. QED
  BY <1>3, <1>6, <1>7, <1>8, <1>10, LandInv

(* A throw that a try statement of the function handles.                   *)
LEMMA ThrowInv ==
  ASSUME Inv, NEW n \in Names \cup {NoName}, ThrowToHandler(n)
  PROVE  Inv'
<1> DEFINE k == Innermost(Handlers)
           b == open[k].base
           kind == IF open[k].catches THEN "catch" ELSE "finally"
           f == IF open[k].catches THEN open[k].finally ELSE FALSE
<1>1. TypeOK /\ Handlers \subseteq 1..Depth /\ Handlers # {}
  BY DEF Inv, ThrowToHandler, Handlers
<1>2. k \in 1..Depth
  BY <1>1, InnermostIs
<1>3. open[k] \in Constructs
  BY <1>1, <1>2, ConstructFacts DEF TypeOK
<1>4. /\ Release(0) /\ LeaveTo(b)
      /\ caughtOver' = caughtOver \cup {cleanups[i] : i \in 1..b}
      /\ lastExit' = [NoExit EXCEPT !.releases = Releases(0)]
      /\ open' = Append(SubSeq(open, 1, k - 1), Section(kind, open[k], f))
      /\ \/ cleanups' = Below(b) /\ UNCHANGED <<next, name, clashed>>
         \/ n \in Names /\ DeclareAbove(Below(b), n)
  BY DEF ThrowToHandler
<1>5. b \in 0..Height
  <2> DEFINE h == Height
  <2>1. h \in Nat /\ Nested(open, h) /\ open \in Seq(Constructs)
    BY DEF Inv, TypeOK
  <2> HIDE DEF h
  <2>2. open[k].base \in 0..h
    BY <1>2, <2>1, NestedPrefix
  <2> QED
    BY <2>2 DEF h
<1>6. /\ f \in BOOLEAN /\ kind \in {"catch", "finally"}
  BY <1>3 DEF Constructs
<1> HIDE DEF k, f, kind
<1>7. Registers(b)
  BY <1>4 DEF Registers
<1>8. Height' \in {b, b + 1}
  BY <1>1, <1>5, <1>7, RegistersFacts
<1>9. open' \in Seq(Constructs) /\ Nested(open', Height')
  <2> DEFINE g == Height'
  <2>1. g \in {open[k].base, open[k].base + 1}
    BY <1>8
  <2> HIDE DEF g
  <2>2. open' \in Seq(Constructs) /\ Nested(open', g)
    <3>1. PICK o : o = Append(SubSeq(open, 1, k - 1), Section(kind, open[k], f))
      OBVIOUS
    <3>2. o \in Seq(Constructs) /\ Nested(o, g)
      BY <1>2, <1>6, <2>1, <3>1, SectionPush
    <3>3. open' = o
      BY <1>4, <3>1
    <3>4. QED
      BY <3>2, <3>3
  <2> QED
    BY <2>2 DEF g
<1>10. caughtOver \subseteq caughtOver' /\ caughtOver' \subseteq Bindings
  <2>1. \A i \in 1..b : cleanups[i] \in Bindings
    <3>1. \A i \in 1..Height : cleanups[i] \in Bindings
      BY <1>1 DEF TypeOK
    <3>2. Height \in Nat
      BY <1>1 DEF TypeOK
    <3>3. QED
      BY <3>1, <3>2, <1>5
  <2> QED
    BY <2>1, <1>1, <1>4 DEF TypeOK
<1>11. 0 \in 0..b /\ \A i \in (0 + 1)..b : cleanups[i] \in caughtOver'
  BY <1>4, <1>5
<1>12. /\ lastExit' \in [releases : {<<>>, Releases(0)}, wanted : Nat, got : Nat]
       /\ lastExit'.got >= lastExit'.wanted
  BY <1>4 DEF NoExit
<1> HIDE DEF b, Height
<1>13. QED
  BY <1>4, <1>5, <1>7, <1>9, <1>10, <1>11, <1>12, StepInv

(* Every step that leaves constructs.                                      *)
LEMMA ExitInv ==
  ASSUME Inv, Exit
  PROVE  Inv'
<1>1. CASE Return
  BY <1>1, LeaveFunctionInv DEF Return
<1>2. CASE ThrowOut
  BY <1>2, LeaveFunctionInv DEF ThrowOut
<1>3. QED
  BY <1>1, <1>2, LeaveInv, BreakInv, ContinueInv, ThrowInv DEF Exit

----------------------------------------------------------------------------
(* The invariant holds before the first statement and after each step.     *)
LEMMA InitInv == Init => Inv
<1> SUFFICES ASSUME Init PROVE Inv
  OBVIOUS
<1>1. TypeOK
  BY DEF Init, TypeOK, NoExit
<1>2. Registry /\ Nested(open, Height)
  BY DEF Init, Registry, Nested
<1>3. LeftReleasedOnce /\ OpenNotReleased /\ ReverseOrder /\ JumpsStayInside
  BY DEF Init, LeftReleasedOnce, OpenNotReleased, ReverseOrder, JumpsStayInside, NoExit
<1>4. QED
  BY <1>1, <1>2, <1>3 DEF Inv

(* Each step keeps it, whatever the program does next.                    *)
LEMMA NextInv == Inv /\ [Next]_vars => Inv'
<1> SUFFICES ASSUME Inv, [Next]_vars PROVE Inv'
  OBVIOUS
<1>1. CASE UNCHANGED vars
  BY <1>1 DEF Inv, vars, TypeOK, Registry, Nested, LeftReleasedOnce, OpenNotReleased,
              OpenBindings, ReverseOrder, JumpsStayInside
<1>2. CASE Next
  BY <1>2, EnterInv, DeclareInv, ExitInv DEF Next
<1>3. QED
  BY <1>1, <1>2

(* The inductive invariant.                                                *)
THEOREM Invariance == Spec => []Inv
BY InitInv, NextInv, PTL DEF Spec

(* The emitter's stacks keep their types.                                  *)
THEOREM TypeCorrect == Spec => []TypeOK
<1>1. Inv => TypeOK
  BY DEF Inv
<1>2. QED
  BY <1>1, Invariance, PTL

(* A scope that control has left has released each of its bindings, once.  *)
THEOREM ReleasedOnce == Spec => []LeftReleasedOnce
<1>1. Inv => LeftReleasedOnce
  BY DEF Inv
<1>2. QED
  BY <1>1, Invariance, PTL

(* Nothing that is still in scope has been released.                       *)
THEOREM OpenIsAlive == Spec => []OpenNotReleased
<1>1. Inv => OpenNotReleased
  BY DEF Inv
<1>2. QED
  BY <1>1, Invariance, PTL

(* Each exit releases the latest binding first.                            *)
THEOREM LastDeclaredFirst == Spec => []ReverseOrder
<1>1. Inv => ReverseOrder
  BY DEF Inv
<1>2. QED
  BY <1>1, Invariance, PTL

(* No jump goes further out than the statement it names.                   *)
THEOREM NoJumpEscapes == Spec => []JumpsStayInside
<1>1. Inv => JumpsStayInside
  BY DEF Inv
<1>2. QED
  BY <1>1, Invariance, PTL
====
