---- MODULE ReturnScope ----
(***************************************************************************)
(* What the return-code evaluator knows of the values of a program, and    *)
(* the arithmetic, comparisons and conversions it folds with.              *)
(*                                                                         *)
(* The code keeps one map of names per kind of value, and clears a name in *)
(* all of them before it writes it in one: a scope is here one function    *)
(* from names to values that carry their kind, Unknown when no map has the *)
(* name.  Objects and functions are known by a number only, taken from a   *)
(* counter.  The counters live in maps of names as well, under "next".     *)
(* guesses is no part of the code: it keeps where the evaluator went on    *)
(* as if it knew what it does not (see Guess), for the properties to name. *)
(* Bitwise operators and digits beyond the decimal ones are left out.      *)
(***************************************************************************)
EXTENDS Integers, Sequences, SequencesExt

CONSTANTS Names,        \* the identifiers of the programs
          Alphabet      \* the characters of their texts, in order, digits first

Number(n) == <<"int", n>>
Big(n) == <<"bigint", n>>
Bool(b) == <<"bool", b>>
Text(t) == <<"string", t>>
Null == <<"nullish", "null">>
Undefined == <<"nullish", "undefined">>
Func(i) == <<"func", i>>
Obj(i) == <<"object", i>>
Unknown == <<"unknown", 0>>

Kind(v) == v[1]

(* The truth of a value.                                                   *)
evaluateArrayElementTruthiness(v) ==
  CASE Kind(v) \in {"int", "bigint"} -> v[2] # 0
    [] Kind(v) = "bool" -> v[2]
    [] Kind(v) = "string" -> v[2] # <<>>
    [] Kind(v) = "nullish" -> FALSE
    [] OTHER -> TRUE

----------------------------------------------------------------------------
(* Scopes.                                                                 *)
sequenceKey == "next"

returnScope ==
  [vals |-> [x \in Names |-> Unknown], funcSeq |-> 0, objectSeq |-> 0, guesses |-> {}]

(* What the evaluator may guess:                                           *)
(*   stale     a value it cannot fold is not assigned                      *)
(*   passed    a statement it cannot follow, a return or a throw is left   *)
(*             out                                                         *)
(*   loop      a loop is left out, or over after one pass                  *)
(*   branch    the return of one branch of an unknown condition is taken   *)
(*   jump      a break or continue does not stop the statements behind it  *)
(*   switch    cases are compared by their truth, or skipped unknown       *)
(*   compare   an unknown operand is unequal, or of type undefined         *)
(*   fraction  a quotient of numbers is rounded                            *)
(*   next      the counters of identities are set back                     *)
Guess(s, what) == [s EXCEPT !.guesses = @ \cup {what}]

GuessIf(condition, what, s) == IF condition THEN Guess(s, what) ELSE s

(* A scope that is kept although the answer comes from another one.        *)
WithGuesses(s, other) == [s EXCEPT !.guesses = @ \cup other.guesses]

bindingKnown(s, x) == s.vals[x] # Unknown

clearReturnScopeBinding(s, x) == [s EXCEPT !.vals[x] = Unknown]

Bind(s, x, v) == [s EXCEPT !.vals[x] = v]

allocateFunctionIdentity(s) == [s EXCEPT !.funcSeq = @ + 1]

allocateObjectIdentity(s) == [s EXCEPT !.objectSeq = @ + 1]

(* Deleting a name from the maps of counters resets both counters when the *)
(* program has a variable of the counters' name.                           *)
deleteSequences(s, x) ==
  IF x = sequenceKey
  THEN [GuessIf(s.funcSeq + s.objectSeq > 0, "next", s) EXCEPT !.funcSeq = 0, !.objectSeq = 0]
  ELSE s

clearIIFELocal(s, x) == deleteSequences(clearReturnScopeBinding(s, x), x)

restoreReturnScopeBinding(x, source, s) ==
  [s EXCEPT !.vals[x] = source.vals[x],
            !.funcSeq = IF x = sequenceKey THEN source.funcSeq ELSE @,
            !.objectSeq = IF x = sequenceKey THEN source.objectSeq ELSE @]

(* The outcome of an evaluation, with the scope it leaves behind; a probe  *)
(* works on a clone, which replaces the scope only if it succeeds.         *)
Yes(v, s) == [ok |-> TRUE, val |-> v, scope |-> s]

No(s) == [ok |-> FALSE, val |-> Unknown, scope |-> s]

clone(outcome, s) == IF outcome.ok THEN outcome ELSE No(s)

----------------------------------------------------------------------------
(* Numbers and texts.                                                      *)
Magnitude(n) == IF n < 0 THEN -n ELSE n

Sign(n) == IF n < 0 THEN -1 ELSE 1

(* TLC leaves 0 ^ 0 undefined.                                             *)
Power(n, k) == IF k = 0 THEN 1 ELSE n ^ k

(* Go divides towards zero.                                                *)
Quotient(l, r) == Sign(l) * Sign(r) * (Magnitude(l) \div Magnitude(r))

Remainder(l, r) == l - r * Quotient(l, r)

evaluateIntBinary(op, l, r) ==
  CASE op = "+" -> <<Number(l + r)>>
    [] op = "-" -> <<Number(l - r)>>
    [] op = "*" -> <<Number(l * r)>>
    [] op = "/" /\ r # 0 -> <<Number(Quotient(l, r))>>
    [] op = "%" /\ r # 0 -> <<Number(Remainder(l, r))>>
    [] op = "**" /\ r >= 0 -> <<Number(Power(l, r))>>
    [] op = "**" /\ r < 0 /\ l # 0 -> <<Number(Quotient(1, Power(l, -r)))>>
    [] OTHER -> <<>>

evaluateBigIntBinaryValue(op, l, r) ==
  CASE op = "+" -> <<Big(l + r)>>
    [] op = "-" -> <<Big(l - r)>>
    [] op = "*" -> <<Big(l * r)>>
    [] op = "/" /\ r # 0 -> <<Big(Quotient(l, r))>>
    [] op = "%" /\ r # 0 -> <<Big(Remainder(l, r))>>
    [] op = "**" /\ r \in 0..64 -> <<Big(Power(l, r))>>
    [] OTHER -> <<>>

(* Whether the result is rounded.                                          *)
Rounds(op, l, r) ==
  \/ op = "/" /\ r # 0 /\ Remainder(l, r) # 0
  \/ op = "**" /\ r < 0 /\ Magnitude(l) # 1

updatedIntValue(op, n) == IF op = "++" THEN n + 1 ELSE n - 1

digits == SubSeq(Alphabet, 1, 10)

DigitOf(c) == SelectInSeq(digits, LAMBDA d : d = c) - 1

Decimal[n \in Nat] ==
  IF n < 10 THEN <<digits[n + 1]>> ELSE Append(Decimal[n \div 10], digits[(n % 10) + 1])

Itoa(n) == IF n < 0 THEN <<"-">> \o Decimal[-n] ELSE Decimal[n]

(* The number a text stands for, as a sequence of at most one.             *)
parseLooseStringNumber(t) ==
  LET negative == t # <<>> /\ Head(t) = "-"
      body == IF negative THEN Tail(t) ELSE t
      size == FoldLeft(LAMBDA n, c : 10 * n + DigitOf(c), 0, body)
  IN  IF t = <<>> THEN <<0>>
      ELSE IF body # <<>> /\ \A i \in DOMAIN body : DigitOf(body[i]) >= 0
           THEN <<IF negative THEN -size ELSE size>>
           ELSE <<>>

Rank(c) == SelectInSeq(Alphabet, LAMBDA a : a = c)

TextBefore(l, r) ==
  \/ IsStrictPrefix(l, r)
  \/ \E i \in DOMAIN l \cap DOMAIN r :
       /\ SubSeq(l, 1, i - 1) = SubSeq(r, 1, i - 1)
       /\ Rank(l[i]) < Rank(r[i])

----------------------------------------------------------------------------
(* Comparisons.                                                            *)
isEqualityOperator(op) == op \in {"==", "===", "!=", "!=="}

isStrictOperator(op) == op \in {"===", "!=="}

isLooseOperator(op) == op \in {"==", "!="}

compareEquality(op, equal) == IF op \in {"==", "==="} THEN equal ELSE ~equal

compareNullishEquality(op, l, r) ==
  CASE op = "==" -> TRUE
    [] op = "!=" -> FALSE
    [] op = "===" -> l = r
    [] op = "!==" -> l # r
    [] OTHER -> FALSE

(* An order of two numbers, or of two texts, given before and equal.       *)
CompareOrder(op, before, equal) ==
  CASE op = "<" -> before
    [] op = "<=" -> before \/ equal
    [] op = ">" -> ~before /\ ~equal
    [] op = ">=" -> ~before
    [] OTHER -> compareEquality(op, equal)

compareNumbers(op, l, r) == CompareOrder(op, l < r, l = r)

compareTexts(op, l, r) == CompareOrder(op, TextBefore(l, r), l = r)
====
