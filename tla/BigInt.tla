---- MODULE BigInt ----
(***************************************************************************)
(* old_version/runtime/jayess_runtime_bigint.c: the bitwise operators of   *)
(* bigints, on magnitudes cut into words and on two's complement of just   *)
(* as many bits as the operands need.                                      *)
(*                                                                         *)
(* Words are of WordBits bits, least significant first.  Texts are the     *)
(* numbers they denote; the decimal digits of an answer are cut off where  *)
(* the code's array of MaxParts parts of one Radix each is full.           *)
(***************************************************************************)
EXTENDS Integers, Sequences, FiniteSetsExt, SequencesExt

CONSTANTS
  WordBits,   (* 32 in the code                                             *)
  Radix,      (* 1000000000 in the code                                     *)
  MaxParts,   (* 256 in the code                                            *)
  Operands,
  Shifts,     (* right operands of the shifts                               *)
  WideBits    (* bits that hold every operand and its shifts, for Exact     *)

ASSUME BigIntAssumption ==
  /\ {WordBits, Radix, MaxParts, WideBits} \subseteq Nat \ {0}
  /\ Operands \subseteq Int /\ Shifts \subseteq Int

VARIABLES operation, answer

bigintVars == <<operation, answer>>

Binary == {"and", "or", "xor"}
Operations ==
  [op : Binary, left : Operands, right : Operands]
    \union [op : {"not"}, left : Operands, right : {0}]
    \union [op : {"shl", "shr"}, left : Operands, right : Shifts]

Number(n) == [kind |-> "number", value |-> n]
Other(kind) == [kind |-> kind, value |-> 0]
NotYet == Other("not yet")

BigIntInit == operation \in Operations /\ answer = NotYet

----------------------------------------------------------------------------
(* Words.                                                                  *)
Base == 2^WordBits
Magnitude(n) == IF n < 0 THEN -n ELSE n
BitsOf(n) == CHOOSE b \in 0..WideBits : n < 2^b /\ (b = 0 \/ 2^(b - 1) <= n)
WordsFor(bits) == (bits + WordBits - 1) \div WordBits

ValueOf(words) == FoldRight(LAMBDA word, high : high * Base + word, words, 0)
WordsOf(n) == [i \in 1..WordsFor(BitsOf(n)) |-> (n \div Base^(i - 1)) % Base]
IsZero(words) == ValueOf(words) = 0
BitLength(words) == BitsOf(ValueOf(words))
Resized(words, length) == [i \in 1..length |-> IF i <= Len(words) THEN words[i] ELSE 0]

(* A carry or borrow runs through the words; what is left of a carry after *)
(* the last one becomes a word or, in two's complement, is dropped.        *)
Carried(words, carry) ==
  FoldLeft(LAMBDA a, word : [words |-> Append(a.words, (word + a.carry) % Base),
                             carry |-> (word + a.carry) \div Base],
           [words |-> <<>>, carry |-> carry], words)

AddOne(words) ==
  LET sum == Carried(words, 1)
  IN IF sum.carry = 0 THEN sum.words ELSE Append(sum.words, sum.carry)
SubtractOne(words) ==
  LET first == CHOOSE i \in DOMAIN words : words[i] > 0 /\ \A j \in 1..(i - 1) : words[j] = 0
  IN [i \in DOMAIN words |-> CASE i < first -> Base - 1
                               [] i = first -> words[i] - 1
                               [] i > first -> words[i]]

WordAt(words, i) == IF i \in DOMAIN words THEN words[i] ELSE 0

ShiftedLeft(words, n) ==
  LET whole == n \div WordBits
      bits == 2^(n % WordBits)
  IN IF IsZero(words) THEN <<>>
     ELSE [i \in 1..(Len(words) + whole + 1) |->
             ((WordAt(words, i - whole) * bits) % Base)
               + ((WordAt(words, i - whole - 1) * bits) \div Base)]

ShiftedRight(words, n) ==
  LET whole == n \div WordBits
      bits == 2^(n % WordBits)
  IN IF whole >= Len(words) \/ IsZero(words) THEN <<>>
     ELSE [i \in 1..(Len(words) - whole) |->
             (WordAt(words, i + whole) \div bits)
               + ((WordAt(words, i + whole + 1) * (Base \div bits)) % Base)]

----------------------------------------------------------------------------
(* Two's complement of some bits, in as many words as they need.           *)
(* A mistake: no bit for the sign.                                         *)
SignedBitLengthShort(n) ==
  IF n = 0 THEN 1 ELSE BitsOf(IF n < 0 THEN -n - 1 ELSE n)

SignedBitLength(n) ==
  IF n = 0 THEN 1 ELSE BitsOf(IF n < 0 THEN -n - 1 ELSE n) + 1

Masked(words, width) ==
  IF width % WordBits = 0 THEN words
  ELSE [words EXCEPT ![Len(words)] = @ % 2^(width % WordBits)]
Negated(words) == Carried([i \in DOMAIN words |-> Base - 1 - words[i]], 1).words

ToTwosComplement(n, width) ==
  LET words == Resized(WordsOf(Magnitude(n)), WordsFor(width))
  IN Masked(IF n < 0 THEN Negated(words) ELSE words, width)

Printed(words) == Number(ValueOf(words) % Radix^MaxParts)
Minus(o) == IF o.kind = "number" THEN Number(-o.value) ELSE o

(* The sign is read at bit width - 1.  Some callers have too few words for *)
(* it: then it is whatever lies behind them in memory.                     *)
SignsRead(words, width) ==
  LET at == (width - 1) \div WordBits + 1
  IN IF at > Len(words) THEN {0, 1}
     ELSE {(words[at] \div 2^((width - 1) % WordBits)) % 2}
IsNegative(words, width) == SignsRead(words, width) = {1}

(* A negative number is negated and passed to the same function: when that *)
(* is negative again it calls itself for ever, or, when the sign was not   *)
(* the number's, puts two signs before the digits.                         *)
FromNegative(words, width) ==
  LET magnitude == Negated(Masked(Resized(words, WordsFor(width)), width)) IN
  CASE IsZero(magnitude) -> Number(0)
    [] ~IsZero(magnitude) /\ ~IsNegative(magnitude, width) ->
         Minus(Printed(Masked(magnitude, width)))
    [] OTHER -> IF IsNegative(Negated(Masked(magnitude, width)), width)
                THEN Other("stack overflow") ELSE Other("two signs")

FromTwosComplement(words, width) ==
  IF IsZero(words) THEN {Number(0)}
  ELSE {IF sign = 1 THEN FromNegative(words, width)
        ELSE Printed(Masked(Resized(words, WordsFor(width)), width))
          : sign \in SignsRead(words, width)}

----------------------------------------------------------------------------
(* The operators: the answers the build may give.                          *)
Text(words) == FromTwosComplement(words, BitLength(words) + 1)
NegativeText(words) == {Minus(o) : o \in Text(words)}

Not(n) ==
  IF n < 0 THEN Text(SubtractOne(WordsOf(-n))) ELSE NegativeText(AddOne(WordsOf(n)))

BitOp(op, x, y) ==
  CASE op = "and" -> x * y
    [] op = "or" -> x + y - x * y
    [] op = "xor" -> (x + y) % 2

WordOp(op, x, y) ==
  MapThenSumSet(LAMBDA b : 2^b * BitOp(op, (x \div 2^b) % 2, (y \div 2^b) % 2),
                0..(WordBits - 1))

BitwiseBinary(op, left, right) ==
  LET width == Max({SignedBitLength(left), SignedBitLength(right)})
      leftWords == ToTwosComplement(left, width)
      rightWords == ToTwosComplement(right, width)
  IN FromTwosComplement([i \in DOMAIN leftWords |-> WordOp(op, leftWords[i], rightWords[i])],
                        width)

ShiftLeft(n, shift) ==
  LET words == ShiftedLeft(WordsOf(Magnitude(n)), shift)
  IN CASE shift < 0 -> {Other("refused")}
       [] shift >= 0 /\ n >= 0 -> Text(words)
       [] OTHER -> NegativeText(words)

ShiftRight(n, shift) ==
  CASE shift < 0 -> {Other("refused")}
    [] shift >= 0 /\ n >= 0 -> Text(ShiftedRight(WordsOf(n), shift))
    [] OTHER -> NegativeText(AddOne(ShiftedRight(SubtractOne(WordsOf(-n)), shift)))

AnswersOf(o) ==
  CASE o.op \in Binary -> BitwiseBinary(o.op, o.left, o.right)
    [] o.op = "not" -> Not(o.left)
    [] o.op = "shl" -> ShiftLeft(o.left, o.right)
    [] o.op = "shr" -> ShiftRight(o.left, o.right)

Evaluate ==
  /\ answer = NotYet
  /\ answer' \in AnswersOf(operation)
  /\ UNCHANGED operation

BigIntSpec == BigIntInit /\ [][Evaluate]_bigintVars

----------------------------------------------------------------------------
(* An answer is a number or one of the four ways not to be one.            *)
BigIntTypeOK ==
  /\ operation \in Operations
  /\ answer.value \in Int
  /\ answer.kind \in {"not yet", "number", "refused", "stack overflow", "two signs"}

(* What the operators mean, for two's complement of unbounded width.       *)
BitOf(n, b) == (n \div 2^b) % 2
Exact(o) ==
  CASE o.op \in Binary ->
         MapThenSumSet(LAMBDA b : 2^b * BitOp(o.op, BitOf(o.left, b), BitOf(o.right, b)),
                       0..(WideBits - 1))
           - 2^WideBits * BitOp(o.op, BitOf(o.left, WideBits), BitOf(o.right, WideBits))
    [] o.op = "not" -> -o.left - 1
    [] o.op = "shl" -> o.left * 2^o.right
    [] o.op = "shr" -> o.left \div 2^o.right

(* Whenever bigint arithmetic answers a number it is the right one, across *)
(* word boundaries, signs and carries, but for the digits beyond the array *)
(* of parts; only a negative shift is refused.  Where it does not answer   *)
(* it is for one of two reasons: and, or and xor call themselves for ever  *)
(* where the answer is the least number of the operands' width (-1 & -1);  *)
(* not and shr may print two signs where the number fills its words.       *)
(* (jayess_bigint_bitwise_binary, _unary_not, _shift_left_text,            *)
(* _shift_right_text)                                                      *)
BitwiseExact ==
  LET exact == Exact(operation)
      width == Max({SignedBitLength(operation.left), SignedBitLength(operation.right)})
  IN CASE answer.kind = "number" ->
            answer.value = IF exact < 0 THEN -((-exact) % Radix^MaxParts)
                                        ELSE exact % Radix^MaxParts
       [] answer.kind = "refused" ->
            operation.op \in {"shl", "shr"} /\ operation.right < 0
       [] answer.kind = "stack overflow" ->
            operation.op \in Binary /\ exact = -2^(width - 1)
       [] answer.kind = "two signs" ->
            /\ operation.op \in {"not", "shr"}
            /\ BitsOf(Magnitude(exact)) > 0 /\ BitsOf(Magnitude(exact)) % WordBits = 0
       [] OTHER -> answer = NotYet
====
