---- MODULE ReturnComparisons ----
(***************************************************************************)
(* How the return-code evaluator folds a comparison.  Each pair of kinds   *)
(* has a probe; the probes are tried in a fixed order, each on a clone of  *)
(* the scope, and the first that knows both operands answers.              *)
(***************************************************************************)
EXTENDS ReturnCalls

(* Both operands, as the kinds asked for; the pair of their values.        *)
Both(leftKind, rightKind, l, r, s) ==
  LET left == Evaluate(leftKind, l, s)
      right == Evaluate(rightKind, r, left.scope)
  IN  IF left.ok /\ right.ok THEN Yes(<<left.val, right.val>>, right.scope) ELSE No(s)

(* The operands in either order: the one evaluated first has the first     *)
(* kind.                                                                   *)
EitherWay(firstKind, secondKind, l, r, s) ==
  LET straight == Both(firstKind, secondKind, l, r, s)
  IN  IF straight.ok THEN straight ELSE Both(firstKind, secondKind, r, l, s)

Answer(operands, truth) ==
  IF operands.ok THEN Yes(Bool(truth), operands.scope) ELSE No(operands.scope)

First(operands) == operands.val[1][2]

Second(operands) == operands.val[2][2]

----------------------------------------------------------------------------
(* Operands of one kind.                                                   *)
evaluateIntComparison(op, l, r, s) ==
  LET v == Both("int", "int", l, r, s)
  IN  Answer(v, compareNumbers(op, First(v), Second(v)))

evaluateStringComparison(op, l, r, s) ==
  LET v == Both("string", "string", l, r, s)
  IN  Answer(v, compareTexts(op, First(v), Second(v)))

evaluateNullishEquality(op, l, r, s) ==
  LET v == Both("nullish", "nullish", l, r, s)
  IN  Answer(v, compareNullishEquality(op, First(v), Second(v)))

evaluateBigIntEquality(op, l, r, s) ==
  LET v == Both("bigint", "bigint", l, r, s)
  IN  Answer(v, compareEquality(op, First(v) = Second(v)))

evaluateBigIntRelationalComparison(op, l, r, s) ==
  LET v == Both("bigint", "bigint", l, r, s)
  IN  IF isEqualityOperator(op) THEN No(s)
      ELSE Answer(v, compareNumbers(op, First(v), Second(v)))

(* A strict comparison with something that is no folded truth is false,    *)
(* whatever it is.                                                         *)
evaluateBoolEquality(op, l, r, s) ==
  LET left == Evaluate("boolValue", l, s)
      right == Evaluate("boolValue", r, left.scope)
  IN  CASE left.ok /\ right.ok ->
             Yes(Bool(compareEquality(op, left.val = right.val)), right.scope)
        [] left.ok # right.ok /\ isStrictOperator(op) ->
             Yes(Bool(compareEquality(op, FALSE)), Guess(right.scope, "compare"))
        [] OTHER -> No(s)

----------------------------------------------------------------------------
(* Operands that are ordered as numbers.                                   *)
evaluateNumericRelationalComparison(op, l, r, s) ==
  LET left == evaluateNumericCoercion(l, s)
      right == evaluateNumericCoercion(r, left.scope)
  IN  IF left.ok /\ right.ok /\ ~isEqualityOperator(op)
      THEN Yes(Bool(compareNumbers(op, left.val[2], right.val[2])), right.scope)
      ELSE No(s)

(* A bigint with a text, a number or a truth.                              *)
evaluateMixedRelationalBigIntValue(e, s) ==
  LET found == FirstOf(<<"string", "int", "boolValue">>, e, s)
      v == found.val
  IN  IF ~found.ok THEN No(s)
      ELSE Yes(CASE Kind(v) = "int" -> <<v[2]>>
                 [] Kind(v) = "bool" -> <<IF v[2] THEN 1 ELSE 0>>
                 [] OTHER -> parseLooseStringNumber(v[2]),
               found.scope)

evaluateBigIntLeftMixedRelational(op, l, r, s) ==
  LET left == Evaluate("bigint", l, s)
      right == evaluateMixedRelationalBigIntValue(r, left.scope)
  IN  CASE ~left.ok \/ ~right.ok -> No(s)
        [] left.ok /\ right.ok /\ right.val = <<>> -> Yes(Bool(FALSE), right.scope)
        [] OTHER -> Yes(Bool(compareNumbers(op, left.val[2], right.val[1])), right.scope)

evaluateMixedLeftBigIntRelational(op, l, r, s) ==
  LET left == evaluateMixedRelationalBigIntValue(l, s)
      right == Evaluate("bigint", r, left.scope)
  IN  CASE ~left.ok \/ ~right.ok -> No(s)
        [] left.ok /\ right.ok /\ left.val = <<>> -> Yes(Bool(FALSE), right.scope)
        [] OTHER -> Yes(Bool(compareNumbers(op, left.val[1], right.val[2])), right.scope)

(* The second attempt starts from what the first left in the scope.        *)
evaluateBigIntMixedRelationalComparison(op, l, r, s) ==
  LET left == evaluateBigIntLeftMixedRelational(op, l, r, s)
      begun == Evaluate("bigint", l, s)
  IN  CASE isEqualityOperator(op) -> No(s)
        [] ~isEqualityOperator(op) /\ left.ok -> left
        [] OTHER -> evaluateMixedLeftBigIntRelational(op, l, r, begun.scope)

----------------------------------------------------------------------------
(* Loose equality of different kinds.                                      *)
evaluateLooseStringNumberEquality(op, l, r, s) ==
  LET v == EitherWay("string", "int", l, r, s)
  IN  IF ~isLooseOperator(op) THEN No(s)
      ELSE Answer(v, compareEquality(op, parseLooseStringNumber(First(v)) = <<Second(v)>>))

evaluateLooseStringBooleanEquality(op, l, r, s) ==
  LET v == EitherWay("string", "boolValue", l, r, s)
      truth == IF Second(v) THEN 1 ELSE 0
  IN  IF ~isLooseOperator(op) THEN No(s)
      ELSE Answer(v, compareEquality(op, parseLooseStringNumber(First(v)) = <<truth>>))

evaluateLooseBooleanNumberEquality(op, l, r, s) ==
  LET v == EitherWay("boolValue", "int", l, r, s)
      truth == IF First(v) THEN 1 ELSE 0
  IN  IF ~isLooseOperator(op) THEN No(s)
      ELSE Answer(v, compareEquality(op, truth = Second(v)))

evaluateLooseStringBigIntEquality(op, l, r, s) ==
  LET v == EitherWay("string", "bigint", l, r, s)
  IN  IF ~isLooseOperator(op) THEN No(s)
      ELSE Answer(v, compareEquality(op, parseLooseStringNumber(First(v)) = <<Second(v)>>))

evaluateLooseNumberBigIntEquality(op, l, r, s) ==
  LET v == EitherWay("int", "bigint", l, r, s)
  IN  IF ~isLooseOperator(op) THEN No(s)
      ELSE Answer(v, compareEquality(op, First(v) = Second(v)))

evaluateLooseBooleanBigIntEquality(op, l, r, s) ==
  LET v == EitherWay("boolValue", "bigint", l, r, s)
      truth == IF First(v) THEN 1 ELSE 0
  IN  IF ~isLooseOperator(op) THEN No(s)
      ELSE Answer(v, compareEquality(op, truth = Second(v)))

(* Primitive values of two kinds.                                          *)
evaluatePrimitiveKind(e, s) ==
  FirstOf(<<"int", "string", "bigint", "nullish", "boolValue">>, e, s)

PrimitiveKinds(l, r, s) ==
  LET left == evaluatePrimitiveKind(l, s)
      right == evaluatePrimitiveKind(r, left.scope)
  IN  IF left.ok /\ right.ok
      THEN Yes(<<Kind(left.val), Kind(right.val)>>, right.scope) ELSE No(s)

evaluateLooseNullishPrimitiveMismatch(op, l, r, s) ==
  LET kinds == PrimitiveKinds(l, r, s)
  IN  IF /\ isLooseOperator(op) /\ kinds.ok
         /\ kinds.val[1] # kinds.val[2] /\ "nullish" \in {kinds.val[1], kinds.val[2]}
      THEN Yes(Bool(compareEquality(op, FALSE)), kinds.scope) ELSE No(s)

evaluateStrictPrimitiveMismatch(op, l, r, s) ==
  LET kinds == PrimitiveKinds(l, r, s)
  IN  IF isStrictOperator(op) /\ kinds.ok /\ kinds.val[1] # kinds.val[2]
      THEN Yes(Bool(compareEquality(op, FALSE)), kinds.scope) ELSE No(s)

----------------------------------------------------------------------------
(* Identities.  A literal compared where it stands is the same as nothing. *)
FreshObject == Obj(0)

FreshFunction == Func(0)

evaluateObjectComparisonReference(e, s) ==
  LET identity == Evaluate("objId", e, s)
  IN  CASE identity.ok -> identity
        [] ~identity.ok /\ Evaluate("objExpr", e, s).ok ->
             Yes(FreshObject, Unread(e, identity.scope))
        [] OTHER -> identity

evaluateFunctionComparisonReference(e, s) ==
  LET identity == Evaluate("funcId", e, s)
  IN  CASE identity.ok -> identity
        [] ~identity.ok /\ Evaluate("funcExpr", e, s).ok -> Yes(FreshFunction, identity.scope)
        [] OTHER -> identity

ComparisonReference(kind, e, s) ==
  IF kind = "object" THEN evaluateObjectComparisonReference(e, s)
  ELSE evaluateFunctionComparisonReference(e, s)

sameComparisonReference(l, r) == l = r /\ l \notin {FreshObject, FreshFunction}

(* Two references, or a reference and null or undefined.                   *)
ReferenceEquality(kind, op, l, r, s) ==
  LET left == ComparisonReference(kind, l, s)
      right == ComparisonReference(kind, r, left.scope)
      missing == Evaluate("nullish", IF left.ok THEN r ELSE l, right.scope)
      same == left.ok /\ right.ok /\ sameComparisonReference(left.val, right.val)
  IN  CASE ~isEqualityOperator(op) \/ (~left.ok /\ ~right.ok) -> No(s)
        [] left.ok /\ right.ok -> Yes(Bool(compareEquality(op, same)), right.scope)
        [] OTHER -> Answer(missing, compareEquality(op, FALSE))

evaluateObjectEquality(op, l, r, s) == ReferenceEquality("object", op, l, r, s)

evaluateFunctionEquality(op, l, r, s) == ReferenceEquality("func", op, l, r, s)

(* A reference and a truth; what a failed attempt leaves stays.            *)
compareReferenceBoolean(kind, e, truth, s) ==
  LET reference == ComparisonReference(kind, e, s)
      boolean == Evaluate("boolValue", truth, reference.scope)
  IN  IF reference.ok /\ boolean.ok THEN Yes(Bool(FALSE), boolean.scope)
      ELSE No(IF reference.ok THEN boolean.scope ELSE reference.scope)

ReferenceBooleanEquality(kind, op, l, r, s) ==
  LET straight == compareReferenceBoolean(kind, l, r, s)
      found == IF straight.ok THEN straight
               ELSE compareReferenceBoolean(kind, r, l, straight.scope)
  IN  IF isEqualityOperator(op) THEN Answer(found, compareEquality(op, FALSE)) ELSE No(s)

evaluateObjectBooleanEquality(op, l, r, s) == ReferenceBooleanEquality("object", op, l, r, s)

evaluateFunctionBooleanEquality(op, l, r, s) == ReferenceBooleanEquality("func", op, l, r, s)

isReferenceComparisonOperand(e, s) ==
  LET object == clone(evaluateObjectComparisonReference(e, s), s)
  IN  IF object.ok THEN object ELSE clone(evaluateFunctionComparisonReference(e, s), s)

referencePrimitiveMismatch(reference, primitive, s) ==
  LET operand == isReferenceComparisonOperand(reference, s)
      other == evaluatePrimitiveKind(primitive, operand.scope)
  IN  IF operand.ok /\ other.ok THEN other ELSE No(s)

evaluateReferenceStrictPrimitiveMismatch(op, l, r, s) ==
  LET straight == referencePrimitiveMismatch(l, r, s)
      found == IF straight.ok THEN straight ELSE referencePrimitiveMismatch(r, l, s)
  IN  IF isStrictOperator(op) THEN Answer(found, compareEquality(op, FALSE)) ELSE No(s)

----------------------------------------------------------------------------
(* The key of a property, and the properties of a literal.                 *)
evaluateInExpression(l, r, s) ==
  LET key == evaluateObjectPropertyKey(l, s)
      properties == FirstOf(<<"properties", "iifeProperties">>, r, key.scope)
  IN  IF key.ok /\ properties.ok
      THEN Yes(Bool(\E i \in DOMAIN properties.val : properties.val[i][1] = key.val),
               properties.scope)
      ELSE No(s)

(* No primitive value is an instance of anything.                          *)
evaluatePrimitiveInstanceofLeft(e, s) ==
  FirstOf(<<"int", "string", "nullish", "bigint", "boolValue">>, e, s)

evaluateInstanceofExpression(e, s) ==
  LET left == evaluatePrimitiveInstanceofLeft(e.left, s)
      right == Evaluate("funcRef", e.right, left.scope)
  IN  IF left.ok /\ right.ok THEN Yes(Bool(FALSE), right.scope) ELSE No(s)

----------------------------------------------------------------------------
evaluateComparisonProbe(probe, op, l, r, s) ==
  clone(CASE probe = "int" -> evaluateIntComparison(op, l, r, s)
          [] probe = "string" -> evaluateStringComparison(op, l, r, s)
          [] probe = "bigint order" -> evaluateBigIntRelationalComparison(op, l, r, s)
          [] probe = "bigint mixed" -> evaluateBigIntMixedRelationalComparison(op, l, r, s)
          [] probe = "order" -> evaluateNumericRelationalComparison(op, l, r, s)
          [] probe = "nullish" -> evaluateNullishEquality(op, l, r, s)
          [] probe = "bigint" -> evaluateBigIntEquality(op, l, r, s)
          [] probe = "object" -> evaluateObjectEquality(op, l, r, s)
          [] probe = "object bool" -> evaluateObjectBooleanEquality(op, l, r, s)
          [] probe = "function" -> evaluateFunctionEquality(op, l, r, s)
          [] probe = "function bool" -> evaluateFunctionBooleanEquality(op, l, r, s)
          [] probe = "reference" -> evaluateReferenceStrictPrimitiveMismatch(op, l, r, s)
          [] probe = "loose nullish" -> evaluateLooseNullishPrimitiveMismatch(op, l, r, s)
          [] probe = "string int" -> evaluateLooseStringNumberEquality(op, l, r, s)
          [] probe = "string bool" -> evaluateLooseStringBooleanEquality(op, l, r, s)
          [] probe = "bool int" -> evaluateLooseBooleanNumberEquality(op, l, r, s)
          [] probe = "string bigint" -> evaluateLooseStringBigIntEquality(op, l, r, s)
          [] probe = "int bigint" -> evaluateLooseNumberBigIntEquality(op, l, r, s)
          [] probe = "bool bigint" -> evaluateLooseBooleanBigIntEquality(op, l, r, s)
          [] probe = "primitive" -> evaluateStrictPrimitiveMismatch(op, l, r, s)
          [] probe = "bool" -> evaluateBoolEquality(op, l, r, s),
        s)

Relational == <<"int", "string", "bigint order", "bigint mixed", "order">>

Equality ==
  <<"nullish", "bigint", "object", "object bool", "function", "function bool", "reference",
    "loose nullish", "string int", "string bool", "bool int", "string bigint", "int bigint",
    "bool bigint", "primitive", "bool">>

evaluateComparisonExpression(op, l, r, s) ==
  IF op = "in" THEN evaluateInExpression(l, r, s)
  ELSE FoldLeft(LAMBDA found, probe : IF found.ok THEN found
                                      ELSE evaluateComparisonProbe(probe, op, l, r, s),
                No(s), IF isEqualityOperator(op) THEN Relational \o Equality ELSE Relational)
====
