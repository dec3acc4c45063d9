---- MODULE ReturnExpressions ----
(***************************************************************************)
(* How the return-code evaluator folds an expression.  There is one        *)
(* evaluator per kind of value (an int, a string, a truth, the identity of *)
(* an object...) and each is defined for every expression: it answers with *)
(* a value of its kind and the scope that is left, or it fails.  The       *)
(* evaluators call each other through Evaluate(which, expression, scope),  *)
(* which ReturnEvaluator closes.                                                *)
(***************************************************************************)
EXTENDS ReturnScope, ReturnSyntax

CONSTANT Evaluate(_, _, _)

----------------------------------------------------------------------------
(* What the evaluators of all kinds have in common.                        *)

(* The evaluator named which, after what was evaluated first; both or none.*)
After(first, which, e, s) ==
  IF first.ok THEN clone(Evaluate(which, e, first.scope), s) ELSE No(s)

(* The evaluators are tried in turn, each on a clone.                      *)
FirstOf(kinds, e, s) ==
  FoldLeft(LAMBDA found, which : IF found.ok THEN found
                                 ELSE clone(Evaluate(which, e, s), s),
           No(s), kinds)

Conditional(which, e, s) ==
  LET condition == Evaluate("bool", e.condition, s)
  IN  After(condition, which,
            IF condition.val = Bool(TRUE) THEN e.consequent ELSE e.alternative, s)

Comma(which, e, s) == After(Evaluate("discard", e.left, s), which, e.right, s)

(* The deciding operand is evaluated with the kind of the result, or else  *)
(* for its truth.                                                          *)
Logical(which, e, s) ==
  LET left == Evaluate(which, e.left, s)
      truth == IF left.ok THEN left ELSE Evaluate("bool", e.left, s)
      decided == evaluateArrayElementTruthiness(truth.val) = (e.op = "||")
  IN  CASE left.ok /\ decided -> left
        [] truth.ok /\ ~decided -> After(truth, which, e.right, s)
        [] OTHER -> No(s)

(* A left operand of another kind is evaluated for its effects, which stay *)
(* in the scope although the evaluation fails.                             *)
EffectsOnly(e, s) ==
  LET left == Evaluate("discard", e, s)
  IN  No(IF left.ok THEN left.scope ELSE s)

Coalesce(which, e, s) ==
  LET missing == Evaluate("nullish", e.left, s)
      left == Evaluate(which, e.left, s)
  IN  CASE missing.ok -> After(missing, which, e.right, s)
        [] ~missing.ok /\ left.ok -> left
        [] OTHER -> EffectsOnly(e.left, s)

CoalesceReferences(which, e, s) ==
  LET left == Evaluate(which, e.left, s)
      missing == Evaluate("nullish", e.left, s)
  IN  CASE left.ok -> left
        [] ~left.ok /\ missing.ok -> After(missing, which, e.right, s)
        [] OTHER -> EffectsOnly(e.left, s)

(* The value of a name, of an element or of a property, if it is of the    *)
(* kind asked for.                                                         *)
OfKind(kind, outcome) ==
  IF outcome.ok /\ Kind(outcome.val) = kind THEN outcome ELSE No(outcome.scope)

Binding(kind, e, s) == OfKind(kind, Yes(s.vals[e.name], s))

Found(values, s) == IF values = <<>> THEN No(s) ELSE Yes(values[1], s)

----------------------------------------------------------------------------
(* Coercions.                                                              *)
evaluateNumericCoercion(e, s) ==
  LET found == FirstOf(<<"int", "string", "boolValue", "nullish">>, e, s)
      v == found.val
      number == CASE Kind(v) = "int" -> <<v[2]>>
                  [] Kind(v) = "string" -> parseLooseStringNumber(v[2])
                  [] Kind(v) = "bool" -> <<IF v[2] THEN 1 ELSE 0>>
                  [] v = Null -> <<0>>
                  [] OTHER -> <<>>
  IN  IF number = <<>> THEN No(s) ELSE Yes(Number(number[1]), found.scope)

TextOf(v) ==
  CASE Kind(v) = "string" -> v[2]
    [] Kind(v) \in {"int", "bigint"} -> Itoa(v[2])
    [] Kind(v) = "bool" -> IF v[2] THEN <<"true">> ELSE <<"false">>
    [] OTHER -> <<v[2]>>

evaluateStringCoercion(e, s) ==
  LET found == FirstOf(<<"string", "int", "boolValue", "bigint", "nullish">>, e, s)
  IN  IF found.ok THEN Yes(Text(TextOf(found.val)), found.scope) ELSE No(s)

evaluateIndexPropertyNumber(e, s) ==
  LET found == FirstOf(<<"int", "bigint">>, e, s)
  IN  IF found.ok THEN Yes(Number(found.val[2]), found.scope) ELSE No(s)

----------------------------------------------------------------------------
(* Elements and properties of literals.                                    *)
evaluateArrayLiteralElement(e, s) ==
  FirstOf(<<"int", "bigint", "string", "nullish", "newFunc", "newObject", "bool">>, e, s)

(* What an outcome adds to a list.                                         *)
Gather(outcome, Values(_)) ==
  IF outcome.ok THEN Yes(Values(outcome.val), outcome.scope) ELSE No(outcome.scope)

evaluateArrayLiteralElements(e, s) ==
  IF e.node # "ArrayLiteral" THEN No(s)
  ELSE FoldLeft(LAMBDA list, element :
         CASE ~list.ok -> list
           [] list.ok /\ element.node = "Absent" ->
                Yes(Append(list.val, Undefined), list.scope)
           [] list.ok /\ element.node = "SpreadExpression" ->
                Gather(FirstOf(<<"elements", "iifeElements">>, element.value, list.scope),
                       LAMBDA values : list.val \o values)
           [] OTHER ->
                Gather(evaluateArrayLiteralElement(element, list.scope),
                       LAMBDA v : Append(list.val, v)),
         Yes(<<>>, s), e.elements)

(* A literal known by its number only, or by its truth, is not looked into. *)
Unread(e, s) ==
  LET parts == FirstOf(<<"properties", "elements">>, e, s)
      matters == ~parts.ok \/ parts.scope.vals # s.vals
  IN  GuessIf(e.node \in {"ObjectLiteral", "ArrayLiteral"} /\ matters, "passed", s)

evaluateObjectPropertyKey(e, s) == Evaluate("coerceString", e, s)

(* Properties are a sequence of keys and values; a later one wins.         *)
PropertyOf(properties, key) ==
  LET i == SelectLastInSeq(properties, LAMBDA p : p[1] = key)
  IN  IF i = 0 THEN Undefined ELSE properties[i][2]

evaluateObjectLiteralProperty(list, property) ==
  LET key == CASE property.key.node = "Text" -> Yes(Text(property.key.text), list.scope)
               [] OTHER -> evaluateObjectPropertyKey(property.key, list.scope)
  IN  CASE property.key.node = "Absent" ->
             Gather(FirstOf(<<"properties", "iifeProperties">>, property.value, list.scope),
                    LAMBDA more : list.val \o more)
        [] ~key.ok -> No(list.scope)
        [] OTHER ->
             Gather(evaluateArrayLiteralElement(property.value, key.scope),
                    LAMBDA v : Append(list.val, <<key.val, v>>))

evaluateObjectLiteralProperties(e, s) ==
  IF e.node # "ObjectLiteral" THEN No(s)
  ELSE FoldLeft(LAMBDA list, property :
         IF list.ok THEN evaluateObjectLiteralProperty(list, property) ELSE list,
         Yes(<<>>, s), e.properties)

evaluateArrayIndexElement(e, s) ==
  LET elements == FirstOf(<<"elements", "iifeElements">>, e.target, s)
      index == evaluateIndexPropertyNumber(e.index, elements.scope)
  IN  IF elements.ok /\ index.ok
      THEN Yes(IF index.val[2] + 1 \in DOMAIN elements.val
               THEN elements.val[index.val[2] + 1] ELSE Undefined, index.scope)
      ELSE No(s)

evaluateObjectIndexElement(e, s) ==
  LET properties == FirstOf(<<"properties", "iifeProperties">>, e.target, s)
      key == evaluateObjectPropertyKey(e.index, properties.scope)
  IN  IF properties.ok /\ key.ok
      THEN Yes(PropertyOf(properties.val, key.val), key.scope)
      ELSE No(s)

evaluateObjectMemberElement(e, s) ==
  LET properties == FirstOf(<<"properties", "iifeProperties">>, e.target, s)
  IN  IF properties.ok
      THEN Yes(PropertyOf(properties.val, Text(e.property)), properties.scope)
      ELSE No(s)

(* The element of an array literal, or else the property of an object one. *)
evaluateIndexOfKind(kind, e, s) ==
  LET element == evaluateArrayIndexElement(e, s)
  IN  IF element.ok /\ Kind(element.val) = kind THEN element
      ELSE OfKind(kind, evaluateObjectIndexElement(e, element.scope))

evaluateMemberOfKind(kind, e, s) == OfKind(kind, evaluateObjectMemberElement(e, s))

evaluateIntMemberExpression(e, s) ==
  IF e.property # <<"length">> THEN evaluateMemberOfKind("int", e, s)
  ELSE LET found == FirstOf(<<"string", "elements", "iifeElements">>, e.target, s)
       IN  IF ~found.ok THEN No(s)
           ELSE Yes(Number(Len(IF Evaluate("string", e.target, s).ok THEN found.val[2]
                               ELSE found.val)), found.scope)

evaluateIntIndexExpression(e, s) == evaluateIndexOfKind("int", e, s)

evaluateBoolIndexExpression(e, s) == evaluateIndexOfKind("bool", e, s)

evaluateFunctionIndexIdentity(e, s) == evaluateIndexOfKind("func", e, s)

evaluateObjectIndexIdentity(e, s) == evaluateIndexOfKind("object", e, s)

evaluateBigIntIndexExpression(e, s) == evaluateIndexOfKind("bigint", e, s)

(* The characters of a text.                                               *)
TextIndex(e, s) ==
  LET text == Evaluate("string", e.target, s)
      index == evaluateIndexPropertyNumber(e.index, text.scope)
      at == index.val[2] + 1
  IN  IF text.ok /\ index.ok
      THEN Yes(IF at \in DOMAIN text.val[2] THEN Text(<<text.val[2][at]>>) ELSE Undefined,
               index.scope)
      ELSE No(s)

evaluateStringIndexExpression(e, s) == clone(OfKind("string", TextIndex(e, s)), s)

(* An optional access of a missing target.                                 *)
MissingTarget(e, target, s) ==
  LET missing == Evaluate("nullish", target, s)
  IN  IF e.optional /\ missing.ok THEN Yes(Undefined, missing.scope) ELSE No(s)

evaluateNullishMemberExpression(e, s) ==
  LET missing == MissingTarget(e, e.target, s)
  IN  IF missing.ok THEN missing ELSE evaluateMemberOfKind("nullish", e, s)

evaluateNullishIndexExpression(e, s) ==
  LET missing == MissingTarget(e, e.target, s)
  IN  IF missing.ok THEN missing ELSE clone(OfKind("nullish", TextIndex(e, s)), s)

evaluateMemberTruthiness(e, s) ==
  LET member == evaluateObjectMemberElement(e, s)
      length == evaluateIntMemberExpression(e, s)
      found == IF member.ok THEN member ELSE length
  IN  IF found.ok THEN Yes(Bool(evaluateArrayElementTruthiness(found.val)), found.scope)
      ELSE No(s)

evaluateIndexTruthiness(e, s) ==
  LET element == evaluateArrayIndexElement(e, s)
      property == evaluateObjectIndexElement(e, s)
      character == evaluateStringIndexExpression(e, s)
      found == CASE element.ok -> element
                 [] ~element.ok /\ property.ok -> property
                 [] ~element.ok /\ ~property.ok /\ character.ok -> character
                 [] OTHER -> evaluateNullishIndexExpression(e, s)
  IN  IF found.ok THEN Yes(Bool(evaluateArrayElementTruthiness(found.val)), found.scope)
      ELSE No(s)
====
