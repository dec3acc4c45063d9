---- MODULE ReturnKinds ----
(***************************************************************************)
(* The evaluators of the return-code evaluator, one per kind of value: for *)
(* each form of expression, what the evaluator of that kind makes of it.   *)
(***************************************************************************)
EXTENDS ReturnComparisons

(* Expressions that only choose another one.                               *)
Chooses(e) ==
  e.node \in {"ConditionalExpression", "CommaExpression", "NullishCoalesceExpression"}

Chosen(which, e, s) ==
  CASE e.node = "ConditionalExpression" -> Conditional(which, e, s)
    [] e.node = "CommaExpression" -> Comma(which, e, s)
    [] e.node = "NullishCoalesceExpression" -> Coalesce(which, e, s)

ChosenReference(which, e, s) ==
  IF e.node = "NullishCoalesceExpression" THEN CoalesceReferences(which, e, s)
  ELSE Chosen(which, e, s)

----------------------------------------------------------------------------
(* Numbers.                                                                *)
evaluateIntLogical(e, s) == Logical("int", e, s)

evaluateIntIIFEExpression(e, s) == evaluateIIFEValue("int", e, s)

evaluateUnaryNumericOperand(e, s) ==
  IF e.op \in {"-", "+", "~"} THEN evaluateNumericCoercion(e.right, s) ELSE No(s)

IntUnary(e, s) ==
  LET operand == evaluateUnaryNumericOperand(e, s)
      n == operand.val[2]
  IN  IF ~operand.ok THEN operand
      ELSE Yes(Number(CASE e.op = "-" -> -n [] e.op = "+" -> n [] e.op = "~" -> -n - 1),
               operand.scope)

(* Mutant: a sum with a text in it is added like any other.                *)
BinaryOperandOfAnyKind(op, e, s) == evaluateNumericCoercion(e, s)

(* A sum with a text in it is no number.                                   *)
evaluateBinaryNumericOperand(op, e, s) ==
  IF op = "+" /\ Evaluate("string", e, s).ok THEN No(s) ELSE evaluateNumericCoercion(e, s)

IntBinary(e, s) ==
  LET left == evaluateBinaryNumericOperand(e.op, e.left, s)
      right == evaluateBinaryNumericOperand(e.op, e.right, left.scope)
  IN  IF left.ok /\ right.ok
      THEN Found(evaluateIntBinary(e.op, left.val[2], right.val[2]),
                 GuessIf(Rounds(e.op, left.val[2], right.val[2]), "fraction", right.scope))
      ELSE No(right.scope)

UpdateOfKind(kind, e, s) ==
  LET x == e.target.name
      old == s.vals[x][2]
      new == updatedIntValue(e.op, old)
  IN  IF e.target.node = "Identifier" /\ Kind(s.vals[x]) = kind
      THEN Yes(<<kind, IF e.prefix THEN new ELSE old>>, Bind(s, x, <<kind, new>>))
      ELSE No(s)

evaluateIntUpdateExpression(e, s) == UpdateOfKind("int", e, s)

evaluateBigIntUpdateExpression(e, s) == UpdateOfKind("bigint", e, s)

evaluateIntExpression(e, s) ==
  CASE e.node = "Identifier" -> Binding("int", e, s)
    [] e.node = "NumberLiteral" -> Yes(Number(e.number), s)
    [] e.node = "MemberExpression" -> evaluateIntMemberExpression(e, s)
    [] e.node = "IndexExpression" -> evaluateIntIndexExpression(e, s)
    [] e.node = "UnaryExpression" -> IntUnary(e, s)
    [] e.node = "UpdateExpression" -> evaluateIntUpdateExpression(e, s)
    [] e.node = "InvokeExpression" -> evaluateIntIIFEExpression(e, s)
    [] e.node = "BinaryExpression" -> IntBinary(e, s)
    [] e.node = "LogicalExpression" -> evaluateIntLogical(e, s)
    [] Chooses(e) -> Chosen("int", e, s)
    [] OTHER -> No(s)

----------------------------------------------------------------------------
(* Bigints.                                                                *)
evaluateBigIntLogical(e, s) == Logical("bigint", e, s)

evaluateBigIntIIFEExpression(e, s) == evaluateIIFEValue("bigint", e, s)

evaluateBigIntUnary(e, s) ==
  LET operand == Evaluate("bigint", e.right, s)
      n == operand.val[2]
  IN  IF e.op \in {"-", "~"} /\ operand.ok
      THEN Yes(Big(IF e.op = "-" THEN -n ELSE -n - 1), operand.scope)
      ELSE No(s)

evaluateBigIntBinary(e, s) ==
  LET operands == Both("bigint", "bigint", e.left, e.right, s)
  IN  IF operands.ok
      THEN Found(evaluateBigIntBinaryValue(e.op, First(operands), Second(operands)),
                 operands.scope)
      ELSE operands

evaluateBigIntValue(e, s) ==
  CASE e.node = "Identifier" -> Binding("bigint", e, s)
    [] e.node = "BigIntLiteral" -> Yes(Big(e.number), s)
    [] e.node = "MemberExpression" -> evaluateMemberOfKind("bigint", e, s)
    [] e.node = "IndexExpression" -> evaluateBigIntIndexExpression(e, s)
    [] e.node = "UnaryExpression" -> evaluateBigIntUnary(e, s)
    [] e.node = "UpdateExpression" -> evaluateBigIntUpdateExpression(e, s)
    [] e.node = "InvokeExpression" -> evaluateBigIntIIFEExpression(e, s)
    [] e.node = "BinaryExpression" -> evaluateBigIntBinary(e, s)
    [] e.node = "LogicalExpression" -> evaluateBigIntLogical(e, s)
    [] Chooses(e) -> Chosen("bigint", e, s)
    [] OTHER -> No(s)

----------------------------------------------------------------------------
(* Texts.                                                                  *)
evaluateStringLogical(e, s) == Logical("string", e, s)

evaluateStringIIFEExpression(e, s) == evaluateIIFEValue("string", e, s)

evaluateTemplateString(e, s) ==
  LET Part(text, part) ==
        IF part.node = "Text" THEN Yes(Text(part.text), text.scope)
        ELSE evaluateStringCoercion(part, text.scope)
  IN  FoldLeft(LAMBDA text, part :
                 IF ~text.ok THEN text
                 ELSE Gather(Part(text, part), LAMBDA v : Text(text.val[2] \o v[2])),
               Yes(Text(<<>>), s), e.parts)

(* A sum is a text if one of its operands is.                              *)
evaluateStringBinary(e, s) ==
  LET textLeft == Evaluate("string", e.left, s)
      left == IF textLeft.ok THEN textLeft ELSE evaluateStringCoercion(e.left, s)
      right == IF textLeft.ok THEN evaluateStringCoercion(e.right, left.scope)
               ELSE Evaluate("string", e.right, left.scope)
  IN  IF e.op = "+" /\ left.ok /\ right.ok
      THEN Yes(Text(left.val[2] \o right.val[2]), right.scope) ELSE No(s)

TypeofWord(v) ==
  CASE Kind(v) = "int" -> "number"
    [] Kind(v) = "bool" -> "boolean"
    [] Kind(v) = "func" -> "function"
    [] v = Null -> "object"
    [] v = Undefined \/ v = Unknown -> "undefined"
    [] OTHER -> Kind(v)

typeofIdentifier(x, s) == TypeofWord(s.vals[x])

evaluateTypeofString(e, s) ==
  LET found == FirstOf(<<"int", "string", "bigint", "funcRef", "objRef", "nullish", "bool">>, e, s)
  IN  CASE e.node = "Identifier" ->
             Yes(Text(<<typeofIdentifier(e.name, s)>>),
                 GuessIf(~bindingKnown(s, e.name), "compare", s))
        [] e.node # "Identifier" /\ found.ok -> Yes(Text(<<TypeofWord(found.val)>>), found.scope)
        [] OTHER -> No(s)

StringIndex(e, s) ==
  LET element == evaluateIndexOfKind("string", e, s)
  IN  IF element.ok THEN element ELSE evaluateStringIndexExpression(e, element.scope)

evaluateStringExpression(e, s) ==
  CASE e.node = "Identifier" -> Binding("string", e, s)
    [] e.node = "StringLiteral" -> Yes(Text(e.text), s)
    [] e.node = "TemplateLiteral" -> evaluateTemplateString(e, s)
    [] e.node = "TypeofExpression" -> evaluateTypeofString(e.value, s)
    [] e.node = "MemberExpression" -> evaluateMemberOfKind("string", e, s)
    [] e.node = "IndexExpression" -> StringIndex(e, s)
    [] e.node = "InvokeExpression" -> evaluateStringIIFEExpression(e, s)
    [] e.node = "BinaryExpression" -> evaluateStringBinary(e, s)
    [] e.node = "LogicalExpression" -> evaluateStringLogical(e, s)
    [] Chooses(e) -> Chosen("string", e, s)
    [] OTHER -> No(s)

----------------------------------------------------------------------------
(* Null and undefined.                                                     *)
evaluateNullishLogical(e, s) == Logical("nullish", e, s)

evaluateNullishIIFEExpression(e, s) == evaluateIIFEValue("nullish", e, s)

NullishIndex(e, s) ==
  LET element == evaluateIndexOfKind("nullish", e, s)
  IN  IF element.ok THEN element ELSE evaluateNullishIndexExpression(e, element.scope)

NullishCall(e, s) ==
  LET call == evaluateNullishIIFEExpression(e, s)
  IN  IF call.ok THEN call ELSE evaluateNullishCallExpression(e, s)

evaluateNullishExpression(e, s) ==
  CASE e.node = "Identifier" -> Binding("nullish", e, s)
    [] e.node = "NullLiteral" -> Yes(Null, s)
    [] e.node = "UndefinedLiteral" -> Yes(Undefined, s)
    [] e.node = "MemberExpression" -> evaluateNullishMemberExpression(e, s)
    [] e.node = "IndexExpression" -> NullishIndex(e, s)
    [] e.node = "UnaryExpression" /\ e.op = "void" ->
         LET operand == Evaluate("discard", e.right, s)
         IN  IF operand.ok THEN Yes(Undefined, operand.scope) ELSE No(s)
    [] e.node = "InvokeExpression" -> NullishCall(e, s)
    [] e.node = "LogicalExpression" -> evaluateNullishLogical(e, s)
    [] Chooses(e) -> Chosen("nullish", e, s)
    [] OTHER -> No(s)

----------------------------------------------------------------------------
(* Truths: the truth of a value of any kind, and the values that are       *)
(* truths themselves.                                                      *)
TruthOf(outcome) ==
  IF outcome.ok THEN Yes(Bool(evaluateArrayElementTruthiness(outcome.val)), outcome.scope)
  ELSE outcome

evaluateFoldedExpressionTruthiness(e, s) ==
  TruthOf(FirstOf(IF e.node \in {"BinaryExpression", "UnaryExpression"}
                  THEN <<"int", "nullish", "bigint", "string">> ELSE <<"string">>, e, s))

(* What was evaluated of a failed operand stays.                           *)
evaluateBoolLogical(e, s) ==
  LET left == Evaluate("bool", e.left, s)
  IN  IF left.ok /\ left.val # Bool(e.op = "||") THEN Evaluate("bool", e.right, left.scope)
      ELSE left

evaluateBoolIIFEExpression(e, s) == evaluateIIFEValue("bool", e, s)

evaluateDeleteTarget(e, s) ==
  FirstOf(<<"properties", "elements", "discard", "objRef", "funcRef">>, e, s)

evaluateDeleteExpression(e, s) ==
  LET access == e.node \in {"MemberExpression", "IndexExpression"}
      target == evaluateDeleteTarget(IF access THEN e.target ELSE e, s)
      key == evaluateObjectPropertyKey(e.index, target.scope)
  IN  CASE target.ok /\ e.node # "IndexExpression" -> Yes(Bool(TRUE), target.scope)
        [] target.ok /\ e.node = "IndexExpression" /\ key.ok -> Yes(Bool(TRUE), key.scope)
        [] OTHER -> No(target.scope)

Not(outcome) ==
  IF outcome.ok THEN Yes(Bool(~outcome.val[2]), outcome.scope) ELSE outcome

BoolUnary(e, s) ==
  CASE e.op = "delete" -> evaluateDeleteExpression(e.right, s)
    [] e.op = "!" -> Not(Evaluate("bool", e.right, s))
    [] OTHER -> evaluateFoldedExpressionTruthiness(e, s)

BoolUpdate(e, s) ==
  LET int == evaluateIntUpdateExpression(e, s)
  IN  TruthOf(IF int.ok THEN int ELSE evaluateBigIntUpdateExpression(e, s))

evaluateBoolExpression(e, s) ==
  CASE e.node = "Identifier" ->
         IF bindingKnown(s, e.name) THEN TruthOf(Yes(s.vals[e.name], s)) ELSE No(s)
    [] e.node = "BooleanLiteral" -> Yes(Bool(e.truth), s)
    [] e.node \in {"NullLiteral", "UndefinedLiteral"} -> Yes(Bool(FALSE), s)
    [] e.node \in {"NumberLiteral", "BigIntLiteral"} -> Yes(Bool(e.number # 0), s)
    [] e.node = "StringLiteral" -> Yes(Bool(e.text # <<>>), s)
    [] e.node \in {"FunctionExpression", "ObjectLiteral", "ArrayLiteral"} ->
         Yes(Bool(TRUE), Unread(e, s))
    [] e.node = "NewExpression" -> TruthOf(OfKind("object", Evaluate("objRef", e, s)))
    [] e.node = "UpdateExpression" -> BoolUpdate(e, s)
    [] e.node = "MemberExpression" -> evaluateMemberTruthiness(e, s)
    [] e.node = "IndexExpression" -> evaluateIndexTruthiness(e, s)
    [] e.node \in {"BinaryExpression", "TemplateLiteral", "TypeofExpression"} ->
         evaluateFoldedExpressionTruthiness(e, s)
    [] e.node = "UnaryExpression" -> BoolUnary(e, s)
    [] e.node = "ComparisonExpression" -> evaluateComparisonExpression(e.op, e.left, e.right, s)
    [] e.node = "InstanceofExpression" -> evaluateInstanceofExpression(e, s)
    [] e.node = "InvokeExpression" -> evaluateBoolIIFEExpression(e, s)
    [] e.node = "LogicalExpression" -> evaluateBoolLogical(e, s)
    [] Chooses(e) -> Chosen("bool", e, s)
    [] OTHER -> No(s)

evaluateBoolValue(e, s) ==
  CASE e.node = "Identifier" -> Binding("bool", e, s)
    [] e.node = "BooleanLiteral" -> Yes(Bool(e.truth), s)
    [] e.node = "MemberExpression" -> evaluateMemberOfKind("bool", e, s)
    [] e.node = "IndexExpression" -> evaluateBoolIndexExpression(e, s)
    [] e.node = "InstanceofExpression" -> evaluateInstanceofExpression(e, s)
    [] e.node = "UnaryExpression" /\ e.op \in {"delete", "!"} -> BoolUnary(e, s)
    [] e.node = "ComparisonExpression" -> evaluateComparisonExpression(e.op, e.left, e.right, s)
    [] e.node = "ConditionalExpression" -> Conditional("boolValue", e, s)
    [] OTHER -> No(s)

----------------------------------------------------------------------------
(* The identities of objects and functions: of what is known by name, and  *)
(* of what is made here, which takes a new number.                         *)
evaluateObjectExpression(e, s) ==
  IF e.node \in {"ObjectLiteral", "ArrayLiteral"} THEN Yes(FreshObject, Unread(e, s)) ELSE No(s)

evaluateFunctionExpression(e, s) ==
  IF e.node = "FunctionExpression" THEN Yes(FreshFunction, s) ELSE No(s)

evaluateObjectIIFEExpression(e, s) == evaluateIIFEValue("newObject", e, s)

evaluateFunctionIIFEExpression(e, s) == evaluateIIFEValue("newFunc", e, s)

evaluateLogicalObjectIdentity(e, s) == Logical("objId", e, s)

evaluateLogicalFunctionIdentity(e, s) == Logical("funcId", e, s)

evaluateObjectIdentity(e, s) ==
  CASE e.node = "Identifier" -> Binding("object", e, s)
    [] e.node = "MemberExpression" -> evaluateMemberOfKind("object", e, s)
    [] e.node = "IndexExpression" -> evaluateObjectIndexIdentity(e, s)
    [] e.node = "InvokeExpression" -> evaluateObjectIIFEExpression(e, s)
    [] e.node = "LogicalExpression" -> evaluateLogicalObjectIdentity(e, s)
    [] Chooses(e) -> ChosenReference("objId", e, s)
    [] OTHER -> No(s)

evaluateFunctionIdentity(e, s) ==
  CASE e.node = "Identifier" -> Binding("func", e, s)
    [] e.node = "MemberExpression" -> evaluateMemberOfKind("func", e, s)
    [] e.node = "IndexExpression" -> evaluateFunctionIndexIdentity(e, s)
    [] e.node = "InvokeExpression" -> evaluateFunctionIIFEExpression(e, s)
    [] e.node = "LogicalExpression" -> evaluateLogicalFunctionIdentity(e, s)
    [] Chooses(e) -> ChosenReference("funcId", e, s)
    [] OTHER -> No(s)

NewObject(s) ==
  LET t == allocateObjectIdentity(s) IN Yes(Obj(t.objectSeq), t)

NewFunction(s) ==
  LET t == allocateFunctionIdentity(s) IN Yes(Func(t.funcSeq), t)

materializeLogicalObjectIdentity(e, s) == Logical("newObject", e, s)

materializeLogicalFunctionIdentity(e, s) == Logical("newFunc", e, s)

materializeObjectIdentity(e, s) ==
  LET constructed == evaluateNewObjectExpression(e, s)
  IN  CASE e.node \in {"ObjectLiteral", "ArrayLiteral"} -> NewObject(Unread(e, s))
        [] e.node = "InvokeExpression" -> evaluateObjectIIFEExpression(e, s)
        [] e.node = "LogicalExpression" -> materializeLogicalObjectIdentity(e, s)
        [] e.node = "NewExpression" ->
             IF constructed.ok THEN NewObject(constructed.scope) ELSE No(s)
        [] Chooses(e) -> ChosenReference("newObject", e, s)
        [] OTHER -> evaluateObjectIdentity(e, s)

materializeFunctionIdentity(e, s) ==
  CASE e.node = "FunctionExpression" -> NewFunction(s)
    [] e.node = "InvokeExpression" -> evaluateFunctionIIFEExpression(e, s)
    [] e.node = "LogicalExpression" -> materializeLogicalFunctionIdentity(e, s)
    [] Chooses(e) -> ChosenReference("newFunc", e, s)
    [] OTHER -> evaluateFunctionIdentity(e, s)

evaluateLogicalObjectReferenceExpression(e, s) == Logical("objRef", e, s)

evaluateLogicalFunctionReferenceExpression(e, s) == Logical("funcRef", e, s)

(* Whether an expression gives an object, or a function.                   *)
evaluateObjectReferenceExpression(e, s) ==
  LET identity == evaluateObjectIdentity(e, s)
      t == identity.scope
      constructed == evaluateNewObjectExpression(e, t)
  IN  CASE identity.ok -> identity
        [] ~identity.ok /\ e.node = "LogicalExpression" ->
             evaluateLogicalObjectReferenceExpression(e, t)
        [] ~identity.ok /\ e.node = "NewExpression" ->
             IF constructed.ok THEN Yes(FreshObject, constructed.scope) ELSE No(t)
        [] ~identity.ok /\ Chooses(e) -> ChosenReference("objRef", e, t)
        [] OTHER -> evaluateObjectExpression(e, t)

evaluateFunctionReferenceExpression(e, s) ==
  LET identity == evaluateFunctionIdentity(e, s)
      t == identity.scope
  IN  CASE identity.ok -> identity
        [] ~identity.ok /\ e.node = "LogicalExpression" ->
             evaluateLogicalFunctionReferenceExpression(e, t)
        [] ~identity.ok /\ Chooses(e) -> ChosenReference("funcRef", e, t)
        [] OTHER -> evaluateFunctionExpression(e, t)

----------------------------------------------------------------------------
(* An expression evaluated for what it does.                               *)
evaluateAssignmentTargetReference(e, s) ==
  LET target == Evaluate("discard", e.target, s)
      key == evaluateObjectPropertyKey(e.index, target.scope)
  IN  CASE e.node \notin {"MemberExpression", "IndexExpression"} -> No(s)
        [] e.node = "MemberExpression" -> IF e.optional THEN No(s) ELSE target
        [] e.node = "IndexExpression" -> IF ~e.optional /\ target.ok THEN key ELSE No(s)

evaluateReferenceUpdateExpression(e, s) ==
  IF e.node = "UpdateExpression" /\ e.target.node # "Identifier"
  THEN evaluateAssignmentTargetReference(e.target, s) ELSE No(s)

evaluateDiscardExpression(e, s) ==
  IF e.node = "InvokeExpression" THEN evaluateEmptyCallExpression(e, s)
  ELSE FirstOf(<<"int", "string", "bigint", "nullish", "update", "properties", "elements",
                 "objRef", "funcRef", "bool">>, e, s)

----------------------------------------------------------------------------
(* The evaluators of expressions by name.                                  *)
EvaluateExpression(which, e, s) ==
  CASE which = "int" -> evaluateIntExpression(e, s)
    [] which = "bigint" -> evaluateBigIntValue(e, s)
    [] which = "string" -> evaluateStringExpression(e, s)
    [] which = "nullish" -> evaluateNullishExpression(e, s)
    [] which = "bool" -> evaluateBoolExpression(e, s)
    [] which = "boolValue" -> evaluateBoolValue(e, s)
    [] which = "objId" -> evaluateObjectIdentity(e, s)
    [] which = "funcId" -> evaluateFunctionIdentity(e, s)
    [] which = "objExpr" -> evaluateObjectExpression(e, s)
    [] which = "funcExpr" -> evaluateFunctionExpression(e, s)
    [] which = "objRef" -> evaluateObjectReferenceExpression(e, s)
    [] which = "funcRef" -> evaluateFunctionReferenceExpression(e, s)
    [] which = "newObject" -> materializeObjectIdentity(e, s)
    [] which = "newFunc" -> materializeFunctionIdentity(e, s)
    [] which = "elements" -> evaluateArrayLiteralElements(e, s)
    [] which = "properties" -> evaluateObjectLiteralProperties(e, s)
    [] which = "iifeElements" -> evaluateIIFEValue("elements", e, s)
    [] which = "iifeProperties" -> evaluateIIFEValue("properties", e, s)
    [] which = "coerceString" -> evaluateStringCoercion(e, s)
    [] which = "callee" -> evaluateCallableReturnExpression(e, s)
    [] which = "emptyCallee" -> evaluateEmptyCallableExpression(e, s)
    [] which = "update" -> evaluateReferenceUpdateExpression(e, s)
    [] which = "discard" -> evaluateDiscardExpression(e, s)
====
