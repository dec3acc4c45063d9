---- MODULE ReturnCalls ----
(***************************************************************************)
(* Calls the return-code evaluator follows: of a function literal, of the  *)
(* literal a comma or a conditional expression chooses, with arguments it  *)
(* can fold.  The body's statements run in the caller's scope; the names   *)
(* the function declares are set aside before and put back after.          *)
(***************************************************************************)
EXTENDS ReturnExpressions

(* Which expression and which statements a call runs: the function, chosen *)
(* by the callee, whose last return gives the value.                       *)
evaluateCallableReturnExpression(e, s) ==
  CASE e.node = "FunctionExpression" -> Yes(e, s)
    [] e.node = "CommaExpression" -> Comma("callee", e, s)
    [] e.node = "ConditionalExpression" -> Conditional("callee", e, s)
    [] OTHER -> No(s)

ReturnsLast(f) == f.body # <<>> /\ Last(f.body).node = "ReturnStatement"

iifeExpression(f) ==
  CASE f.expression.node # "Absent" -> f.expression
    [] f.expression.node = "Absent" /\ ReturnsLast(f) /\ Last(f.body).value.node # "Absent" ->
         Last(f.body).value
    [] OTHER -> UndefinedLiteral

iifePrefix(f) ==
  CASE f.expression.node # "Absent" -> <<>>
    [] f.expression.node = "Absent" /\ ReturnsLast(f) -> Front(f.body)
    [] OTHER -> f.body

iifeParameterNames(f) == {f.params[i].name : i \in DOMAIN f.params}

(* The names the statements declare, in every block but those of functions.*)
iifePrefixVariableDecls(prefix) ==
  Evaluate("declared", BlockStatement(prefix), returnScope).val

collectIIFEPrefixBindings(f) ==
  SelectSeq(iifePrefixVariableDecls(iifePrefix(f)),
            LAMBDA x : x \notin iifeParameterNames(f) \cup {f.name})

hoistIIFEVarBinding(s, x) == Bind(clearIIFELocal(s, x), x, Undefined)

hoistIIFEVarBindings(f, s) == FoldLeft(hoistIIFEVarBinding, s, collectIIFEPrefixBindings(f))

----------------------------------------------------------------------------
(* Arguments and parameters.                                               *)
evaluateArgumentExpression(e, s) ==
  IF e.node = "SpreadExpression" THEN Evaluate("elements", e.value, s)
  ELSE Evaluate("discard", e, s)

evaluateArgumentList(arguments, s) ==
  FoldLeft(LAMBDA done, e : IF done.ok THEN evaluateArgumentExpression(e, done.scope)
                            ELSE done,
           Yes(Undefined, s), arguments)

(* A parameter may not have a name the scope knows: its value would be     *)
(* lost when the call is over.                                             *)
canBindIIFEParameter(p, s) == ~bindingKnown(s, p.name)

bindIIFEMissingParameter(p, s) == Yes(Undefined, Bind(s, p.name, Undefined))

bindIIFEParameter(p, arguments, i, s) ==
  LET missing == Evaluate("nullish", arguments[i], s)
  IN  CASE i > Len(arguments) -> bindIIFEMissingParameter(p, s)
        [] i <= Len(arguments) /\ p.default.node # "Absent" /\ missing.ok ->
             Yes(missing.val, Bind(missing.scope, p.name, missing.val))
        [] OTHER -> Evaluate("declareScalar", VariableDecl(p.name, arguments[i]), s)

bindIIFESelfName(f, s) ==
  IF f.name = "" \/ f.name \in iifeParameterNames(f) THEN s
  ELSE LET t == allocateFunctionIdentity(s) IN Bind(t, f.name, Func(t.funcSeq))

NeedsDefault(f, i, s) ==
  f.params[i].default.node # "Absent" /\ s.vals[f.params[i].name] = Undefined

(* The arguments in order, then those nobody takes, then the defaults of   *)
(* the parameters that had none.  The value is the scope the names the     *)
(* function sets aside are put back from.                                  *)
bindIIFEParameters(f, arguments, s) ==
  LET bound == FoldLeft(LAMBDA done, i :
                          IF done.ok THEN bindIIFEParameter(f.params[i], arguments, i, done.scope)
                          ELSE done,
                        Yes(Undefined, s), [i \in DOMAIN f.params |-> i])
      extra == evaluateArgumentList(SubSeq(arguments, Len(f.params) + 1, Len(arguments)),
                                    bound.scope)
      complete == FoldLeft(LAMBDA done, i :
                          IF done.ok /\ NeedsDefault(f, i, extra.scope)
                          THEN Evaluate("declareScalar",
                                        VariableDecl(f.params[i].name, f.params[i].default),
                                        done.scope)
                          ELSE done,
                        Yes(Undefined, bindIIFESelfName(f, extra.scope)),
                        [i \in DOMAIN f.params |-> i])
  IN  IF /\ \A i \in DOMAIN f.params : canBindIIFEParameter(f.params[i], s)
         /\ bound.ok /\ extra.ok /\ complete.ok
      THEN Yes(extra.scope, complete.scope)
      ELSE No(s)

----------------------------------------------------------------------------
(* After the call: a name the scope knew gets its value back, the others   *)
(* are forgotten.                                                          *)
restoreIIFEShadow(x, before, s) ==
  IF bindingKnown(before, x) THEN restoreReturnScopeBinding(x, before, s)
  ELSE clearIIFELocal(s, x)

restoreIIFEShadows(f, before, s) ==
  FoldLeft(LAMBDA t, x : restoreIIFEShadow(x, before, t), s, collectIIFEPrefixBindings(f))

restoreIIFESelfName(f, before, s) ==
  IF f.name = "" THEN s ELSE restoreIIFEShadow(f.name, before, s)

clearIIFEParameters(f, s) ==
  FoldLeft(LAMBDA t, p : clearReturnScopeBinding(t, p.name), s, f.params)

evaluateIIFEValue(which, e, s) ==
  LET callee == evaluateCallableReturnExpression(e.callee, s)
      f == callee.val
      bound == bindIIFEParameters(f, e.arguments, callee.scope)
      prefix == iifePrefix(f)
      hoisted == hoistIIFEVarBindings(f, bound.scope)
      ran == Evaluate("apply", BlockStatement(prefix), hoisted)
      value == Evaluate(which, iifeExpression(f), ran.scope)
      back == restoreIIFESelfName(f, bound.val, restoreIIFEShadows(f, bound.val, value.scope))
  IN  IF /\ e.node = "InvokeExpression" /\ ~e.optional
         /\ callee.ok /\ bound.ok
         /\ ~Evaluate("containsReturn", BlockStatement(prefix), s).ok
         /\ ran.ok /\ value.ok
      THEN Yes(value.val, clearIIFEParameters(f, back))
      ELSE No(s)

----------------------------------------------------------------------------
(* Calls that do nothing, and objects made by constructors that do nothing.*)
evaluateEmptyCallableExpression(e, s) ==
  CASE e.node = "FunctionExpression" ->
         IF e.body = <<>> /\ e.expression.node = "Absent" THEN Yes(Undefined, s) ELSE No(s)
    [] e.node = "CommaExpression" -> Comma("emptyCallee", e, s)
    [] e.node = "ConditionalExpression" -> Conditional("emptyCallee", e, s)
    [] OTHER -> No(s)

EmptyCall(e, s) ==
  LET callee == Evaluate("emptyCallee", e.callee, s)
      done == evaluateArgumentList(e.arguments, callee.scope)
  IN  IF callee.ok /\ done.ok THEN Yes(Undefined, done.scope) ELSE No(s)

evaluateNullishCallExpression(e, s) ==
  LET missing == MissingTarget(e, e.callee, s)
  IN  IF missing.ok THEN missing ELSE EmptyCall(e, s)

evaluateEmptyCallExpression(e, s) ==
  IF e.node = "InvokeExpression" THEN evaluateNullishCallExpression(e, s) ELSE No(s)

evaluateNewObjectExpression(e, s) == EmptyCall(e, s)
====
