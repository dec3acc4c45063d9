---- MODULE ReturnStatements ----
(***************************************************************************)
(* How the return-code evaluator runs statements.  It has two ways: it     *)
(* looks for a return that is certainly reached and whose value it knows,  *)
(* on a clone of the scope, and if there is none it runs the statement for *)
(* what it does to the scope.  A loop is run once at most: it is followed  *)
(* only if that pass ends in a break.                                      *)
(***************************************************************************)
EXTENDS ReturnKinds

(* Where control goes after a statement that does not return.              *)
NoFlow == <<"none", "">>

nonReturnBreakFlow(label) == <<"break", label>>

nonReturnContinueFlow(label) == <<"continue", label>>

nonReturnFlowBreak == nonReturnBreakFlow("")

nonReturnFlowContinue == nonReturnContinueFlow("")

Flow(flow, s) == [ok |-> flow = NoFlow, val |-> flow, scope |-> s]

Went(s) == Flow(NoFlow, s)

Apply(statement, s) == Evaluate("apply", statement, s)

ApplyAll(statements, s) == Apply(BlockStatement(statements), s)

ReturnCode(statements, s) == Evaluate("returnCode", BlockStatement(statements), s)

ContainsReturn(statements) ==
  Evaluate("containsReturn", BlockStatement(statements), returnScope).ok

----------------------------------------------------------------------------
(* Declarations and assignments.                                           *)
BindOutcome(x, outcome) ==
  IF outcome.ok
  THEN Yes(outcome.val, Bind(clearReturnScopeBinding(outcome.scope, x), x, outcome.val))
  ELSE outcome

applyScalarVariableDecl(x, e, s) ==
  BindOutcome(x, FirstOf(<<"int", "string", "bigint", "nullish", "bool">>, e, s))

applyReferenceVariableDecl(x, e, s) == BindOutcome(x, FirstOf(<<"newFunc", "newObject">>, e, s))

(* A value that is not known is evaluated for what it does; the name keeps *)
(* what it had.                                                            *)
applyVariableDecl(d, s) ==
  LET reference == applyReferenceVariableDecl(d.name, d.value, s)
      scalar == applyScalarVariableDecl(d.name, d.value, s)
      discarded == Evaluate("discard", d.value, s)
  IN  CASE d.value.node = "Absent" -> s
        [] d.value.node # "Absent" /\ reference.ok -> reference.scope
        [] d.value.node # "Absent" /\ ~reference.ok /\ scalar.ok -> scalar.scope
        [] OTHER -> GuessIf(bindingKnown(s, d.name) \/ ~discarded.ok, "stale", discarded.scope)

assignmentBinaryOperator(op) ==
  CASE op = "+=" -> "+" [] op = "-=" -> "-" [] op = "*=" -> "*"
    [] op = "/=" -> "/" [] op = "%=" -> "%" [] op = "**=" -> "**"
    [] OTHER -> "none"

evaluateIntAssignment(op, l, r) == evaluateIntBinary(assignmentBinaryOperator(op), l, r)

evaluateNumericAssignmentOperand(op, e, s) ==
  IF op = "+=" /\ Evaluate("string", e, s).ok THEN No(s) ELSE evaluateNumericCoercion(e, s)

applyScalarAssignment(x, e, s) ==
  BindOutcome(x, FirstOf(<<"int", "string", "bigint", "nullish", "newFunc", "newObject", "bool">>,
                         e, s))

(* An operator that keeps the value of the name is done.                   *)
applyLogicalAssignment(x, op, e, s) ==
  LET v == s.vals[x]
      truth == evaluateArrayElementTruthiness(v)
      replaces == CASE op = "??=" -> Kind(v) = "nullish"
                    [] op = "||=" -> ~truth
                    [] OTHER -> truth
  IN  CASE op \notin {"??=", "||=", "&&="} \/ ~bindingKnown(s, x) -> No(s)
        [] op \in {"??=", "||=", "&&="} /\ bindingKnown(s, x) ->
             IF replaces THEN applyScalarAssignment(x, e, s) ELSE Yes(v, s)

applyIntAssignment(x, op, e, s) ==
  LET right == evaluateNumericAssignmentOperand(op, e, s)
      value == evaluateIntAssignment(op, s.vals[x][2], right.val[2])
  IN  CASE op = "=" -> BindOutcome(x, Evaluate("int", e, s))
        [] op # "=" /\ Kind(s.vals[x]) = "int" /\ right.ok ->
             BindOutcome(x, Found(value, GuessIf(Rounds(assignmentBinaryOperator(op), s.vals[x][2],
                                                        right.val[2]), "fraction", right.scope)))
        [] OTHER -> No(s)

applyStringAssignment(x, op, e, s) ==
  LET right == evaluateStringCoercion(e, s)
  IN  CASE op = "=" -> BindOutcome(x, Evaluate("string", e, s))
        [] op = "+=" /\ Kind(s.vals[x]) = "string" /\ right.ok ->
             BindOutcome(x, Yes(Text(s.vals[x][2] \o right.val[2]), right.scope))
        [] OTHER -> No(s)

applyBigIntAssignment(x, op, e, s) ==
  LET right == Evaluate("bigint", e, s)
      value == evaluateBigIntBinaryValue(assignmentBinaryOperator(op), s.vals[x][2], right.val[2])
  IN  CASE op = "=" -> BindOutcome(x, right)
        [] op # "=" /\ Kind(s.vals[x]) = "bigint" /\ right.ok ->
             BindOutcome(x, Found(value, right.scope))
        [] OTHER -> No(s)

PlainAssignment(which, x, op, e, s) ==
  IF op = "=" THEN BindOutcome(x, Evaluate(which, e, s)) ELSE No(s)

applyNullishAssignment(x, op, e, s) == PlainAssignment("nullish", x, op, e, s)

applyFunctionAssignment(x, op, e, s) == PlainAssignment("newFunc", x, op, e, s)

applyObjectAssignment(x, op, e, s) == PlainAssignment("newObject", x, op, e, s)

applyBoolAssignment(x, op, e, s) == PlainAssignment("bool", x, op, e, s)

applyAssignmentProbe(probe, x, op, e, s) ==
  clone(CASE probe = "logical" -> applyLogicalAssignment(x, op, e, s)
          [] probe = "int" -> applyIntAssignment(x, op, e, s)
          [] probe = "string" -> applyStringAssignment(x, op, e, s)
          [] probe = "bigint" -> applyBigIntAssignment(x, op, e, s)
          [] probe = "nullish" -> applyNullishAssignment(x, op, e, s)
          [] probe = "function" -> applyFunctionAssignment(x, op, e, s)
          [] probe = "object" -> applyObjectAssignment(x, op, e, s)
          [] probe = "bool" -> applyBoolAssignment(x, op, e, s),
        s)

(* An assignment to an element or a property is evaluated, not remembered. *)
ScopeAfter(outcome) == GuessIf(~outcome.ok, "stale", outcome.scope)

applyReferenceAssignmentStatement(a, s) ==
  ScopeAfter(After(evaluateAssignmentTargetReference(a.target, s), "discard", a.value, s))

applyAssignmentStatement(a, s) ==
  IF a.target.node # "Identifier" THEN applyReferenceAssignmentStatement(a, s)
  ELSE ScopeAfter(FoldLeft(LAMBDA done, probe :
                             IF done.ok THEN done
                             ELSE applyAssignmentProbe(probe, a.target.name, a.op, a.value, s),
                           No(s), <<"logical", "int", "string", "bigint", "nullish", "function",
                                    "object", "bool">>))

applyExpressionStatement(statement, s) == ScopeAfter(Evaluate("discard", statement.value, s))

----------------------------------------------------------------------------
(* What the statements of a list hold.                                     *)
CaseBodies(statement) ==
  {statement.cases[i].consequent : i \in DOMAIN statement.cases} \cup {statement.default}

(* The statement lists of a statement.                                     *)
Bodies(statement) ==
  CASE statement.node \in {"BlockStatement", "WhileStatement", "ForStatement", "DoWhileStatement"}
         -> {statement.body}
    [] statement.node = "LabeledStatement" -> {<<statement.body>>}
    [] statement.node = "IfStatement" -> {statement.consequence, statement.alternative}
    [] statement.node = "SwitchStatement" -> CaseBodies(statement)
    [] statement.node = "TryStatement" -> {statement.body, statement.handler, statement.final}
    [] OTHER -> {}

(* A throw counts as a return.                                             *)
statementContainsReturn(statement) ==
  \/ statement.node \in {"ReturnStatement", "ThrowStatement"}
  \/ \E body \in Bodies(statement) : \E i \in DOMAIN body :
       Evaluate("containsReturn", body[i], returnScope).ok

(* The names a statement declares, in the order of the text.               *)
OrderedBodies(statement) ==
  CASE statement.node = "IfStatement" -> statement.consequence \o statement.alternative
    [] statement.node = "ForStatement" -> <<statement.init>> \o statement.body
    [] statement.node = "SwitchStatement" ->
         FoldLeft(LAMBDA all, c : all \o c.consequent, <<>>, statement.cases) \o statement.default
    [] statement.node = "TryStatement" -> statement.body \o statement.handler \o statement.final
    [] statement.node = "LabeledStatement" -> <<statement.body>>
    [] statement.node \in {"BlockStatement", "WhileStatement", "DoWhileStatement"} -> statement.body
    [] OTHER -> <<>>

DeclaredNames(statement) ==
  IF statement.node = "VariableDecl" THEN <<statement.name>>
  ELSE FoldLeft(LAMBDA names, inner : names \o Evaluate("declared", inner, returnScope).val,
                <<>>, OrderedBodies(statement))

----------------------------------------------------------------------------
(* The search for a return: it is found, the statement was handled without *)
(* one, or the statement is not understood.                                *)
Returns(code, s) == [status |-> "returns", code |-> code, scope |-> s]

Handled(s) == [status |-> "handled", code |-> 0, scope |-> s]

Unhandled(s) == [status |-> "unhandled", code |-> 0, scope |-> s]

(* Handled as a statement that jumps nowhere.                              *)
HandledAs(flow, expected) ==
  Handled(GuessIf(flow.val \notin expected, "jump", flow.scope))

GivesUp(s) == [status |-> "gives up", code |-> 0, scope |-> s]

(* After a statement that is not understood the search goes on, unless it  *)
(* may return or not end.                                                  *)
Blocking(outcome, blocks, s) ==
  IF outcome.status # "unhandled" THEN outcome
  ELSE IF blocks THEN GivesUp(s) ELSE Handled(s)

Holds(condition) == condition.ok /\ condition.val = Bool(TRUE)

Fails(condition) == condition.ok /\ condition.val = Bool(FALSE)

(* If.                                                                     *)
Branch(statement, condition) ==
  IF Holds(condition) THEN statement.consequence ELSE statement.alternative

returnCodeFromIf(statement, s) ==
  LET condition == Evaluate("bool", statement.condition, s)
      t == condition.scope
      known == ReturnCode(Branch(statement, condition), t)
      either == {b \in {"consequence", "alternative"} : ReturnCode(statement[b], t).ok}
      first == IF "consequence" \in either THEN statement.consequence ELSE statement.alternative
  IN  CASE condition.ok /\ known.ok -> Returns(known.val[2], known.scope)
        [] condition.ok /\ ~known.ok ->
             HandledAs(ApplyAll(Branch(statement, condition), t), {NoFlow})
        [] ~condition.ok /\ either # {} ->
             Returns(ReturnCode(first, t).val[2], Guess(ReturnCode(first, t).scope, "branch"))
        [] OTHER -> Unhandled(t)

applyNonReturnIf(statement, s) ==
  LET condition == Evaluate("bool", statement.condition, s)
  IN  IF condition.ok THEN ApplyAll(Branch(statement, condition), condition.scope)
      ELSE Went(Guess(condition.scope, "passed"))

ifBlocksFollowing(statement) ==
  ContainsReturn(statement.consequence) \/ ContainsReturn(statement.alternative)
====
