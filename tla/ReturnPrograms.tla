---- MODULE ReturnPrograms ----
(***************************************************************************)
(* Tries in the return-code evaluator, its two statement runners, and the  *)
(* search for a program's return code.                                     *)
(***************************************************************************)
EXTENDS ReturnControl

(* The names a catch binds are unknown in its body and get their values    *)
(* back after it.                                                          *)
CatchScope(statement, s) ==
  IF statement.catchName = "" THEN s ELSE clearReturnScopeBinding(s, statement.catchName)

(* Mutant: what a catch body makes of its name stays in force after it.    *)
CatchNameForgotten(statement, before, outcome) == outcome

withCatchBindingScope(statement, before, outcome) ==
  IF statement.catchName = "" THEN outcome
  ELSE [outcome EXCEPT !.scope = restoreReturnScopeBinding(statement.catchName, before, @)]

tryHasCatch(statement) == statement.handler # <<>> \/ statement.catchName # ""

(* A jump of the finally body replaces the one before it.                  *)
AndFinally(statement, flow) ==
  LET final == ApplyAll(statement.final, flow.scope)
  IN  IF final.ok THEN Flow(flow.val, final.scope) ELSE final

applyNonReturnTry(statement, s) ==
  IF statementContainsReturn(statement) THEN Went(Guess(s, "passed"))
  ELSE AndFinally(statement, ApplyAll(statement.body, s))

applyCatchBodySideEffects(statement, s) ==
  withCatchBindingScope(statement, s, ApplyAll(statement.handler, CatchScope(statement, s)))

----------------------------------------------------------------------------
(* A try body is followed until it throws: it ends without a throw, it     *)
(* throws, or it cannot be followed.                                       *)
Ended(s) == [ok |-> TRUE, val |-> "ended", scope |-> s]

Threw(s) == [ok |-> FALSE, val |-> "threw", scope |-> s]

Stopped(s) == [ok |-> FALSE, val |-> "stopped", scope |-> s]

UntilThrow(statement, s) == Evaluate("untilThrow", statement, s)

tryBodyUntilThrowFlow(statements, s) ==
  FoldLeft(LAMBDA flow, statement : IF flow.ok THEN UntilThrow(statement, flow.scope) ELSE flow,
           Ended(s), statements)

tryCatchBodyUntilThrowFlow(statement, s) ==
  withCatchBindingScope(statement, s,
                        tryBodyUntilThrowFlow(statement.handler, CatchScope(statement, s)))

(* A loop that does not throw in its first pass is over.                   *)
OnePass(statement, s) ==
  LET flow == tryBodyUntilThrowFlow(statement.body, s)
      again == LoopCondition(statement, flow.scope)
      over == Fails(again) /\ again.scope.vals = flow.scope.vals
      left == WithGuesses(flow.scope, again.scope)
  IN  IF flow.ok THEN Ended(GuessIf(~over, "loop", left)) ELSE flow

WhileUntilThrow(statement, s) ==
  LET condition == LoopCondition(statement, s)
  IN  CASE ~condition.ok -> Stopped(condition.scope)
        [] Fails(condition) -> Ended(condition.scope)
        [] OTHER -> OnePass(statement, condition.scope)

ForUntilThrow(statement, s) ==
  LET condition == ForCondition(statement, s)
      flow == tryBodyUntilThrowFlow(statement.body, condition.scope)
  IN  CASE ~condition.ok -> Stopped(s)
        [] Fails(condition) -> Ended(condition.scope)
        [] OTHER -> IF flow.val = "threw" THEN flow ELSE Stopped(s)

IfUntilThrow(statement, s) ==
  LET condition == Evaluate("bool", statement.condition, s)
  IN  IF condition.ok
      THEN tryBodyUntilThrowFlow(Branch(statement, condition), condition.scope)
      ELSE Stopped(condition.scope)

SwitchUntilThrow(statement, s) ==
  LET consequent == matchingSwitchConsequent(statement, s)
  IN  IF consequent.ok THEN tryBodyUntilThrowFlow(consequent.val, consequent.scope)
      ELSE Stopped(consequent.scope)

(* A try inside is followed only to a throw that leaves it.                *)
applyNestedTryUntilThrow(statement, s) ==
  LET body == tryBodyUntilThrowFlow(statement.body, s)
      caught == IF body.val = "threw" /\ tryHasCatch(statement)
                THEN tryCatchBodyUntilThrowFlow(statement, body.scope) ELSE body
      final == tryBodyUntilThrowFlow(statement.final, caught.scope)
  IN  IF /\ body.val # "stopped" /\ caught.val # "stopped" /\ final.val # "stopped"
         /\ "threw" \in {caught.val, final.val}
      THEN Threw(final.scope) ELSE Stopped(s)

PlainUntilThrow(statement, s) ==
  LET flow == Apply(statement, s)
  IN  CASE statementContainsReturn(statement) -> Stopped(s)
        [] ~statementContainsReturn(statement) /\ flow.ok -> Ended(flow.scope)
        [] OTHER -> Stopped(flow.scope)

(* What is thrown is not evaluated.                                        *)
ThrowUntilThrow(statement, s) ==
  LET thrown == Evaluate("discard", statement.value, s).scope
  IN  Threw(GuessIf(thrown.vals # s.vals, "passed", s))

applyTryStatementUntilThrow(statement, s) ==
  CASE statement.node = "ThrowStatement" -> ThrowUntilThrow(statement, s)
    [] statement.node = "BlockStatement" -> tryBodyUntilThrowFlow(statement.body, s)
    [] statement.node = "DoWhileStatement" -> OnePass(statement, s)
    [] statement.node = "IfStatement" -> IfUntilThrow(statement, s)
    [] statement.node = "SwitchStatement" -> SwitchUntilThrow(statement, s)
    [] statement.node = "WhileStatement" -> WhileUntilThrow(statement, s)
    [] statement.node = "ForStatement" -> ForUntilThrow(statement, s)
    [] statement.node = "LabeledStatement" -> UntilThrow(statement.body, s)
    [] statement.node = "TryStatement" -> applyNestedTryUntilThrow(statement, s)
    [] OTHER -> PlainUntilThrow(statement, s)

(* A try that may return or throw is handled if it throws for certain and  *)
(* its catch and finally do neither.                                       *)
applyTrySideEffects(statement, s) ==
  LET body == tryBodyUntilThrowFlow(statement.body, s)
      flow == AndFinally(statement, applyCatchBodySideEffects(statement, body.scope))
      quiet == ~ContainsReturn(statement.handler) /\ ~ContainsReturn(statement.final)
      plain == applyNonReturnTry(statement, s)
      done == IF statementContainsReturn(statement) THEN flow ELSE plain
  IN  IF /\ statementContainsReturn(statement)
         /\ body.val # "threw" \/ ~tryHasCatch(statement) \/ ~quiet
      THEN Unhandled(s)
      ELSE IF done.ok THEN Handled(done.scope) ELSE GivesUp(done.scope)

----------------------------------------------------------------------------
(* A statement run for what it does.  A return or a throw does nothing.    *)
Nothing(statement, s) ==
  Went(GuessIf(statement.node \in {"ReturnStatement", "ThrowStatement"}, "passed", s))

applyNonReturnStatement(statement, s) ==
  CASE statement.node = "VariableDecl" -> Went(applyVariableDecl(statement, s))
    [] statement.node = "AssignmentStatement" -> Went(applyAssignmentStatement(statement, s))
    [] statement.node = "ExpressionStatement" -> Went(applyExpressionStatement(statement, s))
    [] statement.node = "BlockStatement" ->
         FoldLeft(LAMBDA flow, inner : IF flow.ok THEN Apply(inner, flow.scope) ELSE flow,
                  Went(s), statement.body)
    [] statement.node = "IfStatement" -> applyNonReturnIf(statement, s)
    [] statement.node = "SwitchStatement" -> applyNonReturnSwitch(statement, s)
    [] statement.node = "WhileStatement" -> applyNonReturnWhile(statement, s)
    [] statement.node = "ForStatement" -> applyNonReturnFor(statement, s)
    [] statement.node = "DoWhileStatement" -> applyNonReturnDoWhile(statement, s)
    [] statement.node = "TryStatement" -> applyNonReturnTry(statement, s)
    [] statement.node = "LabeledStatement" -> applyNonReturnLabeled(statement, s)
    [] statement.node = "BreakStatement" -> Flow(nonReturnBreakFlow(statement.label), s)
    [] statement.node = "ContinueStatement" -> Flow(nonReturnContinueFlow(statement.label), s)
    [] OTHER -> Nothing(statement, s)

(* The return of a statement list.                                         *)
ReturnedValue(statement, s) ==
  LET value == Evaluate("int", statement.value, s)
  IN  CASE statement.value.node = "Absent" -> Returns(0, s)
        [] statement.value.node # "Absent" /\ value.ok -> Returns(value.val[2], value.scope)
        [] OTHER -> GivesUp(s)

(* A block is searched for a return first, then run for what it does.      *)
returnCodeFromBlock(statement, s) ==
  LET value == ReturnCode(statement.body, s)
  IN  CASE value.ok -> Returns(value.val[2], value.scope)
        [] ~value.ok /\ statementContainsReturn(statement) -> GivesUp(s)
        [] OTHER -> HandledAs(Apply(statement, s), {NoFlow})

returnCodeFromStatement(statement, s) ==
  LET returns == statementContainsReturn(statement)
      Step(outcome, blocks, t) == Blocking(outcome, blocks \/ returns, Guess(t, "passed"))
      while == returnCodeFromWhile(statement, s)
      for == returnCodeFromFor(statement, s)
      do == returnCodeFromDoWhile(statement, s)
      if == returnCodeFromIf(statement, s)
      switch == returnCodeFromSwitch(statement, s)
      labeled == returnCodeFromLabeled(statement, s)
      try == applyTrySideEffects(statement, s)
  IN  CASE statement.node = "VariableDecl" -> Handled(applyVariableDecl(statement, s))
        [] statement.node = "AssignmentStatement" -> Handled(applyAssignmentStatement(statement, s))
        [] statement.node = "ExpressionStatement" -> Handled(applyExpressionStatement(statement, s))
        [] statement.node = "ReturnStatement" -> ReturnedValue(statement, s)
        [] statement.node = "ThrowStatement" -> GivesUp(s)
        [] statement.node = "BlockStatement" -> returnCodeFromBlock(statement, s)
        [] statement.node = "LabeledStatement" -> Step(labeled, FALSE, labeled.scope)
        [] statement.node = "IfStatement" ->
             Blocking(if, ifBlocksFollowing(statement), Guess(if.scope, "passed"))
        [] statement.node = "WhileStatement" ->
             Step(while, whileBlocksFollowing(statement, while.scope),
                  LoopCondition(statement, while.scope).scope)
        [] statement.node = "ForStatement" ->
             Step(for, forBlocksFollowing(statement, for.scope), for.scope)
        [] statement.node = "DoWhileStatement" ->
             Step(do, doWhileBlocksFollowing(statement, do.scope), do.scope)
        [] statement.node = "SwitchStatement" ->
             Blocking(switch, switchBlocksFollowing(statement), switch.scope)
        [] statement.node = "TryStatement" -> Step(try, FALSE, try.scope)
        [] OTHER -> Handled(Guess(s, "jump"))

(* Mutant: the search goes on behind a statement it gave up on.            *)
SearchGoesOn(statements, s) ==
  FoldLeft(LAMBDA done, statement :
             IF done.status # "returns" THEN returnCodeFromStatement(statement, done.scope)
             ELSE done,
           Handled(s), statements)

SearchReturn(statements, s) ==
  FoldLeft(LAMBDA done, statement :
             IF done.status = "handled" THEN returnCodeFromStatement(statement, done.scope)
             ELSE done,
           Handled(s), statements)

returnCodeFromStatements(statements, s) ==
  LET search == SearchReturn(statements, s)
  IN  IF search.status = "returns"
      THEN Yes(Number(search.code), WithGuesses(s, search.scope)) ELSE No(s)

MainReturnCode(program) == returnCodeFromStatements(program, returnScope)

----------------------------------------------------------------------------
(* The evaluators of statements by name.                                   *)
Truth(b, s) == IF b THEN Yes(Undefined, s) ELSE No(s)

EvaluateStatement(which, e, s) ==
  CASE which = "apply" -> applyNonReturnStatement(e, s)
    [] which = "returnCode" -> returnCodeFromStatements(e.body, s)
    [] which = "untilThrow" -> applyTryStatementUntilThrow(e, s)
    [] which = "labeledBreak" -> applyLabeledBreakStatement(e.body, e.label, s)
    [] which = "containsReturn" -> Truth(statementContainsReturn(e), s)
    [] which = "declared" -> Yes(DeclaredNames(e), s)
    [] which = "declareScalar" -> applyScalarVariableDecl(e.name, e.value, s)
    [] OTHER -> EvaluateExpression(which, e, s)
====
