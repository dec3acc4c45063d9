---- MODULE ReturnControl ----
(***************************************************************************)
(* Loops, labels, switches and tries in the return-code evaluator, and the *)
(* lists of statements they are made of.                                   *)
(***************************************************************************)
EXTENDS ReturnStatements

(* Loops.  A condition that is not there holds.                            *)
LoopCondition(statement, s) ==
  IF statement.condition.node = "Absent" THEN Yes(Bool(TRUE), s)
  ELSE Evaluate("bool", statement.condition, s)

ForCondition(statement, s) == LoopCondition(statement, Apply(statement.init, s).scope)

applyLoopBreakSideEffects(body, source, target) ==
  LET flow == ApplyAll(body, source)
  IN  IF flow.val = nonReturnFlowBreak THEN Handled(flow.scope) ELSE Unhandled(target)

returnCodeFromWhile(statement, s) ==
  LET condition == LoopCondition(statement, s)
      t == condition.scope
      value == ReturnCode(statement.body, t)
  IN  CASE ~condition.ok -> Unhandled(t)
        [] Fails(condition) -> Handled(t)
        [] Holds(condition) /\ value.ok -> Returns(value.val[2], value.scope)
        [] OTHER -> applyLoopBreakSideEffects(statement.body, t, t)

(* The names of the init stay in the scope only when the loop is handled.  *)
returnCodeFromFor(statement, s) ==
  LET condition == ForCondition(statement, s)
      t == condition.scope
      value == ReturnCode(statement.body, t)
  IN  CASE ~condition.ok -> Unhandled(t)
        [] Fails(condition) -> Handled(t)
        [] Holds(condition) /\ value.ok -> Returns(value.val[2], WithGuesses(s, value.scope))
        [] OTHER -> applyLoopBreakSideEffects(statement.body, t, s)

(* One pass of a do loop, and the condition after it.                      *)
doWhileBlocksFollowing(statement, s) ==
  LET flow == ApplyAll(statement.body, s)
  IN  /\ flow.val \in {NoFlow, nonReturnFlowContinue}
      /\ Holds(LoopCondition(statement, flow.scope))

returnCodeFromDoWhile(statement, s) ==
  LET value == ReturnCode(statement.body, s)
      flow == ApplyAll(statement.body, s)
      condition == LoopCondition(statement, flow.scope)
      quiet == ~value.ok /\ ~ContainsReturn(statement.body)
  IN  CASE value.ok -> Returns(value.val[2], value.scope)
        [] quiet /\ flow.val = nonReturnFlowBreak -> Handled(flow.scope)
        [] quiet /\ flow.val \in {NoFlow, nonReturnFlowContinue} /\ Fails(condition) ->
             Handled(condition.scope)
        [] OTHER -> Unhandled(s)

(* A pass that ends in a jump to a label outside is kept.                  *)
applyLoopLabeledFlow(body, s) ==
  LET flow == ApplyAll(body, s)
  IN  IF flow.val[2] = "" THEN Went(Guess(s, "loop")) ELSE flow

LoopHandled(outcome) == outcome.status \in {"returns", "handled"}

(* The scope a loop leaves that is run for what it does.                   *)
LoopScope(outcome) == GuessIf(outcome.status # "handled", "passed", outcome.scope)

applyNonReturnWhile(statement, s) ==
  LET loop == returnCodeFromWhile(statement, s)
      again == LoopCondition(statement, loop.scope)
  IN  CASE LoopHandled(loop) -> Went(LoopScope(loop))
        [] ~LoopHandled(loop) /\ Holds(again) -> applyLoopLabeledFlow(statement.body, again.scope)
        [] OTHER -> Went(Guess(again.scope, "loop"))

applyNonReturnFor(statement, s) ==
  LET loop == returnCodeFromFor(statement, s)
      again == ForCondition(statement, loop.scope)
      flow == applyLoopLabeledFlow(statement.body, again.scope)
  IN  CASE LoopHandled(loop) \/ Fails(again) -> Went(LoopScope(loop))
        [] ~LoopHandled(loop) /\ ~again.ok -> Went(Guess(again.scope, "loop"))
        [] OTHER -> IF flow.ok THEN Went(LoopScope(loop)) ELSE flow

applyNonReturnDoWhile(statement, s) ==
  LET loop == returnCodeFromDoWhile(statement, s)
  IN  IF LoopHandled(loop) THEN Went(LoopScope(loop))
      ELSE applyLoopLabeledFlow(statement.body, loop.scope)

(* Whether the condition holds is asked again, in the scope that was left. *)
whileBlocksFollowing(statement, s) == Holds(LoopCondition(statement, s))

forBlocksFollowing(statement, s) ==
  statement.condition.node = "Absent" \/ Holds(ForCondition(statement, s))

----------------------------------------------------------------------------
(* Labels.  A break to the label is looked for along the path that is      *)
(* certainly taken; the scope is kept only if it is found.                 *)
LabeledBreak(statement, label, s) == Evaluate("labeledBreak", LabeledStatement(label, statement), s)

BreaksOff(how, s) == [ok |-> FALSE, val |-> <<how, "">>, scope |-> s]

applyLabeledBreakStep(label, done, statement) ==
  LET break == LabeledBreak(statement, label, done.scope)
      flow == Apply(statement, break.scope)
  IN  CASE ~done.ok -> done
        [] done.ok /\ break.ok -> BreaksOff("found", break.scope)
        [] OTHER -> IF flow.ok THEN flow ELSE BreaksOff("missed", flow.scope)

applyLabeledBreakStatements(statements, label, s) ==
  LET end == FoldLeft(LAMBDA done, statement : applyLabeledBreakStep(label, done, statement),
                      Went(s), statements)
  IN  IF end.val = <<"found", "">> THEN Yes(Undefined, end.scope) ELSE No(s)

(* The consequent of the first case that equals the discriminant, with all *)
(* that follow it; or the default.  The discriminant and the cases are     *)
(* evaluated as the first kind the discriminant has.                       *)
switchConsequentFromCase(statement, i) ==
  FoldLeft(LAMBDA all, c : all \o c.consequent, <<>>,
           SubSeq(statement.cases, i, Len(statement.cases))) \o statement.default

Discriminant(statement, s) ==
  FoldLeft(LAMBDA found, kind :
             IF found.ok THEN found
             ELSE LET value == Evaluate(kind, statement.discriminant, found.scope)
                  IN  IF ~value.ok THEN value
                      ELSE Yes(<<kind, value.val>>, GuessIf(kind = "bool", "switch", value.scope)),
           No(s), <<"int", "bigint", "nullish", "string", "bool">>)

MatchingCase(statement, discriminant) ==
  FoldLeft(LAMBDA found, i :
             IF found.ok THEN found
             ELSE LET value == Evaluate(discriminant.val[1], statement.cases[i].test, found.scope)
                      kind == evaluatePrimitiveKind(statement.cases[i].test, found.scope)
                      known == value.ok \/ (kind.ok /\ kind.scope.vals = value.scope.vals)
                  IN  IF value.ok /\ value.val = discriminant.val[2] THEN Yes(i, value.scope)
                      ELSE No(GuessIf(~known, "switch", value.scope)),
           No(discriminant.scope), [i \in DOMAIN statement.cases |-> i])

matchingSwitchConsequent(statement, s) ==
  LET discriminant == Discriminant(statement, s)
      case == MatchingCase(statement, discriminant)
  IN  CASE ~discriminant.ok -> No(Guess(discriminant.scope, "passed"))
        [] discriminant.ok /\ case.ok ->
             Yes(switchConsequentFromCase(statement, case.val), case.scope)
        [] OTHER -> IF statement.default # <<>> THEN Yes(statement.default, case.scope)
                    ELSE No(case.scope)

applyLabeledBreakScopedStatements(statements, label, s) ==
  clone(applyLabeledBreakStatements(statements, label, s), s)

applyLabeledBreakIf(statement, label, s) ==
  LET condition == Evaluate("bool", statement.condition, s)
  IN  IF condition.ok
      THEN applyLabeledBreakScopedStatements(Branch(statement, condition), label, condition.scope)
      ELSE condition

applyLabeledBreakSwitch(statement, label, s) ==
  LET consequent == matchingSwitchConsequent(statement, s)
  IN  IF consequent.ok
      THEN applyLabeledBreakScopedStatements(consequent.val, label, consequent.scope)
      ELSE consequent

applyLabeledBreakWhile(statement, label, s) ==
  LET condition == LoopCondition(statement, s)
  IN  IF Holds(condition)
      THEN applyLabeledBreakScopedStatements(statement.body, label, condition.scope)
      ELSE No(condition.scope)

applyLabeledBreakFor(statement, label, s) ==
  LET condition == ForCondition(statement, s)
  IN  IF Holds(condition)
      THEN clone(applyLabeledBreakStatements(statement.body, label, condition.scope), s)
      ELSE No(s)

applyLabeledBreakDoWhile(statement, label, s) ==
  applyLabeledBreakScopedStatements(statement.body, label, s)

applyLabeledBreakNestedStatement(statement, label, s) ==
  IF statement.label = label THEN No(s)
  ELSE clone(LabeledBreak(statement.body, label, s), s)

applyLabeledBreakStatement(statement, label, s) ==
  CASE statement.node = "BreakStatement" ->
         IF statement.label = label THEN Yes(Undefined, s) ELSE No(s)
    [] statement.node = "BlockStatement" ->
         applyLabeledBreakScopedStatements(statement.body, label, s)
    [] statement.node = "IfStatement" -> applyLabeledBreakIf(statement, label, s)
    [] statement.node = "SwitchStatement" -> applyLabeledBreakSwitch(statement, label, s)
    [] statement.node = "WhileStatement" -> applyLabeledBreakWhile(statement, label, s)
    [] statement.node = "ForStatement" -> applyLabeledBreakFor(statement, label, s)
    [] statement.node = "DoWhileStatement" -> applyLabeledBreakDoWhile(statement, label, s)
    [] statement.node = "LabeledStatement" ->
         applyLabeledBreakNestedStatement(statement, label, s)
    [] OTHER -> No(s)

applyNonReturnLabeled(statement, s) ==
  LET flow == Apply(statement.body, s)
      continues == flow.val[1] = "continue"
  IN  IF flow.val[2] = statement.label THEN Went(GuessIf(continues, "jump", flow.scope)) ELSE flow

returnCodeFromLabeled(statement, s) ==
  LET value == ReturnCode(<<statement.body>>, s)
      quiet == ~value.ok /\ ~ContainsReturn(<<statement.body>>)
      break == applyLabeledBreakStatement(statement.body, statement.label, s)
      flow == applyNonReturnLabeled(statement, break.scope)
  IN  CASE value.ok -> Returns(value.val[2], value.scope)
        [] quiet /\ break.ok -> Handled(break.scope)
        [] quiet /\ ~break.ok /\ flow.ok -> Handled(flow.scope)
        [] quiet /\ ~break.ok /\ ~flow.ok -> Unhandled(flow.scope)
        [] OTHER -> Unhandled(s)

----------------------------------------------------------------------------
(* Switches.  The statements of the case are searched one by one, each run *)
(* for what it does before the next.                                       *)
returnCodeFromSwitchStep(done, statement) ==
  LET value == ReturnCode(<<statement>>, done.scope)
      flow == Apply(statement, done.scope)
  IN  CASE done.status # "handled" -> done
        [] done.status = "handled"
             /\ statement.node \in {"BreakStatement", "ContinueStatement"} -> GivesUp(done.scope)
        [] OTHER -> IF value.ok THEN Returns(value.val[2], value.scope)
                    ELSE IF flow.ok THEN Handled(flow.scope) ELSE GivesUp(done.scope)

returnCodeFromSwitchStatements(statements, s) ==
  FoldLeft(returnCodeFromSwitchStep, Handled(s), statements)

returnCodeFromSwitch(statement, s) ==
  LET consequent == matchingSwitchConsequent(statement, s)
      search == returnCodeFromSwitchStatements(consequent.val, consequent.scope)
  IN  CASE ~consequent.ok -> Unhandled(consequent.scope)
        [] consequent.ok /\ search.status = "returns" ->
             Returns(search.code, WithGuesses(consequent.scope, search.scope))
        [] OTHER -> HandledAs(ApplyAll(consequent.val, consequent.scope),
                              {NoFlow, nonReturnFlowBreak})

applyNonReturnSwitch(statement, s) ==
  LET consequent == matchingSwitchConsequent(statement, s)
      flow == ApplyAll(consequent.val, consequent.scope)
  IN  CASE ~consequent.ok -> Went(consequent.scope)
        [] consequent.ok /\ flow.val = nonReturnFlowBreak -> Went(flow.scope)
        [] OTHER -> flow

switchBlocksFollowing(statement) == \E body \in CaseBodies(statement) : ContainsReturn(body)
====
