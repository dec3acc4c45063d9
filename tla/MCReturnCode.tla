---- MODULE MCReturnCode ----
(***************************************************************************)
(* The return-code evaluator on programs over two names, the name of a     *)
(* parameter and the name of its counters: one of six openings, continued  *)
(* with any two of the statements below.  Among these are statements the   *)
(* evaluator follows, and for each of its guesses statements that bring it *)
(* about.                                                                  *)
(***************************************************************************)
EXTENDS ReturnCode

MCAlphabet == <<"0", "1", "2", "3", "4", "5", "6", "7", "8", "9", "a">>

X == Identifier("x")
Y == Identifier("y")
P == Identifier("p")
N(n) == NumberLiteral(n)
A == StringLiteral(<<"a">>)
Two2 == StringLiteral(<<"2">>)
Str(t) == [node |-> "Text", text |-> t]

Word(w) == StringLiteral(<<w>>)
Sum(l, r) == BinaryExpression("+", l, r)
Is(l, r) == ComparisonExpression("===", l, r)
Like(l, r) == ComparisonExpression("==", l, r)
Below(l, r) == ComparisonExpression("<", l, r)
Let(x, e) == VariableDecl(x, e)
Set(x, e) == AssignmentStatement("=", Identifier(x), e)
If(c, t, f) == IfStatement(c, t, f)
Choose(c, t, f) == ConditionalExpression(c, t, f)
Element == IndexExpression(Y, N(0), FALSE)
Divided(by) == Set("x", BinaryExpression("/", X, N(by)))
Returning(e) == <<ReturnStatement(e)>>
Increment == ExpressionStatement(UpdateExpression("++", X, FALSE))
Break == BreakStatement("")
Called(params, body, arguments) ==
  InvokeExpression(FunctionExpression("", params, body, Absent), arguments, FALSE)

(* What the two names begin with.                                          *)
MCOpenings ==
  { <<Let("x", N(1)), Let("y", Two2)>>,
    <<Let("x", N(2)), Let("y", ArrayLiteral(<<X>>))>>,
    <<Let("x", A), Let("y", NullLiteral)>>,
    <<Let("y", BooleanLiteral(TRUE)), Let("x", N(0))>>,
    <<Let("x", BigIntLiteral(2)), Let("y", N(3))>>,
    <<Let("x", FunctionExpression("", <<>>, <<>>, Absent)), Let("y", X)>> }

(* Assignments and expressions.                                            *)
Plain ==
  { Set("x", Y),
    Set("y", Sum(X, Y)),
    Set("y", IndexExpression(ArrayLiteral(<<X, N(2)>>), N(0), FALSE)),
    Set("y", ObjectLiteral(<<ObjectProperty(Str(<<"a">>), X)>>)),
    If(Is(TypeofExpression(Y), Word("number")),
       <<AssignmentStatement("+=", Y, N(1))>>, <<>>),
    AssignmentStatement("??=", Y, N(3)),
    AssignmentStatement("&&=", Y, NullLiteral),
    Increment,
    ExpressionStatement(LogicalExpression("&&", Below(X, N(2)), UpdateExpression("--", X, TRUE))),
    Set("x", Called(<<Parameter("p", Absent)>>,
                    <<Let("x", Sum(P, N(1))), ReturnStatement(X)>>, <<X>>)) }

(* Statements with statements in them.                                     *)
Nested ==
  { If(Is(X, N(2)), <<Set("y", NullLiteral)>>, <<Set("x", N(2))>>),
    WhileStatement(BooleanLiteral(TRUE), <<Increment, Break>>),
    WhileStatement(Below(X, N(3)), <<Increment>>),
    LabeledStatement("l", BlockStatement(<<Set("y", A),
                          If(Like(X, N(1)), <<BreakStatement("l")>>, <<>>), Set("y", N(2))>>)),
    LabeledStatement("l", WhileStatement(BooleanLiteral(TRUE),
                          <<WhileStatement(BooleanLiteral(TRUE), <<Set("x", N(8)), BreakStatement("l")>>)>>)),
    SwitchStatement(TypeofExpression(X),
                    <<SwitchCase(Word("number"), <<Set("y", N(1)), Break>>),
                      SwitchCase(Word("string"), <<Set("y", N(2))>>)>>, <<Set("x", N(0))>>),
    SwitchStatement(TypeofExpression(Y),
                    <<SwitchCase(Word("string"), <<ReturnStatement(N(3))>>)>>, <<Increment>>),
    TryStatement(<<Increment, ThrowStatement(X)>>, "y", <<Set("x", N(5)), Set("y", N(1))>>, <<>>),
    TryStatement(<<Set("y", N(7))>>, "x", <<Set("x", N(9))>>, <<Increment>>),
    TryStatement(<<TryStatement(<<ThrowStatement(X)>>, "", <<>>, <<Set("x", N(6))>>)>>, "p",
                 <<Set("y", N(1))>>, <<>>),
    DoWhileStatement(<<Set("x", N(4))>>, BooleanLiteral(FALSE)),
    ForStatement(Absent, Below(X, N(2)), Absent, <<ReturnStatement(N(6))>>),
    ForStatement(Set("x", N(0)), Is(X, N(0)), Increment, <<Set("y", X), Break>>),
    BlockStatement(<<Set("x", N(3)), If(Y, <<ReturnStatement(X)>>, <<>>)>>),
    BlockStatement(Returning(Element)) }

Returned ==
  { X,
    Choose(Like(Y, N(2)), N(7), N(8)),
    Choose(Is(TypeofExpression(Y), Word("string")), N(1), N(2)),
    Choose(Like(TemplateLiteral(<<Str(<<"a">>), X>>), Sum(A, Y)), N(3), N(4)),
    NullishCoalesceExpression(Y, N(1)),
    Choose(Is(X, Y), N(5), N(6)),
    Choose(ComparisonExpression("!=", Y, X), N(5), N(6)),
    Choose(Like(ArrayLiteral(<<>>), BooleanLiteral(FALSE)), X, N(9)),
    Choose(InstanceofExpression(X, Y), N(5), N(6)),
    Choose(ComparisonExpression("in", X, Y), N(5), N(6)),
    Choose(LogicalExpression("||", UnaryExpression("!", Y), X), N(5), N(6)),
    Called(<<Parameter("p", X)>>, <<Let("y", N(3)), ReturnStatement(Sum(P, Y))>>, <<>>),
    BinaryExpression("*", UpdateExpression("++", X, TRUE), X),
    LogicalExpression("||", Below(Y, X), UpdateExpression("--", X, FALSE)),
    MemberExpression(ObjectLiteral(<<ObjectProperty(Str(<<"a">>), X), ObjectProperty(Y, N(1))>>),
                     <<"a">>, FALSE),
    MemberExpression(Y, <<"length">>, TRUE),
    IndexExpression(ArrayLiteral(<<SpreadExpression(ArrayLiteral(<<Y, X>>)), N(4)>>), X, FALSE),
    CommaExpression(UpdateExpression("++", X, FALSE), BinaryExpression("%", X, N(2))),
    NullishCoalesceExpression(InvokeExpression(Y, <<>>, TRUE), UnaryExpression("-", X)),
    Choose(UnaryExpression("delete", MemberExpression(Y, <<"a">>, FALSE)), X, N(0)) }

(* Statements that declare a name which is declared already.               *)
Redeclaring ==
  { BlockStatement(<<Let("x", N(9))>>),
    ForStatement(Let("y", N(0)), Below(Y, N(0)), Absent, <<>>) }

(* Statements that make the evaluator guess.                               *)
Stale ==
  { Divided(0), Set("x", Element), AssignmentStatement("+=", Y, N(1)), Let("p", Element),
    ExpressionStatement(Called(<<>>, <<Set("x", N(3)), ReturnStatement(X)>>, <<>>)) }

Passed ==
  { If(Like(X, N(2)), Returning(Y), <<>>),
    If(Is(X, N(1)), <<ThrowStatement(X)>>, <<>>),
    If(Element, <<Set("x", N(3))>>, <<Set("x", N(4))>>) }

Looped ==
  { BlockStatement(<<WhileStatement(Below(X, N(3)), <<Increment>>)>>),
    TryStatement(<<WhileStatement(Below(X, N(3)), <<Increment>>), ThrowStatement(Y)>>, "p", <<>>,
                 <<>>) }

Branched == {If(UnaryExpression("!", Element), Returning(N(1)), Returning(N(2)))}

Jumped ==
  { WhileStatement(BooleanLiteral(TRUE),
                   <<If(Is(X, N(1)), <<Break>>, <<>>), ReturnStatement(N(7))>>),
    ForStatement(Set("x", N(0)), Below(X, N(2)), Increment,
                 <<If(Is(X, N(0)), <<ContinueStatement("")>>, <<>>), ReturnStatement(X)>>) }

Switched ==
  { SwitchStatement(Is(X, N(1)), <<SwitchCase(N(3), Returning(N(1)))>>, Returning(N(2))),
    SwitchStatement(X, <<SwitchCase(Element, Returning(N(1)))>>, Returning(N(2))) }

Compared ==
  { If(Is(BooleanLiteral(TRUE), LogicalExpression("&&", Y, Below(X, N(3)))),
       Returning(N(1)), Returning(N(2))) }

Rounded == {Divided(2)}

Reset ==
  {Set("y", Called(<<>>, <<Let("next", N(1)),
                           ReturnStatement(FunctionExpression("", <<>>, <<>>, Absent))>>, <<>>))}

Guessed ==
  Stale \cup Passed \cup Looped \cup Branched \cup Jumped \cup Switched \cup Compared
    \cup Rounded \cup Reset \cup Redeclaring

MCStatements == Plain \cup Nested \cup Guessed \cup {ReturnStatement(e) : e \in Returned}
====
