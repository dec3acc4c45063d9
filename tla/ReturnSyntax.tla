---- MODULE ReturnSyntax ----
(***************************************************************************)
(* Programs as the parser hands them to the passes: one constructor per    *)
(* node type, with the fields the return-code evaluator reads.  A text is  *)
(* a sequence of characters; a word nobody takes apart ("number", "true")  *)
(* counts as one.  A template is the sequence of its texts and expressions.*)
(***************************************************************************)
EXTENDS Integers, Sequences

Absent == [node |-> "Absent"]

----------------------------------------------------------------------------
(* Expressions.                                                            *)
Identifier(x) == [node |-> "Identifier", name |-> x]
NumberLiteral(n) == [node |-> "NumberLiteral", number |-> n]
BigIntLiteral(n) == [node |-> "BigIntLiteral", number |-> n]
StringLiteral(t) == [node |-> "StringLiteral", text |-> t]
BooleanLiteral(b) == [node |-> "BooleanLiteral", truth |-> b]
NullLiteral == [node |-> "NullLiteral"]
UndefinedLiteral == [node |-> "UndefinedLiteral"]
TemplateLiteral(parts) == [node |-> "TemplateLiteral", parts |-> parts]

BinaryExpression(op, l, r) ==
  [node |-> "BinaryExpression", op |-> op, left |-> l, right |-> r]
ComparisonExpression(op, l, r) ==
  [node |-> "ComparisonExpression", op |-> op, left |-> l, right |-> r]
LogicalExpression(op, l, r) ==
  [node |-> "LogicalExpression", op |-> op, left |-> l, right |-> r]
NullishCoalesceExpression(l, r) ==
  [node |-> "NullishCoalesceExpression", left |-> l, right |-> r]
ConditionalExpression(c, t, f) ==
  [node |-> "ConditionalExpression", condition |-> c, consequent |-> t, alternative |-> f]
CommaExpression(l, r) == [node |-> "CommaExpression", left |-> l, right |-> r]
UnaryExpression(op, r) == [node |-> "UnaryExpression", op |-> op, right |-> r]
UpdateExpression(op, t, prefix) ==
  [node |-> "UpdateExpression", op |-> op, target |-> t, prefix |-> prefix]
TypeofExpression(e) == [node |-> "TypeofExpression", value |-> e]
InstanceofExpression(l, r) == [node |-> "InstanceofExpression", left |-> l, right |-> r]

InvokeExpression(callee, arguments, optional) ==
  [node |-> "InvokeExpression", callee |-> callee, arguments |-> arguments,
   optional |-> optional]
NewExpression(callee, arguments) ==
  [node |-> "NewExpression", callee |-> callee, arguments |-> arguments]
IndexExpression(t, i, optional) ==
  [node |-> "IndexExpression", target |-> t, index |-> i, optional |-> optional]
MemberExpression(t, p, optional) ==
  [node |-> "MemberExpression", target |-> t, property |-> p, optional |-> optional]

Parameter(x, default) == [name |-> x, default |-> default]
FunctionExpression(x, params, body, expression) ==
  [node |-> "FunctionExpression", name |-> x, params |-> params, body |-> body,
   expression |-> expression]

(* A property of an object literal: a key known by its text, a computed    *)
(* one, or the properties of another object (key Absent).                  *)
ObjectProperty(key, value) == [key |-> key, value |-> value]
ObjectLiteral(properties) == [node |-> "ObjectLiteral", properties |-> properties]
ArrayLiteral(elements) == [node |-> "ArrayLiteral", elements |-> elements]
SpreadExpression(e) == [node |-> "SpreadExpression", value |-> e]

----------------------------------------------------------------------------
(* Statements.                                                             *)
VariableDecl(x, e) == [node |-> "VariableDecl", name |-> x, value |-> e]
AssignmentStatement(op, t, e) ==
  [node |-> "AssignmentStatement", op |-> op, target |-> t, value |-> e]
ExpressionStatement(e) == [node |-> "ExpressionStatement", value |-> e]
BlockStatement(body) == [node |-> "BlockStatement", body |-> body]
ReturnStatement(e) == [node |-> "ReturnStatement", value |-> e]
ThrowStatement(e) == [node |-> "ThrowStatement", value |-> e]
IfStatement(c, t, f) ==
  [node |-> "IfStatement", condition |-> c, consequence |-> t, alternative |-> f]
LabeledStatement(l, body) == [node |-> "LabeledStatement", label |-> l, body |-> body]
SwitchCase(t, body) == [test |-> t, consequent |-> body]
SwitchStatement(d, cases, default) ==
  [node |-> "SwitchStatement", discriminant |-> d, cases |-> cases, default |-> default]
BreakStatement(l) == [node |-> "BreakStatement", label |-> l]
ContinueStatement(l) == [node |-> "ContinueStatement", label |-> l]
WhileStatement(c, body) == [node |-> "WhileStatement", condition |-> c, body |-> body]
DoWhileStatement(body, c) == [node |-> "DoWhileStatement", condition |-> c, body |-> body]
ForStatement(init, c, update, body) ==
  [node |-> "ForStatement", init |-> init, condition |-> c, update |-> update,
   body |-> body]
TryStatement(body, x, handler, final) ==
  [node |-> "TryStatement", body |-> body, catchName |-> x, handler |-> handler,
   final |-> final]
====
