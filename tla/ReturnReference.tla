---- MODULE ReturnReference ----
(***************************************************************************)
(* What a program means, as far as the return-code evaluator is concerned: *)
(* expressions have one value, statements run in order, loops run to their *)
(* end, names are scoped by blocks.  A meaning is "beyond" this module     *)
(* when it depends on something it leaves out (calls of functions known by *)
(* name, exceptions raised by expressions, arithmetic with numbers that    *)
(* are not whole), and "endless" when a loop takes more than Passes.       *)
(***************************************************************************)
EXTENDS ReturnScope, ReturnSyntax

CONSTANT Passes         \* the passes of a loop after which it is called endless

(* Objects have their properties in a heap; arrays have a length as well.  *)
World == [vals |-> [x \in Names |-> Unknown], heap |-> <<>>, funcs |-> 0]

Val(v, w) == [ok |-> TRUE, val |-> v, world |-> w]

Beyond(w) == [ok |-> FALSE, val |-> Unknown, world |-> w]

(* The outcome of one that may have no value.                              *)
AtMost(values, w) == IF values = <<>> THEN Beyond(w) ELSE Val(values[1], w)

Words(word) == Text(<<word>>)

Length == Words("length")

(* A number that is not whole: a fraction, an infinity, no number.         *)
Inexact == <<"inexact", 0>>

----------------------------------------------------------------------------
(* Values.                                                                 *)
IsReference(v) == Kind(v) \in {"object", "func"}

IsMissing(v) == Kind(v) = "nullish"

Truthy(v) == v \notin {Number(0), Big(0), Bool(FALSE), Text(<<>>), Null, Undefined}

(* The whole number a value stands for; none if it stands for none.        *)
WholeNumber(v) ==
  CASE Kind(v) \in {"int", "bigint"} -> <<v[2]>>
    [] Kind(v) = "string" -> parseLooseStringNumber(v[2])
    [] Kind(v) = "bool" -> <<IF v[2] THEN 1 ELSE 0>>
    [] v = Null -> <<0>>
    [] OTHER -> <<>>

HasText(v) == ~IsReference(v) /\ v # Inexact

AsText(v) ==
  CASE Kind(v) = "string" -> v[2]
    [] Kind(v) \in {"int", "bigint"} -> Itoa(v[2])
    [] Kind(v) = "bool" -> IF v[2] THEN <<"true">> ELSE <<"false">>
    [] OTHER -> <<v[2]>>

TypeOf(v) ==
  CASE Kind(v) \in {"int", "inexact"} -> "number"
    [] Kind(v) = "bool" -> "boolean"
    [] Kind(v) = "func" -> "function"
    [] v = Null -> "object"
    [] v = Undefined \/ v = Unknown -> "undefined"
    [] OTHER -> Kind(v)

(* Arithmetic on whole numbers that need not have a whole result.          *)
Whole(op, l, r) ==
  CASE op = "+" -> <<l + r>>
    [] op = "-" -> <<l - r>>
    [] op = "*" -> <<l * r>>
    [] op = "%" /\ r # 0 -> <<Remainder(l, r)>>
    [] op = "/" /\ r # 0 -> IF Remainder(l, r) = 0 THEN <<Quotient(l, r)>> ELSE <<>>
    [] op = "**" /\ r >= 0 -> <<Power(l, r)>>
    [] op = "**" /\ r < 0 /\ Magnitude(l) = 1 -> <<Power(l, -r)>>
    [] OTHER -> <<>>

Arithmetic(op, l, r) ==
  LET a == WholeNumber(l)
      b == WholeNumber(r)
      n == Whole(op, a[1], b[1])
      texts == op = "+" /\ "string" \in {Kind(l), Kind(r)}
      bigs == {Kind(l), Kind(r)} = {"bigint"}
  IN  CASE IsReference(l) \/ IsReference(r) \/ Inexact \in {l, r} -> <<>>
        [] ~IsReference(l) /\ ~IsReference(r) /\ Inexact \notin {l, r} /\ texts ->
             <<Text(AsText(l) \o AsText(r))>>
        [] bigs -> IF op = "/" /\ b[1] # 0 THEN <<Big(Quotient(a[1], b[1]))>>
                   ELSE IF n = <<>> THEN <<>> ELSE <<Big(n[1])>>
        [] OTHER ->
             IF texts \/ "bigint" \in {Kind(l), Kind(r)} THEN <<>>
             ELSE IF a = <<>> \/ b = <<>> \/ n = <<>> THEN <<Inexact>> ELSE <<Number(n[1])>>

(* Objects and functions are equal to themselves alone                     *)
(* (docs/types_and_values.md:21).                                          *)
LooselyEqual(l, r) ==
  IF IsMissing(l) \/ IsMissing(r) THEN IsMissing(l) /\ IsMissing(r)
  ELSE \/ Kind(l) = Kind(r) /\ l = r
       \/ /\ Kind(l) # Kind(r)
          /\ ~IsReference(l) /\ ~IsReference(r)
          /\ WholeNumber(l) # <<>> /\ WholeNumber(l) = WholeNumber(r)

Ordered(op, l, r) ==
  LET a == WholeNumber(l)
      b == WholeNumber(r)
  IN  IF Kind(l) = "string" /\ Kind(r) = "string" THEN compareTexts(op, l[2], r[2])
      ELSE a # <<>> /\ b # <<>> /\ compareNumbers(op, a[1], b[1])

Compare(op, l, r) ==
  CASE op \in {"===", "!=="} -> (l = r) = (op = "===")
    [] op \in {"==", "!="} -> LooselyEqual(l, r) = (op = "==")
    [] OTHER -> Ordered(op, l, r)

----------------------------------------------------------------------------
(* Expressions.                                                            *)
RECURSIVE Eval(_, _), Exec(_, _, _)

(* Two operands, in order, and what becomes of their values.               *)
Two(l, r, w, Combine(_, _, _)) ==
  LET left == Eval(l, w)
      right == Eval(r, left.world)
  IN  IF left.ok /\ right.ok THEN Combine(left.val, right.val, right.world) ELSE Beyond(w)

One(e, w, Use(_, _)) ==
  LET v == Eval(e, w) IN IF v.ok THEN Use(v.val, v.world) ELSE v

(* What follows from the truth of a value; an inexact number may be no      *)
(* number, which is false, or any other.                                   *)
Truly(e, w, Use(_, _)) ==
  One(e, w, LAMBDA v, u : IF v = Inexact THEN Beyond(u) ELSE Use(v, u))

(* The values of several expressions; those of a spread are all added.     *)
PropertiesOf(v, w) == IF Kind(v) = "object" THEN w.heap[v[2]] ELSE <<>>

ElementsOf(v, w) ==
  LET elements == SelectSeq(PropertiesOf(v, w), LAMBDA p : p[1] # Length)
  IN  [i \in DOMAIN elements |-> elements[i][2]]

Several(expressions, w) ==
  FoldLeft(LAMBDA list, e :
    CASE ~list.ok -> list
      [] list.ok /\ e.node = "Absent" -> Val(Append(list.val, Undefined), list.world)
      [] list.ok /\ e.node = "SpreadExpression" ->
           One(e.value, list.world, LAMBDA v, u : Val(list.val \o ElementsOf(v, u), u))
      [] OTHER -> One(e, list.world, LAMBDA v, u : Val(Append(list.val, v), u)),
    Val(<<>>, w), expressions)

Allocate(props, w) ==
  Val(Obj(Len(w.heap) + 1), [w EXCEPT !.heap = Append(@, props)])

Array(values, w) ==
  Allocate([i \in DOMAIN values |-> <<Text(Itoa(i - 1)), values[i]>>]
             \o <<<<Length, Number(Len(values))>>>>, w)

KeyOf(property, w) ==
  IF property.key.node = "Text" THEN Val(Text(property.key.text), w) ELSE Eval(property.key, w)

Property(list, property) ==
  LET key == KeyOf(property, list.world)
  IN  CASE property.key.node = "Absent" ->
             One(property.value, list.world,
                 LAMBDA v, u : Val(list.val \o PropertiesOf(v, u), u))
        [] property.key.node # "Absent" /\ key.ok /\ HasText(key.val) ->
             One(property.value, key.world,
                 LAMBDA v, u : Val(Append(list.val, <<Text(AsText(key.val)), v>>), u))
        [] OTHER -> Beyond(list.world)

Object(properties, w) ==
  LET props == FoldLeft(LAMBDA list, p : IF list.ok THEN Property(list, p) ELSE list,
                        Val(<<>>, w), properties)
  IN  IF props.ok THEN Allocate(props.val, props.world) ELSE props

(* The property of a value under a key.                                    *)
Lookup(v, key, w) ==
  LET props == PropertiesOf(v, w)
      at == SelectLastInSeq(props, LAMBDA p : p[1] = key)
      index == WholeNumber(key)
  IN  CASE Kind(v) = "object" -> Val(IF at = 0 THEN Undefined ELSE props[at][2], w)
        [] Kind(v) = "string" /\ key = Length -> Val(Number(Len(v[2])), w)
        [] Kind(v) = "string" /\ key # Length /\ index # <<>> ->
             Val(IF index[1] + 1 \in DOMAIN v[2] THEN Text(<<v[2][index[1] + 1]>>) ELSE Undefined,
                 w)
        [] OTHER -> Beyond(w)

Access(e, w) ==
  LET target == Eval(e.target, w)
      key == IF e.node = "MemberExpression" THEN Val(Text(e.property), target.world)
             ELSE Eval(e.index, target.world)
  IN  CASE target.ok /\ IsMissing(target.val) /\ e.optional -> Val(Undefined, target.world)
        [] target.ok /\ ~IsMissing(target.val) /\ key.ok /\ HasText(key.val) ->
             Lookup(target.val, Text(AsText(key.val)), key.world)
        [] OTHER -> Beyond(w)

(* Calls of a function that stands where it is called.                     *)
RECURSIVE Callee(_, _)
Callee(e, w) ==
  CASE e.node = "FunctionExpression" -> Val(e, w)
    [] e.node = "CommaExpression" -> One(e.left, w, LAMBDA v, u : Callee(e.right, u))
    [] e.node = "ConditionalExpression" ->
         Truly(e.condition, w, LAMBDA v, u : Callee(IF Truthy(v) THEN e.consequent
                                                   ELSE e.alternative, u))
    [] OTHER -> Beyond(w)

Put(w, x, v) == [w EXCEPT !.vals[x] = v]

Restore(names, before, w) ==
  [w EXCEPT !.vals = [x \in Names |-> IF x \in names THEN before.vals[x] ELSE w.vals[x]]]

Declared(statements) ==
  {statements[i].name : i \in {j \in DOMAIN statements : statements[j].node = "VariableDecl"}}

BindParameter(f, values, bound, i) ==
  LET p == f.params[i]
      v == IF i <= Len(values) THEN values[i] ELSE Undefined
  IN  IF v = Undefined /\ p.default.node # "Absent"
      THEN One(p.default, bound.world, LAMBDA d, u : Val(d, Put(u, p.name, d)))
      ELSE Val(v, Put(bound.world, p.name, v))

WithSelf(f, w) ==
  IF f.name = "" THEN w
  ELSE Put([w EXCEPT !.funcs = @ + 1], f.name, Func(w.funcs + 1))

Call(f, values, w) ==
  LET bound == FoldLeft(LAMBDA b, i : IF b.ok THEN BindParameter(f, values, b, i) ELSE b,
                        Val(Undefined, WithSelf(f, w)), [i \in DOMAIN f.params |-> i])
      body == IF f.expression.node # "Absent" THEN <<ReturnStatement(f.expression)>> ELSE f.body
      ran == Exec(BlockStatement(body), {}, bound.world)
      own == {f.params[i].name : i \in DOMAIN f.params} \cup ({f.name} \cap Names)
      value == IF ran.flow[1] = "return" THEN ran.val ELSE Undefined
  IN  IF bound.ok /\ ran.flow[1] \in {"none", "return"}
      THEN Val(value, Restore(own, w, ran.world)) ELSE Beyond(w)

Invoke(e, w) ==
  LET callee == Callee(e.callee, w)
      values == Several(e.arguments, callee.world)
      missing == Eval(e.callee, w)
  IN  CASE e.optional -> IF missing.ok /\ IsMissing(missing.val)
                         THEN Val(Undefined, missing.world) ELSE Beyond(w)
        [] ~e.optional /\ callee.ok /\ values.ok -> Call(callee.val, values.val, values.world)
        [] OTHER -> Beyond(w)

New(e, w) ==
  LET callee == Callee(e.callee, w)
      values == Several(e.arguments, callee.world)
  IN  IF /\ callee.ok /\ values.ok
         /\ callee.val.body = <<>> /\ callee.val.expression.node = "Absent"
      THEN Allocate(<<>>, values.world) ELSE Beyond(w)

Unary(op, v, w) ==
  LET n == WholeNumber(v)
  IN  CASE op = "!" /\ v # Inexact -> Val(Bool(~Truthy(v)), w)
        [] op = "void" -> Val(Undefined, w)
        [] op = "delete" -> Val(Bool(TRUE), w)
        [] Kind(v) = "bigint" /\ op = "-" -> Val(Big(-v[2]), w)
        [] Kind(v) = "bigint" /\ op = "~" -> Val(Big(-v[2] - 1), w)
        [] OTHER ->
             IF IsReference(v) \/ Kind(v) \in {"bigint", "inexact"} \/ n = <<>> THEN Beyond(w)
             ELSE Val(Number(CASE op = "-" -> -n[1] [] op = "+" -> n[1] [] op = "~" -> -n[1] - 1),
                      w)

Update(e, w) ==
  LET x == e.target.name
      old == w.vals[x]
      new == <<Kind(old), IF e.op = "++" THEN old[2] + 1 ELSE old[2] - 1>>
  IN  IF e.target.node = "Identifier" /\ Kind(old) \in {"int", "bigint"}
      THEN Val(IF e.prefix THEN new ELSE old, Put(w, x, new)) ELSE Beyond(w)

TextOfParts(parts, w) ==
  FoldLeft(LAMBDA text, part :
    CASE ~text.ok -> text
      [] text.ok /\ part.node = "Text" -> Val(Text(text.val[2] \o part.text), text.world)
      [] OTHER -> One(part, text.world, LAMBDA v, u :
                      IF HasText(v) THEN Val(Text(text.val[2] \o AsText(v)), u) ELSE Beyond(u)),
    Val(Text(<<>>), w), parts)

Short(op, v) ==
  CASE op = "&&" -> ~Truthy(v)
    [] op = "||" -> Truthy(v)
    [] op = "??" -> ~IsMissing(v)

Eval(e, w) ==
  CASE e.node = "Identifier" ->
         IF w.vals[e.name] = Unknown THEN Beyond(w) ELSE Val(w.vals[e.name], w)
    [] e.node = "NumberLiteral" -> Val(Number(e.number), w)
    [] e.node = "BigIntLiteral" -> Val(Big(e.number), w)
    [] e.node = "StringLiteral" -> Val(Text(e.text), w)
    [] e.node = "BooleanLiteral" -> Val(Bool(e.truth), w)
    [] e.node = "NullLiteral" -> Val(Null, w)
    [] e.node = "UndefinedLiteral" -> Val(Undefined, w)
    [] e.node = "TemplateLiteral" -> TextOfParts(e.parts, w)
    [] e.node = "BinaryExpression" ->
         Two(e.left, e.right, w, LAMBDA l, r, u : AtMost(Arithmetic(e.op, l, r), u))
    [] e.node = "ComparisonExpression" /\ e.op = "in" ->
         Two(e.left, e.right, w, LAMBDA l, r, u :
             IF Kind(r) # "object" \/ ~HasText(l) THEN Beyond(u)
             ELSE Val(Bool(\E i \in DOMAIN u.heap[r[2]] :
                             u.heap[r[2]][i][1] = Text(AsText(l))), u))
    [] e.node = "ComparisonExpression" /\ e.op # "in" ->
         Two(e.left, e.right, w, LAMBDA l, r, u :
             IF Inexact \in {l, r} THEN Beyond(u) ELSE Val(Bool(Compare(e.op, l, r)), u))
    [] e.node = "LogicalExpression" ->
         Truly(e.left, w, LAMBDA v, u : IF Short(e.op, v) THEN Val(v, u) ELSE Eval(e.right, u))
    [] e.node = "NullishCoalesceExpression" ->
         One(e.left, w, LAMBDA v, u : IF Short("??", v) THEN Val(v, u) ELSE Eval(e.right, u))
    [] e.node = "ConditionalExpression" ->
         Truly(e.condition, w, LAMBDA v, u :
             Eval(IF Truthy(v) THEN e.consequent ELSE e.alternative, u))
    [] e.node = "CommaExpression" -> One(e.left, w, LAMBDA v, u : Eval(e.right, u))
    [] e.node = "UnaryExpression" -> One(e.right, w, LAMBDA v, u : Unary(e.op, v, u))
    [] e.node = "UpdateExpression" -> Update(e, w)
    [] e.node = "TypeofExpression" -> One(e.value, w, LAMBDA v, u : Val(Words(TypeOf(v)), u))
    [] e.node = "InstanceofExpression" ->
         Two(e.left, e.right, w, LAMBDA l, r, u :
             IF IsReference(l) \/ Kind(r) # "func" THEN Beyond(u) ELSE Val(Bool(FALSE), u))
    [] e.node = "InvokeExpression" -> Invoke(e, w)
    [] e.node = "NewExpression" -> New(e, w)
    [] e.node \in {"MemberExpression", "IndexExpression"} -> Access(e, w)
    [] e.node = "FunctionExpression" ->
         Val(Func(w.funcs + 1), [w EXCEPT !.funcs = @ + 1])
    [] e.node = "ArrayLiteral" ->
         LET values == Several(e.elements, w)
         IN  IF values.ok THEN Array(values.val, values.world) ELSE values
    [] e.node = "ObjectLiteral" -> Object(e.properties, w)
    [] OTHER -> Beyond(w)

----------------------------------------------------------------------------
(* Statements.  A completion says where control goes, with the value that  *)
(* is returned or thrown.                                                  *)
Completion(flow, v, w) == [flow |-> flow, val |-> v, world |-> w]

Normal(w) == Completion(<<"none", "">>, Undefined, w)

Ends(c) == c.flow[1] # "none"

Abandon(flow, w) == Completion(<<flow, "">>, Undefined, w)

(* What a statement does with the value of an expression.                  *)
With(e, w, Use(_, _)) ==
  LET v == Eval(e, w) IN IF v.ok THEN Use(v.val, v.world) ELSE Abandon("beyond", w)

WithTruth(e, w, Use(_, _)) ==
  With(e, w, LAMBDA v, u : IF v = Inexact THEN Abandon("beyond", u) ELSE Use(v, u))

ExecList(statements, w) ==
  FoldLeft(LAMBDA c, s : IF Ends(c) THEN c ELSE Exec(s, {}, c.world), Normal(w), statements)

(* The names of a block end with it.                                       *)
Scoped(names, before, c) == [c EXCEPT !.world = Restore(names, before, @)]

ExecBlock(statements, w) == Scoped(Declared(statements), w, ExecList(statements, w))

OperatorOf(op) ==
  CASE op = "+=" -> "+" [] op = "-=" -> "-" [] op = "*=" -> "*" [] op = "/=" -> "/"
    [] op = "%=" -> "%" [] op = "**=" -> "**" [] op = "&&=" -> "&&" [] op = "||=" -> "||"
    [] op = "??=" -> "??"

ExecAssignment(s, w) ==
  LET x == s.target.name
      old == w.vals[x]
      op == OperatorOf(s.op)
  IN  CASE s.target.node # "Identifier" ->
             LET target == Eval(s.target.target, w)
                 key == IF s.target.node = "MemberExpression" THEN target
                        ELSE Eval(s.target.index, target.world)
             IN  IF s.op = "=" /\ target.ok /\ Kind(target.val) = "object" /\ key.ok
                 THEN With(s.value, key.world, LAMBDA v, u : Normal(u))
                 ELSE Abandon("beyond", w)
        [] s.target.node = "Identifier" /\ old = Unknown -> Abandon("beyond", w)
        [] s.target.node = "Identifier" /\ old # Unknown /\ s.op = "=" ->
             With(s.value, w, LAMBDA v, u : Normal(Put(u, x, v)))
        [] OTHER ->
             IF op \in {"&&", "||", "??"}
             THEN IF op # "??" /\ old = Inexact THEN Abandon("beyond", w)
                  ELSE IF Short(op, old) THEN Normal(w)
                  ELSE With(s.value, w, LAMBDA v, u : Normal(Put(u, x, v)))
             ELSE With(s.value, w, LAMBDA v, u :
                       IF Arithmetic(op, old, v) = <<>> THEN Abandon("beyond", u)
                       ELSE Normal(Put(u, x, Arithmetic(op, old, v)[1])))

(* A loop from a pass on; the update comes after a pass and a continue.    *)
RECURSIVE Loop(_, _, _, _)
Loop(s, labels, pass, w) ==
  LET condition == IF s.condition.node = "Absent" THEN Val(Bool(TRUE), w) ELSE Eval(s.condition, w)
      first == s.node = "DoWhileStatement" /\ pass = 1
      body == ExecBlock(s.body, IF first THEN w ELSE condition.world)
      next == IF s.node # "ForStatement" THEN Normal(body.world)
              ELSE Exec(s.update, {}, body.world)
  IN  CASE ~first /\ (~condition.ok \/ condition.val = Inexact) -> Abandon("beyond", w)
        [] ~first /\ condition.ok /\ condition.val # Inexact /\ ~Truthy(condition.val) ->
             Normal(condition.world)
        [] OTHER ->
             IF pass > Passes THEN Abandon("endless", w)
             ELSE IF body.flow = <<"break", "">> THEN Normal(body.world)
             ELSE IF ~Ends(body) \/ (body.flow[1] = "continue" /\ body.flow[2] \in labels \cup {""})
             THEN IF Ends(next) THEN next ELSE Loop(s, labels, pass + 1, next.world)
             ELSE body

ExecSwitch(s, w) ==
  LET discriminant == Eval(s.discriminant, w)
      match == FoldLeft(LAMBDA found, i :
                 IF found.val # 0 \/ ~found.ok THEN found
                 ELSE LET test == Eval(s.cases[i].test, found.world)
                      IN  IF ~test.ok THEN Beyond(w)
                          ELSE Val(IF test.val = discriminant.val THEN i ELSE 0, test.world),
                 Val(0, discriminant.world), [i \in DOMAIN s.cases |-> i])
      from == IF match.val = 0 THEN <<>> ELSE SubSeq(s.cases, match.val, Len(s.cases))
      body == FoldLeft(LAMBDA all, c : all \o c.consequent, <<>>, from) \o s.default
      c == ExecBlock(body, match.world)
  IN  IF ~discriminant.ok \/ Kind(discriminant.val) = "inexact" \/ ~match.ok
      THEN Abandon("beyond", w)
      ELSE IF c.flow = <<"break", "">> THEN Normal(c.world) ELSE c

ExecTry(s, w) ==
  LET body == ExecBlock(s.body, w)
      handled == body.flow[1] = "throw" /\ (s.handler # <<>> \/ s.catchName # "")
      bound == IF s.catchName = "" THEN body.world ELSE Put(body.world, s.catchName, body.val)
      names == {s.catchName} \cap Names
      c == IF handled THEN Scoped(names, body.world, ExecBlock(s.handler, bound)) ELSE body
      final == ExecBlock(s.final, c.world)
  IN  IF body.flow[1] \in {"beyond", "endless"} THEN body
      ELSE IF Ends(final) THEN final ELSE [c EXCEPT !.world = final.world]

ExecLabeled(s, labels, w) ==
  LET c == Exec(s.body, labels \cup {s.label}, w)
  IN  IF c.flow = <<"break", s.label>> THEN Normal(c.world) ELSE c

Exec(s, labels, w) ==
  CASE s.node = "VariableDecl" ->
         IF s.value.node = "Absent" THEN Normal(Put(w, s.name, Undefined))
         ELSE With(s.value, w, LAMBDA v, u : Normal(Put(u, s.name, v)))
    [] s.node = "AssignmentStatement" -> ExecAssignment(s, w)
    [] s.node = "ExpressionStatement" -> With(s.value, w, LAMBDA v, u : Normal(u))
    [] s.node = "BlockStatement" -> ExecBlock(s.body, w)
    [] s.node = "ReturnStatement" ->
         IF s.value.node = "Absent" THEN Completion(<<"return", "">>, Number(0), w)
         ELSE With(s.value, w, LAMBDA v, u : Completion(<<"return", "">>, v, u))
    [] s.node = "ThrowStatement" ->
         With(s.value, w, LAMBDA v, u : Completion(<<"throw", "">>, v, u))
    [] s.node = "IfStatement" ->
         WithTruth(s.condition, w, LAMBDA v, u :
              ExecBlock(IF Truthy(v) THEN s.consequence ELSE s.alternative, u))
    [] s.node \in {"WhileStatement", "DoWhileStatement"} -> Loop(s, labels, 1, w)
    [] s.node = "ForStatement" ->
         LET init == ExecList(<<s.init>>, w)
         IN  IF Ends(init) THEN init
             ELSE Scoped(Declared(<<s.init>>), w, Loop(s, labels, 1, init.world))
    [] s.node = "SwitchStatement" -> ExecSwitch(s, w)
    [] s.node = "TryStatement" -> ExecTry(s, w)
    [] s.node = "LabeledStatement" -> ExecLabeled(s, labels, w)
    [] s.node = "BreakStatement" -> Completion(<<"break", s.label>>, Undefined, w)
    [] s.node = "ContinueStatement" -> Completion(<<"continue", s.label>>, Undefined, w)
    [] OTHER -> Normal(w)

(* What a program does from the start, and the code it returns.            *)
Meaning(program) == ExecList(program, World)
====
