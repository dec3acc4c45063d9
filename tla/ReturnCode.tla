---- MODULE ReturnCode ----
(***************************************************************************)
(* Programs written one statement at a time, and for each of them what the *)
(* return-code evaluator says of it beside what it means.  The compiler    *)
(* asks the evaluator when the statement emitter cannot translate a        *)
(* program, and then emits a main function that returns the code it gets.  *)
(***************************************************************************)
EXTENDS ReturnReference, FiniteSets

CONSTANTS Openings,      \* the statement lists programs begin with
          Statements,    \* the statements they are continued with
          MaxStatements, \* the length of the programs
          Trusted        \* the kinds of guess that are taken for right

ASSUME MaxStatementsAssumption == MaxStatements \in Nat

Evaluator == INSTANCE ReturnEvaluator

VARIABLE program

(* The expressions that the statements bind or return.                     *)
Values ==
  {s.value : s \in {t \in Statements : t.node \in {"VariableDecl", "ReturnStatement"}}}

Init == program \in Openings

(* Nothing is written after a return.                                      *)
Write(statement) ==
  /\ Len(program) < MaxStatements
  /\ \A i \in DOMAIN program : program[i].node # "ReturnStatement"
  /\ program' = Append(program, statement)

Next == \E statement \in Statements : Write(statement)

Spec == Init /\ [][Next]_program

----------------------------------------------------------------------------
(* The evaluator guesses (see ReturnScope), and a declaration in a block,  *)
(* a branch, a loop or a try stays in force behind it ("block").  What it  *)
(* says of a program counts when all it guessed on the way is trusted.     *)
DeclaresInside(statements) ==
  \E i \in DOMAIN statements :
    /\ statements[i].node # "VariableDecl"
    /\ Evaluator!Folding!DeclaredNames(statements[i]) # <<>>

Counts(statements, s) ==
  s.guesses \cup {what \in {"block"} : DeclaresInside(statements)} \subseteq Trusted

(* The code a program is given is the one it returns (MainReturnCode): a   *)
(* program that is given a code, on whose way nothing is guessed but what  *)
(* is trusted, runs to its end, and no throw leaves it.                    *)
RightCode(statements) ==
  LET code == Evaluator!Folding!MainReturnCode(statements)
      meaning == Meaning(statements)
  IN  code.ok /\ Counts(statements, code.scope) /\ meaning.flow[1] # "beyond" =>
        /\ meaning.flow[1] = "return"
        /\ meaning.val = code.val

AnswerIsRight == [][RightCode(program')]_program

(* Where the evaluator has come through a program (SearchReturn) with no   *)
(* guess but what is trusted, each value it knows is the one the name has, *)
(* and two names hold the same object or function for it just when they do.*)
SameReferences(s, w) ==
  \A x, y \in Names :
    LET v == s.vals[x]
    IN  Kind(v) \in {"func", "object"} /\ Kind(s.vals[y]) = Kind(v) =>
          (v = s.vals[y]) = (w.vals[x] = w.vals[y])

SameKnowledge(statements) ==
  LET search == Evaluator!Folding!SearchReturn(statements, returnScope)
      meaning == Meaning(statements)
      compared == search.status = "handled" /\ Counts(statements, search.scope)
  IN  compared /\ meaning.flow[1] # "beyond" =>
         /\ meaning.flow[1] = "none"
         /\ \A x \in Names :
              LET v == search.scope.vals[x]
                  u == meaning.world.vals[x]
              IN  v # Unknown /\ u # Unknown =>
                    IF IsReference(v) THEN Kind(u) = Kind(v) ELSE u = v
         /\ SameReferences(search.scope, meaning.world)

KnownValuesAgree == [][SameKnowledge(program')]_program

----------------------------------------------------------------------------
(* No expression folds to values of two kinds, so that the order in which  *)
(* the kinds are probed does not matter.                                   *)
OneKind(statements) ==
  LET search == Evaluator!Folding!SearchReturn(statements, returnScope)
      Folds(e, which) == Evaluator!Evaluate(which, e, search.scope).ok
      kinds == {"int", "string", "bigint", "nullish", "newFunc", "newObject"}
  IN  search.status = "handled" =>
        \A e \in Values : Cardinality({which \in kinds : Folds(e, which)}) <= 1

KindsAreExclusive == [][OneKind(program')]_program
====
