---- MODULE ReturnEvaluator ----
(***************************************************************************)
(* The return-code evaluator as a whole: its evaluators call each other by *)
(* name, and here the names are tied to them.                              *)
(***************************************************************************)
EXTENDS ReturnScope, ReturnSyntax

RECURSIVE Evaluate(_, _, _)

Folding == INSTANCE ReturnPrograms

Evaluate(which, e, s) == Folding!EvaluateStatement(which, e, s)
====
