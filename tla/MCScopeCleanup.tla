---- MODULE MCScopeCleanup ----
(* Small instances of ScopeCleanup for TLC.                                *)
EXTENDS ScopeCleanup, TLC

CONSTANTS a, b, outer

MCNames == {a, b}
MCLabels == {outer}
MCSymmetry == Permutations(MCNames)
====
