---- MODULE MCModules ----
(* Small module graphs for TLC.                                            *)
EXTENDS ModuleBatches

CONSTANT MaxEntries

MCEntries == UNION {[1..n -> Module] : n \in 1..MaxEntries}

(* Nothing, one module, two, and the same one twice.                       *)
MCImportLists == UNION {[1..n -> Module] : n \in 0..2}
====
