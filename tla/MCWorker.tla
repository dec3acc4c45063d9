---- MODULE MCWorker ----
(* Small instances of Worker for TLC.                                      *)
EXTENDS Worker

CONSTANTS p, q

MCParents == {p, q}

(* Everything the Go interface offers; what a Jayess program can call.     *)
MCGoSurface == {"next", "close"}
MCJayessSurface == {}
====
