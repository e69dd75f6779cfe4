----------------------------- MODULE MCInspect -----------------------------
(***************************************************************************)
(* Two workers and three queries, the first two of the same name: query    *)
(* names repeat across platforms, and failedQueries is keyed by name.      *)
(***************************************************************************)
EXTENDS Inspect

CONSTANTS w1, w2

MCWorkers == {w1, w2}
MCQueryName == [q \in 0 .. NumQueries - 1 |-> IF q <= 1 THEN "bucket" ELSE "role"]
============================================================================
