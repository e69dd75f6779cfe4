--------------------------- MODULE MCAccounting ---------------------------
(***************************************************************************)
(* Three scenarios.  Two services over four files: one found twice because   *)
(* two scan paths overlap, one with a document that cannot be marshalled   *)
(* between two that can, one that cannot be parsed, one that is too large. *)
(* Two workers over three queries: one aggregates three rules, one fails,  *)
(* one has results whose line is not found.  Two workers of which none is  *)
(* without a line.                                                         *)
(***************************************************************************)
EXTENDS Accounting

MCGoroutines == {"g1", "g2"}
MCFile ==
  [ main   |-> [lines |-> 1, resources |-> 2, resolved |-> 4, total |-> 1, ignored |-> 0,
                docs |-> <<"main#1">>, readable |-> TRUE, parses |-> TRUE],
    pods   |-> [lines |-> 8, resources |-> 0, resolved |-> 0, total |-> 8, ignored |-> 2,
                docs |-> <<"pods#1", "pods#2", "pods#3">>, readable |-> TRUE, parses |-> TRUE],
    broken |-> [lines |-> 16, resources |-> 1, resolved |-> 0, total |-> 16, ignored |-> 0,
                docs |-> <<"broken#1">>, readable |-> TRUE, parses |-> FALSE],
    huge   |-> [lines |-> 32, resources |-> 8, resolved |-> 0, total |-> 32, ignored |-> 0,
                docs |-> <<"huge#1">>, readable |-> FALSE, parses |-> TRUE] ]
MCUnmarshalled == {"pods#2"}
MCQuery ==
  [ buckets |-> [aggregation |-> 3, outcome |-> "ok"],
    roles   |-> [aggregation |-> 1, outcome |-> "failed"],
    ports   |-> [aggregation |-> 2, outcome |-> "undetected"] ]
MCScenarios ==
  { [g1 |-> <<"main", "main", "broken">>, g2 |-> <<"pods", "huge">>],
    [g1 |-> <<"buckets", "roles">>, g2 |-> <<"ports">>],
    [g1 |-> <<"buckets">>, g2 |-> <<"roles", "buckets">>] }
TwoFiles == {[g1 |-> <<"main">>, g2 |-> <<"pods">>]}
============================================================================
