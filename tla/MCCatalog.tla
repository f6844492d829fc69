----------------------------- MODULE MCCatalog ------------------------------
(***************************************************************************)
(* Catalog for model checking.  A history follows one of four workloads:   *)
(* label tokens through crashes of a group-commit database, schemas and a  *)
(* record through the same, failures of a database that syncs every write, *)
(* and schemas against all the writes of a graph that does not crash.      *)
(***************************************************************************)
EXTENDS Catalog

MCProfiles ==
    {[calls |-> {"storage", "ensure", "upsert", "index", "policy"},
      mode |-> "group", nodes |-> {1}, ops |-> 4, restarts |-> 2],
     [calls |-> {"storage", "upsert", "delete", "nodeSchema"},
      mode |-> "group", nodes |-> {1}, ops |-> 4, restarts |-> 2],
     [calls |-> {"storage", "faults", "ensure", "upsert", "nodeSchema", "index"},
      mode |-> "immediate", nodes |-> {1}, ops |-> 3, restarts |-> 1],
     [calls |-> {"upsert", "relabel", "delete", "edge", "txn", "nodeSchema", "edgeSchema",
                 "graphSchema"},
      mode |-> "immediate", nodes |-> {1, 2}, ops |-> 0, restarts |-> 0]}
=============================================================================
