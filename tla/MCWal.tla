------------------------------- MODULE MCWal --------------------------------
(***************************************************************************)
(* Wal for model checking: power failures with appends that fail as a      *)
(* whole, and both kinds of crash with appends that fail half-way.         *)
(***************************************************************************)
EXTENDS Wal

MCFaultModels ==
    {[torn |-> FALSE, crashes |-> {"power"}, writes |-> 4],
     [torn |-> TRUE, crashes |-> {"power", "process"}, writes |-> 3]}
=============================================================================
