------------------------------ MODULE MCEngine ------------------------------
(***************************************************************************)
(* StorageEngine with its refinement mapping, for model checking.  One     *)
(* reader is enough to hold a snapshot while everything else goes on.      *)
(***************************************************************************)
EXTENDS EngineRefinement
=============================================================================
