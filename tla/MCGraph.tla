------------------------------ MODULE MCGraph -------------------------------
(***************************************************************************)
(* GraphStore and its paginated reads for model checking: clients draw     *)
(* edges between the first node and the second, in both directions.        *)
(***************************************************************************)
EXTENDS Pages

MCEnds == {<<1, 2>>, <<2, 1>>}
=============================================================================
