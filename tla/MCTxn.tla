------------------------------- MODULE MCTxn --------------------------------
(***************************************************************************)
(* Txn for model checking: edges run from the first node to the second.    *)
(***************************************************************************)
EXTENDS Txn

MCEnds == {<<1, 2>>}
=============================================================================
