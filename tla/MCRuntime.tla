----------------------------- MODULE MCRuntime ------------------------------
(***************************************************************************)
(* Runtime for model checking.  Clients are interchangeable: the safety    *)
(* run uses their symmetry, and the liveness run looks at one client among *)
(* the others.                                                             *)
(***************************************************************************)
EXTENDS Runtime, TLC

ClientSymmetry == Permutations(Clients)
AnyClient      == CHOOSE c \in Clients : TRUE

\* No call gets stuck: submit_core_write, the followup of a query, flush() and
\* compact_with_progress return, with other clients and a close() in between.
\* What a flush() or a queued command waits for here is the next end of a job; when the
\* failure of an epoch is masked, no end follows (FailureMasked of StorageEngine).
CallsReturn == CallReturns(AnyClient)

\* close() ends after the last read: commands, barriers and jobs always let it through.
CloseEnds == DrainedCloseReturns(AnyClient)
=============================================================================
