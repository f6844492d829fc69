-------------------------- MODULE EngineRefinement --------------------------
(***************************************************************************)
(* StorageEngine implements DurableStore: the published snapshot is what   *)
(* callers read, and what is committed but not fsynced is what a crash may *)
(* lose.  Every step of the flush pipeline, of compaction and of recovery  *)
(* is a stuttering step of the abstract store.                             *)
(***************************************************************************)
EXTENDS StorageEngine

PublishedReads == [i \in Ids |-> IF status = "open" THEN Live(ViewFind(i)) ELSE {}]

Store == INSTANCE DurableStore WITH
            up      <- status = "open",
            history <- committed,
            durable <- committed \ unsynced,
            visible <- PublishedReads

\* Reads, commits, fsyncs, shutdowns, crashes and reopens of the engine are those of
\* the abstract store, in every interleaving with the background threads.
ImplementsDurableStore == Store!Spec
=============================================================================
