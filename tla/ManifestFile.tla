---------------------------- MODULE ManifestFile ----------------------------
(***************************************************************************)
(* The manifest on disk: write_manifest replaces manifest.current through  *)
(* manifest.tmp and manifest.prev, load_manifest finds what a crash or an  *)
(* I/O error between two of its steps has left (manifest.rs), and          *)
(* load_manifest_readonly lets another process look at a live database.    *)
(*                                                                         *)
(* A manifest is the number of the write that produced it; None and        *)
(* Partial (a file whose bytes are not all there: it does not parse) are   *)
(* negative.  The directory is what the running system sees; a power       *)
(* failure leaves one of the directories it has been since the last fsync  *)
(* of the directory (a journalling file system keeps its operations in     *)
(* order).                                                                 *)
(***************************************************************************)
EXTENDS Integers

CONSTANTS
    MaxVersion,   \* bound: manifests written per history
    MaxFaults,    \* bound: write_manifest calls that return an error
    MaxRestarts,  \* bound: crashes
    CrashKinds,   \* subset of {"power", "process"}
    Inspecting    \* TRUE: another process inspects the database

ASSUME ManifestAssumption ==
    /\ MaxVersion \in Nat /\ MaxFaults \in Nat /\ MaxRestarts \in Nat
    /\ CrashKinds \subseteq {"power", "process"} /\ Inspecting \in BOOLEAN

None    == -1
Partial == -2
Version == 0..MaxVersion
Content == Version \cup {None, Partial}
Dirs    == [current : Content, tmp : Content, prev : Content]

VARIABLES
    dir,        \* the three files
    durable,    \* the directories a power failure may leave
    pc,         \* where write_manifest is: "down", "idle", "tmp", "synced", "moved", "renamed"
    next,       \* the manifest being written
    last,       \* the last number used
    acked,      \* the last manifest whose write returned Ok
    running,    \* the manifest the open engine works with
    inspector,  \* where load_manifest_readonly is: "off", "current", "tmp", "prev", "done"
    found,      \* what it has found
    asOf,       \* acked when it began to look
    faults, restarts

inspectorVars == <<inspector, found, asOf>>
engineVars == <<pc, next, last, acked, running, faults, restarts>>
vars == <<dir, durable, engineVars, inspectorVars>>

\* try_load_manifest_file: a file that does not parse counts as missing.
Valid(content) == content >= 0

\* The order in which load_manifest looks: current, tmp, prev.
Loaded(d) == CASE Valid(d.current)                    -> d.current
               [] ~Valid(d.current) /\ Valid(d.tmp)   -> d.tmp
               [] ~Valid(d.current) /\ ~Valid(d.tmp)  -> IF Valid(d.prev) THEN d.prev ELSE None

Init ==
    /\ dir = [current |-> None, tmp |-> None, prev |-> None]
    /\ durable = {dir}
    /\ pc = "down" /\ next = None /\ last = None /\ acked = None /\ running = None
    /\ inspector = "off" /\ found = None /\ asOf = None
    /\ faults = 0 /\ restarts = 0

\* A change of the directory that only an fsync of it makes durable.
Becomes(d) == dir' = d /\ durable' = durable \cup {d}

-----------------------------------------------------------------------------
(* write_manifest *)

\* File::create and write_all: the old manifest.tmp is truncated.
CreateTmp(v) ==
    /\ next' = v /\ pc' = "tmp"
    /\ Becomes([dir EXCEPT !.tmp = Partial])

WriteManifest ==
    /\ pc = "idle" /\ last < MaxVersion
    /\ last' = last + 1
    /\ CreateTmp(last + 1)
    /\ UNCHANGED <<acked, running, inspectorVars, faults, restarts>>

SyncTmp ==
    /\ pc = "tmp" /\ pc' = "synced"
    /\ Becomes([dir EXCEPT !.tmp = next])
    /\ UNCHANGED <<next, last, acked, running, inspectorVars, faults, restarts>>

RemovePrev ==
    /\ pc = "synced" /\ dir.current # None /\ dir.prev # None
    /\ Becomes([dir EXCEPT !.prev = None])
    /\ UNCHANGED <<engineVars, inspectorVars>>

KeepPrevious ==
    /\ pc = "synced" /\ dir.current # None /\ dir.prev = None
    /\ pc' = "moved"
    /\ Becomes([dir EXCEPT !.prev = dir.current, !.current = None])
    /\ UNCHANGED <<next, last, acked, running, inspectorVars, faults, restarts>>

Install ==
    /\ pc = "moved" \/ (pc = "synced" /\ dir.current = None)
    /\ pc' = "renamed"
    /\ Becomes([dir EXCEPT !.current = dir.tmp, !.tmp = None])
    /\ UNCHANGED <<next, last, acked, running, inspectorVars, faults, restarts>>

\* Mutant: the directory is not fsynced.
SkipFsyncDir ==
    /\ pc = "renamed" /\ pc' = "idle"
    /\ acked' = next /\ running' = next
    /\ UNCHANGED <<dir, durable, next, last, inspectorVars, faults, restarts>>

\* fsync_dir, and write_manifest returns.
FsyncDir ==
    /\ pc = "renamed" /\ pc' = "idle"
    /\ durable' = {dir}
    /\ acked' = next /\ running' = next
    /\ UNCHANGED <<dir, next, last, inspectorVars, faults, restarts>>

\* Any step may return an I/O error: what is done stays done, and the engine goes on.
WriteFails ==
    /\ pc \in {"tmp", "synced", "moved", "renamed"} /\ faults < MaxFaults
    /\ faults' = faults + 1
    /\ pc' = IF running = None THEN "down" ELSE "idle"
    /\ UNCHANGED <<dir, durable, next, last, acked, running, restarts, inspectorVars>>

-----------------------------------------------------------------------------
(* load_manifest *)

LoadCurrent ==
    /\ pc = "down" /\ Valid(dir.current)
    /\ pc' = "idle" /\ running' = dir.current
    /\ UNCHANGED <<dir, durable, next, last, acked, inspectorVars, faults, restarts>>

\* manifest.tmp is promoted; the fsync of the directory is FsyncDir's.
LoadTmp ==
    /\ pc = "down" /\ ~Valid(dir.current) /\ Valid(dir.tmp)
    /\ pc' = "renamed" /\ next' = dir.tmp
    /\ Becomes([dir EXCEPT !.current = dir.tmp, !.tmp = None])
    /\ UNCHANGED <<last, acked, running, inspectorVars, faults, restarts>>

\* manifest.prev is written again as the current manifest; a new database gets its
\* default manifest.
LoadPrev ==
    /\ pc = "down" /\ ~Valid(dir.current) /\ ~Valid(dir.tmp) /\ Valid(dir.prev)
    /\ CreateTmp(dir.prev)
    /\ UNCHANGED <<last, acked, running, inspectorVars, faults, restarts>>

Create ==
    /\ pc = "down" /\ Loaded(dir) = None /\ last < MaxVersion
    /\ last' = last + 1
    /\ CreateTmp(last + 1)
    /\ UNCHANGED <<acked, running, inspectorVars, faults, restarts>>

-----------------------------------------------------------------------------
\* The process ends, or the power fails and the disk shows one of its durable states.
Crash ==
    /\ pc # "down" /\ restarts < MaxRestarts
    /\ restarts' = restarts + 1
    /\ pc' = "down" /\ running' = None
    /\ \/ /\ "process" \in CrashKinds
          /\ UNCHANGED <<dir, durable, inspectorVars>>
       \/ /\ "power" \in CrashKinds
          /\ dir' \in durable
          /\ durable' = {dir'}
          /\ inspector' = "off" /\ found' = None /\ asOf' = None
    /\ UNCHANGED <<next, last, acked, faults>>

\* Mutant: manifest.prev is looked at first, manifest.current last.
LookPrevFirst(file) ==
    /\ inspector = file
    /\ found' = CASE file = "current" -> dir.prev
                  [] file = "tmp"     -> dir.tmp
                  [] file = "prev"    -> dir.current
    /\ inspector' = CASE Valid(found') \/ file = "prev" -> "done"
                      [] ~Valid(found') /\ file = "current" -> "tmp"
                      [] ~Valid(found') /\ file = "tmp"     -> "prev"

\* load_manifest_readonly in another process: one look per file.
Look(file) ==
    /\ inspector = file
    /\ found' = CASE file = "current" -> dir.current
                  [] file = "tmp"     -> dir.tmp
                  [] file = "prev"    -> dir.prev
    /\ inspector' = CASE Valid(found') \/ file = "prev" -> "done"
                      [] ~Valid(found') /\ file = "current" -> "tmp"
                      [] ~Valid(found') /\ file = "tmp"     -> "prev"

Inspect ==
    /\ Inspecting
    /\ \/ /\ inspector \in {"off", "done"} /\ acked # None
          /\ inspector' = "current" /\ found' = None /\ asOf' = acked
       \/ /\ \E file \in {"current", "tmp", "prev"} : Look(file)
          /\ UNCHANGED asOf
    /\ UNCHANGED <<dir, durable, engineVars>>

Next ==
    \/ WriteManifest \/ SyncTmp \/ RemovePrev \/ KeepPrevious \/ Install \/ FsyncDir \/ WriteFails
    \/ LoadCurrent \/ LoadTmp \/ LoadPrev \/ Create
    \/ Crash \/ Inspect

Spec == Init /\ [][Next]_vars

-----------------------------------------------------------------------------
(* Properties *)

\* The three files, the writer and the reader stay within their types.
TypeOK ==
    /\ dir \in Dirs /\ durable \subseteq Dirs
    /\ pc \in {"down", "idle", "tmp", "synced", "moved", "renamed"}
    /\ next \in Version \cup {None} /\ last \in Version \cup {None}
    /\ acked \in Version \cup {None} /\ running \in Version \cup {None}
    /\ inspector \in {"off", "current", "tmp", "prev", "done"} /\ found \in Content
    /\ asOf \in Version \cup {None}
    /\ faults \in Nat /\ restarts \in Nat

\* Whatever step of write_manifest or load_manifest a crash or an I/O error hits, and in
\* whatever state a power failure leaves the directory, load_manifest finds a manifest at
\* least as new as the last one whose write returned Ok.
AckedManifestSurvives == \A d \in durable \cup {dir} : Loaded(d) >= acked

\* ... and at least as new as the one the open engine works with.  The code does not
\* promise this: load_manifest uses a manifest.current that was never fsynced.
RunningManifestSurvives == \A d \in durable \cup {dir} : Loaded(d) >= running

\* A manifest that a reader of a live database finds is at least as new as the last one
\* acknowledged when it began to look.
InspectorNotStale == inspector = "done" /\ Valid(found) => found >= asOf

\* A reader of a live database finds a manifest.  Not so while a writer moves it.
InspectorFindsManifest == inspector = "done" => Valid(found)

\* Why AckedManifestSurvives is inductive.  The directory in use is one a power failure
\* may leave; current and prev never hold a partial manifest and no file is newer than the
\* last number used; without a current manifest, prev is good whenever tmp is about to be
\* truncated or is still being written.
SafeDir(d) ==
    /\ d.current # Partial /\ d.prev # Partial
    /\ d.current <= last /\ d.tmp <= last /\ d.prev <= last
    /\ Valid(d.current) => d.current >= acked
    /\ ~Valid(d.current) => d.prev >= acked /\ (Valid(d.tmp) => d.tmp >= acked)

ManifestInv ==
    /\ TypeOK
    /\ dir \in durable /\ \A d \in durable : SafeDir(d)
    /\ acked <= last /\ next <= last
    /\ pc \in {"tmp", "synced", "moved", "renamed"} => Valid(next) /\ next >= acked
    /\ pc = "synced" => dir.tmp = next
    /\ pc = "moved" => dir.tmp = next
    /\ pc = "renamed" => dir.current = next

\* Why InspectorNotStale is inductive.  A valid manifest.tmp is never older than the last
\* acknowledged manifest, also where load_manifest would not look at it; a reader that has
\* seen no current manifest comes to manifest.prev after it was good, and from then on only
\* a manifest at least as new takes its place.
TmpFresh(d) == Valid(d.tmp) => d.tmp >= acked

InspectorInv ==
    /\ ManifestInv
    /\ \A d \in durable : TmpFresh(d)
    /\ pc = "renamed" => dir.tmp = None
    /\ inspector # "off" => asOf <= acked
    /\ inspector \in {"tmp", "prev"} /\ Valid(dir.prev) => dir.prev >= asOf
    /\ InspectorNotStale
=============================================================================
