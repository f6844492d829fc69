------------------------- MODULE ManifestFileProofs -------------------------
(***************************************************************************)
(* AckedManifestSurvives for any number of writes, I/O errors and crashes. *)
(***************************************************************************)
EXTENDS ManifestFile, TLAPS

\* What load_manifest finds in a safe directory is at least as new as the last
\* acknowledged manifest.
LEMMA SafeDirLoads ==
    ASSUME NEW d \in Dirs, acked \in Version \cup {None}, SafeDir(d)
    PROVE  Loaded(d) >= acked
    BY ManifestAssumption DEF Dirs, Content, Version, None, Partial, Valid, SafeDir, Loaded

\* The reader never touches what the invariant speaks of but its own variables.
LEMMA InspectKeeps ==
    ASSUME TypeOK, Inspect
    PROVE  TypeOK' /\ UNCHANGED <<dir, durable, engineVars>>
    <1>1. found' \in Content /\ inspector' \in {"off", "current", "tmp", "prev", "done"}
          /\ asOf' \in Version \cup {None}
        <2>1. CASE \E file \in {"current", "tmp", "prev"} : Look(file) /\ UNCHANGED asOf
            BY <2>1 DEF Look, TypeOK, Dirs
        <2>2. QED
            BY <2>1 DEF Inspect, TypeOK, Content
    <1>2. QED
        BY <1>1 DEF Inspect, engineVars, TypeOK

\* Every step of write_manifest and load_manifest, every error and every crash keeps
\* the invariant.
LEMMA ManifestStep ==
    ASSUME ManifestInv, [Next]_vars
    PROVE  ManifestInv'
    <1> USE ManifestAssumption
    <1>0. /\ TypeOK /\ dir \in durable /\ \A d \in durable : SafeDir(d)
          /\ dir \in Dirs /\ SafeDir(dir)
        BY DEF ManifestInv, TypeOK
    <1>1. CASE WriteManifest
        <2>1. TypeOK'
            BY <1>0, <1>1 DEF WriteManifest, CreateTmp, Becomes, TypeOK, Dirs, Content, Version, None, Partial, inspectorVars
        <2>2. QED
            BY <1>1, <2>1, <1>0 DEF WriteManifest, CreateTmp, Becomes, ManifestInv, SafeDir, TypeOK, Valid, Version, None, Partial, Dirs, Content
    <1>2. CASE SyncTmp
        <2>1. TypeOK'
            BY <1>0, <1>2 DEF SyncTmp, Becomes, TypeOK, Dirs, Content, inspectorVars
        <2>2. QED
            BY <1>2, <2>1, <1>0 DEF SyncTmp, Becomes, ManifestInv, SafeDir, TypeOK, Valid, Version, None, Partial, Dirs
    <1>3. CASE RemovePrev
        <2>1. TypeOK'
            BY <1>0, <1>3 DEF RemovePrev, Becomes, TypeOK, Dirs, Content, engineVars, inspectorVars
        <2>2. QED
            BY <1>3, <2>1, <1>0 DEF RemovePrev, Becomes, ManifestInv, SafeDir, TypeOK, Valid, Version, None, Partial, Dirs, Content, engineVars
    <1>4. CASE KeepPrevious
        <2>1. TypeOK'
            <3>1. dir' \in Dirs /\ durable' = durable \cup {dir'} /\ pc' = "moved"
                BY <1>0, <1>4 DEF KeepPrevious, Becomes, Dirs, Content
            <3>2. UNCHANGED <<next, last, acked, running, inspector, found, asOf, faults, restarts>>
                BY <1>4 DEF KeepPrevious, inspectorVars
            <3>3. QED
                BY <1>0, <3>1, <3>2 DEF TypeOK
        <2>2. /\ dir.current >= acked /\ dir.current >= 0 /\ dir.tmp = next /\ next >= acked
              /\ next >= 0 /\ acked <= last /\ next <= last
            <3>1. SafeDir(dir) /\ dir.current \in Content /\ dir.current # None
                BY <1>0, <1>4 DEF KeepPrevious, ManifestInv, Dirs
            <3>2. dir.current >= acked /\ dir.current >= 0
                BY <3>1 DEF SafeDir, Valid, Content, Version, None, Partial
            <3>3. /\ dir.tmp = next /\ next >= acked /\ next >= 0
                  /\ acked <= last /\ next <= last
                BY <1>0, <1>4 DEF KeepPrevious, ManifestInv, Valid
            <3>4. QED
                BY <3>2, <3>3
        <2>3. /\ dir'.current = None /\ dir'.prev = dir.current /\ dir'.tmp = next
              /\ acked' = acked /\ next' = next /\ last' = last /\ pc' = "moved"
              /\ durable' = durable \cup {dir'}
            BY <1>0, <1>4, <2>2 DEF KeepPrevious, Becomes, Dirs
        <2>4. SafeDir(dir)'
            BY <2>2, <2>3, <1>0 DEF SafeDir, Valid, None, Partial, TypeOK, Version
        <2>5. \A d \in durable' : SafeDir(d)'
            BY <2>3, <2>4, <1>0 DEF SafeDir
        <2>6. dir' \in durable'
            BY <2>3
        <2>7. QED
            BY <2>1, <2>2, <2>3, <2>5, <2>6 DEF ManifestInv, Valid
    <1>5. CASE Install
        <2>1. dir.tmp = next /\ next \in Version /\ next >= acked /\ next <= last /\ acked <= last
            BY <1>0, <1>5 DEF Install, ManifestInv, TypeOK, Valid, None
        <2>2. /\ dir'.current = next /\ dir'.prev = dir.prev /\ dir'.tmp = None /\ dir' \in Dirs
              /\ next' = next /\ pc' = "renamed" /\ last' = last /\ acked' = acked
              /\ durable' = durable \cup {dir'}
            BY <1>0, <1>5, <2>1 DEF Install, Becomes, Dirs, Content
        <2>3. TypeOK'
            BY <1>0, <1>5, <2>2 DEF Install, TypeOK, inspectorVars
        <2>4. SafeDir(dir)'
            BY <2>1, <2>2, <1>0 DEF SafeDir, Valid, None, Partial, Version, TypeOK
        <2>5. \A d \in durable' : SafeDir(d)'
            BY <2>2, <2>4, <1>0 DEF SafeDir
        <2>6. QED
            BY <2>1, <2>2, <2>3, <2>5 DEF ManifestInv, Valid, Version
    <1>6. CASE FsyncDir
        <2>1. TypeOK'
            BY <1>0, <1>6 DEF FsyncDir, TypeOK, inspectorVars
        <2>2. QED
            BY <1>6, <2>1, <1>0 DEF FsyncDir, ManifestInv, SafeDir, TypeOK, Valid, Version, None, Partial, Dirs, Content
    <1>7. CASE WriteFails
        BY <1>7, <1>0 DEF WriteFails, ManifestInv, SafeDir, TypeOK, inspectorVars
    <1>8. CASE LoadCurrent
        <2>1. dir.current \in Version
            BY <1>0, <1>8 DEF LoadCurrent, Valid, Dirs, Content, None, Partial
        <2>2. TypeOK'
            BY <1>0, <1>8, <2>1 DEF LoadCurrent, TypeOK, inspectorVars
        <2>3. QED
            BY <1>8, <2>2, <1>0 DEF LoadCurrent, ManifestInv, SafeDir
    <1>9. CASE LoadTmp
        <2>1. /\ dir.tmp \in Version /\ dir.tmp >= acked /\ dir.current = None
              /\ dir.tmp <= last
            BY <1>0, <1>9 DEF LoadTmp, SafeDir, Valid, Dirs, Content, None, Partial, Version
        <2>2. /\ dir'.current = dir.tmp /\ dir'.prev = dir.prev /\ dir'.tmp = None
              /\ dir' \in Dirs /\ next' = dir.tmp /\ pc' = "renamed"
              /\ last' = last /\ acked' = acked /\ durable' = durable \cup {dir'}
            BY <1>0, <1>9 DEF LoadTmp, Becomes, Dirs, Content
        <2>3. TypeOK'
            BY <1>0, <1>9, <2>1, <2>2 DEF LoadTmp, TypeOK, inspectorVars
        <2>4. SafeDir(dir)'
            BY <2>1, <2>2, <1>0 DEF SafeDir, Valid, None, Partial, Version, TypeOK
        <2>5. \A d \in durable' : SafeDir(d)'
            BY <2>2, <2>4, <1>0 DEF SafeDir
        <2>6. QED
            BY <2>1, <2>2, <2>3, <2>5 DEF ManifestInv, Valid, Version
    <1>10. CASE LoadPrev
        <2>1. /\ dir.prev \in Version /\ dir.prev >= acked /\ dir.prev <= last /\ dir.current = None
              /\ acked <= last /\ last \in Version
            BY <1>0, <1>10 DEF LoadPrev, SafeDir, ManifestInv, TypeOK, Valid, Dirs, Content, Version, None, Partial
        <2>2. /\ dir'.current = None /\ dir'.prev = dir.prev /\ dir'.tmp = Partial
              /\ dir' \in Dirs /\ next' = dir.prev /\ pc' = "tmp"
              /\ last' = last /\ acked' = acked /\ durable' = durable \cup {dir'}
            BY <1>0, <1>10, <2>1 DEF LoadPrev, CreateTmp, Becomes, Dirs, Content
        <2>3. TypeOK'
            BY <1>0, <1>10, <2>1, <2>2 DEF LoadPrev, TypeOK, inspectorVars
        <2>4. SafeDir(dir)'
            BY <2>1, <2>2, <1>0 DEF SafeDir, Valid, None, Partial, Version
        <2>5. \A d \in durable' : SafeDir(d)'
            BY <2>2, <2>4, <1>0 DEF SafeDir
        <2>6. QED
            BY <2>1, <2>2, <2>3, <2>5 DEF ManifestInv, Valid, Version
    <1>11. CASE Create
        <2>1. TypeOK'
            BY <1>0, <1>11 DEF Create, CreateTmp, Becomes, TypeOK, Dirs, Content, Version, None, Partial, inspectorVars
        <2>2. QED
            BY <1>11, <2>1, <1>0 DEF Create, CreateTmp, Becomes, ManifestInv, SafeDir, TypeOK, Valid, Version, None, Partial, Dirs, Content
    <1>12. CASE Crash
        <2>1. TypeOK'
            BY <1>0, <1>12 DEF Crash, TypeOK, inspectorVars, Content
        <2>2. QED
            BY <1>12, <2>1, <1>0 DEF Crash, ManifestInv, SafeDir
    <1>13. CASE Inspect
        BY <1>13, <1>0, InspectKeeps DEF engineVars, ManifestInv, SafeDir
    <1>14. CASE UNCHANGED vars
        BY <1>14 DEF vars, engineVars, inspectorVars, ManifestInv, SafeDir, TypeOK
    <1>15. QED
        BY <1>1, <1>2, <1>3, <1>4, <1>5, <1>6, <1>7, <1>8, <1>9, <1>10, <1>11, <1>12, <1>13, <1>14 DEF Next

\* The invariant holds in every reachable state, however many manifests are written.
THEOREM ManifestInductive == Spec => []ManifestInv
    <1>1. Init => ManifestInv
        BY ManifestAssumption DEF Init, ManifestInv, TypeOK, Dirs, Content, Version, None, Partial, SafeDir, Valid
    <1>2. QED
        BY <1>1, ManifestStep, PTL DEF Spec

\* A manifest whose write returned Ok is never lost: after any crash, at any step, and
\* after any number of failed writes, load_manifest finds it or a newer one.
THEOREM AckedManifestNeverLost == Spec => []AckedManifestSurvives
    <1>1. ManifestInv => AckedManifestSurvives
        BY SafeDirLoads DEF ManifestInv, TypeOK, AckedManifestSurvives
    <1>2. QED
        BY <1>1, ManifestInductive, PTL

\* A step that leaves the reader and the acknowledged manifest alone keeps what the reader
\* relies on, if manifest.tmp stays fresh and manifest.prev, when it changes, takes over a
\* valid current manifest or goes.
LEMMA InspectorKept ==
    ASSUME InspectorInv, ManifestInv', UNCHANGED <<inspectorVars, acked>>,
           durable' = durable \cup {dir'}, TmpFresh(dir'),
           pc' = "renamed" => dir'.tmp = None,
           dir'.prev = dir.prev \/ dir'.prev = None \/ dir'.prev >= acked
    PROVE  InspectorInv'
    <1>1. \A d \in durable' : TmpFresh(d)'
        BY DEF InspectorInv, TmpFresh
    <1>2. (inspector # "off" => asOf <= acked)' /\ InspectorNotStale'
        BY DEF InspectorInv, InspectorNotStale, inspectorVars
    <1>3. (inspector \in {"tmp", "prev"} /\ Valid(dir.prev) => dir.prev >= asOf)'
        BY ManifestAssumption DEF InspectorInv, ManifestInv, TypeOK, Dirs, Content, inspectorVars, Valid, None, Partial, Version
    <1>4. QED
        BY <1>1, <1>2, <1>3 DEF InspectorInv

\* Every step of the writer, of a recovery and of the reader keeps the reader's invariant.
LEMMA InspectorStep ==
    ASSUME InspectorInv, [Next]_vars
    PROVE  InspectorInv'
    <1> USE ManifestAssumption
    <1>0. /\ ManifestInv /\ ManifestInv' /\ TypeOK /\ TypeOK' /\ dir \in Dirs /\ dir' \in Dirs
          /\ dir \in durable /\ SafeDir(dir) /\ TmpFresh(dir)
        BY ManifestStep DEF InspectorInv, ManifestInv, TypeOK
    <1>1. CASE WriteManifest
        BY <1>0, <1>1, InspectorKept DEF WriteManifest, CreateTmp, Becomes, Dirs, TmpFresh, Valid, Partial
    <1>2. CASE SyncTmp
        BY <1>0, <1>2, InspectorKept DEF SyncTmp, Becomes, Dirs, TmpFresh, Valid, ManifestInv
    <1>3. CASE RemovePrev
        BY <1>0, <1>3, InspectorKept DEF RemovePrev, Becomes, Dirs, TmpFresh, engineVars
    <1>4. CASE KeepPrevious
        <2>1. dir.current >= acked
            BY <1>0, <1>4 DEF KeepPrevious, SafeDir, Valid, Dirs, Content, Version, None, Partial
        <2>2. QED
            BY <1>0, <1>4, <2>1, InspectorKept DEF KeepPrevious, Becomes, Dirs, TmpFresh
    <1>5. CASE Install
        BY <1>0, <1>5, InspectorKept DEF Install, Becomes, Dirs, TmpFresh, Valid, None
    <1>6. CASE FsyncDir
        <2>1. /\ dir' = dir /\ durable' = {dir} /\ dir.tmp = None /\ acked' = next /\ acked <= next
              /\ UNCHANGED inspectorVars /\ pc' = "idle"
            BY <1>0, <1>6 DEF FsyncDir, InspectorInv, ManifestInv, TypeOK, Version, None
        <2>2. \A d \in durable' : TmpFresh(d)'
            BY <2>1 DEF TmpFresh, Valid, None
        <2>3. (inspector # "off" => asOf <= acked)'
            BY <2>1, <1>0 DEF InspectorInv, inspectorVars, TypeOK, Version, None
        <2>4. QED
            BY <1>0, <2>1, <2>2, <2>3 DEF InspectorInv, inspectorVars, InspectorNotStale, Valid
    <1>7. CASE WriteFails
        BY <1>0, <1>7 DEF WriteFails, InspectorInv, InspectorNotStale, inspectorVars, TmpFresh
    <1>8. CASE LoadCurrent
        BY <1>0, <1>8 DEF LoadCurrent, InspectorInv, InspectorNotStale, inspectorVars, TmpFresh
    <1>9. CASE LoadTmp
        BY <1>0, <1>9, InspectorKept DEF LoadTmp, Becomes, Dirs, TmpFresh, Valid, None
    <1>10. CASE LoadPrev
        BY <1>0, <1>10, InspectorKept DEF LoadPrev, CreateTmp, Becomes, Dirs, TmpFresh, Valid, Partial
    <1>11. CASE Create
        BY <1>0, <1>11, InspectorKept DEF Create, CreateTmp, Becomes, Dirs, TmpFresh, Valid, Partial
    <1>12. CASE Crash
        <2>1. CASE UNCHANGED <<dir, durable, inspectorVars>>
            BY <1>0, <1>12, <2>1 DEF Crash, InspectorInv, InspectorNotStale, inspectorVars, TmpFresh
        <2>2. CASE dir' \in durable /\ durable' = {dir'} /\ inspector' = "off"
            BY <1>0, <1>12, <2>2 DEF Crash, InspectorInv, InspectorNotStale, TmpFresh
        <2>3. QED
            BY <1>12, <2>1, <2>2 DEF Crash
    <1>13. CASE Inspect
        <2>1. UNCHANGED <<dir, durable, engineVars>> /\ acked' = acked /\ pc' = pc
            BY <1>13, <1>0 DEF Inspect, engineVars
        <2>2. \A d \in durable' : TmpFresh(d)'
            BY <2>1 DEF InspectorInv, TmpFresh
        <2>3. CASE inspector \in {"off", "done"} /\ inspector' = "current" /\ asOf' = acked
            BY <1>0, <2>1, <2>2, <2>3 DEF InspectorInv, InspectorNotStale, TypeOK, Version, None
        <2>4. CASE Look("current") /\ UNCHANGED asOf
            BY <1>0, <2>1, <2>2, <2>4 DEF InspectorInv, InspectorNotStale, Look, SafeDir, TypeOK, Dirs, Content, Valid, Version, None, Partial
        <2>5. CASE Look("tmp") /\ UNCHANGED asOf
            BY <1>0, <2>1, <2>2, <2>5 DEF InspectorInv, InspectorNotStale, Look, TmpFresh, TypeOK, Dirs, Content, Valid, Version, None, Partial
        <2>6. CASE Look("prev") /\ UNCHANGED asOf
            BY <1>0, <2>1, <2>2, <2>6 DEF InspectorInv, InspectorNotStale, Look, TypeOK, Dirs, Content, Valid, Version, None, Partial
        <2>7. QED
            BY <1>13, <2>3, <2>4, <2>5, <2>6 DEF Inspect
    <1>14. CASE UNCHANGED vars
        BY <1>0, <1>14 DEF vars, engineVars, inspectorVars, InspectorInv, InspectorNotStale, TmpFresh
    <1>15. QED
        BY <1>1, <1>2, <1>3, <1>4, <1>5, <1>6, <1>7, <1>8, <1>9, <1>10, <1>11, <1>12, <1>13, <1>14 DEF Next

\* A process that inspects a live database, file by file while write_manifest moves the
\* manifest through the three names, never takes a manifest older than the last one
\* acknowledged when it began, through errors, crashes and recoveries of the writer.
THEOREM InspectorNeverStale == Spec => []InspectorNotStale
    <1>1. Init => ManifestInv
        BY ManifestAssumption DEF Init, ManifestInv, TypeOK, Dirs, Content, Version, None, Partial, SafeDir, Valid
    <1>2. Init => InspectorInv
        BY <1>1 DEF Init, InspectorInv, InspectorNotStale, TmpFresh, Valid, None
    <1>3. InspectorInv => InspectorNotStale
        BY DEF InspectorInv
    <1>4. QED
        BY <1>2, <1>3, InspectorStep, PTL DEF Spec
=============================================================================
