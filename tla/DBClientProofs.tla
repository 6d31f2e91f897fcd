--------------------------- MODULE DBClientProofs ----------------------------
(***************************************************************************)
(* Proofs about DBClient.  The types and the schema of what is scanned     *)
(* with are proved for any number of processes on one cache directory; the *)
(* consistency of what NeedsUpdate accepts as long as no two of them       *)
(* replace the directory at the same time; that a scan has the database it *)
(* accepted for one process.                                               *)
(***************************************************************************)
EXTENDS DBClient, TLAPS

\* The metadata of build b as the archive has it, without DownloadedAt.
Published(b) == [st |-> "whole", build |-> b, schema |-> SchemaVersion, downloadedAt |-> 0]

\* From the removal of the old directory on, and before a scan, the metadata in the
\* directory and the copy to be stamped have this binary's schema.
SchemaOurs ==
    /\ meta.st = "none" => meta.schema = SchemaVersion
    /\ \A p \in Procs :
        /\ pc[p] \in {"extract", "stamp", "stampBegin", "stampEnd", "show", "ready"} =>
               meta.schema = SchemaVersion
        /\ pc[p] \in {"stampBegin", "stampEnd"} => seen[p].schema = SchemaVersion

\* There is a repository left to try.
Tries == \A p \in Procs : pc[p] \in {"start", "fetch"} => tried[p] < Repos

IInv == TypeOK /\ SchemaOurs /\ Tries

\* No two processes replace the directory at the same time.
Replacing(p) == pc[p] \in {"remove", "extract", "stamp", "stampBegin", "stampEnd"}
OneUpdater   == \A p, q \in Procs : Replacing(p) /\ Replacing(q) => p = q

\* DownloadedAt seals a directory: it is not there while a file is missing, torn
\* or of another build.
Sealed == meta.st = "whole" /\ meta.downloadedAt # 0 /\ db.st # "none" => Consistent(db, meta)

\* What the directory holds at each step of an update.
Progress ==
    \A p \in Procs :
        /\ pc[p] = "remove" => todo[p] = {"db", "meta"}
        /\ pc[p] = "extract" =>
            /\ "dbOpen" \in todo[p] => dbBy = p /\ db = [st |-> "torn", build |-> got[p]]
            /\ todo[p] \cap {"db", "dbOpen"} = {} => db = [st |-> "whole", build |-> got[p]]
            /\ IF "meta" \in todo[p] THEN meta.st = "none" ELSE meta = Published(got[p])
        /\ pc[p] \in {"stamp", "stampBegin", "stampEnd"} => db = [st |-> "whole", build |-> got[p]]
        /\ pc[p] \in {"stamp", "stampBegin"} => meta = Published(got[p])
        /\ pc[p] \in {"stampBegin", "stampEnd"} => seen[p] = Published(got[p])
        /\ pc[p] = "stampEnd" => meta.st = "torn" /\ metaBy = p

SoloInv == IInv /\ Sealed /\ Progress

\* A run goes on to scan with a directory that has both files and, if it does not
\* skip updates, is consistent and was not due when the run began.
Usable ==
    \A p \in Procs :
        /\ began[p] <= now
        /\ pc[p] \in {"show", "ready"} =>
            /\ db.st # "none" /\ meta.st = "whole"
            /\ p \in skips \/ (Consistent(db, meta) /\ NotDue(began[p]))

OneInv == SoloInv /\ Usable

----------------------------------------------------------------------------
\* The types of the constants and of the values written.
LEMMA Constants ==
    /\ Interval \in Nat /\ Repos \in Nat \ {0} /\ SchemaVersion \in Schemas
    /\ NoDB \in DBFiles /\ NoMeta \in MetaFiles /\ NoMeta.schema = SchemaVersion
    /\ NoDB.st = "none" /\ NoMeta.st = "none" /\ NoMeta.downloadedAt = 0
    /\ \A b \in Nat : Published(b) \in MetaFiles
BY IntervalAssumption, ReposAssumption
   DEF SchemaVersion, Schemas, NoDB, NoMeta, DBFiles, MetaFiles, FileStates, Published

\* NeedsUpdate gives one of three answers; "no" means that the files are there and
\* of this schema, and without --skip-db-update that they are sealed and new.
LEMMA Decision ==
    ASSUME NEW p
    PROVE  /\ NeedsUpdate(db, meta, now, p \in skips) \in {"yes", "no", "error"}
           /\ NeedsUpdate(db, meta, now, p \in skips) = "no" =>
                /\ db.st # "none" /\ meta.st = "whole" /\ meta.schema = SchemaVersion
                /\ p \in skips \/ (meta.downloadedAt # 0 /\ IsNewDB(meta, now))
<1>1. CASE p \in skips
    BY <1>1 DEF NeedsUpdate, NoRequiredFiles
<1>2. CASE p \notin skips
    BY <1>2 DEF NeedsUpdate, NoRequiredFiles
<1> QED  BY <1>1, <1>2

\* The invariant holds in a directory that is empty, or left by any Trivy or oras.
LEMMA InitHolds == Init => IInv
<1> SUFFICES ASSUME Init PROVE IInv
    OBVIOUS
<1> USE Constants DEF Init
<1>1. TypeOK
    BY DEF TypeOK, Steps, DBFiles, MetaFiles, FileStates
<1>2. SchemaOurs /\ Tries
    BY DEF SchemaOurs, Tries
<1> QED  BY <1>1, <1>2 DEF IInv

\* Time passes.
LEMMA HourlyStep == ASSUME IInv, Hourly PROVE IInv'
<1> USE Constants DEF IInv, Hourly, file, proc
<1>1. TypeOK'
    BY DEF TypeOK, Steps
<1>2. SchemaOurs'
    BY DEF SchemaOurs, TypeOK
<1>3. Tries'
    BY DEF Tries, TypeOK
<1> QED  BY <1>1, <1>2, <1>3 DEF IInv

\* A build is published.
LEMMA PublishStep == ASSUME IInv, Publish PROVE IInv'
<1> USE Constants DEF IInv, Publish, file, proc
<1>1. TypeOK'
    BY DEF TypeOK, Steps
<1>2. SchemaOurs'
    BY DEF SchemaOurs, TypeOK
<1>3. Tries'
    BY DEF Tries, TypeOK
<1> QED  BY <1>1, <1>2, <1>3 DEF IInv

\* NeedsUpdate accepts this schema only, whether updates are skipped or not.
LEMMA CheckStep == ASSUME IInv, NEW p \in Procs, Check(p) PROVE IInv'
<1> USE Constants DEF IInv, Check, file, proc, Goto
<1>1. TypeOK'
    BY Decision DEF TypeOK, Steps
<1>2. SchemaOurs'
    BY Decision DEF SchemaOurs, TypeOK
<1>3. Tries'
    BY Decision DEF Tries, TypeOK
<1> QED  BY <1>1, <1>2, <1>3 DEF IInv

\* The archive is fetched.
LEMMA FetchStep == ASSUME IInv, NEW p \in Procs, Fetch(p) PROVE IInv'
<1> USE Constants DEF IInv, Fetch, file, proc, Goto
<1>1. TypeOK'
    BY DEF TypeOK, Steps
<1>2. SchemaOurs'
    BY DEF SchemaOurs, TypeOK
<1>3. Tries'
    BY DEF Tries, TypeOK
<1> QED  BY <1>1, <1>2, <1>3 DEF IInv

\* Another repository is tried, if there is one.
LEMMA TryOtherStep == ASSUME IInv, NEW p \in Procs, TryOther(p) PROVE IInv'
<1> USE Constants DEF IInv, TryOther, file, proc, Goto
<1>1. TypeOK'
    BY DEF TypeOK, Steps, Tries
<1>2. SchemaOurs'
    BY DEF SchemaOurs, TypeOK
<1>3. Tries'
    BY DEF Tries, TypeOK
<1> QED  BY <1>1, <1>2, <1>3 DEF IInv

\* A file that is removed has no schema of another Trivy.
LEMMA RemoveOneStep == ASSUME IInv, NEW p \in Procs, RemoveOne(p) PROVE IInv'
<1> USE Constants DEF IInv, RemoveOne, file, proc
<1>1. TypeOK'
    BY DEF TypeOK, Steps
<1>2. SchemaOurs'
    BY DEF SchemaOurs, TypeOK
<1>3. Tries'
    BY DEF Tries, TypeOK
<1> QED  BY <1>1, <1>2, <1>3 DEF IInv

\* The directory is empty.
LEMMA RemoveDoneStep == ASSUME IInv, NEW p \in Procs, RemoveDone(p) PROVE IInv'
<1> USE Constants DEF IInv, RemoveDone, file, proc, Goto
<1>1. TypeOK'
    BY DEF TypeOK, Steps
<1>2. SchemaOurs'
    BY DEF SchemaOurs, TypeOK
<1>3. Tries'
    BY DEF Tries, TypeOK
<1> QED  BY <1>1, <1>2, <1>3 DEF IInv

\* trivy.db is created.
LEMMA OpenDBStep == ASSUME IInv, NEW p \in Procs, OpenDB(p) PROVE IInv'
<1> USE Constants DEF IInv, OpenDB, file, proc
<1>1. TypeOK'
    BY DEF TypeOK, Steps, DBFiles, MetaFiles, FileStates
<1>2. SchemaOurs'
    BY DEF SchemaOurs, TypeOK
<1>3. Tries'
    BY DEF Tries, TypeOK
<1> QED  BY <1>1, <1>2, <1>3 DEF IInv

\* trivy.db is written.
LEMMA WriteDBStep == ASSUME IInv, NEW p \in Procs, WriteDB(p) PROVE IInv'
<1> USE Constants DEF IInv, WriteDB, file, proc
<1>1. TypeOK'
    BY DEF TypeOK, Steps, DBFiles, MetaFiles, FileStates
<1>2. SchemaOurs'
    BY DEF SchemaOurs, TypeOK
<1>3. Tries'
    BY DEF Tries, TypeOK
<1> QED  BY <1>1, <1>2, <1>3 DEF IInv

\* The archive's metadata has this schema.
LEMMA ExtractMetaStep == ASSUME IInv, NEW p \in Procs, ExtractMeta(p) PROVE IInv'
<1> USE Constants DEF IInv, ExtractMeta, file, proc
<1>1. TypeOK'
    BY DEF TypeOK, Steps, DBFiles, MetaFiles, FileStates
<1>2. SchemaOurs'
    BY DEF SchemaOurs, TypeOK
<1>3. Tries'
    BY DEF Tries, TypeOK
<1> QED  BY <1>1, <1>2, <1>3 DEF IInv

\* The extraction ends.
LEMMA ExtractDoneStep == ASSUME IInv, NEW p \in Procs, ExtractDone(p) PROVE IInv'
<1> USE Constants DEF IInv, ExtractDone, file, proc, Goto
<1>1. TypeOK'
    BY DEF TypeOK, Steps
<1>2. SchemaOurs'
    BY DEF SchemaOurs, TypeOK
<1>3. Tries'
    BY DEF Tries, TypeOK
<1> QED  BY <1>1, <1>2, <1>3 DEF IInv

\* What is read back has this schema.
LEMMA StampReadStep == ASSUME IInv, NEW p \in Procs, StampRead(p) PROVE IInv'
<1> USE Constants DEF IInv, StampRead, file, proc, Goto
<1>1. TypeOK'
    BY DEF TypeOK, Steps
<1>2. SchemaOurs'
    BY DEF SchemaOurs, TypeOK
<1>3. Tries'
    BY DEF Tries, TypeOK
<1> QED  BY <1>1, <1>2, <1>3 DEF IInv

\* metadata.json is truncated by its stamping.
LEMMA StampBeginStep == ASSUME IInv, NEW p \in Procs, StampBegin(p) PROVE IInv'
<1> USE Constants DEF IInv, StampBegin, file, proc, Goto
<1>1. TypeOK'
    BY DEF TypeOK, Steps, DBFiles, MetaFiles, FileStates
<1>2. SchemaOurs'
    BY DEF SchemaOurs, TypeOK
<1>3. Tries'
    BY DEF Tries, TypeOK
<1> QED  BY <1>1, <1>2, <1>3 DEF IInv

\* metadata.json is stamped.
LEMMA StampEndStep == ASSUME IInv, NEW p \in Procs, StampEnd(p) PROVE IInv'
<1> USE Constants DEF IInv, StampEnd, file, proc, Goto
<1>1. TypeOK'
    BY DEF TypeOK, Steps, DBFiles, MetaFiles, FileStates
<1>2. SchemaOurs'
    BY DEF SchemaOurs, TypeOK
<1>3. Tries'
    BY DEF Tries, TypeOK
<1> QED  BY <1>1, <1>2, <1>3 DEF IInv

\* The scan begins.
LEMMA ShowInfoStep == ASSUME IInv, NEW p \in Procs, ShowInfo(p) PROVE IInv'
<1> USE Constants DEF IInv, ShowInfo, file, proc, Goto
<1>1. TypeOK'
    BY DEF TypeOK, Steps
<1>2. SchemaOurs'
    BY DEF SchemaOurs, TypeOK
<1>3. Tries'
    BY DEF Tries, TypeOK
<1> QED  BY <1>1, <1>2, <1>3 DEF IInv

\* A failure or a kill leaves the files as they are.
LEMMA AbortStep == ASSUME IInv, NEW p \in Procs, Abort(p) PROVE IInv'
<1> USE Constants DEF IInv, Abort, file, proc, Goto
<1>1. TypeOK'
    BY DEF TypeOK, Steps
<1>2. SchemaOurs'
    BY DEF SchemaOurs, TypeOK
<1>3. Tries'
    BY DEF Tries, TypeOK
<1> QED  BY <1>1, <1>2, <1>3 DEF IInv

\* The next command starts.
LEMMA AgainStep == ASSUME IInv, NEW p \in Procs, Again(p) PROVE IInv'
<1> USE Constants DEF IInv, Again, file, proc, Goto
<1>1. TypeOK'
    BY DEF TypeOK, Steps
<1>2. SchemaOurs'
    BY DEF SchemaOurs, TypeOK
<1>3. Tries'
    BY DEF Tries, TypeOK
<1> QED  BY <1>1, <1>2, <1>3 DEF IInv

\* A stutter keeps the invariant.
LEMMA StutterStep == ASSUME IInv, UNCHANGED vars PROVE IInv'
BY DEF IInv, vars, file, proc, TypeOK, SchemaOurs, Tries

\* One step of any process or of the environment keeps the invariant.
LEMMA IInvStep == ASSUME IInv, [Next]_vars PROVE IInv'
<1>1. ASSUME NEW p \in Procs, Run(p) PROVE IInv'
    BY <1>1, CheckStep, FetchStep, TryOtherStep, RemoveOneStep, RemoveDoneStep, OpenDBStep, WriteDBStep,
       ExtractMetaStep, ExtractDoneStep, StampReadStep, StampBeginStep, StampEndStep, ShowInfoStep DEF Run
<1>2. ASSUME NEW p \in Procs, Abort(p) \/ Again(p) PROVE IInv'
    BY <1>2, AbortStep, AgainStep
<1> QED  BY <1>1, <1>2, HourlyStep, PublishStep, StutterStep DEF Next

\* The inductive invariant for any number of processes.
THEOREM Invariant == Spec => []IInv
<1>1. Init => IInv
    BY InitHolds
<1>2. IInv /\ [Next]_vars => IInv'
    BY IInvStep
<1> QED  BY <1>1, <1>2, PTL DEF Spec

\* The directory and the runs keep their types, with any number of processes.
THEOREM TypeCorrect == Spec => []TypeOK
BY Invariant, PTL DEF IInv

\* However many processes share the cache directory, a run scans only with
\* metadata of this binary's schema in place.
THEOREM SchemaIsOurs == Spec => [](\A p \in Procs : pc[p] = "ready" => meta.schema = SchemaVersion)
<1>1. IInv => \A p \in Procs : pc[p] = "ready" => meta.schema = SchemaVersion
    BY DEF IInv, SchemaOurs
<1> QED  BY <1>1, Invariant, PTL

----------------------------------------------------------------------------
(* One process at a time in the directory.                                 *)

\* The directory a run may find is not sealed or consistent.
LEMMA SoloInitHolds == Init => SoloInv
<1> SUFFICES ASSUME Init PROVE SoloInv
    OBVIOUS
<1>1. IInv
    BY InitHolds
<1>2. Sealed
    BY DEF Init, Sealed, Consistent, NoDB, NoMeta
<1>3. Progress
    BY DEF Init, Progress
<1> QED  BY <1>1, <1>2, <1>3 DEF SoloInv

\* Time passes: the time at which the run began stays.
LEMMA SoloHourly == ASSUME SoloInv, OneUpdater, OneUpdater', Hourly PROVE Sealed' /\ Progress'
<1> USE Constants DEF SoloInv, IInv, TypeOK, Hourly, file, proc
<1>1. Sealed'
    BY DEF Sealed, Consistent, Progress
<1>2. Progress'
    BY DEF Progress, OneUpdater, Replacing
<1> QED  BY <1>1, <1>2

\* The registry is not the directory.
LEMMA SoloPublish == ASSUME SoloInv, OneUpdater, OneUpdater', Publish PROVE Sealed' /\ Progress'
<1> USE Constants DEF SoloInv, IInv, TypeOK, Publish, file, proc
<1>1. Sealed'
    BY DEF Sealed, Consistent, Progress
<1>2. Progress'
    BY DEF Progress, OneUpdater, Replacing
<1> QED  BY <1>1, <1>2

\* A sealed directory is consistent, and a run that does not skip updates accepts no other.
LEMMA SoloCheck == ASSUME SoloInv, OneUpdater, OneUpdater', NEW p \in Procs, Check(p) PROVE Sealed' /\ Progress'
<1> USE Constants DEF SoloInv, IInv, TypeOK, Check, file, proc, Goto
<1>1. Sealed'
    BY Decision DEF Sealed, Consistent, Progress
<1>2. Progress'
    BY Decision DEF Progress, OneUpdater, Replacing
<1> QED  BY <1>1, <1>2

\* The directory is still the old one.
LEMMA SoloFetch == ASSUME SoloInv, OneUpdater, OneUpdater', NEW p \in Procs, Fetch(p) PROVE Sealed' /\ Progress'
<1> USE Constants DEF SoloInv, IInv, TypeOK, Fetch, file, proc, Goto
<1>1. Sealed'
    BY DEF Sealed, Consistent, Progress
<1>2. Progress'
    BY DEF Progress, OneUpdater, Replacing
<1> QED  BY <1>1, <1>2

\* The directory is still the old one.
LEMMA SoloTryOther == ASSUME SoloInv, OneUpdater, OneUpdater', NEW p \in Procs, TryOther(p) PROVE Sealed' /\ Progress'
<1> USE Constants DEF SoloInv, IInv, TypeOK, TryOther, file, proc, Goto
<1>1. Sealed'
    BY DEF Sealed, Consistent, Progress
<1>2. Progress'
    BY DEF Progress, OneUpdater, Replacing
<1> QED  BY <1>1, <1>2

\* A directory that lacks a file is not accepted.
LEMMA SoloRemoveOne == ASSUME SoloInv, OneUpdater, OneUpdater', NEW p \in Procs, RemoveOne(p) PROVE Sealed' /\ Progress'
<1> USE Constants DEF SoloInv, IInv, TypeOK, RemoveOne, file, proc
<1>1. Sealed'
    BY DEF Sealed, Consistent, Progress
<1>2. Progress'
    BY DEF Progress, OneUpdater, Replacing
<1> QED  BY <1>1, <1>2

\* The extraction starts from an empty directory.
LEMMA SoloRemoveDone == ASSUME SoloInv, OneUpdater, OneUpdater', NEW p \in Procs, RemoveDone(p) PROVE Sealed' /\ Progress'
<1> USE Constants DEF SoloInv, IInv, TypeOK, RemoveDone, file, proc, Goto
<1>1. Sealed'
    BY DEF Sealed, Consistent, Progress
<1>2. Progress'
    BY DEF Progress, OneUpdater, Replacing
<1> QED  BY <1>1, <1>2

\* trivy.db is torn next to metadata that is absent or not sealed.
LEMMA SoloOpenDB == ASSUME SoloInv, OneUpdater, OneUpdater', NEW p \in Procs, OpenDB(p) PROVE Sealed' /\ Progress'
<1> USE Constants DEF SoloInv, IInv, TypeOK, OpenDB, file, proc
<1>1. Sealed'
    BY DEF Sealed, Consistent, Progress, Published
<1>2. Progress'
    BY DEF Progress, OneUpdater, Replacing, Published
<1> QED  BY <1>1, <1>2

\* trivy.db becomes whole.
LEMMA SoloWriteDB == ASSUME SoloInv, OneUpdater, OneUpdater', NEW p \in Procs, WriteDB(p) PROVE Sealed' /\ Progress'
<1> USE Constants DEF SoloInv, IInv, TypeOK, WriteDB, file, proc
<1>1. Sealed'
    BY DEF Sealed, Consistent, Progress
<1>2. Progress'
    BY DEF Progress, OneUpdater, Replacing
<1> QED  BY <1>1, <1>2

\* The archive's metadata is not sealed.
LEMMA SoloExtractMeta == ASSUME SoloInv, OneUpdater, OneUpdater', NEW p \in Procs, ExtractMeta(p) PROVE Sealed' /\ Progress'
<1> USE Constants DEF SoloInv, IInv, TypeOK, ExtractMeta, file, proc
<1>1. Sealed'
    BY DEF Sealed, Consistent, Progress, Published
<1>2. Progress'
    BY DEF Progress, OneUpdater, Replacing, Published
<1> QED  BY <1>1, <1>2

\* Both files are whole and of the build that was fetched.
LEMMA SoloExtractDone == ASSUME SoloInv, OneUpdater, OneUpdater', NEW p \in Procs, ExtractDone(p) PROVE Sealed' /\ Progress'
<1> USE Constants DEF SoloInv, IInv, TypeOK, ExtractDone, file, proc, Goto
<1>1. Sealed'
    BY DEF Sealed, Consistent, Progress
<1>2. Progress'
    BY DEF Progress, OneUpdater, Replacing
<1> QED  BY <1>1, <1>2

\* What is read back is what was extracted.
LEMMA SoloStampRead == ASSUME SoloInv, OneUpdater, OneUpdater', NEW p \in Procs, StampRead(p) PROVE Sealed' /\ Progress'
<1> USE Constants DEF SoloInv, IInv, TypeOK, StampRead, file, proc, Goto
<1>1. Sealed'
    BY DEF Sealed, Consistent, Progress, Published
<1>2. Progress'
    BY DEF Progress, OneUpdater, Replacing, Published
<1> QED  BY <1>1, <1>2

\* Torn metadata is not accepted.
LEMMA SoloStampBegin == ASSUME SoloInv, OneUpdater, OneUpdater', NEW p \in Procs, StampBegin(p) PROVE Sealed' /\ Progress'
<1> USE Constants DEF SoloInv, IInv, TypeOK, StampBegin, file, proc, Goto
<1>1. Sealed'
    BY DEF Sealed, Consistent, Progress, Published
<1>2. Progress'
    BY DEF Progress, OneUpdater, Replacing, Published
<1> QED  BY <1>1, <1>2

\* The seal is put on two whole files of one build, now.
LEMMA SoloStampEnd == ASSUME SoloInv, OneUpdater, OneUpdater', NEW p \in Procs, StampEnd(p) PROVE Sealed' /\ Progress'
<1> USE Constants DEF SoloInv, IInv, TypeOK, StampEnd, file, proc, Goto
<1>1. Sealed'
    BY DEF Sealed, Consistent, Progress, Published
<1>2. Progress'
    BY DEF Progress, OneUpdater, Replacing, Published
<1> QED  BY <1>1, <1>2

\* The scan begins with what was accepted or downloaded.
LEMMA SoloShowInfo == ASSUME SoloInv, OneUpdater, OneUpdater', NEW p \in Procs, ShowInfo(p) PROVE Sealed' /\ Progress'
<1> USE Constants DEF SoloInv, IInv, TypeOK, ShowInfo, file, proc, Goto
<1>1. Sealed'
    BY DEF Sealed, Consistent, Progress
<1>2. Progress'
    BY DEF Progress, OneUpdater, Replacing
<1> QED  BY <1>1, <1>2

\* Whatever was done so far, the directory is not sealed or consistent.
LEMMA SoloAbort == ASSUME SoloInv, OneUpdater, OneUpdater', NEW p \in Procs, Abort(p) PROVE Sealed' /\ Progress'
<1> USE Constants DEF SoloInv, IInv, TypeOK, Abort, file, proc, Goto
<1>1. Sealed'
    BY DEF Sealed, Consistent, Progress
<1>2. Progress'
    BY DEF Progress, OneUpdater, Replacing
<1> QED  BY <1>1, <1>2

\* The next command finds what the last one left.
LEMMA SoloAgain == ASSUME SoloInv, OneUpdater, OneUpdater', NEW p \in Procs, Again(p) PROVE Sealed' /\ Progress'
<1> USE Constants DEF SoloInv, IInv, TypeOK, Again, file, proc, Goto
<1>1. Sealed'
    BY DEF Sealed, Consistent, Progress
<1>2. Progress'
    BY DEF Progress, OneUpdater, Replacing
<1> QED  BY <1>1, <1>2

\* Every step that keeps the updaters apart keeps the directory not sealed or
\* consistent.
LEMMA SoloStep == ASSUME SoloInv, OneUpdater, OneUpdater', [Next]_vars PROVE SoloInv'
<1>1. IInv'
    BY IInvStep DEF SoloInv
<1>2. ASSUME NEW p \in Procs, Run(p) PROVE Sealed' /\ Progress'
    BY <1>2, SoloCheck, SoloFetch, SoloTryOther, SoloRemoveOne, SoloRemoveDone, SoloOpenDB,
       SoloWriteDB, SoloExtractMeta, SoloExtractDone, SoloStampRead, SoloStampBegin, SoloStampEnd,
       SoloShowInfo DEF Run
<1>3. ASSUME NEW p \in Procs, Abort(p) \/ Again(p) PROVE Sealed' /\ Progress'
    BY <1>3, SoloAbort, SoloAgain
<1>4. ASSUME UNCHANGED vars PROVE Sealed' /\ Progress'
    BY <1>4 DEF SoloInv, vars, file, proc, Sealed, Progress
<1>5. Sealed' /\ Progress'
    BY <1>2, <1>3, <1>4, SoloHourly, SoloPublish DEF Next
<1> QED  BY <1>1, <1>5 DEF SoloInv

\* The inductive invariant as long as no two processes replace the directory.
THEOREM SoloInvariant == Spec /\ []OneUpdater => []SoloInv
<1>1. Init => SoloInv
    BY SoloInitHolds
<1>2. SoloInv /\ OneUpdater /\ OneUpdater' /\ [Next]_vars => SoloInv'
    BY SoloStep
<1> QED  BY <1>1, <1>2, PTL DEF Spec

\* What NeedsUpdate accepts in a state of the invariant is consistent.
LEMMA AcceptedFromSeal == SoloInv => AcceptedIsConsistent
BY DEF SoloInv, Sealed, AcceptedIsConsistent, NeedsUpdate, NoRequiredFiles

\* As long as no two processes replace the directory at the same time, what
\* NeedsUpdate accepts is two whole files of one build, wherever earlier runs
\* failed or were killed: overlapping updates are the only way to another outcome.
THEOREM OnlyOverlapTears == Spec /\ []OneUpdater => []AcceptedIsConsistent
BY SoloInvariant, AcceptedFromSeal, PTL

----------------------------------------------------------------------------
(* One process.                                                            *)

\* The updates of one process do not overlap.
LEMMA OneIsSolo == ASSUME NEW q, Procs = {q} PROVE OneUpdater
BY DEF OneUpdater

\* What a run of the only process accepted or downloaded stays until it is replaced
\* by that process's next run.
LEMMA UsableStep == ASSUME NEW q, Procs = {q}, OneInv, [Next]_vars PROVE Usable'
<1> USE Constants DEF OneInv, SoloInv, IInv, TypeOK, Usable, file, proc, Goto
<1>1. ASSUME Hourly \/ Publish \/ UNCHANGED vars PROVE Usable'
    BY <1>1 DEF Hourly, Publish, vars, Consistent, NotDue
<1>2. ASSUME Check(q) PROVE Usable'
    BY <1>2, Decision DEF Check, Sealed, Consistent, NotDue, IsNewDB, NextUpdate, Hour, MetaFiles
<1>3. ASSUME Fetch(q) \/ TryOther(q) PROVE Usable'
    BY <1>3 DEF Fetch, TryOther
<1>4. ASSUME RemoveOne(q) \/ RemoveDone(q) PROVE Usable'
    BY <1>4 DEF RemoveOne, RemoveDone
<1>5. ASSUME OpenDB(q) \/ WriteDB(q) \/ ExtractMeta(q) \/ ExtractDone(q) PROVE Usable'
    BY <1>5 DEF OpenDB, WriteDB, ExtractMeta, ExtractDone
<1>6. ASSUME StampRead(q) \/ StampBegin(q) PROVE Usable'
    BY <1>6 DEF StampRead, StampBegin
<1>7. ASSUME StampEnd(q) PROVE Usable'
    BY <1>7 DEF StampEnd, Progress, Published, Consistent, NotDue
<1>8. ASSUME ShowInfo(q) \/ Abort(q) \/ Again(q) PROVE Usable'
    BY <1>8 DEF ShowInfo, Abort, Again, Consistent, NotDue
<1> QED
    BY <1>1, <1>2, <1>3, <1>4, <1>5, <1>6, <1>7, <1>8 DEF Next, Run

\* The inductive invariant for one process.
THEOREM OneInvariant == ASSUME NEW q, Procs = {q} PROVE Spec => []OneInv
<1>1. Init => OneInv
    BY SoloInitHolds DEF OneInv, Init, Usable
<1>2. OneInv /\ [Next]_vars => OneInv'
  <2>1. OneUpdater /\ OneUpdater'
      BY OneIsSolo DEF OneUpdater
  <2> QED  BY <2>1, SoloStep, UsableStep DEF OneInv
<1> QED  BY <1>1, <1>2, PTL DEF Spec

\* With one process, a directory that NeedsUpdate accepts holds two whole files of
\* one build, wherever earlier runs failed or were killed.
THEOREM AcceptedDirectoriesAreConsistent == ASSUME NEW q, Procs = {q} PROVE Spec => []AcceptedIsConsistent
<1>1. OneInv => AcceptedIsConsistent
    BY AcceptedFromSeal DEF OneInv
<1> QED  BY <1>1, OneInvariant, PTL

\* With one process, a run scans with a complete database of this schema that was
\* not due for replacement when the run began.
THEOREM ScansAreUsable == ASSUME NEW q, Procs = {q} PROVE Spec => []ReadyIsUsable
<1>1. OneInv => ReadyIsUsable
    BY DEF OneInv, SoloInv, IInv, SchemaOurs, Usable, ReadyIsUsable
<1> QED  BY <1>1, OneInvariant, PTL
=============================================================================
