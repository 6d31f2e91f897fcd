------------------------------- MODULE VulnDB -------------------------------
(***************************************************************************)
(* The vulnerability database as it lies in a directory, and the decision  *)
(* of pkg/db whether to fetch it again.  The directory holds trivy.db and  *)
(* metadata.json.  A file is absent, torn (its writer stopped half-way) or *)
(* whole.  A build of the database is named by the hour it was published;  *)
(* its metadata announces the next build Interval hours later.             *)
(***************************************************************************)
EXTENDS Naturals

CONSTANT Interval   \* metadata.NextUpdate minus the time of the build

ASSUME IntervalAssumption == Interval \in Nat \ {0}

Hour          == 1
SchemaVersion == 2          \* db.SchemaVersion of this binary
Schemas       == {1, 2, 3}  \* written by an older, this and a newer Trivy

FileStates == {"none", "torn", "whole"}
DBFiles    == [st : FileStates, build : Nat]
\* downloadedAt = 0 is the zero time.
MetaFiles  == [st : FileStates, build : Nat, schema : Schemas, downloadedAt : Nat]

NoDB   == [st |-> "none", build |-> 0]
NoMeta == [st |-> "none", build |-> 0, schema |-> SchemaVersion, downloadedAt |-> 0]

NextUpdate(meta) == meta.build + Interval

----------------------------------------------------------------------------
(* Mutants of the definitions below.                                       *)

\* The database is used in the hour of its NextUpdate as well.
MutUsedAtNextUpdate(meta, now) ==
    \/ now <= NextUpdate(meta)
    \/ now < meta.downloadedAt + Hour

----------------------------------------------------------------------------
NoRequiredFiles(db, meta) == db.st = "none" \/ meta.st # "whole"

IsNewDB(meta, now) ==
    \/ now < NextUpdate(meta)
    \/ now < meta.downloadedAt + Hour

\* "yes", "no" or "error", in the order of the early returns of NeedsUpdate.
NeedsUpdate(db, meta, now, skip) ==
    IF NoRequiredFiles(db, meta) THEN IF skip THEN "error" ELSE "yes"
    ELSE IF meta.downloadedAt = 0 /\ ~skip THEN "yes"
    ELSE IF SchemaVersion < meta.schema THEN "error"
    ELSE IF skip THEN IF SchemaVersion = meta.schema THEN "no" ELSE "error"
    ELSE IF SchemaVersion # meta.schema THEN "yes"
    ELSE IF IsNewDB(meta, now) THEN "no" ELSE "yes"

\* Both files are complete and of the same build.
Consistent(db, meta) ==
    db.st = "whole" /\ meta.st = "whole" /\ db.build = meta.build
=============================================================================
