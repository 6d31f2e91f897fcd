------------------------------ MODULE DBClient ------------------------------
(***************************************************************************)
(* operation.DownloadDB and db.Client: Trivy processes that share a cache  *)
(* directory check, fetch and replace the vulnerability database in it.    *)
(* The registry's archive is fetched into a temporary file first; then the *)
(* directory is removed, the two files are extracted into it, and only     *)
(* then is DownloadedAt written into metadata.json, which marks the        *)
(* download as finished.  The mutex of pkg/commands/operation keeps apart  *)
(* the goroutines of one process, and nothing keeps apart two processes.   *)
(*                                                                         *)
(* A process writes through its own file handle: once another process has  *)
(* unlinked or truncated the file, its writes no longer decide what the    *)
(* path holds.                                                             *)
(***************************************************************************)
EXTENDS VulnDB

CONSTANTS
    Procs,          \* processes, each running one Trivy command after another
    Nobody,         \* no writer
    Repos,          \* the number of repositories to try, the default one a mirror
    MaxTime         \* bound on the clock, in hours

ASSUME NobodyAssumption  == Nobody \notin Procs
ASSUME ReposAssumption   == Repos \in Nat \ {0}
ASSUME MaxTimeAssumption == MaxTime \in Nat \ {0}

VARIABLES
    now, remote,    \* the clock, and the build the registry serves
    db, meta,       \* trivy.db and metadata.json
    dbBy, metaBy,   \* the process whose handle a torn file belongs to
    pc,             \* per process: the step of DownloadDB it is at
    tried,          \* per process: the repositories that failed for the time being
    got,            \* per process: the build it fetched, 0 before
    todo,           \* per process: the archive's entries not yet extracted
    seen,           \* per process: the metadata it read back to stamp it
    skips,          \* the processes whose command has --skip-db-update
    began           \* per process: when its command began (history)

file  == <<db, meta, dbBy, metaBy>>
proc  == <<pc, tried, got, todo, seen, skips, began>>
vars  == <<now, remote, file, proc>>

Steps == {"start", "fetch", "remove", "extract", "stamp", "stampBegin", "stampEnd",
          "show", "ready", "failed"}

\* No cache yet; a database of an older, this or a newer Trivy; one put there
\* with oras, without DownloadedAt.
Init ==
    /\ now = 1 /\ remote = 1
    /\ \/ db = NoDB /\ meta = NoMeta
       \/ /\ db = [st |-> "whole", build |-> 1]
          /\ \E s \in Schemas, at \in {0, 1} :
               meta = [st |-> "whole", build |-> 1, schema |-> s, downloadedAt |-> at]
    /\ dbBy = Nobody /\ metaBy = Nobody
    /\ pc = [p \in Procs |-> "start"]
    /\ tried = [p \in Procs |-> 0]
    /\ got = [p \in Procs |-> 0]
    /\ todo = [p \in Procs |-> {}]
    /\ seen = [p \in Procs |-> NoMeta]
    /\ skips \in SUBSET Procs
    /\ began = [p \in Procs |-> 1]

Hourly ==
    /\ now < MaxTime
    /\ now' = now + 1
    /\ UNCHANGED <<remote, file, proc>>

Publish ==
    /\ remote < now
    /\ remote' = now
    /\ UNCHANGED <<now, file, proc>>

Goto(p, step) == pc' = [pc EXCEPT ![p] = step]

----------------------------------------------------------------------------
(* Mutants of the actions below.                                           *)

\* DownloadedAt is already set when metadata.json is extracted.
MutStampedArchive(p) ==
    /\ pc[p] = "extract"
    /\ "meta" \in todo[p]
    /\ meta' = [st |-> "whole", build |-> got[p], schema |-> SchemaVersion, downloadedAt |-> now]
    /\ metaBy' = Nobody
    /\ todo' = [todo EXCEPT ![p] = @ \ {"meta"}]
    /\ UNCHANGED <<now, remote, db, dbBy, pc, tried, got, seen, skips, began>>

\* metadata.json is extracted without its schema version.
MutMetaNoSchema(p) ==
    /\ pc[p] = "extract"
    /\ "meta" \in todo[p]
    /\ meta' = [st |-> "whole", build |-> got[p], schema |-> 0, downloadedAt |-> 0]
    /\ metaBy' = Nobody
    /\ todo' = [todo EXCEPT ![p] = @ \ {"meta"}]
    /\ UNCHANGED <<now, remote, db, dbBy, pc, tried, got, seen, skips, began>>

\* After the last repository the first one is tried again.
MutTryForever(p) ==
    /\ pc[p] = "fetch"
    /\ tried' = [tried EXCEPT ![p] = (@ + 1) % Repos]
    /\ UNCHANGED <<now, remote, file, pc, got, todo, seen, skips, began>>

----------------------------------------------------------------------------
(* A run of DownloadDB by process p.                                       *)

Check(p) ==
    /\ pc[p] = "start"
    /\ Goto(p, CASE NeedsUpdate(db, meta, now, p \in skips) = "yes"   -> "fetch"
                 [] NeedsUpdate(db, meta, now, p \in skips) = "no"    -> "show"
                 [] NeedsUpdate(db, meta, now, p \in skips) = "error" -> "failed")
    /\ began' = [began EXCEPT ![p] = now]
    /\ UNCHANGED <<now, remote, file, tried, got, todo, seen, skips>>

\* The layer is copied from a repository to a temporary file; a mirror may serve
\* an older build than the registry.
Fetch(p) ==
    /\ pc[p] = "fetch"
    /\ \E build \in 1 .. remote : got' = [got EXCEPT ![p] = build]
    /\ Goto(p, "remove")
    /\ todo' = [todo EXCEPT ![p] = {"db", "meta"}]
    /\ UNCHANGED <<now, remote, file, tried, seen, skips, began>>

\* A repository answers with an error that shouldTryOtherRepo takes for temporary.
TryOther(p) ==
    /\ pc[p] = "fetch"
    /\ tried' = [tried EXCEPT ![p] = @ + 1]
    /\ Goto(p, IF tried[p] + 1 < Repos THEN "fetch" ELSE "failed")
    /\ UNCHANGED <<now, remote, file, got, todo, seen, skips, began>>

\* os.RemoveAll(dst) unlinks one file after the other.  Its error is ignored; that a
\* file cannot be removed and can be written over is left out.
RemoveOne(p) ==
    /\ pc[p] = "remove"
    /\ \/ db.st # "none" /\ db' = NoDB /\ dbBy' = Nobody /\ UNCHANGED <<meta, metaBy>>
       \/ meta.st # "none" /\ meta' = NoMeta /\ metaBy' = Nobody /\ UNCHANGED <<db, dbBy>>
    /\ UNCHANGED <<now, remote, proc>>

RemoveDone(p) ==
    /\ pc[p] = "remove"
    /\ db.st = "none" /\ meta.st = "none"
    /\ Goto(p, "extract")
    /\ UNCHANGED <<now, remote, file, tried, got, todo, seen, skips, began>>

\* The archive's two entries are extracted, in the order they have in it.
OpenDB(p) ==
    /\ pc[p] = "extract"
    /\ "db" \in todo[p]
    /\ db' = [st |-> "torn", build |-> got[p]]
    /\ dbBy' = p
    /\ todo' = [todo EXCEPT ![p] = (@ \ {"db"}) \cup {"dbOpen"}]
    /\ UNCHANGED <<now, remote, meta, metaBy, pc, tried, got, seen, skips, began>>

WriteDB(p) ==
    /\ pc[p] = "extract"
    /\ "dbOpen" \in todo[p]
    /\ db' = IF dbBy = p THEN [db EXCEPT !.st = "whole"] ELSE db
    /\ dbBy' = IF dbBy = p THEN Nobody ELSE dbBy
    /\ todo' = [todo EXCEPT ![p] = @ \ {"dbOpen"}]
    /\ UNCHANGED <<now, remote, meta, metaBy, pc, tried, got, seen, skips, began>>

\* The registry's metadata.json has no DownloadedAt.
ExtractMeta(p) ==
    /\ pc[p] = "extract"
    /\ "meta" \in todo[p]
    /\ meta' = [st |-> "whole", build |-> got[p], schema |-> SchemaVersion, downloadedAt |-> 0]
    /\ metaBy' = Nobody
    /\ todo' = [todo EXCEPT ![p] = @ \ {"meta"}]
    /\ UNCHANGED <<now, remote, db, dbBy, pc, tried, got, seen, skips, began>>

ExtractDone(p) ==
    /\ pc[p] = "extract"
    /\ todo[p] = {}
    /\ Goto(p, "stamp")
    /\ UNCHANGED <<now, remote, file, tried, got, todo, seen, skips, began>>

\* updateDownloadedAt reads the metadata back ...
StampRead(p) ==
    /\ pc[p] = "stamp"
    /\ IF meta.st = "whole"
         THEN seen' = [seen EXCEPT ![p] = meta] /\ Goto(p, "stampBegin")
         ELSE Goto(p, "failed") /\ UNCHANGED seen
    /\ UNCHANGED <<now, remote, file, tried, got, todo, skips, began>>

\* ... truncates the file ...
StampBegin(p) ==
    /\ pc[p] = "stampBegin"
    /\ meta' = [seen[p] EXCEPT !.st = "torn"]
    /\ metaBy' = p
    /\ Goto(p, "stampEnd")
    /\ UNCHANGED <<now, remote, db, dbBy, tried, got, todo, seen, skips, began>>

\* ... and writes it with DownloadedAt set.
StampEnd(p) ==
    /\ pc[p] = "stampEnd"
    /\ meta' = IF metaBy = p THEN [seen[p] EXCEPT !.downloadedAt = now] ELSE meta
    /\ metaBy' = IF metaBy = p THEN Nobody ELSE metaBy
    /\ Goto(p, "show")
    /\ UNCHANGED <<now, remote, db, dbBy, tried, got, todo, seen, skips, began>>

\* ShowInfo needs valid metadata; then the database is opened and the scan runs.
ShowInfo(p) ==
    /\ pc[p] = "show"
    /\ Goto(p, IF meta.st = "whole" THEN "ready" ELSE "failed")
    /\ UNCHANGED <<now, remote, file, tried, got, todo, seen, skips, began>>

\* A step fails, or the process is killed: what it was writing stays torn.
Abort(p) ==
    /\ pc[p] \notin {"start", "ready", "failed"}
    /\ Goto(p, "failed")
    /\ UNCHANGED <<now, remote, file, tried, got, todo, seen, skips, began>>

\* The next Trivy command.
Again(p) ==
    /\ pc[p] \in {"ready", "failed"}
    /\ Goto(p, "start")
    /\ dbBy' = IF dbBy = p THEN Nobody ELSE dbBy
    /\ metaBy' = IF metaBy = p THEN Nobody ELSE metaBy
    /\ tried' = [tried EXCEPT ![p] = 0]
    /\ got' = [got EXCEPT ![p] = 0]
    /\ todo' = [todo EXCEPT ![p] = {}]
    /\ seen' = [seen EXCEPT ![p] = NoMeta]
    /\ skips' \in {skips \cup {p}, skips \ {p}}
    /\ UNCHANGED <<now, remote, db, meta, began>>

Run(p) ==
    \/ Check(p) \/ Fetch(p) \/ TryOther(p) \/ RemoveOne(p) \/ RemoveDone(p) \/ OpenDB(p) \/ WriteDB(p)
    \/ ExtractMeta(p) \/ ExtractDone(p) \/ StampRead(p) \/ StampBegin(p) \/ StampEnd(p)
    \/ ShowInfo(p)

Next ==
    \/ Hourly \/ Publish
    \/ \E p \in Procs : Run(p) \/ Abort(p) \/ Again(p)

Spec == Init /\ [][Next]_vars

\* A process that is not killed goes on.
FairSpec == Spec /\ \A p \in Procs : WF_vars(Run(p))

----------------------------------------------------------------------------
TypeOK ==
    /\ now \in Nat /\ remote \in Nat
    /\ db \in DBFiles /\ meta \in MetaFiles
    /\ dbBy \in Procs \cup {Nobody} /\ metaBy \in Procs \cup {Nobody}
    /\ pc \in [Procs -> Steps]
    /\ tried \in [Procs -> 0 .. Repos]
    /\ got \in [Procs -> Nat]
    /\ todo \in [Procs -> SUBSET {"db", "dbOpen", "meta"}]
    /\ seen \in [Procs -> MetaFiles]
    /\ skips \subseteq Procs
    /\ began \in [Procs -> Nat]

\* A directory that NeedsUpdate accepts holds two whole files of one build, even
\* if a run was killed between any two writes: DownloadedAt marks the end.
AcceptedIsConsistent ==
    NeedsUpdate(db, meta, now, FALSE) = "no" => Consistent(db, meta)

\* At time t no later build was announced, or the database was fetched in that hour or since.
NotDue(t) == t < meta.build + Interval \/ t <= meta.downloadedAt

\* When a run goes on to scan, the database is there with metadata of this binary's
\* schema and, unless updates are skipped, is the complete one its metadata
\* describes and was not due for replacement when the run began.
ReadyIsUsable ==
    \A p \in Procs : pc[p] = "ready" =>
        /\ db.st # "none" /\ meta.st = "whole" /\ meta.schema = SchemaVersion
        /\ p \in skips \/ (Consistent(db, meta) /\ NotDue(began[p]))

\* Every run of DownloadDB ends.
RunEnds == \A p \in Procs : (pc[p] = "start") ~> (pc[p] \in {"ready", "failed"})
=============================================================================
