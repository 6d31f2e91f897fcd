------------------------------- MODULE VexRepo -------------------------------
(***************************************************************************)
(* A VEX repository in the cache (pkg/vex/repo) and the downloader below   *)
(* it (pkg/downloader).  Repository.Update fetches the manifest once, and  *)
(* the repository's archive, from the first of its locations that answers, *)
(* whenever the update interval is over.  A location that gave an ETag is  *)
(* asked with If-None-Match: the old files are renamed aside, restored if  *)
(* the answer is 304, and dropped otherwise.  cache.json keeps the ETags   *)
(* and the time of the last update.                                        *)
(*                                                                         *)
(* The content of the repository is its version; a location's ETag is the  *)
(* version it serves, 0 for none.                                          *)
(***************************************************************************)
EXTENDS Naturals

CONSTANTS
    NumLocations,   \* len(ver.Locations)
    WithETag,       \* the locations whose answers carry an ETag
    UpdateInterval,
    MaxTime,        \* bound on the clock
    MaxVersion,     \* bound on the versions published
    MaxFaults       \* bound on failed downloads and kills together

ASSUME LocationsAssumption == NumLocations \in Nat \ {0} /\ WithETag \subseteq 1 .. NumLocations
ASSUME BoundsAssumption ==
    UpdateInterval \in Nat /\ MaxTime \in Nat /\ MaxVersion \in Nat \ {0} /\ MaxFaults \in Nat

Locations == 1 .. NumLocations
NoETags   == [l \in Locations |-> 0]

VARIABLES
    now,
    served,     \* per location: the version it serves
    manifest,   \* vex-repository.json: "none", "torn" or "whole"
    dst,        \* the version directory: "none", "empty", "torn" or "whole", and what is in it
    backup,     \* its ".backup" sibling
    meta,       \* cache.json: "none", "torn" or "whole", UpdatedAt and ETags
    pc,         \* the step of Update
    loc,        \* the location being asked
    etags,      \* the ETags in memory
    aside,      \* "yes" if backupDst moved dst away for this location
    faults,     \* failures and kills so far
    health,     \* history: since the last full download, "lost" if a download failed
                \* that had put the old files away, "killed" if a run stopped in
                \* its middle, "intact" otherwise
    fetched     \* history: the <<location, version>> pairs downloaded in full

store == <<manifest, dst, backup, meta>>
local == <<pc, loc, etags, aside>>
hist  == <<faults, health, fetched>>
vars  == <<now, served, store, local, hist>>

NoDir   == [st |-> "none", ver |-> 0]
Dir(st, v) == [st |-> st, ver |-> v]
NoMeta  == [st |-> "none", at |-> 0, etags |-> NoETags]

Init ==
    /\ now = 1
    /\ served = [l \in Locations |-> 1]
    /\ manifest = "none" /\ dst = NoDir /\ backup = NoDir /\ meta = NoMeta
    /\ pc = "idle" /\ loc = 1 /\ etags = NoETags /\ aside = "no"
    /\ faults = 0 /\ health = "lost" /\ fetched = {}

----------------------------------------------------------------------------
(* The environment.                                                        *)

Advance ==
    /\ now < MaxTime
    /\ now' = now + 1
    /\ UNCHANGED <<served, store, local, hist>>

Publish(l) ==
    /\ served[l] < MaxVersion
    /\ served' = [served EXCEPT ![l] = @ + 1]
    /\ UNCHANGED <<now, store, local, hist>>

Fault(h) == faults < MaxFaults /\ faults' = faults + 1 /\ health' = h /\ UNCHANGED fetched

----------------------------------------------------------------------------
(* Mutants of the actions below.                                           *)

\* The 304 branch forgets to move the backup back.
MutNoRestore ==
    /\ pc = "get"
    /\ etags[loc] # 0 /\ served[loc] = etags[loc]
    /\ backup' = NoDir
    /\ pc' = "save"
    /\ UNCHANGED <<now, served, manifest, dst, meta, loc, etags, aside, hist>>

\* The backup is restored on every error.
MutRestoreAlways ==
    /\ pc = "get"
    /\ Fault("lost")
    /\ dst' = IF aside = "yes" THEN backup ELSE NoDir
    /\ backup' = NoDir
    /\ pc' = "next"
    /\ UNCHANGED <<now, served, manifest, meta, loc, etags, aside>>

\* The ETag is remembered before the archive is extracted.
MutETagFirst ==
    /\ pc = "try"
    /\ etags' = [etags EXCEPT ![loc] = IF loc \in WithETag THEN served[loc] ELSE 0]
    /\ dst' = NoDir
    /\ backup' = NoDir
    /\ aside' = "no"
    /\ pc' = "get"
    /\ UNCHANGED <<now, served, manifest, meta, loc, hist>>

\* The loop over the locations runs one too far.
MutNextBeyond ==
    /\ pc = "next"
    /\ loc' = loc + 1 /\ pc' = "try"
    /\ UNCHANGED <<now, served, store, etags, aside, hist>>

\* A cache.json that cannot be read sends Update back to its beginning.
MutBeginRetries ==
    /\ pc = "begin"
    /\ dst' = IF dst.st = "none" THEN Dir("empty", 0) ELSE dst
    /\ IF meta.st = "torn"
         THEN pc' = "decode" /\ UNCHANGED etags
         ELSE pc' = "try" /\ etags' = meta.etags
    /\ loc' = 1
    /\ UNCHANGED <<now, served, manifest, backup, meta, aside, hist>>

\* needUpdate takes a cache.json it cannot decode for a recent one.
MutTornIsRecent == dst.st = "none" \/ meta.st = "none" \/ now > meta.at + UpdateInterval

----------------------------------------------------------------------------
(* Repository.Manifest.                                                    *)

Start ==
    /\ pc = "idle"
    /\ pc' = IF manifest = "none" THEN "manifest" ELSE "decode"
    /\ UNCHANGED <<now, served, store, loc, etags, aside, hist>>

DownloadManifest ==
    /\ pc = "manifest"
    /\ manifest' = "whole"
    /\ pc' = "decode"
    /\ UNCHANGED <<now, served, dst, backup, meta, loc, etags, aside, hist>>

\* The whole directory of the repository is removed.
DownloadManifestFail ==
    /\ pc = "manifest"
    /\ Fault("lost")
    /\ manifest' = "none" /\ dst' = NoDir /\ backup' = NoDir /\ meta' = NoMeta
    /\ pc' = "failed"
    /\ UNCHANGED <<now, served, loc, etags, aside>>

\* Without a cache.json the last update was at the zero time.
NeedUpdate ==
    \/ dst.st = "none"
    \/ meta.st # "whole"
    \/ now > meta.at + UpdateInterval

\* Update: the manifest is read, then needUpdate decides.
Check ==
    /\ pc = "decode"
    /\ pc' = IF manifest # "whole" THEN "failed" ELSE IF NeedUpdate THEN "begin" ELSE "ok"
    /\ UNCHANGED <<now, served, store, loc, etags, aside, hist>>

----------------------------------------------------------------------------
(* Repository.download and downloader.Download.                            *)

Begin ==
    /\ pc = "begin"
    /\ dst' = IF dst.st = "none" THEN Dir("empty", 0) ELSE dst
    /\ IF meta.st = "torn"
         THEN pc' = "failed" /\ UNCHANGED etags
         ELSE pc' = "try" /\ etags' = meta.etags
    /\ loc' = 1
    /\ UNCHANGED <<now, served, manifest, backup, meta, aside, hist>>

\* backupDst when there is an ETag to ask with, os.RemoveAll(dst) otherwise.
Prepare ==
    /\ pc = "try"
    /\ IF etags[loc] # 0
         THEN backup' = dst /\ aside' = IF dst.st # "none" THEN "yes" ELSE "no"
         ELSE aside' = "no" /\ UNCHANGED backup
    /\ dst' = NoDir
    /\ pc' = "get"
    /\ UNCHANGED <<now, served, manifest, meta, loc, etags, hist>>

\* backupDst cannot rename dst: Download returns with dst as it was, and a backup
\* of an earlier run is removed or not.
BackupFail ==
    /\ pc = "try"
    /\ etags[loc] # 0
    /\ Fault(health)
    /\ backup' \in {NoDir, backup}
    /\ aside' = "no"
    /\ pc' = "next"
    /\ UNCHANGED <<now, served, manifest, dst, meta, loc, etags>>

\* 304 Not Modified: ErrSkipDownload, cleanup(restore=true).
NotModified ==
    /\ pc = "get"
    /\ etags[loc] # 0 /\ served[loc] = etags[loc]
    /\ dst' = IF aside = "yes" THEN backup ELSE dst
    /\ backup' = IF aside = "yes" THEN NoDir ELSE backup
    /\ pc' = "save"
    /\ UNCHANGED <<now, served, manifest, meta, loc, etags, aside, hist>>

\* The same when the backup cannot be renamed back: a warning, and it is dropped.
RestoreFail ==
    /\ pc = "get"
    /\ etags[loc] # 0 /\ served[loc] = etags[loc]
    /\ aside = "yes"
    /\ Fault("lost")
    /\ dst' = NoDir /\ backup' = NoDir
    /\ pc' = "save"
    /\ UNCHANGED <<now, served, manifest, meta, loc, etags, aside>>

\* 200: the archive is extracted into dst, cleanup(restore=false).
Downloaded ==
    /\ pc = "get"
    /\ etags[loc] = 0 \/ served[loc] # etags[loc]
    /\ dst' = Dir("whole", served[loc])
    /\ backup' = IF aside = "yes" THEN NoDir ELSE backup
    /\ etags' = [etags EXCEPT ![loc] = IF loc \in WithETag THEN served[loc] ELSE 0]
    /\ fetched' = fetched \cup {<<loc, served[loc]>>}
    /\ health' = "intact"
    /\ pc' = "save"
    /\ UNCHANGED <<now, served, manifest, meta, loc, aside, faults>>

\* Any other error, before or while the archive is extracted.
DownloadFail ==
    /\ pc = "get"
    /\ Fault("lost")
    /\ dst' \in {NoDir, Dir("torn", served[loc])}
    /\ backup' = IF aside = "yes" THEN NoDir ELSE backup
    /\ pc' = "next"
    /\ UNCHANGED <<now, served, manifest, meta, loc, etags, aside>>

NextLocation ==
    /\ pc = "next"
    /\ IF loc < NumLocations
         THEN loc' = loc + 1 /\ pc' = "try"
         ELSE pc' = "failed" /\ UNCHANGED loc
    /\ UNCHANGED <<now, served, store, etags, aside, hist>>

\* updateCacheMetadata truncates cache.json ...
SaveBegin ==
    /\ pc = "save"
    /\ meta' = [meta EXCEPT !.st = "torn"]
    /\ pc' = "saving"
    /\ UNCHANGED <<now, served, manifest, dst, backup, loc, etags, aside, hist>>

\* ... and writes it.
SaveEnd ==
    /\ pc = "saving"
    /\ meta' = [st |-> "whole", at |-> now, etags |-> etags]
    /\ pc' = "ok"
    /\ UNCHANGED <<now, served, manifest, dst, backup, loc, etags, aside, hist>>

\* The command ends and another one starts.
Done ==
    /\ pc \in {"ok", "failed"}
    /\ pc' = "idle" /\ loc' = 1 /\ etags' = NoETags /\ aside' = "no"
    /\ UNCHANGED <<now, served, store, hist>>

\* The process is killed, or returns an error of MkdirAll or of writing cache.json,
\* which leaves the same files: what it was writing stays torn, what it had moved
\* aside stays aside.
Kill ==
    /\ pc \notin {"idle", "ok", "failed"}
    /\ Fault(IF health = "lost" THEN "lost" ELSE "killed")
    /\ manifest' \in IF pc = "manifest" THEN {"none", "torn"} ELSE {manifest}
    /\ dst' \in IF pc = "get" THEN {dst, Dir("torn", served[loc])} ELSE {dst}
    /\ pc' = "idle" /\ loc' = 1 /\ etags' = NoETags /\ aside' = "no"
    /\ UNCHANGED <<now, served, backup, meta>>

Update ==
    \/ Start \/ DownloadManifest \/ DownloadManifestFail \/ Check \/ Begin \/ Prepare
    \/ BackupFail \/ NotModified \/ RestoreFail \/ Downloaded \/ DownloadFail \/ NextLocation
    \/ SaveBegin \/ SaveEnd \/ Done

Next == Advance \/ (\E l \in Locations : Publish(l)) \/ Update \/ Kill

Spec == Init /\ [][Next]_vars

\* Trivy is run again and again, and time passes between two runs.
FairSpec == Spec /\ WF_vars(Update) /\ WF_vars(Advance)

----------------------------------------------------------------------------
DirStates == {"none", "empty", "torn", "whole"}
Versions  == 0 .. MaxVersion

TypeOK ==
    /\ now \in Nat
    /\ served \in [Locations -> Versions]
    /\ manifest \in {"none", "torn", "whole"}
    /\ dst \in [st : DirStates, ver : Versions]
    /\ backup \in [st : DirStates, ver : Versions]
    /\ meta \in [st : {"none", "torn", "whole"}, at : Nat, etags : [Locations -> Versions]]
    /\ pc \in {"idle", "manifest", "decode", "begin", "try", "get", "next", "save", "saving",
               "ok", "failed"}
    /\ loc \in Locations
    /\ etags \in [Locations -> Versions]
    /\ aside \in {"yes", "no"}
    /\ faults \in 0 .. MaxFaults
    /\ health \in {"intact", "killed", "lost"}
    /\ fetched \subseteq Locations \X Versions

\* An ETag on disk stands for an archive that was once extracted in full.
ETagSound ==
    meta.st = "whole" =>
        \A l \in Locations : meta.etags[l] # 0 => <<l, meta.etags[l]>> \in fetched

\* As long as no download failed with the old files put away and nothing was
\* killed, an Update that returns nil leaves a complete repository, whether it was
\* fetched, kept on a 304, left alone by a backup that failed, or not due.
PresentUnlessFault == pc = "ok" /\ health = "intact" => dst.st = "whole"

\* "so a genuine failure never resurrects stale files": once a download failed
\* after it had put the old files away, no complete copy is there to be read until
\* one is downloaded in full again; neither a later 304 nor a backup that a kill
\* or a failed backupDst left behind brings one back.
FailureNeverResurrects == health = "lost" => dst.st # "whole"

\* When Update returns nil, cache.json can be read: one that a kill left half
\* written never passes for recent.  And unless something went wrong since the
\* files were downloaded, it has their ETag, not that of an earlier version, if all
\* locations send one: the next 304 is about what is there.
RecordMatchesFiles ==
    pc = "ok" =>
        /\ meta.st = "whole"
        /\ health = "intact" /\ WithETag = Locations =>
               \E l \in Locations : meta.etags[l] = dst.ver

\* Every Update ends.
UpdateEnds == (pc = "decode") ~> (pc \in {"ok", "failed", "idle"})

----------------------------------------------------------------------------
(* What the code's own words promise and the code does not keep.           *)

\* "No updates in the repository": an Update that returns nil leaves a
\* repository behind.
UpdatedMeansPresent == pc = "ok" => dst.st = "whole"
=============================================================================
