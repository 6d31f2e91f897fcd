---------------------------- MODULE VexRepoProofs ----------------------------
(***************************************************************************)
(* Proofs about VexRepo, for any number of locations, versions and faults, *)
(* any update interval, and any choice of the locations that send ETags.   *)
(***************************************************************************)
EXTENDS VexRepo, TLAPS

\* Every ETag, in memory or on disk, stands for an archive extracted in full.
ETagsEarned ==
    \A l \in Locations :
        /\ etags[l] # 0 => <<l, etags[l]>> \in fetched
        /\ meta.etags[l] # 0 => <<l, meta.etags[l]>> \in fetched

\* Unless it was lost or a run was killed, the complete repository is in its place,
\* or aside while a location is asked with an ETag.
CopyKept ==
    health = "intact" =>
        /\ pc # "get" => dst.st = "whole"
        /\ pc = "get" /\ etags[loc] # 0 => aside = "yes" /\ backup.st = "whole"

\* After a failed download there is no complete copy, neither in its place nor
\* where this location's 304 would restore it from.
CopyGone ==
    health = "lost" =>
        /\ dst.st # "whole"
        /\ pc = "get" /\ aside = "yes" => backup.st # "whole"

\* Some location's ETag is the one of the directory's version.
Matches(dir, tags) == \E l \in Locations : tags[l] = dir.ver

\* If all locations send ETags: the ones on disk are those of the files, the ones in
\* memory are theirs from the moment the files change, and what was moved aside is
\* what both are about.
RecordKept ==
    /\ pc = "ok" => meta.st = "whole"
    /\ health = "intact" /\ WithETag = Locations =>
        /\ pc \notin {"get", "save", "saving"} => Matches(dst, meta.etags)
        /\ pc \in {"try", "get", "next"} => etags = meta.etags
        /\ pc = "get" /\ etags[loc] # 0 => Matches(backup, etags)
        /\ pc \in {"save", "saving"} => Matches(dst, etags)

IInv == TypeOK /\ ETagsEarned /\ CopyKept /\ CopyGone /\ RecordKept

----------------------------------------------------------------------------
\* The constants' types.
LEMMA Constants ==
    /\ NumLocations \in Nat /\ 1 \in Locations /\ MaxFaults \in Nat /\ MaxVersion \in Nat
    /\ 0 \in Versions /\ 1 \in Versions
    /\ \A v \in Versions : v \in Nat
    /\ \A l \in Locations : l \in Nat /\ (l < NumLocations => l + 1 \in Locations)
    /\ NoETags \in [Locations -> Versions] /\ \A l \in Locations : NoETags[l] = 0
BY LocationsAssumption, BoundsAssumption DEF Locations, Versions, NoETags

\* An empty cache satisfies the invariant.
LEMMA InitHolds == Init => IInv
<1> SUFFICES ASSUME Init PROVE IInv
    OBVIOUS
<1> USE Constants DEF Init, NoDir, NoMeta
<1>1. TypeOK
    BY DEF TypeOK, DirStates
<1>2. ETagsEarned
    BY DEF ETagsEarned
<1>3. CopyKept /\ CopyGone /\ RecordKept
    BY DEF CopyKept, CopyGone, RecordKept, Matches
<1> QED  BY <1>1, <1>2, <1>3 DEF IInv

\* Time passes.
LEMMA AdvanceStep == ASSUME IInv, Advance PROVE IInv'
<1> USE Constants DEF IInv, Advance, store, local, hist
<1>1. TypeOK'
    BY DEF TypeOK, DirStates
<1>2. ETagsEarned'
    BY DEF ETagsEarned, TypeOK
<1>3. CopyKept'
    BY DEF CopyKept, TypeOK
<1>4. CopyGone'
    BY DEF CopyGone, TypeOK
<1>5. RecordKept'
    BY DEF RecordKept, CopyKept, Matches, TypeOK
<1> QED  BY <1>1, <1>2, <1>3, <1>4, <1>5 DEF IInv

\* A location publishes another version.
LEMMA PublishStep == ASSUME IInv, NEW l \in Locations, Publish(l) PROVE IInv'
<1> USE Constants DEF IInv, Publish, store, local, hist
<1>1. TypeOK'
    BY DEF TypeOK, DirStates, Versions
<1>2. ETagsEarned'
    BY DEF ETagsEarned, TypeOK
<1>3. CopyKept'
    BY DEF CopyKept, TypeOK
<1>4. CopyGone'
    BY DEF CopyGone, TypeOK
<1>5. RecordKept'
    BY DEF RecordKept, CopyKept, Matches, TypeOK
<1> QED  BY <1>1, <1>2, <1>3, <1>4, <1>5 DEF IInv

\* Manifest finds the manifest there or not.
LEMMA StartStep == ASSUME IInv, Start PROVE IInv'
<1> USE Constants DEF IInv, Start, store, local, hist
<1>1. TypeOK'
    BY DEF TypeOK, DirStates
<1>2. ETagsEarned'
    BY DEF ETagsEarned, TypeOK
<1>3. CopyKept'
    BY DEF CopyKept, TypeOK
<1>4. CopyGone'
    BY DEF CopyGone, TypeOK
<1>5. RecordKept'
    BY DEF RecordKept, CopyKept, Matches, TypeOK
<1> QED  BY <1>1, <1>2, <1>3, <1>4, <1>5 DEF IInv

\* The manifest is fetched.
LEMMA DownloadManifestStep == ASSUME IInv, DownloadManifest PROVE IInv'
<1> USE Constants DEF IInv, DownloadManifest, store, local, hist
<1>1. TypeOK'
    BY DEF TypeOK, DirStates
<1>2. ETagsEarned'
    BY DEF ETagsEarned, TypeOK
<1>3. CopyKept'
    BY DEF CopyKept, TypeOK
<1>4. CopyGone'
    BY DEF CopyGone, TypeOK
<1>5. RecordKept'
    BY DEF RecordKept, CopyKept, Matches, TypeOK
<1> QED  BY <1>1, <1>2, <1>3, <1>4, <1>5 DEF IInv

\* A manifest that cannot be fetched takes the whole directory with it.
LEMMA DownloadManifestFailStep == ASSUME IInv, DownloadManifestFail PROVE IInv'
<1> USE Constants DEF IInv, DownloadManifestFail, store, local, hist, Fault, NoDir, NoMeta
<1>1. TypeOK'
    BY DEF TypeOK, DirStates
<1>2. ETagsEarned'
    BY DEF ETagsEarned, TypeOK
<1>3. CopyKept'
    BY DEF CopyKept, TypeOK
<1>4. CopyGone'
    BY DEF CopyGone, TypeOK
<1>5. RecordKept'
    BY DEF RecordKept, CopyKept, Matches, TypeOK
<1> QED  BY <1>1, <1>2, <1>3, <1>4, <1>5 DEF IInv

\* A torn cache.json is always due, so Update does not return on it.
LEMMA CheckStep == ASSUME IInv, Check PROVE IInv'
<1> USE Constants DEF IInv, Check, store, local, hist, NeedUpdate
<1>1. TypeOK'
    BY DEF TypeOK, DirStates
<1>2. ETagsEarned'
    BY DEF ETagsEarned, TypeOK
<1>3. CopyKept'
    BY DEF CopyKept, TypeOK
<1>4. CopyGone'
    BY DEF CopyGone, TypeOK
<1>5. RecordKept'
    BY DEF RecordKept, CopyKept, Matches, TypeOK
<1> QED  BY <1>1, <1>2, <1>3, <1>4, <1>5 DEF IInv

\* download stops at a torn cache.json and takes the ETags of a whole one.
LEMMA BeginStep == ASSUME IInv, Begin PROVE IInv'
<1> USE Constants DEF IInv, Begin, store, local, hist, Dir
<1>1. TypeOK'
    BY DEF TypeOK, DirStates
<1>2. ETagsEarned'
    BY DEF ETagsEarned, TypeOK
<1>3. CopyKept'
    BY DEF CopyKept, TypeOK
<1>4. CopyGone'
    BY DEF CopyGone, TypeOK
<1>5. RecordKept'
    BY DEF RecordKept, CopyKept, Matches, TypeOK
<1> QED  BY <1>1, <1>2, <1>3, <1>4, <1>5 DEF IInv

\* What is moved aside is what was there: complete without a fault, not complete after one.
LEMMA PrepareStep == ASSUME IInv, Prepare PROVE IInv'
<1> USE Constants DEF IInv, Prepare, store, local, hist, NoDir
<1>1. TypeOK'
    BY DEF TypeOK, DirStates
<1>2. ETagsEarned'
    BY DEF ETagsEarned, TypeOK
<1>3. CopyKept'
    BY DEF CopyKept, TypeOK
<1>4. CopyGone'
    BY DEF CopyGone, TypeOK
<1>5. RecordKept'
    BY DEF RecordKept, CopyKept, Matches, TypeOK
<1> QED  BY <1>1, <1>2, <1>3, <1>4, <1>5 DEF IInv

\* A backup that fails leaves the files where they were.
LEMMA BackupFailStep == ASSUME IInv, BackupFail PROVE IInv'
<1> USE Constants DEF IInv, BackupFail, store, local, hist, Fault, NoDir
<1>1. TypeOK'
    BY DEF TypeOK, DirStates
<1>2. ETagsEarned'
    BY DEF ETagsEarned, TypeOK
<1>3. CopyKept'
    BY DEF CopyKept, TypeOK
<1>4. CopyGone'
    BY DEF CopyGone, TypeOK
<1>5. RecordKept'
    BY DEF RecordKept, CopyKept, Matches, TypeOK
<1> QED  BY <1>1, <1>2, <1>3, <1>4, <1>5 DEF IInv

\* A 304 restores what Prepare moved aside.
LEMMA NotModifiedStep == ASSUME IInv, NotModified PROVE IInv'
<1> USE Constants DEF IInv, NotModified, store, local, hist, NoDir
<1>1. TypeOK'
    BY DEF TypeOK, DirStates
<1>2. ETagsEarned'
    BY DEF ETagsEarned, TypeOK
<1>3. CopyKept'
    BY DEF CopyKept, TypeOK
<1>4. CopyGone'
    BY DEF CopyGone, TypeOK
<1>5. RecordKept'
    BY DEF RecordKept, CopyKept, Matches, TypeOK
<1> QED  BY <1>1, <1>2, <1>3, <1>4, <1>5 DEF IInv

\* A restore that fails loses them.
LEMMA RestoreFailStep == ASSUME IInv, RestoreFail PROVE IInv'
<1> USE Constants DEF IInv, RestoreFail, store, local, hist, Fault, NoDir
<1>1. TypeOK'
    BY DEF TypeOK, DirStates
<1>2. ETagsEarned'
    BY DEF ETagsEarned, TypeOK
<1>3. CopyKept'
    BY DEF CopyKept, TypeOK
<1>4. CopyGone'
    BY DEF CopyGone, TypeOK
<1>5. RecordKept'
    BY DEF RecordKept, CopyKept, Matches, TypeOK
<1> QED  BY <1>1, <1>2, <1>3, <1>4, <1>5 DEF IInv

\* An ETag is earned by the archive extracted in the same step.
LEMMA DownloadedStep == ASSUME IInv, Downloaded PROVE IInv'
<1> USE Constants DEF IInv, Downloaded, store, local, hist, NoDir, Dir
<1>1. TypeOK'
    BY DEF TypeOK, DirStates
<1>2. ETagsEarned'
    BY DEF ETagsEarned, TypeOK
<1>3. CopyKept'
    BY DEF CopyKept, TypeOK
<1>4. CopyGone'
    BY DEF CopyGone, TypeOK
<1>5. RecordKept'
    BY DEF RecordKept, CopyKept, Matches, TypeOK
<1> QED  BY <1>1, <1>2, <1>3, <1>4, <1>5 DEF IInv

\* What was moved aside goes with the failure.
LEMMA DownloadFailStep == ASSUME IInv, DownloadFail PROVE IInv'
<1> USE Constants DEF IInv, DownloadFail, store, local, hist, Fault, NoDir, Dir
<1>1. TypeOK'
    BY DEF TypeOK, DirStates
<1>2. ETagsEarned'
    BY DEF ETagsEarned, TypeOK
<1>3. CopyKept'
    BY DEF CopyKept, TypeOK
<1>4. CopyGone'
    BY DEF CopyGone, TypeOK
<1>5. RecordKept'
    BY DEF RecordKept, CopyKept, Matches, TypeOK
<1> QED  BY <1>1, <1>2, <1>3, <1>4, <1>5 DEF IInv

\* Another location is tried.
LEMMA NextLocationStep == ASSUME IInv, NextLocation PROVE IInv'
<1> USE Constants DEF IInv, NextLocation, store, local, hist
<1>1. TypeOK'
    BY DEF TypeOK, DirStates
<1>2. ETagsEarned'
    BY DEF ETagsEarned, TypeOK
<1>3. CopyKept'
    BY DEF CopyKept, TypeOK
<1>4. CopyGone'
    BY DEF CopyGone, TypeOK
<1>5. RecordKept'
    BY DEF RecordKept, CopyKept, Matches, TypeOK
<1> QED  BY <1>1, <1>2, <1>3, <1>4, <1>5 DEF IInv

\* cache.json is truncated.
LEMMA SaveBeginStep == ASSUME IInv, SaveBegin PROVE IInv'
<1> USE Constants DEF IInv, SaveBegin, store, local, hist
<1>1. TypeOK'
    BY DEF TypeOK, DirStates
<1>2. ETagsEarned'
    BY DEF ETagsEarned, TypeOK
<1>3. CopyKept'
    BY DEF CopyKept, TypeOK
<1>4. CopyGone'
    BY DEF CopyGone, TypeOK
<1>5. RecordKept'
    BY DEF RecordKept, CopyKept, Matches, TypeOK
<1> QED  BY <1>1, <1>2, <1>3, <1>4, <1>5 DEF IInv

\* The ETags in memory become those on disk.
LEMMA SaveEndStep == ASSUME IInv, SaveEnd PROVE IInv'
<1> USE Constants DEF IInv, SaveEnd, store, local, hist
<1>1. TypeOK'
    BY DEF TypeOK, DirStates
<1>2. ETagsEarned'
    BY DEF ETagsEarned, TypeOK
<1>3. CopyKept'
    BY DEF CopyKept, TypeOK
<1>4. CopyGone'
    BY DEF CopyGone, TypeOK
<1>5. RecordKept'
    BY DEF RecordKept, CopyKept, Matches, TypeOK
<1> QED  BY <1>1, <1>2, <1>3, <1>4, <1>5 DEF IInv

\* The command ends.
LEMMA DoneStep == ASSUME IInv, Done PROVE IInv'
<1> USE Constants DEF IInv, Done, store, local, hist
<1>1. TypeOK'
    BY DEF TypeOK, DirStates
<1>2. ETagsEarned'
    BY DEF ETagsEarned, TypeOK
<1>3. CopyKept'
    BY DEF CopyKept, TypeOK
<1>4. CopyGone'
    BY DEF CopyGone, TypeOK
<1>5. RecordKept'
    BY DEF RecordKept, CopyKept, Matches, TypeOK
<1> QED  BY <1>1, <1>2, <1>3, <1>4, <1>5 DEF IInv

\* A kill keeps what is on disk, or tears the copy being written.
LEMMA KillStep == ASSUME IInv, Kill PROVE IInv'
<1> USE Constants DEF IInv, Kill, store, local, hist, Fault, Dir
<1>1. TypeOK'
    BY DEF TypeOK, DirStates
<1>2. ETagsEarned'
    BY DEF ETagsEarned, TypeOK
<1>3. CopyKept'
    BY DEF CopyKept, TypeOK
<1>4. CopyGone'
    BY DEF CopyGone, TypeOK
<1>5. RecordKept'
    BY DEF RecordKept, CopyKept, Matches, TypeOK
<1> QED  BY <1>1, <1>2, <1>3, <1>4, <1>5 DEF IInv

\* The inductive invariant.
THEOREM Invariant == Spec => []IInv
<1>1. Init => IInv
    BY InitHolds
<1>2. ASSUME IInv, [Next]_vars PROVE IInv'
  <2>1. ASSUME Update PROVE IInv'
      BY <1>2, <2>1, StartStep, DownloadManifestStep, DownloadManifestFailStep, CheckStep, BeginStep,
         PrepareStep, BackupFailStep, NotModifiedStep, RestoreFailStep, DownloadedStep,
         DownloadFailStep, NextLocationStep, SaveBeginStep, SaveEndStep, DoneStep DEF Update
  <2>2. ASSUME UNCHANGED vars PROVE IInv'
      BY <1>2, <2>2 DEF IInv, vars, store, local, hist, TypeOK, ETagsEarned, CopyKept, CopyGone,
         RecordKept, Matches
  <2> QED  BY <1>2, <2>1, <2>2, AdvanceStep, PublishStep, KillStep DEF Next
<1> QED  BY <1>1, <1>2, PTL DEF Spec

----------------------------------------------------------------------------
\* The cache and Update keep their types for any locations, versions and faults.
THEOREM TypeCorrect == Spec => []TypeOK
BY Invariant, PTL DEF IInv

\* cache.json never holds an ETag of an archive that was not extracted in full,
\* whatever failed or was killed, in whatever order the locations were asked.
THEOREM ETagsAreSound == Spec => []ETagSound
<1>1. IInv => ETagSound
    BY DEF IInv, ETagsEarned, ETagSound
<1> QED  BY <1>1, Invariant, PTL

\* As long as no download failed with the files put away and nothing was killed,
\* an Update that returns nil leaves a complete repository.
THEOREM PresentWithoutFault == Spec => []PresentUnlessFault
<1>1. IInv => PresentUnlessFault
    BY DEF IInv, CopyKept, PresentUnlessFault
<1> QED  BY <1>1, Invariant, PTL

\* Once a download failed that had put the old files away, only a full download
\* makes a complete copy visible; a backup or a restore that fails does not.
THEOREM StaleFilesStayGone == Spec => []FailureNeverResurrects
<1>1. IInv => FailureNeverResurrects
    BY DEF IInv, CopyGone, FailureNeverResurrects
<1> QED  BY <1>1, Invariant, PTL

\* When Update returns nil cache.json is readable and, unless something went wrong
\* since the files were downloaded, holds their ETag.
THEOREM RecordsMatch == Spec => []RecordMatchesFiles
<1>1. IInv => RecordMatchesFiles
    BY DEF IInv, RecordKept, Matches, RecordMatchesFiles
<1> QED  BY <1>1, Invariant, PTL
=============================================================================
