# Trivalire: a TLA+ verification project

Trivalire (a fork of Trivy) is a scanner: a command line program, and a client/server pair, that
takes a container image, a file system, a git repository, a VM image or an SBOM apart,
collects packages, secrets, licenses and misconfigurations, and matches them with databases it
keeps up to date by itself.  Most of its half million lines parse or print something.  This
project is about the rest: the parts where goroutines, processes, retries, crashes and cached state
meet, and where a test hardly reaches the order of events that matters.

Paths below are relative to `src/`.

## 1. Inventory

| Component | State | Operations | Hard behaviour | What makes it correct |
|---|---|---|---|---|
| Parallel pipeline, `pkg/parallel` | two unbuffered channels, an errgroup and its context | `Pipeline.Do`, `WalkDir` | goroutines leaving early, first error wins, channel closed under senders | nil means every item was handled once; the cause is reported; it returns |
| RPC server, `pkg/rpc/server/listen.go` | `requestWg`, `dbUpdateWg`, the open database | handler, hourly update, hot update, shutdown | swap of the database under requests, failing and killed swaps | a request sees one database; an interrupted swap heals; nobody waits for ever |
| DB client, `pkg/db`, `pkg/commands/operation` | `trivy.db`, `metadata.json` in the cache directory | `NeedsUpdate`, `Download`, `updateDownloadedAt` | kills between writes, several processes, freshness at the hour | what is accepted is complete, of this schema and fresh |
| OCI download, `pkg/oci` | destination directory | `Artifact.Download`, mirrors | failure half-way | as above |
| VEX repositories, `pkg/vex/repo` | manifest, version directory, `cache.json` with ETags | `Manifest`, `Update`, `download` | 304 against files that are gone, kills, several locations | ETags are honest; an update leaves a repository; stale files do not come back |
| Downloader, `pkg/downloader` | destination and its `.backup` | `Download`, `backupDst` | restore on 304 only | as above |
| Artifacts, `pkg/fanal/artifact` | none of their own | `Inspect`, `Clean` | layers shared between images, cached under keys that do not say how they were analysed | an answer covers every layer |
| Scan cache, `pkg/cache` | blob and artifact buckets (bolt, memory, Redis, remote) | `MissingBlobs`, `Put*`, `Get*`, `DeleteBlobs`, `Clear` | concurrent scans, expiry, lost answers and retries | what Inspect found is still there for ApplyLayers; temporary blobs go |
| Scan service and applier, `pkg/scan`, `pkg/fanal/applier`, `pkg/rpc/client` | per scan | `ScanArtifact`, `ApplyLayers`, `Scan` with `rpc.Retry` | error paths around Clean | every scan ends with an answer or an error |
| Analyzer group and walkers, `pkg/fanal/analyzer`, `pkg/fanal/walker` | result under a mutex, semaphore, errgroup, open files | `AnalyzeFile`, `PostAnalyze`, `Merge`, the walk | errors swallowed or reported, permits under cancellation, results merged in any order | what is stored is whole; the cause is told; nothing is left behind; the order changes nothing of the OS that it should not |
| Layer merge, `pkg/fanal/applier/docker.go`, `pkg/fanal/types` | the tree of one merge; slices shared with the memory cache | `ApplyLayers`, `mergeSecrets`, `OS.Merge` | whiteouts, opaque directories, entries that come and go, origin of a finding | the merge is the overlay's view; secrets survive deletion; an origin is a layer of the image, or stated by an SBOM in it |
| Java DB, check bundle, VEX manager | cache directories | update once, freshness, order of repositories | kills, partial failure | planned |

Everything else (parsers, detectors, IaC scanners, report writers, plugins, WASM modules, options)
is listed with its reason in `PROJECT.json` under `components`.

How they interact: a scan calls `Inspect`, which asks the scan cache what is missing, analyses the
missing layers in a `parallel.Pipeline` and stores each; then the scan service (in process, or over RPC in
the server) reads all layers back in `ApplyLayers` and looks vulnerabilities up in the open database;
then `Clean` deletes what was temporary.  The server replaces that database every hour with the DB client,
behind the two wait groups.  VEX repositories are updated before a scan filters its findings.

## 2. Modules

| Module | Models | State and actions |
|---|---|---|
| `ParallelMap` | the abstract promise of a fan-out | what was delivered, dropped and returned |
| `Pipeline` | `Pipeline.Do`, `WalkDir` | one control variable per goroutine (`feeder`, `pc[w]`, `results` for the closer, `main`); a rendezvous on an unbuffered channel is one action of both sides (`Send`, `SendResult`); each `select` on `ctx.Done()` is an action of its own |
| `VulnDB` | the database on disk and `NeedsUpdate` | constant-level operators, shared by the next two |
| `HotUpdate` | `listen.go` and `Run` | a wait group is the set of its members; `Wait` passes or parks, the last `Done` wakes, and a woken waiter that finds the group in use again panics, as `sync.WaitGroup` does; every step of `hotUpdate` is an action, every one of the swap can fail |
| `DBClient` | `DownloadDB` in several processes, `Artifacts.Download` over the repositories | each unlink, open, write and stamp is an action; a process writes through its own handle (`dbBy`, `metaBy`); a mirror may serve an older build |
| `VexRepo` | one repository and the downloader below it | one action per step of `Update`, `Download`, `backupDst`, with the renames that can fail (`BackupFail`, `RestoreFail`) |
| `ScanFlow` | `Inspect`, `ApplyLayers`, `Clean` of concurrent scans on one cache | per scan: what it has to ask for, to store and to read; requests lost with or without effect, `DeleteBlobs` among them; an image whose SBOM is found remotely (kind "attested") is stored under the SBOM's key, or falls back to the next source or to the image (`Otherwise`) |
| `AnalyzerGroup` | `Inspect` of a directory: the walk, `AnalyzeFile`, `PostAnalyze`, the store (`Analyze` of a VM disk and `inspectLayer` of an image are the same code around another walker) | one control variable for the caller, one per analysis (`job`); opening a file, the permit, the start of the goroutine, the two deferred calls and the errgroup's count are actions of their own |
| `OSMerge` | `OS.Merge` and its normalisation | operators, used by `AnalyzerGroup` and `ApplyLayers` |
| `ApplyLayers` | the merge of the layers of an image, scan after scan on one cache | one action per layer; the tree maps a path and a type to the layer that provides the entry; a blob says which of its findings an SBOM gave (`sbom`) and with which layer (`stated`); the end keeps one copy of each OS package, looks up the origins that are not stated and, with the memory backend, writes them into the cached blobs (`stamps`) |
| `MC*` | the instances for TLC | |
| `PipelineProofs`, `HotUpdateProofs`, `DBClientProofs`, `VexRepoProofs`, `ScanFlowProofs`, `ApplyLayersProofs`, `AnalyzerGroupProofs`, `DetectedOSProofs` | theorems | |

`HotUpdate` and `DBClient` both extend `VulnDB`: the decision `NeedsUpdate` is stated once.
`AnalyzerGroup` and `ApplyLayers` both extend `OSMerge`: the same merge runs over the results of one tree, in the
order its goroutines end, and over the layers of an image, bottom-up.
`Pipeline` instantiates `ParallelMap` with a refinement mapping (`Abs`).
A definition's lines are in `PROJECT.json` under `map`.

What is abstracted.  An item, a file or a layer is a name.  A build of the database is the hour it was
published.  An ETag is the version it stands for.  A file is absent, torn (its writer stopped half-way)
or whole.  Of the analysis of a layer `ScanFlow` keeps what two scans can see differently: whether the
secret analyzer ran; of an image's entry, whether its history was searched for removed packages.  A cache
key is named by what is hashed.  The order in which a backend reads entries is left open, since the
file, memory and Redis backends differ in it.

Abstraction choices a reader should know of:

- `HotUpdate` models `sync.WaitGroup` from its documented contract; a panic in a handler is
  recovered by `net/http`, one in the worker ends the process.
- The hourly ticker is the action `Tick`, enabled whenever `NeedsUpdate` says yes: a tick that decides
  otherwise changes nothing.
- `DBClient.Abort` is both an error return and a kill: they leave the same files.
- `DBClient` takes the removal of the old directory to succeed: `Download` ignores the error of `os.RemoveAll`, and
  a file that can be written over but not removed is left out.
- A request of `ScanFlow` whose answer is lost has taken effect before the answer is lost, or never does: a delayed
  effect is left out.  `GetBlob`'s error is dropped (`applier.go:31`) and counts as a missing layer (`GetBlobError`).
- `ScanFlow` makes each scan once; the sequence of two scans is an interleaving of two.
- `AnalyzerGroup` keeps the OS of an `AnalysisResult` and drops the rest: `Merge` appends the other
  fields, and the order in which they are appended is undone by `Sort`.
- In `AnalyzerGroup` an analysis that ends after its context was cancelled may have stopped half-way ("cut"):
  `AnalyzeFile` drops a `context.Canceled` like any other error.
- In `ApplyLayers` a version is the sequence of its dotted parts, a path that of its elements.  PURLs, UIDs, Red Hat
  build info, dpkg licenses, the links between key pairs and the order of the report are left out.
- In `ScanFlow` an EBS snapshot is a "commit" and a VM image file a "file": they make the same
  calls of the cache.

## 3. Runs

All bounds are constants in the `.cfg` files.  Seven runs pass, five show a disagreement between the
code and its own words.

**`pipeline`** (3 items, 2 workers).  Every interleaving of item errors, result errors, walk errors, dropped
`onFile` errors and cancellation.  Three items and two workers are the least where a worker can hold a
result, another item be in hand and a third be waiting with the feeder.  `CompleteOnSuccess` (nil means nothing
was lost), `CauseReported` (a context error never hides the error that caused it), `CleanEnd` (no send on a closed
channel, and no goroutine outlives `Do` unless `onResult` failed), under fairness `Returns` and
`LeakEndsWithParent` (goroutines stranded by a failing `onResult` end when the caller's context does), and
`Implements`, the refinement of `ParallelMap`.

**`hot_update`** (2 requests, a build every hour, 2 hours, 2 failing steps, kills anywhere).  Two
requests: one that the worker waits for and one that slips in.  Two failures: a failed swap followed by
a failed attempt to repair it.  `OnlyRacersOverlap` says exactly which requests can overlap a swap: those
between `dbUpdateWg.Wait()` and `requestWg.Add(1)` when the update was announced; for all others
`SnapshotReads` holds.  `SelfHealing` is about a swap that stops anywhere;
`ParkedResume`, `AnnouncedSwaps`, `ClosedReopens` are the liveness side.

**`db_client`** (1 process, 2 repositories, a build every 2 hours, 5 hours).  Started again and again from every kind of
cache, with and without `--skip-db-update`, aborted anywhere.  Five hours let a database be fresh,
be kept by the one-hour rule, expire and be replaced twice; two repositories are the least with a fall-back,
and either may serve an older build.  `AcceptedIsConsistent`, `ReadyIsUsable`
(both files there and of this schema; without `--skip-db-update` complete and not due when the run began, which
the property says by the hours and not by `isNewDB`), `RunEnds`.

**`vex_repo`** (2 locations with ETags, 2 versions, 2 faults, 5 ticks): `ETagSound`;
`PresentUnlessFault`; `FailureNeverResurrects` (once a download failed with the old files put away, nothing brings them back
before a full download; a download that fails in `backupDst` has put nothing away); `RecordMatchesFiles` (when `Update`
returns nil, `cache.json` is whole and its ETags are those of the files that are there); `UpdateEnds`.

**`scan_flow`** (2 scans; an Alpine base image, an application image on it, a commit, a directory, an
SBOM, an image with that SBOM attested; 2 tries per request, 1 fault).  The pairs of
targets (`Pairs`, each once, since scans differ in their names only) are those that meet in the cache: the same image,
commit, directory or SBOM twice, base and derived image, an SBOM as a file and by attestation, an image and its
attested form, and one pair that shares nothing.  `ReportsAreWhole`; `MissingHasCause`: "layer cache missing" needs an eviction, a read that failed, or
the clean-up of another scan of the same file, answered or not; `TemporaryBlobsGo`; `ScanEnds`.  Deadlock is not
checked here: when all scans have ended nothing is left to do.

**`analyzer_group`** (3 files, 3 analyses of which two are of one file, 2 files for the post-analyzers; 1, 2 or 5
permits; the release files of an Ubuntu, a CentOS and an Oracle Linux tree).  One permit makes the walk wait
in the middle of a file, two let results be merged in any order, and 0 stands for the default of 5.
`StoredIsWhole` says what a stored blob may lack: files that could not be read, and analyses cut short because the
caller itself was interrupted.  `CauseFirst`, `NothingLeft`, `HandlesBounded`, and under fairness
`InspectReturns`.  `DetectedOS` says what the order of the goroutines can change in the merged OS: a firm family wins, with
the fullest version found for it, or, if some answer names the family without a version, possibly with one borrowed
from another family (`Borrowed`).  The run `os_order` shows that the latter happens.

**`apply_layers`** (3 layers, each with any of 6 ways to hide and 4 sets of findings, one of them from SBOM files that
disagree on a package's layer; images of 2 and 3 layers that share layers; scan after scan).  Three layers are the
least where an entry can be removed and come back.  `OverlayExact` (silent on opaque root directories, see below);
`SecretsKept`; `OriginOfImage`: an origin is a layer of the image that has the finding, or the layer an SBOM in
the image states, for an OS package only if no package manager of the image lists it.

The five that end in a violation:

- **`shutdown`** `GracefulShutdown`: `Shutdown` makes `ListenAndServe` return in the main goroutine,
  which exits with requests in flight ("Give active requests time to complete").
- **`vex_repo_loss`** `UpdatedMeansPresent`: after a failed download the ETag makes the next update accept a 304
  for files that are gone.
- **`scan_reuse`** `CacheIsTransparent`: a layer cached as somebody's base layer has no secrets when the image that
  owns it is scanned.  With an Alpine layer (`AlpineLayers = {l1}`) the same property fails in a second
  way: with all layers cached the OS is unknown when the image's configuration is analysed
  (`image.go:428`), and removed packages are not looked for.
- **`apply_memory`** `OriginOfImage`: with the memory backend, the origin that one scan writes into a library stays in
  the cached blob; the scan of another image takes the library for one of an SBOM and reports a layer it does not
  have.
- **`os_order`** `FullestVersion`: ESM status, then `etc/debian_version`, then the release file gives Ubuntu with Debian's
  version ("We always take the fullest version", "We have to merge OS version after parsing these files").

More behaviours were met while modelling and have no run of their own.  Of the first two the repository says
otherwise:

- A handler past `dbUpdateWg.Wait()` and before `requestWg.Add(1)` is served while the database is closed and
  replaced (`listen.go:112`: "Stop processing requests during DB update").  `OnlyRacersOverlap` of the run
  `hot_update` says exactly this, and that nothing else overlaps a swap.
- A `cache.json` that a kill left half written makes `needUpdate` answer yes, and `download` then fails to decode it
  on every later `Update`, until the cache is cleared; `docs/guide/supply-chain/vex/repo.md:122` says that
  repositories are updated automatically.  The model has these steps (`Check`, `Begin`).
- An SBOM inside an image states the layer of its packages, and `ApplyLayers` does not look further
  (`docker.go:249`): such an origin need not be a layer of the image.  `Declared` in `OriginOfImage` is this case.
- Two scans of the same SBOM through one server share a key, and the `Clean` of the first can delete the blob the
  second is about to read (`MissingHasCause` allows it).
- Two processes on one cache directory (`Procs` with two members in `DBClient`): a process that has read
  `metadata.json` back writes it, with `DownloadedAt` set, after the other removed the directory and began to
  extract; if that one then fails, `NeedsUpdate` accepts a torn `trivy.db`.  `OnlyOverlapTears` (section 4) proves
  that updates which overlap are the only cause.
- With static paths, a file that vanishes between the walk and the open ends the walk of its path without an
  error, and the blob is stored without the rest of it.
- An opaque directory at the root of a layer hides nothing, where an overlay file system would show nothing of the
  layers below: `Hides`, and with it `OverlayExact`, follows the code and is silent on that case.  A file that is overwritten by one without findings
  keeps those of the lower layer (`ApplyLayers` knows files by their findings only).  An OS upgraded in an upper
  layer keeps the version of the lower one.

Each property of a passing run has a mutant (`Mut...` operators in the modules, listed in
`PROJECT.json`): a plausible bug of the code under which TLC finds the property violated.

### Fairness

- `Pipeline`: weak fairness of each goroutine and of each rendezvous.  The Go scheduler runs runnable
  goroutines; `onItem` and `onResult` are assumed to return.  No fairness makes an error or a
  cancellation happen.
- `HotUpdate`: weak fairness of the worker and of each handler, but not of arriving, of the clock, of
  cancellation or of kills.  It assumes that a scan ends and that the ticker keeps firing.
- `DBClient`: weak fairness of a process's run; an `Abort` is never owed.
- `VexRepo`: weak fairness of the update and of the clock.
- `AnalyzerGroup`: weak fairness of the caller and of each analysis.  A permit that is free is taken or the
  context has ended; an analysis is assumed to end, as it reads one file.  The caller's context need never end.
- `ScanFlow`: weak fairness of a scan that has begun; an unavailable server may lose any number of
  answers, and only `maxRetries` bounds them.

Every fairness condition is weak, so no property relies on a branch of a `select` or a race being won
sooner or later.

## 4. Proofs

TLAPS proves, for every value of the constants that satisfies the named assumptions:

- `PipelineProofs`: `TypeCorrect`, `DeliversAtMostOnce`, `SuccessIsComplete`, `ReportsTheCause`,
  `CleanShutdown` (`CleanEnd`) and `Refinement` (`Spec => Implements`), for any number of items and any nonempty
  set of workers.  The inductive invariant `IInv` adds three things to the properties: `OnePlace` (an item that
  was sent is in one hand, delivered or skipped, and no two workers hold the same one), `Conserved` (while
  no error was recorded, every item that was sent is somewhere) and `ErrorCause` (the group's context is
  cancelled only by an error or at the end; a recorded context error implies that the caller cancelled).
  `CompleteOnSuccess` alone is not inductive: it speaks of the return only and needs `Conserved` to get
  there.
- `HotUpdateProofs`: `TypeCorrect`, `OverlapNeedsRace`, `ReadsAreSnapshots`, `OpenFileIsStable`,
  `InterruptedSwapHeals`, `ClosedIsDue`, for any set of requests, interval, number of hours and failures.
  `WaitGroups` ties the groups to the control states (who is between `Add` and `Done`), `ReadsPresent` says
  that a non-racer has read the present handle only, `SwapOrder` that the old metadata stays expired until
  the new one is in place (which is why a swap interrupted between the two copies is noticed), and
  `ClosedCause` why the database is closed outside a swap.  The lemmas on `NeedsUpdate` (`DueStaysDue`: what is
  due now is due later) carry the argument over time.
- `ScanFlowProofs`: `TypeCorrect`, `AnsweredScansAreWhole`, `MissingLayersAreExplained`,
  `RandomKeysAreCleaned`, for any scans, targets, layers, histories, retries and faults.  `Accounted` is
  the heart: from the query on, every blob of a scan is in the cache, still to be asked for, known to be
  missing, evicted or cleaned away.  `CacheIsSound` and `ReadSoFar` carry what was stored into what is
  reported, `TemporaryKeys` ties a random key to a running scan.  The lemma `TransientKeysArePrivate`
  is where the naming of keys matters: artifacts that delete their blobs share none with artifacts that
  keep them, but for an image whose remote SBOM is also scanned as a file (`NamesAssumption`: keys of different origin differ, as SHA-256 digests of different
  inputs do).  `OnlyBaseLayersHideSecrets` is the proved side of `scan_reuse`: an answered scan lacks the secrets of
  a layer only if some target takes that layer for part of its base image.
- `ApplyLayersProofs`: `TypeCorrect`, `MergeIsOverlay`, `SecretsSurvive` for any layers, files, findings and images,
  and `OriginsAreSound` (`OriginOfImage`) for the backends that decode a blob on every read (`Backend = "fs"`; for the other TLC has the
  counterexample).  `Bounded` is the strengthening: an entry and a secret come from a layer that is applied already, and
  there is no report before all are.  `Seen` over one layer more splits into `Seen` so far and what the new layer
  has and hides, which is the step of `Overlay`; no induction over the sequence of layers is needed, since the state
  carries it.  `FirstIsLeast` (the first layer that has a finding exists) rests on the well-foundedness of the natural
  numbers.  `CopyIsDeclared` is where the sort before the removal of duplicates matters: a copy of an OS package that was
  kept with a stated layer means that no package manager lists the package.
- `AnalyzerGroupProofs`: `TypeCorrect`, `StoredBlobsAreWhole`, `ReportsTheCause`, `NothingIsLeft`,
  `OpenFilesAreBounded`, for any files, analyses of them, number of permits and inputs.  `Order` says that the walk has passed a
  file only when all its analyses were started or the file was skipped, `Fates` what an analysis that has ended left
  behind, `Contexts` that the group's context is cancelled only by an error, by the caller or at the end, `Resources` which
  control state holds a permit and an open file, and `Settled` that nothing runs after the wait.  `Permits` bounds the
  jobs that hold a permit by the cardinality lemmas for finite sets; `HandlesBounded` needs
  `Resources` as well, since a file is opened before its permit is taken.
- `DetectedOSProofs`: `OrderChangesOnlyBorrowedVersions` (`DetectedOS`), for any number of analyses and any order in which their
  goroutines merge what they found.  Its hypothesis is that the inputs are `Coherent`.  Three parts of that are
  what the OS analyzers do: they name a family by this code's constants, give no version without one, and set
  `Extended` for a firm family only.  The fourth is a fact about the tree: two versions of one family differ in
  their length only ("7" and "7.9.2009").  TLC evaluates `Coherent` on the trees of the run (`CoherentInputs`).
  `DetectedOS` becomes inductive with two additions: before a family is named there is no version (otherwise a later family
  would get it), and a family whose enrolment is recorded is not overwritten (otherwise the enrolment would be
  lost with it).  That a prefix is an order on versions is proved from its definition.
- `DBClientProofs`: for any number of processes, repositories and hours, `TypeCorrect` and `SchemaIsOurs` (a scan never
  starts on metadata of another schema, however many processes share the directory).  `OnlyOverlapTears` is
  `Spec /\ []OneUpdater => []AcceptedIsConsistent`: as long as no two processes are between the removal of the old
  directory and the stamp, what `NeedsUpdate` accepts is two whole files of one build.  Its invariant is
  `Sealed` (a `DownloadedAt` is not there over a missing, torn or foreign file) with `Progress`, which says what each
  step of an update has left in the directory; neither is inductive without the other.  For one process
  `OneUpdater` holds by itself, which gives `AcceptedDirectoriesAreConsistent`; `ScansAreUsable` (`ReadyIsUsable`)
  needs `Usable` besides, and does need one process: another may replace the directory between the check and the scan.
- `VexRepoProofs`: `TypeCorrect`, `ETagsAreSound`, `PresentWithoutFault`, `StaleFilesStayGone` and `RecordsMatch`
  (`RecordMatchesFiles`), for any number of locations, versions and faults.  `ETagsEarned` extends `ETagSound`
  to the ETags in memory, which are what is saved.  `CopyKept` and `CopyGone` follow the one complete copy through
  the backup: without a fault it is in its place, or aside while a location is asked with an ETag; after a
  failed download it is in neither place.  `RecordKept` carries the ETag of the files through the steps between a
  download and the next save.

Each proof has one lemma per action, and in it one step per conjunct of the invariant.  `IInv` of each module
was checked with TLC before it was proved.

Assumptions on constants are in the modules that declare them and are evaluated by TLC in every run.

Only model-checked: the liveness properties (`Returns`, `LeakEndsWithParent`, `ParkedResume`, `AnnouncedSwaps`,
`ClosedReopens`, `RunEnds`, `UpdateEnds`, `ScanEnds`, `InspectReturns`), since liveness under fairness is outside what the
prover handles, and the five violations, which are counterexamples.  Every invariant
that a passing run checks is also proved.

## 5. Not modelled, and why

- Parsers, detectors, format conversion, report writers, option handling: data, no protocol.
- What an analyzer finds in a file: the content of an analysis is a value.
- The Java DB client: the update of `trivy-db` under a `sync.Once`, without the mark of a finished extraction.  Two
  hazards are listed (`javadb/client.go:87` and `:131`); planned.
- Registry, daemon, git and Rekor access: I/O; their failures are failures of the steps that use them.
- The bolt file lock (one process holds the scan cache at a time), TLS, authentication.
- go-getter, `errgroup`, `sync.WaitGroup`, the clock and the registry's content are external and
  modelled by how this code uses them.
- The Windows rules for open files: a file is unlinked or truncated under its readers as on Unix.

About nine tenths of the code is of the first kind: some forty lock file parsers, the adapters and parsers of
the misconfiguration scanners, generated RPC code, the command line.  It keeps no state between two calls and has no
order of events that could go wrong, so the models cover a small share of the lines and most of
the concurrent and the persistent ones.

## 6. Plan

Done, in this order: `Pipeline` and its refinement; `VulnDB`, `HotUpdate`; `DBClient` with its repositories; `VexRepo`;
`ScanFlow`; `AnalyzerGroup`; `OSMerge` and `ApplyLayers`; proofs of all of them, for `DBClient` and `VexRepo` last.

Next, most important first:

1. `JavaDB` as a variant of `DBClient` on `VulnDB`, and the check bundle client.
2. The VEX manager and `NewRepositorySet`: several repositories, the first that knows a product wins;
   two processes on one VEX cache.
3. Red Hat build info in `ApplyLayers` (`lookupBuildInfo`), and the post handlers.
