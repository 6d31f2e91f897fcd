------------------------------ MODULE ScanFlow ------------------------------
(***************************************************************************)
(* A scan through the scan cache: Artifact.Inspect (container image, clean *)
(* git commit or EBS snapshot, directory, SBOM or VM image file, image with*)
(* a remote SBOM), then Applier.ApplyLayers, then Artifact.Clean, for      *)
(* several scans that share one cache: a Trivy server with its clients, or *)
(* several servers on Redis.                                               *)
(*                                                                         *)
(* A cache key is named by what it is computed from: a layer by its diff   *)
(* ID, a commit or a file by its content, and the random key of a directory*)
(* by the scan that drew it.  The artifact entry of an image is named by   *)
(* the image.  Of a layer's analysis only the part that two scans can see  *)
(* differently is kept: whether its secrets were looked for.  Of an image's*)
(* entry, whether its history was searched for removed apk packages.       *)
(***************************************************************************)
EXTENDS Naturals, FiniteSets, Sequences

CONSTANTS
    Scans,          \* the scans, each made at most once
    Targets,        \* what can be scanned
    Kind,           \* "image", "commit", "dir", "file" or, for an image whose SBOM
                    \* --sbom-sources finds, "attested" for each target
    Otherwise,      \* what is inspected if the SBOM of an attested target is skipped:
                    \* the next referrer's, or the image itself
    Blobs,          \* the content addresses of layers, commits and files
    DiffIDs,        \* the blobs of a target, in order; <<>> for a directory
    History,        \* per target: "layer", "cmd" or "empty" for each line of the
                    \* image's history; <<>> if it is not an image
    AlpineLayers,   \* the blobs in which the Alpine release is found
    MaxTries,       \* maxRetries of rpc.Retry
    MaxFaults       \* bound on evictions, kills and errors that are not retried

Kinds == {"image", "commit", "dir", "file", "attested"}
Lines == {"layer", "cmd", "empty"}

ASSUME TargetsAssumption ==
    /\ Kind \in [Targets -> Kinds]
    /\ Otherwise \in [Targets -> Targets]
    /\ \A t \in Targets : Kind[t] = "attested" => Kind[Otherwise[t]] \in {"image", "attested"}
    /\ DiffIDs \in [Targets -> Seq(Blobs)]
    /\ History \in [Targets -> Seq(Lines)]
    /\ AlpineLayers \subseteq Blobs
ASSUME NamesAssumption ==
    /\ Scans \cap Blobs = {} /\ Scans \cap Targets = {} /\ Blobs \cap Targets = {}
    /\ \A t \in Targets : Kind[t] = "dir" => DiffIDs[t] = <<>>
    /\ \A t, u \in Targets : Kind[t] = "file" /\ Kind[u] \notin {"file", "attested"} =>
           \A i \in DOMAIN DiffIDs[t], j \in DOMAIN DiffIDs[u] : DiffIDs[t][i] # DiffIDs[u][j]
ASSUME BoundsAssumption == MaxTries \in Nat \ {0} /\ MaxFaults \in Nat

Keys    == Blobs \cup Scans
Entries == Keys \cup Targets
Calls   == Entries \cup {"scan", "delete"}    \* the requests of a scan that are retried

VARIABLES
    blobs,      \* the blob bucket: "none", "full" or "nosecrets" per key
    artifacts,  \* the artifact bucket: "none", "history" or "bare" per image
    pc,         \* the step of each scan
    target,     \* what it scans
    unread,     \* the entries it still has to ask the cache for
    todo,       \* the entries it found missing and has not stored yet
    found,      \* osFound, merged from the layers it analysed itself
    tries,      \* how often each of its requests met twirp.Unavailable
    got,        \* the blobs ApplyLayers has read
    config,     \* the artifact entry ApplyLayers has read
    outcome,    \* "ok" or "error" once the scan has its answer
    faults,     \* faults so far
    evicted,    \* history: entries lost to expiry or to Clear
    cleaned,    \* history: the scans whose DeleteBlobs took effect
    misread     \* history: the <<scan, key>> pairs whose GetBlob failed

cache == <<blobs, artifacts>>
work  == <<target, unread, todo, found, tries>>
reply == <<got, config, outcome>>
hist  == <<evicted, cleaned, misread>>
env   == <<faults, hist>>
vars  == <<cache, pc, work, reply, env>>

----------------------------------------------------------------------------
(* Base layers.                                                            *)

\* image.GuessBaseImageIndex: the CMD lines above the last layer; the base image
\* ends with the last of them.
BaseCmds(h) == {i \in DOMAIN h : h[i] = "cmd" /\ \E j \in DOMAIN h : j > i /\ h[j] = "layer"}

\* Artifact.guessBaseLayers: the layers of the lines up to that one; none at
\* all if the history has more layers than the image.
GuessBaseLayers(t) ==
    LET h == History[t]
        n == Cardinality({i \in DOMAIN h : h[i] = "layer" /\ \E c \in BaseCmds(h) : i < c})
    IN  IF n > Len(DiffIDs[t]) THEN {} ELSE {DiffIDs[t][i] : i \in 1 .. n}

\* What inspectLayer, or the analysis of a commit, directory or file, yields.
Analysis(t, k) == IF k \in GuessBaseLayers(t) THEN "nosecrets" ELSE "full"

(* What the kinds of artifact do with the cache.                           *)

IsImage(t)   == Kind[t] = "image"
Reuses(t)    == Kind[t] \in {"image", "commit"}     \* asks MissingBlobs first
Transient(t) == Kind[t] \in {"dir", "file"}         \* Clean deletes its blobs

\* The only blob of an attested target is the SBOM, under the key that a scan of the
\* same SBOM as a file computes.
KeysOf(s, t) == IF Kind[t] = "dir" THEN {s} ELSE {DiffIDs[t][i] : i \in DOMAIN DiffIDs[t]}

Present(e) == IF e \in Keys THEN blobs[e] # "none" ELSE artifacts[e] # "none"

Ended  == {"done", "uncleaned", "failed", "killed"}
Steps  == {"idle", "query", "inspect", "abort", "scan", "clean"} \cup Ended
NoBlob == [k \in Keys |-> "none"]

Init ==
    /\ blobs = NoBlob
    /\ artifacts = [t \in Targets |-> "none"]
    /\ pc = [s \in Scans |-> "idle"]
    /\ target \in [Scans -> Targets]
    /\ unread = [s \in Scans |-> {}]
    /\ todo = [s \in Scans |-> {}]
    /\ found = [s \in Scans |-> "none"]
    /\ tries = [s \in Scans |-> [c \in Calls |-> 0]]
    /\ got = [s \in Scans |-> NoBlob]
    /\ config = [s \in Scans |-> "none"]
    /\ outcome = [s \in Scans |-> "none"]
    /\ faults = 0 /\ evicted = {} /\ cleaned = {} /\ misread = {}

Goto(s, p) == pc' = [pc EXCEPT ![s] = p]

\* The scan is over; its local variables go with it.
Leave(s, p) ==
    /\ Goto(s, p)
    /\ unread' = [unread EXCEPT ![s] = {}]
    /\ todo' = [todo EXCEPT ![s] = {}]
    /\ found' = [found EXCEPT ![s] = "none"]
    /\ tries' = [tries EXCEPT ![s] = [c \in Calls |-> 0]]
    /\ UNCHANGED target

\* DeleteBlobs is executed.
Delete(s) ==
    /\ blobs' = [k \in Keys |-> IF k \in KeysOf(s, target[s]) THEN "none" ELSE blobs[k]]
    /\ cleaned' = cleaned \cup {s}

Fault == faults < MaxFaults /\ faults' = faults + 1

----------------------------------------------------------------------------
(* Mutants of the actions below.                                           *)

\* disabledAnalyzers outlives the layer it was made for.
MutLeakDisabled(s, k) ==
    /\ pc[s] \in {"inspect", "abort"}
    /\ k \in todo[s] \cap Keys
    /\ blobs' = [blobs EXCEPT ![k] =
                    IF \E l \in GuessBaseLayers(target[s]) : blobs[l] # "none"
                    THEN "nosecrets" ELSE Analysis(target[s], k)]
    /\ todo' = [todo EXCEPT ![s] = @ \ {k}]
    /\ found' = [found EXCEPT ![s] = IF k \in AlpineLayers THEN "alpine" ELSE @]
    /\ tries' = [tries EXCEPT ![s][k] = 0]
    /\ UNCHANGED <<artifacts, pc, target, unread, reply, env>>

\* Every artifact deletes its blobs when the scan is over.
MutCleanAll(s) ==
    /\ pc[s] = "clean"
    /\ Delete(s)
    /\ Leave(s, "done")
    /\ UNCHANGED <<artifacts, reply, faults, evicted, misread>>

\* A directory is cleaned up only after a successful scan.
MutCleanOnSuccess(s) ==
    /\ pc[s] = "clean"
    /\ IF Transient(target[s]) /\ outcome[s] = "ok" THEN Delete(s) ELSE UNCHANGED <<blobs, cleaned>>
    /\ Leave(s, "done")
    /\ UNCHANGED <<artifacts, reply, faults, evicted, misread>>

\* An unavailable server is tried again for ever.
MutRetryForever(s, c, p) ==
    /\ tries' = [tries EXCEPT ![s][c] = (@ + 1) % MaxTries]
    /\ UNCHANGED pc

\* The retry counter starts at one try too few.
MutRetryOnceMore(s, c, p) ==
    /\ tries' = [tries EXCEPT ![s][c] = @ + 1]
    /\ pc' = IF tries[s][c] > MaxTries THEN [pc EXCEPT ![s] = p] ELSE pc

----------------------------------------------------------------------------
(* Inspect: what is missing.                                               *)

\* Inspect of t up to MissingBlobs.  A directory, a file or a remote SBOM is
\* analysed at once: its key is new, or only known after the analysis.
Enter(s, t) ==
    /\ unread' = [unread EXCEPT ![s] =
                     IF Reuses(t) THEN KeysOf(s, t) \cup (IF IsImage(t) THEN {t} ELSE {}) ELSE {}]
    /\ todo' = [todo EXCEPT ![s] = IF Reuses(t) THEN {} ELSE KeysOf(s, t)]
    /\ Goto(s, IF Reuses(t) THEN "query" ELSE "inspect")

Start(s) ==
    /\ pc[s] = "idle"
    /\ Enter(s, target[s])
    /\ UNCHANGED <<cache, target, found, tries, reply, env>>

\* MissingBlobs looks at one entry.  The order is left open: the file and the
\* Redis backend begin with the blobs, the memory backend with the artifact, and
\* the file backend reads the blobs in one transaction.
Query(s, e) ==
    /\ pc[s] = "query"
    /\ e \in unread[s]
    /\ unread' = [unread EXCEPT ![s] = @ \ {e}]
    /\ todo' = IF Present(e) THEN todo ELSE [todo EXCEPT ![s] = @ \cup {e}]
    /\ UNCHANGED <<cache, pc, target, found, tries, reply, env>>

\* "error means cache missed": an entry that cannot be read counts as missing.
QueryError(s, e) ==
    /\ pc[s] = "query"
    /\ e \in unread[s]
    /\ Fault
    /\ unread' = [unread EXCEPT ![s] = @ \ {e}]
    /\ todo' = [todo EXCEPT ![s] = @ \cup {e}]
    /\ UNCHANGED <<cache, pc, target, found, tries, reply, hist>>

\* MissingBlobs itself fails and Inspect returns its error.
QueryFail(s) ==
    /\ pc[s] = "query"
    /\ Fault
    /\ Leave(s, "failed")
    /\ UNCHANGED <<cache, reply, hist>>

QueryDone(s) ==
    /\ pc[s] = "query"
    /\ unread[s] = {}
    /\ Goto(s, "inspect")
    /\ UNCHANGED <<cache, work, reply, env>>

----------------------------------------------------------------------------
(* Inspect: the missing layers, in a pipeline, then the image's entry.     *)

\* inspectLayer and PutBlob for one missing layer; onResult merges its OS.  After
\* an error the workers that are under way still finish theirs ("abort").
PutBlob(s, k) ==
    /\ pc[s] \in {"inspect", "abort"}
    /\ k \in todo[s] \cap Keys
    /\ blobs' = [blobs EXCEPT ![k] = Analysis(target[s], k)]
    /\ todo' = [todo EXCEPT ![s] = @ \ {k}]
    /\ found' = [found EXCEPT ![s] = IF k \in AlpineLayers THEN "alpine" ELSE @]
    /\ tries' = [tries EXCEPT ![s][k] = 0]
    /\ UNCHANGED <<artifacts, pc, target, unread, reply, env>>

\* AnalyzeImageConfig: the apk analyzer wants to know the OS.
ImageConfig(s) == IF found[s] = "alpine" THEN "history" ELSE "bare"

\* inspectConfig, once the pipeline is through.  An analyzer that fails (the apk
\* index is fetched from the network) is skipped.
PutArtifact(s) ==
    /\ pc[s] = "inspect"
    /\ todo[s] = {target[s]}
    /\ \/ artifacts' = [artifacts EXCEPT ![target[s]] = ImageConfig(s)] /\ UNCHANGED faults
       \/ artifacts' = [artifacts EXCEPT ![target[s]] = "bare"] /\ Fault
    /\ todo' = [todo EXCEPT ![s] = {}]
    /\ tries' = [tries EXCEPT ![s][target[s]] = 0]
    /\ UNCHANGED <<blobs, pc, target, unread, found, reply, hist>>

\* rpc.Retry after twirp.Unavailable: once more, or the error to the caller.
Retry(s, c, p) ==
    /\ tries' = [tries EXCEPT ![s][c] = @ + 1]
    /\ pc' = IF tries[s][c] + 1 = MaxTries THEN [pc EXCEPT ![s] = p] ELSE pc

\* The answer to PutBlob or PutArtifact is lost, the request with it or not.
PutUnavailable(s, e) ==
    /\ pc[s] = "inspect"
    /\ e \in todo[s] /\ (e \in Targets => todo[s] = {e})
    /\ \/ UNCHANGED cache
       \/ /\ e \in Keys
          /\ blobs' = [blobs EXCEPT ![e] = Analysis(target[s], e)] /\ UNCHANGED artifacts
       \/ /\ e \in Targets
          /\ artifacts' = [artifacts EXCEPT ![e] = ImageConfig(s)] /\ UNCHANGED blobs
    /\ Retry(s, e, "abort")
    /\ UNCHANGED <<target, unread, todo, found, reply, env>>

\* The analysis, or storing its result, fails for good.
InspectFail(s) ==
    /\ pc[s] = "inspect"
    /\ todo[s] # {}
    /\ Fault
    /\ Goto(s, "abort")
    /\ UNCHANGED <<cache, work, reply, hist>>

\* inspectOCIReferrerSBOM skips an SBOM that cannot be fetched, decoded or stored,
\* and Inspect goes on with the next one or with the image.
Fallback(s) ==
    /\ pc[s] = "abort"
    /\ Kind[target[s]] = "attested"
    /\ target' = [target EXCEPT ![s] = Otherwise[target[s]]]
    /\ Enter(s, Otherwise[target[s]])
    /\ found' = [found EXCEPT ![s] = "none"]
    /\ tries' = [tries EXCEPT ![s] = [c \in Calls |-> 0]]
    /\ UNCHANGED <<cache, reply, env>>

\* Inspect returns the error (inspectRekorSBOMAttestation's too); Clean is not called.
Abort(s) ==
    /\ pc[s] = "abort"
    /\ Leave(s, "failed")
    /\ UNCHANGED <<cache, reply, env>>

----------------------------------------------------------------------------
(* Scan: ApplyLayers reads the cache, then Clean.                          *)

\* Inspect returns the reference and the scan backend is asked.
InspectDone(s) ==
    /\ pc[s] = "inspect"
    /\ todo[s] = {}
    /\ unread' = [unread EXCEPT ![s] = KeysOf(s, target[s]) \cup {target[s]}]
    /\ Goto(s, "scan")
    /\ UNCHANGED <<cache, target, todo, found, tries, reply, env>>

GetBlob(s, k) ==
    /\ pc[s] = "scan"
    /\ k \in unread[s] \cap Keys
    /\ IF Present(k)
       THEN /\ got' = [got EXCEPT ![s][k] = blobs[k]]
            /\ unread' = [unread EXCEPT ![s] = @ \ {k}]
            /\ UNCHANGED <<pc, outcome>>
       ELSE /\ outcome' = [outcome EXCEPT ![s] = "error"]    \* layer cache missing
            /\ Goto(s, "clean")
            /\ UNCHANGED <<got, unread>>
    /\ UNCHANGED <<cache, target, todo, found, tries, config, env>>

\* GetBlob fails, and its error is dropped: the blob counts as missing.
GetBlobError(s, k) ==
    /\ pc[s] = "scan"
    /\ k \in unread[s] \cap Keys
    /\ Fault
    /\ misread' = misread \cup {<<s, k>>}
    /\ outcome' = [outcome EXCEPT ![s] = "error"]
    /\ Goto(s, "clean")
    /\ UNCHANGED <<cache, work, got, config, evicted, cleaned>>

\* The artifact entry comes last and may be missing; an error counts as missing too.
GetArtifact(s) ==
    /\ pc[s] = "scan"
    /\ unread[s] = {target[s]}
    /\ \/ config' = [config EXCEPT ![s] = artifacts[target[s]]] /\ UNCHANGED faults
       \/ config' = [config EXCEPT ![s] = "none"] /\ Fault
    /\ outcome' = [outcome EXCEPT ![s] = "ok"]
    /\ unread' = [unread EXCEPT ![s] = {}]
    /\ Goto(s, "clean")
    /\ UNCHANGED <<cache, target, todo, found, tries, got, hist>>

\* The answer to Scan is lost: the client asks again and the server starts over.
ScanUnavailable(s) ==
    /\ pc[s] = "scan"
    /\ unread' = [unread EXCEPT ![s] = KeysOf(s, target[s]) \cup {target[s]}]
    /\ outcome' = [outcome EXCEPT ![s] = IF tries[s]["scan"] + 1 = MaxTries THEN "unavailable" ELSE @]
    /\ Retry(s, "scan", "clean")
    /\ got' = [got EXCEPT ![s] = NoBlob]
    /\ UNCHANGED <<cache, target, todo, found, config, env>>

\* Images, attested or not, commits and snapshots keep their blobs.
Clean(s) ==
    /\ pc[s] = "clean"
    /\ IF Transient(target[s]) THEN Delete(s) ELSE UNCHANGED <<blobs, cleaned>>
    /\ Leave(s, "done")
    /\ UNCHANGED <<artifacts, reply, faults, evicted, misread>>

\* The answer to DeleteBlobs is lost, the request with it or not.
CleanUnavailable(s) ==
    /\ pc[s] = "clean"
    /\ Transient(target[s])
    /\ Delete(s) \/ UNCHANGED <<blobs, cleaned>>
    /\ Retry(s, "delete", "uncleaned")
    /\ UNCHANGED <<artifacts, target, unread, todo, found, reply, faults, evicted, misread>>

\* DeleteBlobs fails, before or after the server has executed it: a warning is all.
CleanFail(s) ==
    /\ pc[s] = "clean"
    /\ Transient(target[s])
    /\ Fault
    /\ Delete(s) \/ UNCHANGED <<blobs, cleaned>>
    /\ Leave(s, "uncleaned")
    /\ UNCHANGED <<artifacts, reply, evicted, misread>>

----------------------------------------------------------------------------
(* The environment.                                                        *)

Kill(s) ==
    /\ pc[s] \notin Ended \cup {"idle"}
    /\ Fault
    /\ Leave(s, "killed")
    /\ UNCHANGED <<cache, reply, hist>>

\* An entry of Redis expires, or another process runs Clear.
Evict(e) ==
    /\ Present(e)
    /\ Fault
    /\ IF e \in Keys
       THEN blobs' = [blobs EXCEPT ![e] = "none"] /\ UNCHANGED artifacts
       ELSE artifacts' = [artifacts EXCEPT ![e] = "none"] /\ UNCHANGED blobs
    /\ evicted' = evicted \cup {e}
    /\ UNCHANGED <<pc, work, reply, cleaned, misread>>

Step(s) ==
    \/ Start(s) \/ QueryDone(s) \/ PutArtifact(s) \/ Fallback(s) \/ Abort(s)
    \/ InspectDone(s) \/ GetArtifact(s) \/ Clean(s)
    \/ \E e \in unread[s] : Query(s, e) \/ GetBlob(s, e)
    \/ \E k \in todo[s] : PutBlob(s, k)

Trouble(s) ==
    \/ QueryFail(s) \/ InspectFail(s) \/ CleanFail(s) \/ Kill(s)
    \/ ScanUnavailable(s) \/ CleanUnavailable(s)
    \/ \E e \in unread[s] : QueryError(s, e) \/ GetBlobError(s, e)
    \/ \E e \in todo[s] : PutUnavailable(s, e)

Next ==
    \/ \E s \in Scans : Step(s) \/ Trouble(s)
    \/ \E e \in Entries : Evict(e)

\* Every step of a scan that has begun is taken: a process runs on, and an
\* unavailable server answers one way or the other.
Fairness == \A s \in Scans : WF_vars(Step(s) /\ pc[s] # "idle")

Spec == Init /\ [][Next]_vars /\ Fairness

----------------------------------------------------------------------------
(* Properties.                                                             *)

CacheType ==
    /\ blobs \in [Keys -> {"none", "full", "nosecrets"}]
    /\ artifacts \in [Targets -> {"none", "history", "bare"}]

WorkType ==
    /\ pc \in [Scans -> Steps]
    /\ target \in [Scans -> Targets]
    /\ unread \in [Scans -> SUBSET Entries]
    /\ todo \in [Scans -> SUBSET Entries]
    /\ found \in [Scans -> {"none", "alpine"}]

ReplyType ==
    /\ got \in [Scans -> [Keys -> {"none", "full", "nosecrets"}]]
    /\ config \in [Scans -> {"none", "history", "bare"}]
    /\ outcome \in [Scans -> {"none", "ok", "error", "unavailable"}]

TriesType == tries \in [Scans -> [Calls -> 0 .. MaxTries]]

EnvType ==
    /\ faults \in 0 .. MaxFaults
    /\ evicted \subseteq Entries /\ cleaned \subseteq Scans /\ misread \subseteq Scans \X Keys

\* Type invariant.  rpc.Retry never makes more than maxRetries tries.
TypeOK == CacheType /\ WorkType /\ ReplyType /\ TriesType /\ EnvType

\* The ways a key may be analysed: as a layer of each target that has it.
Views(k) ==
    {Analysis(t, k) : t \in {u \in Targets : \E s \in Scans : k \in KeysOf(s, u)}}

\* ApplyLayers never reports on part of a target: an answered scan has every
\* blob, and shows each layer as a scan with an empty cache of some target that
\* has it would.  So a layer on which the targets agree is shown that way
\* through reuse, overwriting, retries, kills and evictions.
ReportsAreWhole ==
    \A s \in Scans : outcome[s] = "ok" =>
        \A k \in KeysOf(s, target[s]) : got[s][k] \in Views(k)

\* Another scan, of the same content as a file, has deleted the blob.
CleanedAway(s, k) ==
    /\ Kind[target[s]] \in {"file", "attested"}
    /\ \E r \in cleaned \ {s} : Kind[target[r]] = "file" /\ k \in KeysOf(r, target[r])

\* What Inspect found or stored is still there when ApplyLayers reads it: a scan
\* fails with "layer cache missing" only if a blob was evicted, if reading it failed,
\* or if it scans a file, or an image with a remote SBOM, and another scan of that
\* file has cleaned up (with or without an answer).  Overlapping queries, failed or
\* killed scans and the Clean of other kinds of artifact never cause it.
MissingHasCause ==
    \A s \in Scans : outcome[s] = "error" =>
        \E k \in KeysOf(s, target[s]) :
            k \in evicted \/ <<s, k>> \in misread \/ CleanedAway(s, k)

\* The blob under a directory's random key is gone when the scan is done,
\* whatever the scan's outcome, and never comes back.
TemporaryBlobsGo ==
    \A s \in Scans : pc[s] = "done" => blobs[s] = "none"

\* A scan that has begun ends: missing entries, lost answers, failed analyses
\* and exhausted retries lead to an answer or an error.
ScanEnds ==
    \A s \in Scans : pc[s] # "idle" ~> pc[s] \in Ended

\* What the proofs need besides.  A scan asks for, and stores, its own entries.
OwnEntries ==
    \A s \in Scans : unread[s] \cup todo[s] \subseteq KeysOf(s, target[s]) \cup {target[s]}

\* Retries are not used up while a scan goes on.
TriesLeft ==
    \A s \in Scans :
        /\ pc[s] \in {"idle", "query", "inspect", "scan"} => \A c \in Calls : tries[s][c] < MaxTries
        /\ pc[s] = "clean" => tries[s]["delete"] < MaxTries

\* What the cache holds and what was read from it is some target's analysis.
CacheIsSound ==
    /\ \A k \in Keys : blobs[k] # "none" => blobs[k] \in Views(k)
    /\ \A s \in Scans, k \in Keys : got[s][k] # "none" => got[s][k] \in Views(k)

\* ApplyLayers has read what it is not going to read, and all in the end.
ReadSoFar ==
    \A s \in Scans :
        /\ outcome[s] # "none" => pc[s] \in {"clean"} \cup Ended
        /\ s \in cleaned => pc[s] \in {"clean"} \cup Ended
        /\ pc[s] = "scan" =>
               \A k \in KeysOf(s, target[s]) : k \in unread[s] \/ got[s][k] # "none"
        /\ outcome[s] = "ok" => \A k \in KeysOf(s, target[s]) : got[s][k] # "none"

\* From the query on, a blob of the scan is in the cache unless it is still to
\* be asked for, known to be missing, evicted or cleaned away.
Accounted ==
    \A s \in Scans : pc[s] \in {"query", "inspect", "scan"} =>
        \A k \in KeysOf(s, target[s]) :
            \/ blobs[k] # "none" \/ k \in evicted \/ CleanedAway(s, k)
            \/ k \in todo[s] /\ pc[s] # "scan"
            \/ k \in unread[s] /\ pc[s] = "query"

\* Only the scan of a directory that has begun and is not done has a random key.
TemporaryKeys ==
    \A s \in Scans : blobs[s] # "none" => Kind[target[s]] = "dir" /\ pc[s] # "done"

IInv ==
    /\ TypeOK /\ OwnEntries /\ TriesLeft /\ CacheIsSound /\ ReadSoFar
    /\ Accounted /\ MissingHasCause /\ TemporaryKeys

\* Secret scanning: "Trivy scans any container image", and skips the layers of
\* the base image only.
SecretsOfOwnLayers(s) ==
    \A k \in KeysOf(s, target[s]) \ GuessBaseLayers(target[s]) : got[s][k] = "full"

\* --removed-pkgs: "detect vulnerabilities of removed packages", for Alpine.
RemovedPackagesFound(s) ==
    KeysOf(s, target[s]) \cap AlpineLayers # {} => config[s] = "history"

\* With no fault at all, the scan of an image reports what a scan with an empty
\* cache would: its own layers' secrets and its removed packages.
CacheIsTransparent ==
    faults = 0 =>
        \A s \in Scans : outcome[s] = "ok" /\ IsImage(target[s]) =>
            SecretsOfOwnLayers(s) /\ RemovedPackagesFound(s)
=============================================================================
