------------------------------ MODULE HotUpdate ------------------------------
(***************************************************************************)
(* The server mode of pkg/rpc/server/listen.go: HTTP handlers that read    *)
(* the vulnerability database, and the worker goroutine that every hour    *)
(* looks for a new one and swaps it in under the handlers' feet.  Two      *)
(* wait groups are to keep them apart: a handler waits for dbUpdateWg and  *)
(* then joins requestWg, the worker joins dbUpdateWg and then waits for    *)
(* requestWg.                                                              *)
(*                                                                         *)
(* A wait group is the set of its members (its counter is their number).   *)
(* Wait() either passes at once or parks; the Done() that empties the      *)
(* group wakes who is parked; and a goroutine that wakes and finds the     *)
(* group in use again panics, as sync.WaitGroup does.                      *)
(***************************************************************************)
EXTENDS VulnDB

CONSTANTS
    Requests,       \* concurrent HTTP requests to the scanner or the cache
    SkipDBUpdate,   \* --skip-db-update
    MaxTime,        \* bound on the clock, in hours
    MaxFailures     \* bound on the failing steps of the worker

ASSUME MaxTimeAssumption     == MaxTime \in Nat \ {0}
ASSUME MaxFailuresAssumption == MaxFailures \in Nat
ASSUME SkipAssumption        == SkipDBUpdate \in BOOLEAN

VARIABLES
    now,        \* the clock
    remote,     \* the build the registry serves
    db, meta,   \* trivy.db and metadata.json in dbDir
    handle,     \* the build db.Init opened, 0 while the database is closed
    tmp,        \* the build and the download time in the worker's tmpDir
    worker,     \* where the worker goroutine is
    failures,   \* failing steps so far
    failed,     \* the step at which the last hot update failed, or "none"
    dbUpdateWg, requestWg,
    req,        \* per request: where its handler is
    reads,      \* per request: the handles its lookups found (0: closed)
    racers,     \* history: handlers between their Wait and their Add when an
                \* update was announced
    proc        \* the process: "up", "cancelled", "stopping", "exited", "crashed"

env   == <<now, remote>>
disk  == <<db, meta>>
upd   == <<tmp, worker, failures, failed>>
vars  == <<env, disk, handle, upd, dbUpdateWg, requestWg, req, reads, racers, proc>>

Running  == proc \in {"up", "cancelled", "stopping"}
Swapping == worker \in {"close", "copyDB", "copyMeta", "init"}

\* server.Run has downloaded and opened the database before it listens.
Init ==
    /\ now = 1 /\ remote = 1
    /\ db = [st |-> "whole", build |-> 1]
    /\ meta = [st |-> "whole", build |-> 1, schema |-> SchemaVersion, downloadedAt |-> 1]
    /\ handle = 1
    /\ tmp = [build |-> 0, at |-> 0]
    /\ worker = "idle"
    /\ failures = 0 /\ failed = "none"
    /\ dbUpdateWg = {} /\ requestWg = {}
    /\ req = [r \in Requests |-> "idle"]
    /\ reads = [r \in Requests |-> {}]
    /\ racers = {}
    /\ proc = "up"

----------------------------------------------------------------------------
(* Mutants of the actions below.                                           *)

\* The handler does not wait for dbUpdateWg.
MutNoGate(r) ==
    /\ proc \in {"up", "cancelled"}
    /\ req[r] = "idle"
    /\ req' = [req EXCEPT ![r] = "gated"]
    /\ UNCHANGED <<env, disk, handle, upd, dbUpdateWg, requestWg, reads, racers, proc>>

\* The handler never leaves requestWg.
MutLeaveNoDone(r) ==
    /\ Running
    /\ req[r] = "serving"
    /\ req' = [req EXCEPT ![r] = "idle"]
    /\ reads' = [reads EXCEPT ![r] = {}]
    /\ racers' = racers \ {r}
    /\ UNCHANGED <<env, disk, handle, upd, dbUpdateWg, requestWg, proc>>

\* The worker returns after its first error instead of waiting for the next tick.
MutTickGivesUp ==
    /\ Running
    /\ worker = "idle"
    /\ failed = "none"
    /\ NeedsUpdate(db, meta, now, SkipDBUpdate) = "yes"
    /\ worker' = "download"
    /\ UNCHANGED <<env, disk, handle, tmp, failures, failed, dbUpdateWg, requestWg, req, reads, racers, proc>>

\* The worker does not wait for requestWg.
MutNoWait ==
    /\ Running
    /\ worker = "wait"
    /\ worker' = "close"
    /\ UNCHANGED <<env, disk, handle, tmp, failures, failed, dbUpdateWg, requestWg, req, reads, racers, proc>>

\* metadata.json is copied before trivy.db.
MutMetaFirst ==
    /\ Running
    /\ worker = "copyDB"
    /\ meta' = [st |-> "whole", build |-> tmp.build, schema |-> SchemaVersion,
                downloadedAt |-> tmp.at]
    /\ worker' = "copyMeta"
    /\ UNCHANGED <<env, db, handle, tmp, failures, failed, dbUpdateWg, requestWg, req, reads, racers, proc>>

\* The metadata is written without its schema version.
MutMetaNoSchema ==
    /\ Running
    /\ worker = "copyMeta"
    /\ meta' = [st |-> "whole", build |-> tmp.build, schema |-> 0, downloadedAt |-> tmp.at]
    /\ worker' = "init"
    /\ UNCHANGED <<env, db, handle, tmp, failures, failed, dbUpdateWg, requestWg, req, reads, racers, proc>>

\* dbUpdateWg.Done() is not deferred and is missed after an error.
MutFinishNoDone ==
    /\ Running
    /\ worker = "finish"
    /\ dbUpdateWg' = IF failed = "none" THEN {} ELSE dbUpdateWg
    /\ req' = [r \in Requests |->
                 IF req[r] = "parked" /\ dbUpdateWg' = {} THEN "woken" ELSE req[r]]
    /\ tmp' = [build |-> 0, at |-> 0]
    /\ worker' = "idle"
    /\ UNCHANGED <<env, disk, handle, failures, failed, requestWg, reads, racers, proc>>

----------------------------------------------------------------------------
(* The environment: time, the registry, SIGINT.                            *)

Hourly ==
    /\ now < MaxTime
    /\ now' = now + 1
    /\ UNCHANGED <<remote, disk, handle, upd, dbUpdateWg, requestWg, req, reads, racers, proc>>

Publish ==
    /\ remote < now
    /\ remote' = now
    /\ UNCHANGED <<now, disk, handle, upd, dbUpdateWg, requestWg, req, reads, racers, proc>>

Cancel ==
    /\ proc = "up"
    /\ proc' = "cancelled"
    /\ UNCHANGED <<env, disk, handle, upd, dbUpdateWg, requestWg, req, reads, racers>>

----------------------------------------------------------------------------
(* A request's handler: withWaitGroup and the lookups of the scan.         *)

\* dbUpdateWg.Wait() passes or parks.
Arrive(r) ==
    /\ proc \in {"up", "cancelled"}
    /\ req[r] = "idle"
    /\ req' = [req EXCEPT ![r] = IF dbUpdateWg = {} THEN "gated" ELSE "parked"]
    /\ UNCHANGED <<env, disk, handle, upd, dbUpdateWg, requestWg, reads, racers, proc>>

\* A parked Wait() returns; net/http recovers a panic of the handler.
Wake(r) ==
    /\ Running
    /\ req[r] = "woken"
    /\ req' = [req EXCEPT ![r] = IF dbUpdateWg = {} THEN "gated" ELSE "idle"]
    /\ UNCHANGED <<env, disk, handle, upd, dbUpdateWg, requestWg, reads, racers, proc>>

\* requestWg.Add(1), then base.ServeHTTP starts.
Enter(r) ==
    /\ Running
    /\ req[r] = "gated"
    /\ req' = [req EXCEPT ![r] = "serving"]
    /\ requestWg' = requestWg \cup {r}
    /\ UNCHANGED <<env, disk, handle, upd, dbUpdateWg, reads, racers, proc>>

\* The scan reads the database, or fails to because it is closed.
Lookup(r) ==
    /\ Running
    /\ req[r] = "serving"
    /\ reads' = [reads EXCEPT ![r] = @ \cup {handle}]
    /\ UNCHANGED <<env, disk, handle, upd, dbUpdateWg, requestWg, req, racers, proc>>

\* The deferred requestWg.Done(); the last one wakes a parked worker.
Leave(r) ==
    /\ Running
    /\ req[r] = "serving"
    /\ req' = [req EXCEPT ![r] = "idle"]
    /\ requestWg' = requestWg \ {r}
    /\ reads' = [reads EXCEPT ![r] = {}]
    /\ racers' = racers \ {r}
    /\ worker' = IF worker = "parked" /\ requestWg' = {} THEN "woken" ELSE worker
    /\ UNCHANGED <<env, disk, handle, tmp, failures, failed, dbUpdateWg, proc>>

----------------------------------------------------------------------------
(* The worker goroutine: update and hotUpdate.                             *)

\* ticker.C: NeedsUpdate decides.
Tick ==
    /\ Running
    /\ worker = "idle"
    /\ NeedsUpdate(db, meta, now, SkipDBUpdate) = "yes"
    /\ worker' = "download"
    /\ UNCHANGED <<env, disk, handle, tmp, failures, failed, dbUpdateWg, requestWg, req, reads, racers, proc>>

\* Download into tmpDir, out of everybody's sight.
Download ==
    /\ Running
    /\ worker = "download"
    /\ tmp' = [build |-> remote, at |-> now]
    /\ worker' = "announce"
    /\ UNCHANGED <<env, disk, handle, failures, failed, dbUpdateWg, requestWg, req, reads, racers, proc>>

\* No temporary directory or no download: hotUpdate returns, nothing was touched.
DownloadFail ==
    /\ Running
    /\ worker = "download"
    /\ failures < MaxFailures
    /\ failures' = failures + 1
    /\ worker' = "idle"
    /\ UNCHANGED <<env, disk, handle, tmp, failed, dbUpdateWg, requestWg, req, reads, racers, proc>>

\* dbUpdateWg.Add(1).
Announce ==
    /\ Running
    /\ worker = "announce"
    /\ dbUpdateWg' = {"worker"}
    /\ worker' = "wait"
    /\ racers' = racers \cup {r \in Requests : req[r] = "gated"}
    /\ UNCHANGED <<env, disk, handle, tmp, failures, failed, requestWg, req, reads, proc>>

\* requestWg.Wait() passes or parks.
WaitRequests ==
    /\ Running
    /\ worker = "wait"
    /\ worker' = IF requestWg = {} THEN "close" ELSE "parked"
    /\ UNCHANGED <<env, disk, handle, tmp, failures, failed, dbUpdateWg, requestWg, req, reads, racers, proc>>

\* The parked Wait() returns.  Nothing recovers a panic of this goroutine.
WorkerWake ==
    /\ Running
    /\ worker = "woken"
    /\ IF requestWg = {}
         THEN worker' = "close" /\ UNCHANGED proc
         ELSE worker' = "panicked" /\ proc' = "crashed"
    /\ UNCHANGED <<env, disk, handle, tmp, failures, failed, dbUpdateWg, requestWg, req, reads, racers>>

Close ==
    /\ Running
    /\ worker = "close"
    /\ handle' = 0
    /\ worker' = "copyDB"
    /\ UNCHANGED <<env, disk, tmp, failures, failed, dbUpdateWg, requestWg, req, reads, racers, proc>>

CopyDB ==
    /\ Running
    /\ worker = "copyDB"
    /\ db' = [st |-> "whole", build |-> tmp.build]
    /\ worker' = "copyMeta"
    /\ UNCHANGED <<env, meta, handle, tmp, failures, failed, dbUpdateWg, requestWg, req, reads, racers, proc>>

CopyMeta ==
    /\ Running
    /\ worker = "copyMeta"
    /\ meta' = [st |-> "whole", build |-> tmp.build, schema |-> SchemaVersion,
                downloadedAt |-> tmp.at]
    /\ worker' = "init"
    /\ UNCHANGED <<env, db, handle, tmp, failures, failed, dbUpdateWg, requestWg, req, reads, racers, proc>>

Reopen ==
    /\ Running
    /\ worker = "init"
    /\ handle' = db.build
    /\ failed' = "none"
    /\ worker' = "finish"
    /\ UNCHANGED <<env, disk, tmp, failures, dbUpdateWg, requestWg, req, reads, racers, proc>>

\* A step of the swap returns an error: the steps after it do not happen, but
\* the deferred Done() does.  os.Create has truncated the file that a failing
\* io.Copy leaves behind; a Close that fails may or may not have closed.
SwapFail ==
    /\ Running
    /\ Swapping
    /\ failures < MaxFailures
    /\ failures' = failures + 1
    /\ failed' = worker
    /\ handle' \in IF worker = "close" THEN {handle, 0} ELSE {handle}
    /\ db' \in {db} \cup IF worker = "copyDB" THEN {[db EXCEPT !.st = "torn"]} ELSE {}
    /\ meta' \in {meta} \cup IF worker = "copyMeta" THEN {[meta EXCEPT !.st = "torn"]} ELSE {}
    /\ worker' = "finish"
    /\ UNCHANGED <<env, tmp, dbUpdateWg, requestWg, req, reads, racers, proc>>

\* The deferred dbUpdateWg.Done() wakes the parked requests; tmpDir is removed.
Finish ==
    /\ Running
    /\ worker = "finish"
    /\ dbUpdateWg' = {}
    /\ req' = [r \in Requests |-> IF req[r] = "parked" THEN "woken" ELSE req[r]]
    /\ tmp' = [build |-> 0, at |-> 0]
    /\ worker' = "idle"
    /\ UNCHANGED <<env, disk, handle, failures, failed, requestWg, reads, racers, proc>>

----------------------------------------------------------------------------
(* Shutdown.  The worker sees ctx.Done() only between two updates.         *)

\* server.Shutdown closes the listeners ...
Shutdown ==
    /\ proc = "cancelled"
    /\ worker = "idle"
    /\ proc' = "stopping"
    /\ worker' = "shutdown"
    /\ UNCHANGED <<env, disk, handle, tmp, failures, failed, dbUpdateWg, requestWg, req, reads, racers>>

\* ... which makes ListenAndServe, and with it the process, return.
Exit ==
    /\ proc = "stopping"
    /\ proc' = "exited"
    /\ UNCHANGED <<env, disk, handle, upd, dbUpdateWg, requestWg, req, reads, racers>>

\* The process is killed, or the machine stops, between any two steps.
Kill ==
    /\ Running
    /\ proc' = "crashed"
    /\ UNCHANGED <<env, disk, handle, upd, dbUpdateWg, requestWg, req, reads, racers>>

\* A copy that is killed leaves a torn file.
KillInCopy ==
    /\ Running
    /\ worker \in {"copyDB", "copyMeta"}
    /\ proc' = "crashed"
    /\ db' = IF worker = "copyDB" THEN [db EXCEPT !.st = "torn"] ELSE db
    /\ meta' = IF worker = "copyMeta" THEN [meta EXCEPT !.st = "torn"] ELSE meta
    /\ UNCHANGED <<env, handle, upd, dbUpdateWg, requestWg, req, reads, racers>>

Stopped == ~Running /\ UNCHANGED vars

Handler(r) == Wake(r) \/ Enter(r) \/ Leave(r)
Worker ==
    \/ Tick \/ Download \/ DownloadFail \/ Announce \/ WaitRequests \/ WorkerWake
    \/ Close \/ CopyDB \/ CopyMeta \/ Reopen \/ SwapFail \/ Finish \/ Shutdown

Next ==
    \/ Hourly \/ Publish \/ Cancel
    \/ \E r \in Requests : Arrive(r) \/ Lookup(r) \/ Handler(r)
    \/ Worker
    \/ Exit \/ Kill \/ KillInCopy
    \/ Stopped

Spec == Init /\ [][Next]_vars

(* The worker goroutine and the handlers run, and a scan ends.  The ticker  *)
(* fires again and again.                                                   *)
FairSpec == Spec /\ WF_vars(Worker) /\ \A r \in Requests : WF_vars(Handler(r))

----------------------------------------------------------------------------
WorkerStates == {"idle", "download", "announce", "wait", "parked", "woken", "close",
                 "copyDB", "copyMeta", "init", "finish", "shutdown", "panicked"}

TypeOK ==
    /\ now \in Nat /\ remote \in Nat
    /\ db \in DBFiles /\ meta \in MetaFiles
    /\ handle \in Nat
    /\ tmp \in [build : Nat, at : Nat]
    /\ worker \in WorkerStates
    /\ failures \in 0 .. MaxFailures
    /\ failed \in {"none", "close", "copyDB", "copyMeta", "init"}
    /\ dbUpdateWg \subseteq {"worker"} /\ requestWg \subseteq Requests
    /\ req \in [Requests -> {"idle", "parked", "woken", "gated", "serving"}]
    /\ reads \in [Requests -> SUBSET Nat]
    /\ racers \subseteq Requests
    /\ proc \in {"up", "cancelled", "stopping", "exited", "crashed"}

\* The two wait groups keep requests and the swap apart, but for one window: a
\* request served during a swap, or found by a worker whose Wait() was woken
\* (which then panics), stood between its Wait() and its Add(1) when the worker
\* announced the update.
OnlyRacersOverlap ==
    worker \in {"woken", "panicked", "close", "copyDB", "copyMeta", "init"} =>
        requestWg \subseteq racers

\* Every request outside that window sees one database from its first lookup to
\* its last, never two builds and never an open one and then a closed one.
SnapshotReads ==
    \A r \in Requests : req[r] = "serving" /\ r \notin racers =>
        \A a, b \in reads[r] : a = b

\* No file is written under an open database: what is open is what lies, whole,
\* in the directory.
NoCopyUnderOpenDB == handle # 0 => db.st = "whole" /\ db.build = handle

\* Wherever a swap stops (an error, a kill between two steps or inside a copy),
\* a directory whose two files do not belong together is one that NeedsUpdate,
\* now or at any later start, orders to be replaced.
SelfHealing == ~Consistent(db, meta) => NeedsUpdate(db, meta, now, FALSE) = "yes"

\* Requests are let in on a closed database only after a failed swap, and then
\* the next tick fetches again unless it was the reopening that failed.
ClosedHeals ==
    handle = 0 /\ worker = "idle" =>
        failed = "init" \/ (failed # "none" /\ NeedsUpdate(db, meta, now, FALSE) = "yes")

\* A request parked during an update is not parked for ever.
ParkedResume == \A r \in Requests : (req[r] = "parked" /\ Running) ~> (req[r] # "parked" \/ ~Running)

\* New requests cannot starve the worker: once announced, the swap happens.
AnnouncedSwaps == (worker = "wait") ~> (worker = "close" \/ ~Running)

\* A database that a failed swap left closed is open again after the ticks that
\* follow, unless the reopening itself failed.
ClosedReopens ==
    (handle = 0 /\ worker = "idle" /\ failed # "init" /\ proc = "up") ~>
        (handle # 0 \/ failed = "init" \/ proc # "up")

----------------------------------------------------------------------------
(* The inductive invariant.                                                *)

\* Between dbUpdateWg.Add(1) and dbUpdateWg.Done().
Announced == {"wait", "parked", "woken", "close", "copyDB", "copyMeta", "init", "finish", "panicked"}

WaitGroups ==
    /\ requestWg = {r \in Requests : req[r] = "serving"}
    /\ dbUpdateWg = {"worker"} <=> worker \in Announced
    \* Nobody passes the gate while an update is announced.
    /\ worker \in Announced => \A r \in Requests : req[r] = "gated" => r \in racers
    /\ worker \in {"woken", "panicked", "close", "copyDB", "copyMeta", "init", "finish"} =>
         requestWg \subseteq racers

\* A request that is no racer has seen the present handle only.
ReadsPresent ==
    \A r \in Requests :
        /\ req[r] # "serving" => reads[r] = {}
        /\ req[r] = "serving" /\ r \notin racers => reads[r] \subseteq {handle}

SwapOrder ==
    /\ worker \in {"copyDB", "copyMeta", "init"} => handle = 0
    /\ db.st # "none"
    /\ worker = "copyMeta" => db.st = "whole" /\ db.build = tmp.build
    /\ worker = "init" => db.st = "whole" /\ meta.st = "whole" /\ db.build = meta.build /\ db.build > 0
    /\ remote > 0
    /\ worker \in {"announce", "wait", "parked", "woken", "close", "copyDB", "copyMeta"} => tmp.build > 0
    \* The metadata stays expired until the new one is in place.
    /\ worker \in {"download", "announce", "wait", "parked", "woken", "close", "copyDB", "copyMeta"} =>
         NeedsUpdate(db, meta, now, FALSE) = "yes"

\* Outside a swap the database is closed only because a swap failed.
ClosedCause ==
    handle = 0 /\ worker \notin {"copyDB", "copyMeta", "init"} =>
        /\ failed # "none"
        /\ failed = "init" \/ NeedsUpdate(db, meta, now, FALSE) = "yes"

IInv ==
    /\ TypeOK /\ WaitGroups /\ ReadsPresent
    /\ NoCopyUnderOpenDB /\ SwapOrder /\ SelfHealing /\ ClosedCause

----------------------------------------------------------------------------
(* What a comment of the code says, and the code does not keep.            *)

\* "Give active requests time to complete".
GracefulShutdown == proc = "exited" => requestWg = {}
=============================================================================
