--------------------------- MODULE AnalyzerGroup ----------------------------
(***************************************************************************)
(* The analysis of one directory, layer or disk image: Inspect of          *)
(* pkg/fanal/artifact/local/fs.go with the walk of pkg/fanal/walker/fs.go, *)
(* AnalyzeFile and PostAnalyze of pkg/fanal/analyzer/analyzer.go.  (The    *)
(* inspectLayer of the image artifact and Analyze of the VM artifact are   *)
(* the same code around another walker.)                                   *)
(*                                                                         *)
(* The calling goroutine walks the files.  For each analyzer that wants a  *)
(* file it opens the file, waits for a permit of the semaphore with the    *)
(* errgroup's context and starts a goroutine that analyzes, merges its     *)
(* result into the shared one, closes the file, gives the permit back and  *)
(* only then reports its error to the errgroup, whose first error cancels  *)
(* the context.  When the walk ends, well or not, the caller waits for the *)
(* group, runs the post-analyzers and the post-handlers and stores the     *)
(* blob in the cache.                                                      *)
(***************************************************************************)
EXTENDS Naturals, FiniteSets, OSMerge

CONSTANTS
    NumFiles,   \* the files the walk visits, in its order
    Wanted,     \* per file: how many analyzers require it
    PathOf,     \* per file: the static path it is under
    PostFiles,  \* the files some post-analyzer requires
    Inputs      \* the trees and options: how the tree is walked ("root" or by
                \* "static" paths), --parallel, and the OS each job finds

ASSUME NumFilesAssumption == NumFiles \in Nat
ASSUME WantedAssumption   == Wanted \in [1 .. NumFiles -> Nat]
ASSUME PathOfAssumption   == PathOf \in [1 .. NumFiles -> Nat]

Files == 1 .. NumFiles
\* An analyzer's turn on a file.
Jobs  == UNION {{f} \X (1 .. Wanted[f]) : f \in Files}

ASSUME PostFilesAssumption == PostFiles \subseteq Files
ASSUME InputsAssumption    ==
    \A in \in Inputs :
        /\ in.mode \in {"root", "static"}
        /\ in.parallel \in Nat
        /\ \A j \in Jobs : IsOS(in.finds[j])

VARIABLES
    input,    \* the tree and the options at hand
    caller,   \* the caller's context: "live", "canceled" or "deadline"
    group,    \* the errgroup's context, derived from it
    err,      \* the errgroup's error: "nil", "timeout" or "user"
    main,     \* the caller: "walk", "acquire", "wait", "post", "handle",
              \* "store" or "returned"
    file,     \* the file the walk is at
    turn,     \* the analyzer AnalyzeFile is at
    walkErr,  \* "nil", "walk" or "ctx"
    skipped,  \* files whose analysis was passed over
    linked,   \* files handed to the composite file system
    open,     \* jobs whose file is open
    permits,  \* jobs that hold a permit of the semaphore
    job,      \* per job: "todo", "run", "closing", "releasing", "ended", "left"
    fate,     \* per job: what became of its analysis
    os,       \* the OS of the shared AnalysisResult
    ret       \* what Inspect returned: "none", "nil" or an error

ctxs   == <<caller, group>>
walk   == <<file, turn, walkErr, skipped, linked>>
procs  == <<open, permits, job, fate>>
vars   == <<input, ctxs, err, main, walk, procs, os, ret>>

GroupErrors == {"timeout", "user"}

\* semaphore.New
Limit == IF input.parallel = 0 THEN 5 ELSE input.parallel

Init ==
    /\ input \in Inputs
    /\ caller = "live" /\ group = "live"
    /\ err = "nil"
    /\ main = "walk"
    /\ file = 1 /\ turn = 1
    /\ walkErr = "nil"
    /\ skipped = {} /\ linked = {}
    /\ open = {} /\ permits = {}
    /\ job = [j \in Jobs |-> "todo"]
    /\ fate = [j \in Jobs |-> "none"]
    /\ os = NoOS
    /\ ret = "none"

----------------------------------------------------------------------------
(* Mutants: the definitions below as plausible bugs would have them.       *)

\* The walk moves on twice after a link.
MutLinkTwice(f) ==
    /\ main = "walk" /\ file = f /\ turn > Wanted[f]
    /\ linked' = linked \cup ({f} \cap PostFiles)
    /\ file' = f + 2 /\ turn' = 1
    /\ UNCHANGED <<input, ctxs, err, main, walkErr, skipped, procs, os, ret>>

\* Inspect returns the walk's error before it looks at the group's.
MutWalkErrorFirst ==
    /\ main = "wait"
    /\ \A j \in Jobs : job[j] \in {"todo", "left"}
    /\ group' = IF group = "live" THEN "canceled" ELSE group
    /\ \/ walkErr # "nil" /\ main' = "returned" /\ ret' = walkErr
       \/ walkErr = "nil" /\ err # "nil" /\ main' = "returned" /\ ret' = err
       \/ err = "nil" /\ walkErr = "nil" /\ main' = "post" /\ UNCHANGED ret
    /\ UNCHANGED <<input, caller, err, walk, procs, os>>

\* A timeout is logged and dropped like any other error.
MutDropTimeout(j) ==
    /\ job[j] = "ended"
    /\ job' = [job EXCEPT ![j] = "left"]
    /\ IF fate[j] = "user"
       THEN /\ err' = IF err = "nil" THEN fate[j] ELSE err
            /\ group' = IF group = "live" THEN "canceled" ELSE group
       ELSE UNCHANGED <<err, group>>
    /\ UNCHANGED <<input, caller, main, walk, open, permits, fate, os, ret>>

\* AnalyzeFile forgets the handle when it gets no permit.
MutLeakHandle(f) ==
    /\ main = "acquire" /\ file = f
    /\ group # "live"
    /\ walkErr' = "ctx" /\ main' = "wait"
    /\ UNCHANGED <<input, ctxs, err, file, turn, skipped, linked, procs, os, ret>>

\* The two defers in the other order: the permit goes before the handle.
MutReleaseFirst(j) ==
    /\ job[j] = "closing"
    /\ job' = [job EXCEPT ![j] = "releasing"]
    /\ permits' = permits \ {j}
    /\ UNCHANGED <<input, ctxs, err, main, walk, open, fate, os, ret>>

\* The permit is given back on success only.
MutKeepPermit(j) ==
    /\ job[j] = "releasing"
    /\ job' = [job EXCEPT ![j] = "ended"]
    /\ permits' = IF fate[j] = "merged" THEN permits \ {j} ELSE permits
    /\ UNCHANGED <<input, ctxs, err, main, walk, open, fate, os, ret>>

----------------------------------------------------------------------------
(* The contexts.                                                           *)

\* The caller's context ends: --timeout, or an interrupt.
CallerEnds(how) ==
    /\ caller = "live"
    /\ main # "returned"
    /\ caller' = how
    /\ group' = IF group = "live" THEN how ELSE group
    /\ UNCHANGED <<input, err, main, walk, procs, os, ret>>

\* The errgroup cancels its context: at the first error, and when Wait returns.
GroupCancel == group' = IF group = "live" THEN "canceled" ELSE group

----------------------------------------------------------------------------
(* The walk.                                                               *)

At(f) == main = "walk" /\ file = f /\ f \in Files

NextFile(f) == file' = f /\ turn' = 1

\* The walk ends with an error.
StopWalk(e) ==
    /\ walkErr' = e
    /\ main' = "wait"
    /\ UNCHANGED <<file, turn, skipped, linked>>

\* The directory entry cannot be read: onError ignores a permission error.
VisitDenied(f) ==
    /\ At(f) /\ turn = 1
    /\ skipped' = skipped \cup {f}
    /\ NextFile(f + 1)
    /\ UNCHANGED <<input, ctxs, err, main, walkErr, linked, procs, os, ret>>

\* WalkDir or d.Info() fails otherwise, or the file cannot be opened.
WalkFails(f) ==
    /\ At(f)
    /\ turn = 1 \/ turn <= Wanted[f]
    /\ StopWalk("walk")
    /\ UNCHANGED <<input, ctxs, err, procs, os, ret>>

\* The file is gone (fs.ErrNotExist).  analyzeWithStaticPaths goes on with the
\* next static path and leaves the rest of this one out.
Vanished(f) ==
    /\ At(f)
    /\ input.mode = "static"
    /\ turn = 1 \/ turn <= Wanted[f]
    /\ \E g \in f + 1 .. NumFiles + 1 :
          /\ \A h \in f .. g - 1 : PathOf[h] = PathOf[f]
          /\ g \in Files => PathOf[g] # PathOf[f]
          /\ skipped' = skipped \cup (f .. g - 1)
          /\ NextFile(g)
    /\ UNCHANGED <<input, ctxs, err, main, walkErr, linked, procs, os, ret>>

\* The opener meets fs.ErrPermission: the loop over the analyzers breaks.
OpenDenied(f) ==
    /\ At(f) /\ turn <= Wanted[f]
    /\ skipped' = skipped \cup {f}
    /\ turn' = Wanted[f] + 1
    /\ UNCHANGED <<input, ctxs, err, main, file, walkErr, linked, procs, os, ret>>

Open(f) ==
    /\ At(f) /\ turn <= Wanted[f]
    /\ open' = open \cup {<<f, turn>>}
    /\ main' = "acquire"
    /\ UNCHANGED <<input, ctxs, err, walk, permits, job, fate, os, ret>>

\* limit.Acquire succeeds and eg.Go starts the analysis.
Acquire(f) ==
    /\ main = "acquire" /\ file = f
    /\ Cardinality(permits) < Limit
    /\ permits' = permits \cup {<<f, turn>>}
    /\ job' = [job EXCEPT ![<<f, turn>>] = "run"]
    /\ turn' = turn + 1
    /\ main' = "walk"
    /\ UNCHANGED <<input, ctxs, err, file, walkErr, skipped, linked, open, fate, os, ret>>

\* The context ends while AnalyzeFile waits for a permit: the handle is closed.
AcquireFails(f) ==
    /\ main = "acquire" /\ file = f
    /\ group # "live"
    /\ open' = open \ {<<f, turn>>}
    /\ StopWalk("ctx")
    /\ UNCHANGED <<input, ctxs, err, permits, job, fate, os, ret>>

\* Every analyzer had its turn: CreateLink if a post-analyzer wants the file.
Link(f) ==
    /\ At(f) /\ turn > Wanted[f]
    /\ linked' = linked \cup ({f} \cap PostFiles)
    /\ NextFile(f + 1)
    /\ UNCHANGED <<input, ctxs, err, main, walkErr, skipped, procs, os, ret>>

LinkFails(f) ==
    /\ At(f) /\ turn > Wanted[f]
    /\ f \in PostFiles
    /\ StopWalk("walk")
    /\ UNCHANGED <<input, ctxs, err, procs, os, ret>>

WalkEnds ==
    /\ main = "walk"
    /\ file > NumFiles
    /\ main' = "wait"
    /\ UNCHANGED <<input, ctxs, err, walk, procs, os, ret>>

----------------------------------------------------------------------------
(* The goroutine of a job.                                                 *)

Ends(j, how) ==
    /\ job[j] = "run"
    /\ job' = [job EXCEPT ![j] = "closing"]
    /\ fate' = [fate EXCEPT ![j] = how]

\* result.Merge, under the result's mutex.
MergeResult(j) ==
    /\ Ends(j, "merged")
    /\ os' = Merge(os, input.finds[j])
    /\ UNCHANGED <<input, ctxs, err, main, walk, open, permits, ret>>

\* No OS detected, or an error that is logged and dropped.
Drop(j) ==
    /\ Ends(j, "dropped")
    /\ UNCHANGED <<input, ctxs, err, main, walk, open, permits, os, ret>>

\* The analysis ends with a timeout of its own or of the context, or with an
\* error meant for the user: the goroutine will return it.
Fail(j, e) ==
    /\ Ends(j, e)
    /\ UNCHANGED <<input, ctxs, err, main, walk, open, permits, os, ret>>

\* The context was cancelled under the analysis: its context.Canceled is an
\* error like others to AnalyzeFile, and some analyzers return what they have.
Cut(j) ==
    /\ group = "canceled"
    /\ Ends(j, "cut")
    /\ UNCHANGED <<input, ctxs, err, main, walk, open, permits, os, ret>>

\* The deferred rc.Close().
Close(j) ==
    /\ job[j] = "closing"
    /\ job' = [job EXCEPT ![j] = "releasing"]
    /\ open' = open \ {j}
    /\ UNCHANGED <<input, ctxs, err, main, walk, permits, fate, os, ret>>

\* The deferred limit.Release(1).
Release(j) ==
    /\ job[j] = "releasing"
    /\ job' = [job EXCEPT ![j] = "ended"]
    /\ permits' = permits \ {j}
    /\ UNCHANGED <<input, ctxs, err, main, walk, open, fate, os, ret>>

\* The errgroup takes the error, if any, and counts the goroutine out.
Leave(j) ==
    /\ job[j] = "ended"
    /\ job' = [job EXCEPT ![j] = "left"]
    /\ IF fate[j] \in GroupErrors
       THEN /\ err' = IF err = "nil" THEN fate[j] ELSE err
            /\ GroupCancel
       ELSE UNCHANGED <<err, group>>
    /\ UNCHANGED <<input, caller, main, walk, open, permits, fate, os, ret>>

Running(j) == job[j] \in {"run", "closing", "releasing", "ended"}

----------------------------------------------------------------------------
(* The end of Inspect.                                                     *)

ReturnWith(e) == main' = "returned" /\ ret' = e

\* eg.Wait(): the group's error comes before the error of the walk.
Wait ==
    /\ main = "wait"
    /\ \A j \in Jobs : ~Running(j)
    /\ GroupCancel
    /\ \/ err # "nil" /\ ReturnWith(err)
       \/ err = "nil" /\ walkErr # "nil" /\ ReturnWith(walkErr)
       \/ err = "nil" /\ walkErr = "nil" /\ main' = "post" /\ UNCHANGED ret
    /\ UNCHANGED <<input, caller, err, walk, procs, os>>

\* PostAnalyze runs under the caller's context, not under the group's.
PostAnalyze ==
    /\ main = "post"
    /\ \/ main' = "handle" /\ UNCHANGED ret
       \/ PostFiles # {} /\ ReturnWith("post")
       \/ PostFiles # {} /\ caller # "live" /\ ReturnWith("ctx")
    /\ UNCHANGED <<input, ctxs, err, walk, procs, os>>

PostHandle ==
    /\ main = "handle"
    /\ \/ main' = "store" /\ UNCHANGED ret
       \/ ReturnWith("hook")
    /\ UNCHANGED <<input, ctxs, err, walk, procs, os>>

PutBlob ==
    /\ main = "store"
    /\ \/ ReturnWith("nil")
       \/ ReturnWith("cache")
    /\ UNCHANGED <<input, ctxs, err, walk, procs, os>>

Stopped == main = "returned" /\ UNCHANGED vars

Walk(f) == \/ VisitDenied(f) \/ WalkFails(f) \/ Vanished(f) \/ OpenDenied(f)
           \/ Open(f) \/ Acquire(f) \/ AcquireFails(f) \/ Link(f) \/ LinkFails(f)

Analyze(j) == \/ MergeResult(j) \/ Drop(j) \/ Cut(j)
              \/ \E e \in GroupErrors : Fail(j, e)

Finish == Wait \/ PostAnalyze \/ PostHandle \/ PutBlob

Next ==
    \/ \E how \in {"canceled", "deadline"} : CallerEnds(how)
    \/ \E f \in Files : Walk(f)
    \/ WalkEnds
    \/ \E j \in Jobs : Analyze(j) \/ Close(j) \/ Release(j) \/ Leave(j)
    \/ Finish
    \/ Stopped

Spec == Init /\ [][Next]_vars

(* The caller and every goroutine keep running: an analysis ends (it reads *)
(* a file or stops with its context), a free permit is taken, a deferred   *)
(* call is made.  Nothing makes a failure happen.                          *)
Fairness ==
    /\ WF_vars((\E f \in Files : Walk(f)) \/ WalkEnds \/ Finish)
    /\ \A j \in Jobs : WF_vars(Analyze(j) \/ Close(j) \/ Release(j) \/ Leave(j))

FairSpec == Spec /\ Fairness

----------------------------------------------------------------------------
TypeOK ==
    /\ input \in Inputs
    /\ caller \in {"live", "canceled", "deadline"}
    /\ group \in {"live", "canceled", "deadline"}
    /\ err \in GroupErrors \cup {"nil"}
    /\ main \in {"walk", "acquire", "wait", "post", "handle", "store", "returned"}
    /\ file \in 1 .. NumFiles + 1
    /\ turn \in Nat
    /\ file \in Files => turn \in 1 .. Wanted[file] + 1
    /\ walkErr \in {"nil", "walk", "ctx"}
    /\ skipped \subseteq Files
    /\ linked \subseteq PostFiles
    /\ open \subseteq Jobs
    /\ permits \subseteq Jobs
    /\ job \in [Jobs -> {"todo", "run", "closing", "releasing", "ended", "left"}]
    /\ fate \in [Jobs -> {"none", "merged", "dropped", "cut"} \cup GroupErrors]
    /\ IsOS(os)
    /\ ret \in {"none", "nil", "walk", "ctx", "post", "hook", "cache"} \cup GroupErrors

\* A blob is stored only if nothing was lost on the way: every analyzer had its
\* turn on every file that could be read, no analysis ended with a timeout or an
\* error for the user, and the post-analyzers had their files.  An analysis is
\* cut short only if the caller itself was interrupted.
StoredIsWhole ==
    ret = "nil" =>
        /\ \A j \in Jobs :
            \/ fate[j] \in {"merged", "dropped"}
            \/ fate[j] = "cut" /\ caller = "canceled"
            \/ fate[j] = "none" /\ j[1] \in skipped
        /\ PostFiles \subseteq linked \cup skipped

\* Inspect tells the cause: an analyzer's timeout or user error is what it
\* returns, and "canceled" is the answer only when the caller's context ended.
CauseFirst ==
    /\ ret = "ctx" => caller # "live"
    /\ ret # "none" /\ (\E j \in Jobs : fate[j] \in GroupErrors) => ret \in GroupErrors

\* Whatever way Inspect returns, no goroutine, handle or permit is left behind.
NothingLeft ==
    main = "returned" => open = {} /\ permits = {} /\ \A j \in Jobs : ~Running(j)

\* The semaphore bounds the open files: one per permit and the one in hand.
HandlesBounded == Cardinality(open) <= Limit + 1

\* The answers merged so far and the families they name.
Merged   == {input.finds[j] : j \in {i \in Jobs : fate[i] = "merged"}} \ {NoOS}
Families == {o.family : o \in Merged} \ {""}
Firm     == Families \ Provisional

\* The version is the fullest one found for the family.
Fullest ==
    /\ \A o \in Merged : o.family = os.family => IsPrefix(o.name, os.name)
    /\ os.name # <<>> => \E o \in Merged : o.family = os.family /\ o.name = os.name

\* The version is another family's, taken over by an answer that names the family
\* without a version, and none found for the family continues it: the status of
\* Ubuntu's ESM, merged before Debian's version file.
Borrowed ==
    /\ \E o \in Merged : o.family = os.family /\ o.name = <<>>
    /\ \E n \in Merged : n.family # os.family /\ n.name = os.name
    /\ \A o \in Merged : o.family = os.family => ~IsStrictPrefix(os.name, o.name)

\* What the order of the goroutines can and cannot change in the OS of the merged
\* results: a family that is not provisional wins, with the fullest version found for
\* it or, if an answer had none, with a borrowed one; enrolment and supplier stay.
DetectedOS ==
    /\ Families # {} => os.family \in Families
    /\ Firm # {} => os.family \in Firm /\ (Fullest \/ Borrowed)
    /\ os.extended = "yes" <=> \E o \in Merged : o.extended = "yes"
    /\ os.supplier # "" <=> \E o \in Merged : o.supplier # ""

\* "We always take the fullest version" and "We have to merge OS version after parsing
\* these files": once everything has been merged and stored, the version is the
\* fullest one found for the family.
FullestVersion ==
    ret = "nil" /\ Firm # {} /\ (\A j \in Jobs : fate[j] = "merged") => Fullest

\* A tree of one distribution as the analyzers report it: families by the names of
\* this code, no version without a family, extended maintenance for a firm family
\* only, and versions of one family that are the same but for their length.
Coherent(in) ==
    \A j, k \in Jobs :
        LET o == in.finds[j]
            n == in.finds[k]
        IN  /\ o.family \notin DOMAIN OSTypeAliases
            /\ o.family = "" => o.name = <<>>
            /\ o.extended = "yes" => o.family \notin Provisional \cup {""}
            /\ o.family = n.family => IsPrefix(o.name, n.name) \/ IsPrefix(n.name, o.name)

\* Inspect returns: the waiters are released, by a permit or by the context.
InspectReturns == <>(main = "returned")
=============================================================================
