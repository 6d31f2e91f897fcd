------------------------ MODULE AnalyzerGroupProofs -------------------------
(***************************************************************************)
(* Proofs about AnalyzerGroup, for any number of files, analyses, permits  *)
(* and inputs.                                                             *)
(***************************************************************************)
EXTENDS AnalyzerGroup, TLAPS, FiniteSetTheorems

\* The walk is past this analysis.
Passed(j) == j[1] < file \/ (j[1] = file /\ j[2] < turn)

\* What the walk has passed was started or skipped, what it has not was not; a
\* walk without an error has come to the end of the files.
Order ==
    /\ \A j \in Jobs : Passed(j) => job[j] # "todo" \/ j[1] \in skipped
    /\ \A j \in Jobs : ~Passed(j) => job[j] = "todo"
    /\ \A f \in PostFiles : f < file => f \in linked \cup skipped
    /\ main = "acquire" => file \in Files /\ turn <= Wanted[file]
    /\ main \in {"walk", "acquire"} => walkErr = "nil"
    /\ main \notin {"walk", "acquire"} /\ walkErr = "nil" => file > NumFiles

\* A goroutine that has left the group with an error has recorded one, and an
\* analysis was cut short by the caller or by an error.
Fates ==
    /\ \A j \in Jobs : job[j] \in {"todo", "run"} <=> fate[j] = "none"
    /\ err = "nil" => \A j \in Jobs : job[j] = "left" => fate[j] \notin GroupErrors
    /\ \A j \in Jobs : fate[j] = "cut" => caller = "canceled" \/ err # "nil"

\* Until Wait returns, the group's context ends with the caller's or by an error.
Contexts ==
    /\ main \in {"walk", "acquire", "wait"} =>
        /\ group # "live" => caller # "live" \/ err # "nil"
        /\ group = "canceled" => caller = "canceled" \/ err # "nil"
    /\ walkErr = "ctx" => caller # "live" \/ err # "nil"

\* Who holds a permit, and who has a file open.
Resources ==
    /\ \A j \in Jobs : j \in permits <=> job[j] \in {"run", "closing", "releasing"}
    /\ \A j \in open : \/ job[j] \in {"run", "closing"}
                       \/ main = "acquire" /\ j = <<file, turn>>

\* After Wait no goroutine runs, and only an error ends Inspect early.
Settled ==
    /\ main \in {"post", "handle", "store", "returned"} => \A j \in Jobs : ~Running(j)
    /\ main \in {"post", "handle", "store"} => err = "nil" /\ walkErr = "nil"
    /\ ret = "none" <=> main # "returned"
    /\ ret # "none" /\ ret \notin GroupErrors => err = "nil"
    /\ ret = "nil" => walkErr = "nil"
    /\ ret = "ctx" => caller # "live"

IInv == TypeOK /\ Order /\ Fates /\ Contexts /\ Resources /\ Settled

----------------------------------------------------------------------------
\* A job is a file and the number of an analyzer that wants it.
LEMMA JobType ==
    /\ \A j \in Jobs : /\ j = <<j[1], j[2]>> /\ j[1] \in Files
                       /\ j[1] \in Nat /\ j[2] \in Nat /\ j[2] \in 1 .. Wanted[j[1]]
    /\ \A f \in Files : /\ f \in Nat /\ Wanted[f] \in Nat
                        /\ \A t \in 1 .. Wanted[f] : <<f, t>> \in Jobs
<1>1. \A f \in Files : f \in Nat /\ Wanted[f] \in Nat
    BY NumFilesAssumption, WantedAssumption DEF Files
<1> QED  BY <1>1 DEF Jobs

\* The merge of two answers is an answer.
LEMMA MergeType == ASSUME NEW o, NEW n, IsOS(o), IsOS(n) PROVE IsOS(Merge(o, n))
<1>1. IsOS(Complete(o, n))
    BY DEF Complete, IsOS
<1>2. \A a : IsOS(a) => IsOS(Normalize(a))
    BY DEF Normalize, IsOS
<1>3. \A a, s : IsOS(a) => IsOS([a EXCEPT !.supplier = s])
    BY DEF IsOS
<1> QED  BY <1>1, <1>2, <1>3 DEF Merge

\* The invariant holds at the start of Inspect.
LEMMA InitHolds == Init => IInv
<1> SUFFICES ASSUME Init PROVE IInv
    OBVIOUS
<1> USE NumFilesAssumption, PostFilesAssumption, JobType
<1>1. TypeOK
  <2>1. file \in 1 .. NumFiles + 1 /\ turn \in Nat
      BY DEF Init
  <2>2. file \in Files => turn \in 1 .. Wanted[file] + 1
      BY DEF Init
  <2>3. IsOS(os)
    <3>1. <<>> \in Seq(STRING)
        OBVIOUS
    <3> QED  BY <3>1 DEF Init, IsOS, NoOS
  <2> QED  BY <2>1, <2>2, <2>3 DEF Init, TypeOK, GroupErrors
<1>2. Order
    BY DEF Init, Order, Passed, Files
<1>3. Fates /\ Contexts /\ Resources
    BY DEF Init, Fates, Contexts, Resources
<1>4. Settled
    BY DEF Init, Settled
<1> QED  BY <1>1, <1>2, <1>3, <1>4 DEF IInv

\* CallerEnds keeps the invariant.
LEMMA CallerEndsStep == ASSUME IInv, NEW how \in {"canceled", "deadline"}, CallerEnds(how) PROVE IInv'
<1> USE NumFilesAssumption, PostFilesAssumption, JobType DEF IInv, CallerEnds, ctxs, walk, procs
<1>1. TypeOK'
    BY DEF TypeOK, GroupErrors
<1>2. Order'
    BY DEF Order, Passed, TypeOK
<1>3. Fates'
    BY DEF Fates, GroupErrors, TypeOK
<1>4. Contexts'
    BY DEF Contexts, TypeOK
<1>5. Resources'
    BY DEF Resources, TypeOK
<1>6. Settled'
    BY DEF Settled, Running, GroupErrors, TypeOK
<1> QED  BY <1>1, <1>2, <1>3, <1>4, <1>5, <1>6 DEF IInv

\* VisitDenied keeps the invariant.
LEMMA VisitDeniedStep == ASSUME IInv, NEW f \in Files, VisitDenied(f) PROVE IInv'
<1> USE NumFilesAssumption, PostFilesAssumption, JobType DEF IInv, VisitDenied, ctxs, walk, procs, At, NextFile, Files
<1>1. TypeOK'
    BY DEF TypeOK, GroupErrors
<1>2. Order'
    BY DEF Order, Passed, TypeOK
<1>3. Fates'
    BY DEF Fates, GroupErrors, TypeOK
<1>4. Contexts'
    BY DEF Contexts, TypeOK
<1>5. Resources'
    BY DEF Resources, TypeOK
<1>6. Settled'
    BY DEF Settled, Running, GroupErrors, TypeOK
<1> QED  BY <1>1, <1>2, <1>3, <1>4, <1>5, <1>6 DEF IInv

\* WalkFails keeps the invariant.
LEMMA WalkFailsStep == ASSUME IInv, NEW f \in Files, WalkFails(f) PROVE IInv'
<1> USE NumFilesAssumption, PostFilesAssumption, JobType DEF IInv, WalkFails, ctxs, walk, procs, At, StopWalk, Files
<1>1. TypeOK'
    BY DEF TypeOK, GroupErrors
<1>2. Order'
    BY DEF Order, Passed, TypeOK
<1>3. Fates'
    BY DEF Fates, GroupErrors, TypeOK
<1>4. Contexts'
    BY DEF Contexts, TypeOK
<1>5. Resources'
    BY DEF Resources, TypeOK
<1>6. Settled'
    BY DEF Settled, Running, GroupErrors, TypeOK
<1> QED  BY <1>1, <1>2, <1>3, <1>4, <1>5, <1>6 DEF IInv

\* Vanished keeps the invariant.
LEMMA VanishedStep == ASSUME IInv, NEW f \in Files, Vanished(f) PROVE IInv'
<1> USE NumFilesAssumption, PostFilesAssumption, JobType DEF IInv, Vanished, ctxs, walk, procs, At, NextFile, Files
<1>1. TypeOK'
    BY DEF TypeOK, GroupErrors
<1>2. Order'
    BY DEF Order, Passed, TypeOK
<1>3. Fates'
    BY DEF Fates, GroupErrors, TypeOK
<1>4. Contexts'
    BY DEF Contexts, TypeOK
<1>5. Resources'
    BY DEF Resources, TypeOK
<1>6. Settled'
    BY DEF Settled, Running, GroupErrors, TypeOK
<1> QED  BY <1>1, <1>2, <1>3, <1>4, <1>5, <1>6 DEF IInv

\* OpenDenied keeps the invariant.
LEMMA OpenDeniedStep == ASSUME IInv, NEW f \in Files, OpenDenied(f) PROVE IInv'
<1> USE NumFilesAssumption, PostFilesAssumption, JobType DEF IInv, OpenDenied, ctxs, walk, procs, At, Files
<1>1. TypeOK'
    BY DEF TypeOK, GroupErrors
<1>2. Order'
    BY DEF Order, Passed, TypeOK
<1>3. Fates'
    BY DEF Fates, GroupErrors, TypeOK
<1>4. Contexts'
    BY DEF Contexts, TypeOK
<1>5. Resources'
    BY DEF Resources, TypeOK
<1>6. Settled'
    BY DEF Settled, Running, GroupErrors, TypeOK
<1> QED  BY <1>1, <1>2, <1>3, <1>4, <1>5, <1>6 DEF IInv

\* Open keeps the invariant.
LEMMA OpenStep == ASSUME IInv, NEW f \in Files, Open(f) PROVE IInv'
<1> USE NumFilesAssumption, PostFilesAssumption, JobType DEF IInv, Open, ctxs, walk, procs, At, Files
<1>1. TypeOK'
    BY DEF TypeOK, GroupErrors
<1>2. Order'
    BY DEF Order, Passed, TypeOK
<1>3. Fates'
    BY DEF Fates, GroupErrors, TypeOK
<1>4. Contexts'
    BY DEF Contexts, TypeOK
<1>5. Resources'
    BY DEF Resources, TypeOK
<1>6. Settled'
    BY DEF Settled, Running, GroupErrors, TypeOK
<1> QED  BY <1>1, <1>2, <1>3, <1>4, <1>5, <1>6 DEF IInv

\* Acquire keeps the invariant.
LEMMA AcquireStep == ASSUME IInv, NEW f \in Files, Acquire(f) PROVE IInv'
<1> USE NumFilesAssumption, PostFilesAssumption, JobType DEF IInv, Acquire, ctxs, walk, procs, Files
<1>0. <<f, turn>> \in Jobs /\ job[<<f, turn>>] = "todo"
    BY DEF Order, Passed, TypeOK
<1>1. TypeOK'
    BY <1>0 DEF TypeOK, GroupErrors
<1>2. Order'
  <2>1. PICK c \in Jobs : c = <<f, turn>>
      BY <1>0
  <2>2. /\ file' = file /\ file = f /\ turn \in Nat /\ turn' = turn + 1
        /\ job \in [Jobs -> {"todo", "run", "closing", "releasing", "ended", "left"}]
        /\ job' = [job EXCEPT ![c] = "run"]
      BY <2>1 DEF TypeOK
  <2>3. ASSUME NEW j \in Jobs, j # c
        PROVE  job'[j] = job[j] /\ (Passed(j)' <=> Passed(j))
    <3>1. job'[j] = job[j]
        BY <2>2, <2>3
    <3>2. j[1] = f => j[2] # turn
        BY <2>1, <2>3
    <3>3. Passed(j)' <=> Passed(j)
        BY <2>2, <3>2 DEF Passed
    <3> QED  BY <3>1, <3>3
  <2>4. Passed(c)' /\ job'[c] = "run"
      BY <2>1, <2>2 DEF Passed
  <2>5. ASSUME NEW j \in Jobs
        PROVE  /\ Passed(j)' => job'[j] # "todo" \/ j[1] \in skipped
               /\ ~Passed(j)' => job'[j] = "todo"
    <3>1. CASE j = c
        BY <2>4, <3>1
    <3>2. CASE j # c
        BY <2>3, <3>2 DEF Order
    <3> QED  BY <3>1, <3>2
  <2> QED  BY <2>5 DEF Order, TypeOK
<1>3. Fates'
    BY <1>0 DEF Fates, GroupErrors, TypeOK
<1>4. Contexts'
    BY <1>0 DEF Contexts, TypeOK
<1>5. Resources'
    BY <1>0 DEF Resources, TypeOK
<1>6. Settled'
    BY <1>0 DEF Settled, Running, GroupErrors, TypeOK
<1> QED  BY <1>1, <1>2, <1>3, <1>4, <1>5, <1>6 DEF IInv

\* AcquireFails keeps the invariant.
LEMMA AcquireFailsStep == ASSUME IInv, NEW f \in Files, AcquireFails(f) PROVE IInv'
<1> USE NumFilesAssumption, PostFilesAssumption, JobType DEF IInv, AcquireFails, ctxs, walk, procs, StopWalk, Files
<1>1. TypeOK'
    BY DEF TypeOK, GroupErrors
<1>2. Order'
    BY DEF Order, Passed, TypeOK
<1>3. Fates'
    BY DEF Fates, GroupErrors, TypeOK
<1>4. Contexts'
    BY DEF Contexts, TypeOK
<1>5. Resources'
    BY DEF Resources, TypeOK
<1>6. Settled'
    BY DEF Settled, Running, GroupErrors, TypeOK
<1> QED  BY <1>1, <1>2, <1>3, <1>4, <1>5, <1>6 DEF IInv

\* Link keeps the invariant.
LEMMA LinkStep == ASSUME IInv, NEW f \in Files, Link(f) PROVE IInv'
<1> USE NumFilesAssumption, PostFilesAssumption, JobType DEF IInv, Link, ctxs, walk, procs, At, NextFile, Files
<1>1. TypeOK'
    BY DEF TypeOK, GroupErrors
<1>2. Order'
  <2>1. \A j \in Jobs : Passed(j)' <=> Passed(j)
      BY DEF Passed, TypeOK
  <2>2. \A g \in PostFiles : g < file' => g \in (linked \cup skipped)'
      BY DEF Order, TypeOK
  <2> QED  BY <2>1, <2>2 DEF Order, TypeOK
<1>3. Fates'
    BY DEF Fates, GroupErrors, TypeOK
<1>4. Contexts'
    BY DEF Contexts, TypeOK
<1>5. Resources'
    BY DEF Resources, TypeOK
<1>6. Settled'
    BY DEF Settled, Running, GroupErrors, TypeOK
<1> QED  BY <1>1, <1>2, <1>3, <1>4, <1>5, <1>6 DEF IInv

\* LinkFails keeps the invariant.
LEMMA LinkFailsStep == ASSUME IInv, NEW f \in Files, LinkFails(f) PROVE IInv'
<1> USE NumFilesAssumption, PostFilesAssumption, JobType DEF IInv, LinkFails, ctxs, walk, procs, At, StopWalk, Files
<1>1. TypeOK'
    BY DEF TypeOK, GroupErrors
<1>2. Order'
    BY DEF Order, Passed, TypeOK
<1>3. Fates'
    BY DEF Fates, GroupErrors, TypeOK
<1>4. Contexts'
    BY DEF Contexts, TypeOK
<1>5. Resources'
    BY DEF Resources, TypeOK
<1>6. Settled'
    BY DEF Settled, Running, GroupErrors, TypeOK
<1> QED  BY <1>1, <1>2, <1>3, <1>4, <1>5, <1>6 DEF IInv

\* WalkEnds keeps the invariant.
LEMMA WalkEndsStep == ASSUME IInv, WalkEnds PROVE IInv'
<1> USE NumFilesAssumption, PostFilesAssumption, JobType DEF IInv, WalkEnds, ctxs, walk, procs, Files
<1>1. TypeOK'
    BY DEF TypeOK, GroupErrors
<1>2. Order'
    BY DEF Order, Passed, TypeOK
<1>3. Fates'
    BY DEF Fates, GroupErrors, TypeOK
<1>4. Contexts'
    BY DEF Contexts, TypeOK
<1>5. Resources'
    BY DEF Resources, TypeOK
<1>6. Settled'
    BY DEF Settled, Running, GroupErrors, TypeOK
<1> QED  BY <1>1, <1>2, <1>3, <1>4, <1>5, <1>6 DEF IInv

\* MergeResult keeps the invariant.
LEMMA MergeResultStep == ASSUME IInv, NEW j \in Jobs, MergeResult(j) PROVE IInv'
<1> USE NumFilesAssumption, PostFilesAssumption, JobType DEF IInv, MergeResult, ctxs, walk, procs, Ends
<1>1. TypeOK'
  <2>1. IsOS(os')
      BY MergeType, InputsAssumption DEF TypeOK
  <2> QED  BY <2>1 DEF TypeOK, GroupErrors
<1>2. Order'
    BY DEF Order, Passed, TypeOK
<1>3. Fates'
    BY DEF Fates, GroupErrors, TypeOK
<1>4. Contexts'
    BY DEF Contexts, TypeOK
<1>5. Resources'
    BY DEF Resources, TypeOK
<1>6. Settled'
    BY DEF Settled, Running, GroupErrors, TypeOK
<1> QED  BY <1>1, <1>2, <1>3, <1>4, <1>5, <1>6 DEF IInv

\* Drop keeps the invariant.
LEMMA DropStep == ASSUME IInv, NEW j \in Jobs, Drop(j) PROVE IInv'
<1> USE NumFilesAssumption, PostFilesAssumption, JobType DEF IInv, Drop, ctxs, walk, procs, Ends
<1>1. TypeOK'
    BY DEF TypeOK, GroupErrors
<1>2. Order'
    BY DEF Order, Passed, TypeOK
<1>3. Fates'
    BY DEF Fates, GroupErrors, TypeOK
<1>4. Contexts'
    BY DEF Contexts, TypeOK
<1>5. Resources'
    BY DEF Resources, TypeOK
<1>6. Settled'
    BY DEF Settled, Running, GroupErrors, TypeOK
<1> QED  BY <1>1, <1>2, <1>3, <1>4, <1>5, <1>6 DEF IInv

\* Cut keeps the invariant.
LEMMA CutStep == ASSUME IInv, NEW j \in Jobs, Cut(j) PROVE IInv'
<1> USE NumFilesAssumption, PostFilesAssumption, JobType DEF IInv, Cut, ctxs, walk, procs, Ends
<1>0. main \in {"walk", "acquire", "wait"}
    BY DEF Settled, Running, TypeOK
<1>1. TypeOK'
    BY <1>0 DEF TypeOK, GroupErrors
<1>2. Order'
    BY <1>0 DEF Order, Passed, TypeOK
<1>3. Fates'
    BY <1>0 DEF Fates, GroupErrors, Contexts, TypeOK
<1>4. Contexts'
    BY <1>0 DEF Contexts, TypeOK
<1>5. Resources'
    BY <1>0 DEF Resources, TypeOK
<1>6. Settled'
    BY <1>0 DEF Settled, Running, GroupErrors, TypeOK
<1> QED  BY <1>1, <1>2, <1>3, <1>4, <1>5, <1>6 DEF IInv

\* Fail keeps the invariant.
LEMMA FailStep == ASSUME IInv, NEW j \in Jobs, NEW e \in GroupErrors, Fail(j, e) PROVE IInv'
<1> USE NumFilesAssumption, PostFilesAssumption, JobType DEF IInv, Fail, ctxs, walk, procs, Ends, GroupErrors
<1>1. TypeOK'
    BY DEF TypeOK
<1>2. Order'
    BY DEF Order, Passed, TypeOK
<1>3. Fates'
    BY DEF Fates, TypeOK
<1>4. Contexts'
    BY DEF Contexts, TypeOK
<1>5. Resources'
    BY DEF Resources, TypeOK
<1>6. Settled'
    BY DEF Settled, Running, TypeOK
<1> QED  BY <1>1, <1>2, <1>3, <1>4, <1>5, <1>6 DEF IInv

\* Close keeps the invariant.
LEMMA CloseStep == ASSUME IInv, NEW j \in Jobs, Close(j) PROVE IInv'
<1> USE NumFilesAssumption, PostFilesAssumption, JobType DEF IInv, Close, ctxs, walk, procs
<1>1. TypeOK'
    BY DEF TypeOK, GroupErrors
<1>2. Order'
    BY DEF Order, Passed, TypeOK
<1>3. Fates'
    BY DEF Fates, GroupErrors, TypeOK
<1>4. Contexts'
    BY DEF Contexts, TypeOK
<1>5. Resources'
    BY DEF Resources, TypeOK
<1>6. Settled'
    BY DEF Settled, Running, GroupErrors, TypeOK
<1> QED  BY <1>1, <1>2, <1>3, <1>4, <1>5, <1>6 DEF IInv

\* Release keeps the invariant.
LEMMA ReleaseStep == ASSUME IInv, NEW j \in Jobs, Release(j) PROVE IInv'
<1> USE NumFilesAssumption, PostFilesAssumption, JobType DEF IInv, Release, ctxs, walk, procs
<1>1. TypeOK'
    BY DEF TypeOK, GroupErrors
<1>2. Order'
    BY DEF Order, Passed, TypeOK
<1>3. Fates'
    BY DEF Fates, GroupErrors, TypeOK
<1>4. Contexts'
    BY DEF Contexts, TypeOK
<1>5. Resources'
    BY DEF Resources, TypeOK
<1>6. Settled'
    BY DEF Settled, Running, GroupErrors, TypeOK
<1> QED  BY <1>1, <1>2, <1>3, <1>4, <1>5, <1>6 DEF IInv

\* Leave keeps the invariant.
LEMMA LeaveStep == ASSUME IInv, NEW j \in Jobs, Leave(j) PROVE IInv'
<1> USE NumFilesAssumption, PostFilesAssumption, JobType DEF IInv, Leave, ctxs, walk, procs, GroupCancel, GroupErrors
<1>1. TypeOK'
    BY DEF TypeOK
<1>2. Order'
    BY DEF Order, Passed, TypeOK
<1>3. Fates'
    BY DEF Fates, TypeOK
<1>4. Contexts'
    BY DEF Contexts, TypeOK
<1>5. Resources'
    BY DEF Resources, TypeOK
<1>6. Settled'
    BY DEF Settled, Running, TypeOK
<1> QED  BY <1>1, <1>2, <1>3, <1>4, <1>5, <1>6 DEF IInv

\* Wait keeps the invariant.
LEMMA WaitStep == ASSUME IInv, Wait PROVE IInv'
<1> USE NumFilesAssumption, PostFilesAssumption, JobType DEF IInv, Wait, ctxs, walk, procs, GroupCancel, ReturnWith, Running, GroupErrors
<1>1. TypeOK'
    BY DEF TypeOK
<1>2. Order'
    BY DEF Order, Passed, TypeOK
<1>3. Fates'
    BY DEF Fates, TypeOK
<1>4. Contexts'
    BY DEF Contexts, TypeOK
<1>5. Resources'
    BY DEF Resources, TypeOK
<1>6. Settled'
  <2>1. CASE err # "nil" /\ ReturnWith(err)
      BY <2>1 DEF Settled, TypeOK
  <2>2. CASE err = "nil" /\ walkErr # "nil" /\ ReturnWith(walkErr)
      BY <2>2 DEF Settled, Contexts, TypeOK
  <2>3. CASE err = "nil" /\ walkErr = "nil" /\ main' = "post" /\ UNCHANGED ret
      BY <2>3 DEF Settled, TypeOK
  <2> QED  BY <2>1, <2>2, <2>3
<1> QED  BY <1>1, <1>2, <1>3, <1>4, <1>5, <1>6 DEF IInv

\* PostAnalyze keeps the invariant.
LEMMA PostAnalyzeStep == ASSUME IInv, PostAnalyze PROVE IInv'
<1> USE NumFilesAssumption, PostFilesAssumption, JobType DEF IInv, PostAnalyze, ctxs, walk, procs, ReturnWith
<1>1. TypeOK'
    BY DEF TypeOK, GroupErrors
<1>2. Order'
    BY DEF Order, Passed, TypeOK
<1>3. Fates'
    BY DEF Fates, GroupErrors, TypeOK
<1>4. Contexts'
    BY DEF Contexts, TypeOK
<1>5. Resources'
    BY DEF Resources, TypeOK
<1>6. Settled'
    BY DEF Settled, Running, GroupErrors, TypeOK
<1> QED  BY <1>1, <1>2, <1>3, <1>4, <1>5, <1>6 DEF IInv

\* PostHandle keeps the invariant.
LEMMA PostHandleStep == ASSUME IInv, PostHandle PROVE IInv'
<1> USE NumFilesAssumption, PostFilesAssumption, JobType DEF IInv, PostHandle, ctxs, walk, procs, ReturnWith
<1>1. TypeOK'
    BY DEF TypeOK, GroupErrors
<1>2. Order'
    BY DEF Order, Passed, TypeOK
<1>3. Fates'
    BY DEF Fates, GroupErrors, TypeOK
<1>4. Contexts'
    BY DEF Contexts, TypeOK
<1>5. Resources'
    BY DEF Resources, TypeOK
<1>6. Settled'
    BY DEF Settled, Running, GroupErrors, TypeOK
<1> QED  BY <1>1, <1>2, <1>3, <1>4, <1>5, <1>6 DEF IInv

\* PutBlob keeps the invariant.
LEMMA PutBlobStep == ASSUME IInv, PutBlob PROVE IInv'
<1> USE NumFilesAssumption, PostFilesAssumption, JobType DEF IInv, PutBlob, ctxs, walk, procs, ReturnWith
<1>1. TypeOK'
    BY DEF TypeOK, GroupErrors
<1>2. Order'
    BY DEF Order, Passed, TypeOK
<1>3. Fates'
    BY DEF Fates, GroupErrors, TypeOK
<1>4. Contexts'
    BY DEF Contexts, TypeOK
<1>5. Resources'
    BY DEF Resources, TypeOK
<1>6. Settled'
    BY DEF Settled, Running, GroupErrors, TypeOK
<1> QED  BY <1>1, <1>2, <1>3, <1>4, <1>5, <1>6 DEF IInv

\* A stutter keeps the invariant.
LEMMA StutterStep == ASSUME IInv, UNCHANGED vars PROVE IInv'
BY DEF IInv, vars, ctxs, walk, procs, TypeOK, Order, Passed, Fates, Contexts, Resources,
       Settled, Running

\* The inductive invariant.
THEOREM Invariant == Spec => []IInv
<1>1. Init => IInv
    BY InitHolds
<1>2. ASSUME IInv, [Next]_vars PROVE IInv'
  <2>1. ASSUME NEW f \in Files, Walk(f) PROVE IInv'
      BY <1>2, <2>1, VisitDeniedStep, WalkFailsStep, VanishedStep, OpenDeniedStep, OpenStep,
         AcquireStep, AcquireFailsStep, LinkStep, LinkFailsStep DEF Walk
  <2>2. ASSUME NEW j \in Jobs, Analyze(j) PROVE IInv'
      BY <1>2, <2>2, MergeResultStep, DropStep, CutStep, FailStep DEF Analyze
  <2>3. ASSUME NEW j \in Jobs, Close(j) \/ Release(j) \/ Leave(j) PROVE IInv'
      BY <1>2, <2>3, CloseStep, ReleaseStep, LeaveStep
  <2>4. ASSUME Finish PROVE IInv'
      BY <1>2, <2>4, WaitStep, PostAnalyzeStep, PostHandleStep, PutBlobStep DEF Finish
  <2>5. ASSUME UNCHANGED vars PROVE IInv'
      BY <1>2, <2>5, StutterStep
  <2> QED  BY <1>2, <2>1, <2>2, <2>3, <2>4, <2>5, CallerEndsStep, WalkEndsStep DEF Next, Stopped
<1> QED  BY <1>1, <1>2, PTL DEF Spec

----------------------------------------------------------------------------
\* The state keeps its type for any files, analyses and inputs.
THEOREM TypeCorrect == Spec => []TypeOK
BY Invariant, PTL DEF IInv

\* The invariant implies StoredIsWhole: the walk came to its end and nothing failed.
LEMMA WholeFromInvariant == IInv => StoredIsWhole
<1> SUFFICES ASSUME IInv, ret = "nil" PROVE StoredIsWhole
    BY DEF StoredIsWhole
<1>1. main = "returned" /\ err = "nil" /\ walkErr = "nil"
    BY DEF IInv, Settled, GroupErrors
<1>2. file > NumFiles /\ file \in Nat
    BY <1>1, NumFilesAssumption DEF IInv, Order, TypeOK
<1>3. ASSUME NEW j \in Jobs
      PROVE  \/ fate[j] \in {"merged", "dropped"}
             \/ fate[j] = "cut" /\ caller = "canceled"
             \/ fate[j] = "none" /\ j[1] \in skipped
  <2>1. Passed(j)
      BY <1>2, JobType, NumFilesAssumption DEF Passed, Files
  <2>2. CASE job[j] = "todo"
      BY <2>1, <2>2 DEF IInv, Order, Fates
  <2>3. CASE job[j] = "left"
    <3>1. fate[j] # "none" /\ fate[j] \notin GroupErrors
        BY <1>1, <2>3 DEF IInv, Fates
    <3> QED  BY <1>1, <3>1 DEF IInv, Fates, TypeOK
  <2>4. job[j] \in {"todo", "left"}
      BY <1>1 DEF IInv, Settled, Running, TypeOK
  <2> QED  BY <2>2, <2>3, <2>4
<1>4. PostFiles \subseteq linked \cup skipped
    BY <1>2, PostFilesAssumption, NumFilesAssumption DEF IInv, Order, Files
<1> QED  BY <1>3, <1>4 DEF StoredIsWhole

\* Whatever the tree and the interleaving, a blob that is stored lacks only files
\* that could not be read, and analyses the caller's own interrupt cut short.
THEOREM StoredBlobsAreWhole == Spec => []StoredIsWhole
BY Invariant, WholeFromInvariant, PTL

\* The invariant implies CauseFirst: the group keeps the first error it is given.
LEMMA CauseFromInvariant == IInv => CauseFirst
<1> SUFFICES ASSUME IInv PROVE CauseFirst
    OBVIOUS
<1>1. ret = "ctx" => caller # "live"
    BY DEF IInv, Settled
<1>2. ASSUME ret # "none", NEW j \in Jobs, fate[j] \in GroupErrors PROVE ret \in GroupErrors
  <2>1. main = "returned" /\ ~Running(j)
      BY <1>2 DEF IInv, Settled, TypeOK
  <2>2. fate[j] # "none"
      BY <1>2 DEF GroupErrors
  <2>3. job[j] = "left"
      BY <2>1, <2>2 DEF IInv, Fates, Running, TypeOK
  <2>4. err # "nil"
      BY <1>2, <2>3 DEF IInv, Fates
  <2> QED  BY <1>2, <2>4 DEF IInv, Settled
<1> QED  BY <1>1, <1>2 DEF CauseFirst

\* Inspect returns the error of the analysis that failed, and "canceled" only when
\* its caller's context ended.
THEOREM ReportsTheCause == Spec => []CauseFirst
BY Invariant, CauseFromInvariant, PTL

\* The invariant implies NothingLeft: Wait returns after the last goroutine.
LEMMA NothingLeftFromInvariant == IInv => NothingLeft
<1> SUFFICES ASSUME IInv, main = "returned"
             PROVE  open = {} /\ permits = {} /\ \A j \in Jobs : ~Running(j)
    BY DEF NothingLeft
<1>1. \A j \in Jobs : ~Running(j)
    BY DEF IInv, Settled
<1>2. permits = {}
    BY <1>1 DEF IInv, Resources, Running, TypeOK
<1>3. open = {}
    BY <1>1 DEF IInv, Resources, Running, TypeOK
<1> QED  BY <1>1, <1>2, <1>3

\* However Inspect ends, no goroutine, open file or permit outlives it.
THEOREM NothingIsLeft == Spec => []NothingLeft
BY Invariant, NothingLeftFromInvariant, PTL

----------------------------------------------------------------------------
(* The semaphore.                                                          *)

Permits == IsFiniteSet(permits) /\ Cardinality(permits) <= Limit

\* The weight of the semaphore is a number.
LEMMA LimitType == ASSUME TypeOK PROVE Limit \in Nat
BY InputsAssumption DEF TypeOK, Limit

\* A step takes a permit when one is free, gives one back, or leaves them alone.
LEMMA PermitSteps ==
    ASSUME [Next]_vars
    PROVE  /\ input' = input
           /\ \/ permits' = permits
              \/ Cardinality(permits) < Limit /\ \E j : permits' = permits \cup {j}
              \/ \E j : permits' = permits \ {j}
<1> USE DEF vars, ctxs, walk, procs
<1>1. ASSUME NEW f \in Files, Walk(f), ~Acquire(f) PROVE input' = input /\ permits' = permits
    BY <1>1 DEF Walk, VisitDenied, WalkFails, Vanished, OpenDenied, Open, AcquireFails, Link, LinkFails
<1>2. ASSUME NEW j \in Jobs, Analyze(j) \/ Close(j) \/ Leave(j)
      PROVE  input' = input /\ permits' = permits
    BY <1>2 DEF Analyze, MergeResult, Drop, Cut, Fail, Close, Leave
<1>3. ASSUME Finish \/ WalkEnds \/ Stopped PROVE input' = input /\ permits' = permits
    BY <1>3 DEF Finish, Wait, PostAnalyze, PostHandle, PutBlob, WalkEnds, Stopped
<1>4. ASSUME NEW how, CallerEnds(how) PROVE input' = input /\ permits' = permits
    BY <1>4 DEF CallerEnds
<1>5. ASSUME NEW f \in Files, Acquire(f)
      PROVE  /\ input' = input
             /\ Cardinality(permits) < Limit /\ \E j : permits' = permits \cup {j}
    BY <1>5 DEF Acquire
<1>6. ASSUME NEW j \in Jobs, Release(j)
      PROVE  input' = input /\ permits' = permits \ {j}
    BY <1>6 DEF Release
<1>7. ASSUME UNCHANGED vars PROVE input' = input /\ permits' = permits
    BY <1>7
<1> QED  BY <1>1, <1>2, <1>3, <1>4, <1>5, <1>6, <1>7 DEF Next

\* No step gives out more permits than the semaphore has.
LEMMA PermitsStep == ASSUME TypeOK, Permits, [Next]_vars PROVE Permits'
<1>1. Limit' = Limit /\ Limit \in Nat /\ Cardinality(permits) \in Nat
    BY PermitSteps, LimitType, FS_CardinalityType DEF Limit, Permits
<1>2. CASE permits' = permits
    BY <1>1, <1>2 DEF Permits
<1>3. ASSUME NEW j, Cardinality(permits) < Limit, permits' = permits \cup {j} PROVE Permits'
  <2>1. /\ IsFiniteSet(permits')
        /\ Cardinality(permits') = IF j \in permits THEN Cardinality(permits)
                                                    ELSE Cardinality(permits) + 1
      BY <1>3, FS_AddElement DEF Permits
  <2> QED  BY <1>1, <1>3, <2>1 DEF Permits
<1>4. ASSUME NEW j, permits' = permits \ {j} PROVE Permits'
  <2>1. /\ IsFiniteSet(permits')
        /\ Cardinality(permits') = IF j \in permits THEN Cardinality(permits) - 1
                                                    ELSE Cardinality(permits)
      BY <1>4, FS_RemoveElement DEF Permits
  <2> QED  BY <1>1, <2>1 DEF Permits
<1> QED  BY <1>2, <1>3, <1>4, PermitSteps

\* A file that is open belongs to a permit or is the one in the walk's hand.
LEMMA BoundedFromPermits == IInv /\ Permits => HandlesBounded
<1> SUFFICES ASSUME IInv, Permits PROVE HandlesBounded
    OBVIOUS
<1> DEFINE held == permits \cup {<<file, turn>>}
<1>1. open \subseteq held
    BY DEF IInv, Resources, TypeOK
<1>2. IsFiniteSet(held) /\ Cardinality(held) <= Cardinality(permits) + 1
  <2>1. Cardinality(permits) \in Nat
      BY FS_CardinalityType DEF Permits
  <2> QED  BY <2>1, FS_AddElement DEF Permits
<1>3. Cardinality(open) <= Cardinality(held)
    BY <1>1, <1>2, FS_Subset
<1>4. Cardinality(open) \in Nat /\ Cardinality(held) \in Nat /\ Cardinality(permits) \in Nat
    BY <1>1, <1>2, FS_Subset, FS_CardinalityType DEF Permits
<1>5. Limit \in Nat
    BY LimitType DEF IInv
<1> HIDE DEF held
<1> QED  BY <1>2, <1>3, <1>4, <1>5 DEF HandlesBounded, Permits

\* At most one file more than there are permits is open at any time.
THEOREM OpenFilesAreBounded == Spec => []HandlesBounded
<1>1. Init /\ TypeOK => Permits
    BY LimitType, FS_EmptySet DEF Init, Permits
<1>2. TypeOK /\ Permits /\ [Next]_vars => Permits'
    BY PermitsStep
<1> QED  BY <1>1, <1>2, Invariant, TypeCorrect, BoundedFromPermits, PTL DEF Spec
=============================================================================
