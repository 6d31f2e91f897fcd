-------------------------- MODULE HotUpdateProofs --------------------------
(* Machine-checked proofs about HotUpdate, for any set of requests, any     *)
(* publishing interval, any number of failures and hours.                   *)
EXTENDS HotUpdate, TLAPS

\* Time only makes a database older: an update that is due stays due.
LEMMA DueStaysDue ==
  ASSUME NEW f \in DBFiles, NEW m \in MetaFiles, NEW t \in Nat,
         NeedsUpdate(f, m, t, FALSE) = "yes"
  PROVE  NeedsUpdate(f, m, t + 1, FALSE) = "yes"
  BY IntervalAssumption
  DEF NeedsUpdate, NoRequiredFiles, IsNewDB, NextUpdate, Hour, DBFiles, MetaFiles, Schemas, SchemaVersion

\* What is due does not depend on the content of trivy.db while the file exists.
LEMMA DueDependsOnMetadata ==
  ASSUME NEW f, NEW g, NEW m, NEW t, f.st # "none", g.st # "none",
         NeedsUpdate(f, m, t, FALSE) = "yes"
  PROVE  NeedsUpdate(g, m, t, FALSE) = "yes"
  BY DEF NeedsUpdate, NoRequiredFiles

\* A torn metadata file makes an update due.
LEMMA TornMetadataIsDue ==
  ASSUME NEW f, NEW m, NEW t, m.st = "torn"
  PROVE  NeedsUpdate(f, m, t, FALSE) = "yes"
  BY DEF NeedsUpdate, NoRequiredFiles

\* --skip-db-update never makes an update due.
LEMMA SkipIsNeverDue ==
  ASSUME NEW f, NEW m, NEW t, NeedsUpdate(f, m, t, SkipDBUpdate) = "yes"
  PROVE  NeedsUpdate(f, m, t, FALSE) = "yes"
  BY SkipAssumption DEF NeedsUpdate

\* The server starts in a state of the inductive invariant.
LEMMA InitIInv == Init => IInv
<1> USE MaxFailuresAssumption DEF Init
<1>1. Init => TypeOK
  BY DEF TypeOK, DBFiles, MetaFiles, FileStates, Schemas, SchemaVersion, WorkerStates
<1>2. Init => WaitGroups /\ ReadsPresent
  BY DEF WaitGroups, ReadsPresent, Announced
<1>3. Init => NoCopyUnderOpenDB /\ SwapOrder /\ SelfHealing /\ ClosedCause
  BY DEF NoCopyUnderOpenDB, SwapOrder, SelfHealing, Consistent, ClosedCause
<1> QED BY <1>1, <1>2, <1>3 DEF IInv

\* Arrive keeps the inductive invariant.
LEMMA ArriveStep == \A r \in Requests : IInv /\ Arrive(r) => IInv'
<1> SUFFICES ASSUME NEW r \in Requests, IInv, Arrive(r) PROVE IInv'
  OBVIOUS
<1> USE DEF IInv, Arrive, env, disk, upd, Running, Swapping
<1>1. TypeOK'
  BY MaxFailuresAssumption DEF TypeOK, DBFiles, MetaFiles, FileStates, Schemas, SchemaVersion, WorkerStates
<1>2. WaitGroups'
  BY DEF TypeOK, WaitGroups, Announced
<1>3. ReadsPresent'
  BY DEF TypeOK, ReadsPresent, WaitGroups
<1>4. NoCopyUnderOpenDB'
  BY DEF TypeOK, NoCopyUnderOpenDB, SwapOrder
<1>5. SwapOrder'
  BY DEF TypeOK, SwapOrder, NoCopyUnderOpenDB
<1>6. SelfHealing'
  BY DEF TypeOK, SwapOrder, SelfHealing, Consistent
<1>7. ClosedCause'
  BY DEF TypeOK, SwapOrder, NoCopyUnderOpenDB, ClosedCause, DBFiles
<1> QED BY <1>1, <1>2, <1>3, <1>4, <1>5, <1>6, <1>7 DEF IInv

\* Wake keeps the inductive invariant.
LEMMA WakeStep == \A r \in Requests : IInv /\ Wake(r) => IInv'
<1> SUFFICES ASSUME NEW r \in Requests, IInv, Wake(r) PROVE IInv'
  OBVIOUS
<1> USE DEF IInv, Wake, env, disk, upd, Running, Swapping
<1>1. TypeOK'
  BY MaxFailuresAssumption DEF TypeOK, DBFiles, MetaFiles, FileStates, Schemas, SchemaVersion, WorkerStates
<1>2. WaitGroups'
  BY DEF TypeOK, WaitGroups, Announced
<1>3. ReadsPresent'
  BY DEF TypeOK, ReadsPresent, WaitGroups
<1>4. NoCopyUnderOpenDB'
  BY DEF TypeOK, NoCopyUnderOpenDB, SwapOrder
<1>5. SwapOrder'
  BY DEF TypeOK, SwapOrder, NoCopyUnderOpenDB
<1>6. SelfHealing'
  BY DEF TypeOK, SwapOrder, SelfHealing, Consistent
<1>7. ClosedCause'
  BY DEF TypeOK, SwapOrder, NoCopyUnderOpenDB, ClosedCause, DBFiles
<1> QED BY <1>1, <1>2, <1>3, <1>4, <1>5, <1>6, <1>7 DEF IInv

\* Enter keeps the inductive invariant.
LEMMA EnterStep == \A r \in Requests : IInv /\ Enter(r) => IInv'
<1> SUFFICES ASSUME NEW r \in Requests, IInv, Enter(r) PROVE IInv'
  OBVIOUS
<1> USE DEF IInv, Enter, env, disk, upd, Running, Swapping
<1>1. TypeOK'
  BY MaxFailuresAssumption DEF TypeOK, DBFiles, MetaFiles, FileStates, Schemas, SchemaVersion, WorkerStates
<1>2. WaitGroups'
  BY DEF TypeOK, WaitGroups, Announced
<1>3. ReadsPresent'
  BY DEF TypeOK, ReadsPresent, WaitGroups
<1>4. NoCopyUnderOpenDB'
  BY DEF TypeOK, NoCopyUnderOpenDB, SwapOrder
<1>5. SwapOrder'
  BY DEF TypeOK, SwapOrder, NoCopyUnderOpenDB
<1>6. SelfHealing'
  BY DEF TypeOK, SwapOrder, SelfHealing, Consistent
<1>7. ClosedCause'
  BY DEF TypeOK, SwapOrder, NoCopyUnderOpenDB, ClosedCause, DBFiles
<1> QED BY <1>1, <1>2, <1>3, <1>4, <1>5, <1>6, <1>7 DEF IInv

\* Lookup keeps the inductive invariant.
LEMMA LookupStep == \A r \in Requests : IInv /\ Lookup(r) => IInv'
<1> SUFFICES ASSUME NEW r \in Requests, IInv, Lookup(r) PROVE IInv'
  OBVIOUS
<1> USE DEF IInv, Lookup, env, disk, upd, Running, Swapping
<1>1. TypeOK'
  BY MaxFailuresAssumption DEF TypeOK, DBFiles, MetaFiles, FileStates, Schemas, SchemaVersion, WorkerStates
<1>2. WaitGroups'
  BY DEF TypeOK, WaitGroups, Announced
<1>3. ReadsPresent'
  BY DEF TypeOK, ReadsPresent, WaitGroups
<1>4. NoCopyUnderOpenDB'
  BY DEF TypeOK, NoCopyUnderOpenDB, SwapOrder
<1>5. SwapOrder'
  BY DEF TypeOK, SwapOrder, NoCopyUnderOpenDB
<1>6. SelfHealing'
  BY DEF TypeOK, SwapOrder, SelfHealing, Consistent
<1>7. ClosedCause'
  BY DEF TypeOK, SwapOrder, NoCopyUnderOpenDB, ClosedCause, DBFiles
<1> QED BY <1>1, <1>2, <1>3, <1>4, <1>5, <1>6, <1>7 DEF IInv

\* Leave keeps the inductive invariant.
LEMMA LeaveStep == \A r \in Requests : IInv /\ Leave(r) => IInv'
<1> SUFFICES ASSUME NEW r \in Requests, IInv, Leave(r) PROVE IInv'
  OBVIOUS
<1> USE DEF IInv, Leave, env, disk, upd, Running, Swapping
<1>1. TypeOK'
  BY MaxFailuresAssumption DEF TypeOK, DBFiles, MetaFiles, FileStates, Schemas, SchemaVersion, WorkerStates
<1>2. WaitGroups'
  BY DEF TypeOK, WaitGroups, Announced
<1>3. ReadsPresent'
  BY DEF TypeOK, ReadsPresent, WaitGroups
<1>4. NoCopyUnderOpenDB'
  BY DEF TypeOK, NoCopyUnderOpenDB, SwapOrder
<1>5. SwapOrder'
  BY DEF TypeOK, SwapOrder, NoCopyUnderOpenDB
<1>6. SelfHealing'
  BY DEF TypeOK, SwapOrder, SelfHealing, Consistent
<1>7. ClosedCause'
  BY DEF TypeOK, SwapOrder, NoCopyUnderOpenDB, ClosedCause, DBFiles
<1> QED BY <1>1, <1>2, <1>3, <1>4, <1>5, <1>6, <1>7 DEF IInv

\* Hourly keeps the inductive invariant.
LEMMA HourlyStep == IInv /\ Hourly => IInv'
<1> SUFFICES ASSUME IInv, Hourly PROVE IInv'
  OBVIOUS
<1> USE DEF IInv, Hourly, env, disk, upd, Running, Swapping
<1>1. TypeOK'
  BY MaxFailuresAssumption DEF TypeOK, DBFiles, MetaFiles, FileStates, Schemas, SchemaVersion, WorkerStates
<1>2. WaitGroups'
  BY DEF TypeOK, WaitGroups, Announced
<1>3. ReadsPresent'
  BY DEF TypeOK, ReadsPresent, WaitGroups
<1>4. NoCopyUnderOpenDB'
  BY DEF TypeOK, NoCopyUnderOpenDB, SwapOrder
<1>5. SwapOrder'
  BY DueStaysDue DEF TypeOK, SwapOrder, NoCopyUnderOpenDB
<1>6. SelfHealing'
  BY DueStaysDue DEF TypeOK, SwapOrder, SelfHealing, Consistent
<1>7. ClosedCause'
  BY DueStaysDue DEF TypeOK, SwapOrder, NoCopyUnderOpenDB, ClosedCause, DBFiles
<1> QED BY <1>1, <1>2, <1>3, <1>4, <1>5, <1>6, <1>7 DEF IInv

\* Publish keeps the inductive invariant.
LEMMA PublishStep == IInv /\ Publish => IInv'
<1> SUFFICES ASSUME IInv, Publish PROVE IInv'
  OBVIOUS
<1> USE DEF IInv, Publish, env, disk, upd, Running, Swapping
<1>1. TypeOK'
  BY MaxFailuresAssumption DEF TypeOK, DBFiles, MetaFiles, FileStates, Schemas, SchemaVersion, WorkerStates
<1>2. WaitGroups'
  BY DEF TypeOK, WaitGroups, Announced
<1>3. ReadsPresent'
  BY DEF TypeOK, ReadsPresent, WaitGroups
<1>4. NoCopyUnderOpenDB'
  BY DEF TypeOK, NoCopyUnderOpenDB, SwapOrder
<1>p. remote' > 0
  BY DEF TypeOK, SwapOrder
<1>5. SwapOrder'
  BY <1>p DEF TypeOK, SwapOrder, NoCopyUnderOpenDB
<1>6. SelfHealing'
  BY <1>p DEF TypeOK, SwapOrder, SelfHealing, Consistent
<1>7. ClosedCause'
  BY <1>p DEF TypeOK, SwapOrder, NoCopyUnderOpenDB, ClosedCause, DBFiles
<1> QED BY <1>1, <1>2, <1>3, <1>4, <1>5, <1>6, <1>7 DEF IInv

\* Cancel keeps the inductive invariant.
LEMMA CancelStep == IInv /\ Cancel => IInv'
<1> SUFFICES ASSUME IInv, Cancel PROVE IInv'
  OBVIOUS
<1> USE DEF IInv, Cancel, env, disk, upd, Running, Swapping
<1>1. TypeOK'
  BY MaxFailuresAssumption DEF TypeOK, DBFiles, MetaFiles, FileStates, Schemas, SchemaVersion, WorkerStates
<1>2. WaitGroups'
  BY DEF TypeOK, WaitGroups, Announced
<1>3. ReadsPresent'
  BY DEF TypeOK, ReadsPresent, WaitGroups
<1>4. NoCopyUnderOpenDB'
  BY DEF TypeOK, NoCopyUnderOpenDB, SwapOrder
<1>5. SwapOrder'
  BY DEF TypeOK, SwapOrder, NoCopyUnderOpenDB
<1>6. SelfHealing'
  BY DEF TypeOK, SwapOrder, SelfHealing, Consistent
<1>7. ClosedCause'
  BY DEF TypeOK, SwapOrder, NoCopyUnderOpenDB, ClosedCause, DBFiles
<1> QED BY <1>1, <1>2, <1>3, <1>4, <1>5, <1>6, <1>7 DEF IInv

\* Tick keeps the inductive invariant.
LEMMA TickStep == IInv /\ Tick => IInv'
<1> SUFFICES ASSUME IInv, Tick PROVE IInv'
  OBVIOUS
<1> USE DEF IInv, Tick, env, disk, upd, Running, Swapping
<1>1. TypeOK'
  BY MaxFailuresAssumption DEF TypeOK, DBFiles, MetaFiles, FileStates, Schemas, SchemaVersion, WorkerStates
<1>2. WaitGroups'
  BY DEF TypeOK, WaitGroups, Announced
<1>3. ReadsPresent'
  BY DEF TypeOK, ReadsPresent, WaitGroups
<1>4. NoCopyUnderOpenDB'
  BY DEF TypeOK, NoCopyUnderOpenDB, SwapOrder
<1>5. SwapOrder'
  BY SkipIsNeverDue DEF TypeOK, SwapOrder, NoCopyUnderOpenDB
<1>6. SelfHealing'
  BY SkipIsNeverDue DEF TypeOK, SwapOrder, SelfHealing, Consistent
<1>7. ClosedCause'
  BY SkipIsNeverDue DEF TypeOK, SwapOrder, NoCopyUnderOpenDB, ClosedCause, DBFiles
<1> QED BY <1>1, <1>2, <1>3, <1>4, <1>5, <1>6, <1>7 DEF IInv

\* Download keeps the inductive invariant.
LEMMA DownloadStep == IInv /\ Download => IInv'
<1> SUFFICES ASSUME IInv, Download PROVE IInv'
  OBVIOUS
<1> USE DEF IInv, Download, env, disk, upd, Running, Swapping
<1>1. TypeOK'
  BY MaxFailuresAssumption DEF TypeOK, DBFiles, MetaFiles, FileStates, Schemas, SchemaVersion, WorkerStates
<1>2. WaitGroups'
  BY DEF TypeOK, WaitGroups, Announced
<1>3. ReadsPresent'
  BY DEF TypeOK, ReadsPresent, WaitGroups
<1>4. NoCopyUnderOpenDB'
  BY DEF TypeOK, NoCopyUnderOpenDB, SwapOrder
<1>5. SwapOrder'
  BY DEF TypeOK, SwapOrder, NoCopyUnderOpenDB
<1>6. SelfHealing'
  BY DEF TypeOK, SwapOrder, SelfHealing, Consistent
<1>7. ClosedCause'
  BY DEF TypeOK, SwapOrder, NoCopyUnderOpenDB, ClosedCause, DBFiles
<1> QED BY <1>1, <1>2, <1>3, <1>4, <1>5, <1>6, <1>7 DEF IInv

\* DownloadFail keeps the inductive invariant.
LEMMA DownloadFailStep == IInv /\ DownloadFail => IInv'
<1> SUFFICES ASSUME IInv, DownloadFail PROVE IInv'
  OBVIOUS
<1> USE DEF IInv, DownloadFail, env, disk, upd, Running, Swapping
<1>1. TypeOK'
  BY MaxFailuresAssumption DEF TypeOK, DBFiles, MetaFiles, FileStates, Schemas, SchemaVersion, WorkerStates
<1>2. WaitGroups'
  BY DEF TypeOK, WaitGroups, Announced
<1>3. ReadsPresent'
  BY DEF TypeOK, ReadsPresent, WaitGroups
<1>4. NoCopyUnderOpenDB'
  BY DEF TypeOK, NoCopyUnderOpenDB, SwapOrder
<1>5. SwapOrder'
  BY DEF TypeOK, SwapOrder, NoCopyUnderOpenDB
<1>6. SelfHealing'
  BY DEF TypeOK, SwapOrder, SelfHealing, Consistent
<1>7. ClosedCause'
  BY DEF TypeOK, SwapOrder, NoCopyUnderOpenDB, ClosedCause, DBFiles
<1> QED BY <1>1, <1>2, <1>3, <1>4, <1>5, <1>6, <1>7 DEF IInv

\* Announce keeps the inductive invariant.
LEMMA AnnounceStep == IInv /\ Announce => IInv'
<1> SUFFICES ASSUME IInv, Announce PROVE IInv'
  OBVIOUS
<1> USE DEF IInv, Announce, env, disk, upd, Running, Swapping
<1>1. TypeOK'
  BY MaxFailuresAssumption DEF TypeOK, DBFiles, MetaFiles, FileStates, Schemas, SchemaVersion, WorkerStates
<1>2. WaitGroups'
  BY DEF TypeOK, WaitGroups, Announced
<1>3. ReadsPresent'
  BY DEF TypeOK, ReadsPresent, WaitGroups
<1>4. NoCopyUnderOpenDB'
  BY DEF TypeOK, NoCopyUnderOpenDB, SwapOrder
<1>5. SwapOrder'
  BY DEF TypeOK, SwapOrder, NoCopyUnderOpenDB
<1>6. SelfHealing'
  BY DEF TypeOK, SwapOrder, SelfHealing, Consistent
<1>7. ClosedCause'
  BY DEF TypeOK, SwapOrder, NoCopyUnderOpenDB, ClosedCause, DBFiles
<1> QED BY <1>1, <1>2, <1>3, <1>4, <1>5, <1>6, <1>7 DEF IInv

\* WaitRequests keeps the inductive invariant.
LEMMA WaitRequestsStep == IInv /\ WaitRequests => IInv'
<1> SUFFICES ASSUME IInv, WaitRequests PROVE IInv'
  OBVIOUS
<1> USE DEF IInv, WaitRequests, env, disk, upd, Running, Swapping
<1>1. TypeOK'
  BY MaxFailuresAssumption DEF TypeOK, DBFiles, MetaFiles, FileStates, Schemas, SchemaVersion, WorkerStates
<1>2. WaitGroups'
  BY DEF TypeOK, WaitGroups, Announced
<1>3. ReadsPresent'
  BY DEF TypeOK, ReadsPresent, WaitGroups
<1>4. NoCopyUnderOpenDB'
  BY DEF TypeOK, NoCopyUnderOpenDB, SwapOrder
<1>5. SwapOrder'
  BY DEF TypeOK, SwapOrder, NoCopyUnderOpenDB
<1>6. SelfHealing'
  BY DEF TypeOK, SwapOrder, SelfHealing, Consistent
<1>7. ClosedCause'
  BY DEF TypeOK, SwapOrder, NoCopyUnderOpenDB, ClosedCause, DBFiles
<1> QED BY <1>1, <1>2, <1>3, <1>4, <1>5, <1>6, <1>7 DEF IInv

\* WorkerWake keeps the inductive invariant.
LEMMA WorkerWakeStep == IInv /\ WorkerWake => IInv'
<1> SUFFICES ASSUME IInv, WorkerWake PROVE IInv'
  OBVIOUS
<1> USE DEF IInv, WorkerWake, env, disk, upd, Running, Swapping
<1>1. TypeOK'
  BY MaxFailuresAssumption DEF TypeOK, DBFiles, MetaFiles, FileStates, Schemas, SchemaVersion, WorkerStates
<1>2. WaitGroups'
  BY DEF TypeOK, WaitGroups, Announced
<1>3. ReadsPresent'
  BY DEF TypeOK, ReadsPresent, WaitGroups
<1>4. NoCopyUnderOpenDB'
  BY DEF TypeOK, NoCopyUnderOpenDB, SwapOrder
<1>5. SwapOrder'
  BY DEF TypeOK, SwapOrder, NoCopyUnderOpenDB
<1>6. SelfHealing'
  BY DEF TypeOK, SwapOrder, SelfHealing, Consistent
<1>7. ClosedCause'
  BY DEF TypeOK, SwapOrder, NoCopyUnderOpenDB, ClosedCause, DBFiles
<1> QED BY <1>1, <1>2, <1>3, <1>4, <1>5, <1>6, <1>7 DEF IInv

\* Close keeps the inductive invariant.
LEMMA CloseStep == IInv /\ Close => IInv'
<1> SUFFICES ASSUME IInv, Close PROVE IInv'
  OBVIOUS
<1> USE DEF IInv, Close, env, disk, upd, Running, Swapping
<1>1. TypeOK'
  BY MaxFailuresAssumption DEF TypeOK, DBFiles, MetaFiles, FileStates, Schemas, SchemaVersion, WorkerStates
<1>2. WaitGroups'
  BY DEF TypeOK, WaitGroups, Announced
<1>3. ReadsPresent'
  BY DEF TypeOK, ReadsPresent, WaitGroups
<1>4. NoCopyUnderOpenDB'
  BY DEF TypeOK, NoCopyUnderOpenDB, SwapOrder
<1>5. SwapOrder'
  BY DEF TypeOK, SwapOrder, NoCopyUnderOpenDB
<1>6. SelfHealing'
  BY DEF TypeOK, SwapOrder, SelfHealing, Consistent
<1>7. ClosedCause'
  BY DEF TypeOK, SwapOrder, NoCopyUnderOpenDB, ClosedCause, DBFiles
<1> QED BY <1>1, <1>2, <1>3, <1>4, <1>5, <1>6, <1>7 DEF IInv

\* CopyDB keeps the inductive invariant.
LEMMA CopyDBStep == IInv /\ CopyDB => IInv'
<1> SUFFICES ASSUME IInv, CopyDB PROVE IInv'
  OBVIOUS
<1> USE DEF IInv, CopyDB, env, disk, upd, Running, Swapping
<1>1. TypeOK'
  BY MaxFailuresAssumption DEF TypeOK, DBFiles, MetaFiles, FileStates, Schemas, SchemaVersion, WorkerStates
<1>2. WaitGroups'
  BY DEF TypeOK, WaitGroups, Announced
<1>3. ReadsPresent'
  BY DEF TypeOK, ReadsPresent, WaitGroups
<1>4. NoCopyUnderOpenDB'
  BY DEF TypeOK, NoCopyUnderOpenDB, SwapOrder
<1>a. worker \in {"copyDB"} => NeedsUpdate(db, meta, now, FALSE) = "yes"
  BY DEF SwapOrder
<1>b. db.st # "none" /\ db'.st # "none"
  BY DEF SwapOrder, TypeOK, DBFiles
<1>c. worker = "copyDB" => NeedsUpdate(db', meta, now, FALSE) = "yes"
  BY <1>a, <1>b, DueDependsOnMetadata
<1>d. meta' = meta \/ (worker = "copyMeta" /\ meta'.st = "torn" /\ db' = db)
  BY DEF TypeOK, MetaFiles
<1>e. meta'.st = "torn" => NeedsUpdate(db', meta', now', FALSE) = "yes"
  BY TornMetadataIsDue
<1>f. db' = db \/ worker = "copyDB"
  OBVIOUS
<1>5. SwapOrder'
  BY <1>a, <1>b, <1>c, <1>d, <1>e, <1>f DEF TypeOK, SwapOrder, NoCopyUnderOpenDB
<1>6. SelfHealing'
  BY <1>a, <1>b, <1>c, <1>d, <1>e, <1>f DEF TypeOK, SwapOrder, SelfHealing, Consistent
<1>7. ClosedCause'
  BY <1>a, <1>b, <1>c, <1>d, <1>e, <1>f DEF TypeOK, SwapOrder, ClosedCause
<1> QED BY <1>1, <1>2, <1>3, <1>4, <1>5, <1>6, <1>7 DEF IInv

\* CopyMeta keeps the inductive invariant.
LEMMA CopyMetaStep == IInv /\ CopyMeta => IInv'
<1> SUFFICES ASSUME IInv, CopyMeta PROVE IInv'
  OBVIOUS
<1> USE DEF IInv, CopyMeta, env, disk, upd, Running, Swapping
<1>1. TypeOK'
  BY MaxFailuresAssumption DEF TypeOK, DBFiles, MetaFiles, FileStates, Schemas, SchemaVersion, WorkerStates
<1>2. WaitGroups'
  BY DEF TypeOK, WaitGroups, Announced
<1>3. ReadsPresent'
  BY DEF TypeOK, ReadsPresent, WaitGroups
<1>4. NoCopyUnderOpenDB'
  BY DEF TypeOK, NoCopyUnderOpenDB, SwapOrder
<1>5. SwapOrder'
  BY DEF TypeOK, SwapOrder, NoCopyUnderOpenDB
<1>6. SelfHealing'
  BY DEF TypeOK, SwapOrder, SelfHealing, Consistent
<1>7. ClosedCause'
  BY DEF TypeOK, SwapOrder, NoCopyUnderOpenDB, ClosedCause, DBFiles
<1> QED BY <1>1, <1>2, <1>3, <1>4, <1>5, <1>6, <1>7 DEF IInv

\* Reopen keeps the inductive invariant.
LEMMA ReopenStep == IInv /\ Reopen => IInv'
<1> SUFFICES ASSUME IInv, Reopen PROVE IInv'
  OBVIOUS
<1> USE DEF IInv, Reopen, env, disk, upd, Running, Swapping
<1>1. TypeOK'
  BY MaxFailuresAssumption DEF TypeOK, DBFiles, MetaFiles, FileStates, Schemas, SchemaVersion, WorkerStates
<1>2. WaitGroups'
  BY DEF TypeOK, WaitGroups, Announced
<1>3. ReadsPresent'
  BY DEF TypeOK, ReadsPresent, WaitGroups
<1>4. NoCopyUnderOpenDB'
  BY DEF TypeOK, NoCopyUnderOpenDB, SwapOrder
<1>5. SwapOrder'
  BY DEF TypeOK, SwapOrder, NoCopyUnderOpenDB
<1>6. SelfHealing'
  BY DEF TypeOK, SwapOrder, SelfHealing, Consistent
<1>7. ClosedCause'
  BY DEF TypeOK, SwapOrder, NoCopyUnderOpenDB, ClosedCause, DBFiles
<1> QED BY <1>1, <1>2, <1>3, <1>4, <1>5, <1>6, <1>7 DEF IInv

\* SwapFail keeps the inductive invariant.
LEMMA SwapFailStep == IInv /\ SwapFail => IInv'
<1> SUFFICES ASSUME IInv, SwapFail PROVE IInv'
  OBVIOUS
<1> USE DEF IInv, SwapFail, env, disk, upd, Running, Swapping
<1>1. TypeOK'
  BY MaxFailuresAssumption DEF TypeOK, DBFiles, MetaFiles, FileStates, Schemas, SchemaVersion, WorkerStates
<1>2. WaitGroups'
  BY DEF TypeOK, WaitGroups, Announced
<1>3. ReadsPresent'
  BY DEF TypeOK, ReadsPresent, WaitGroups
<1>4. NoCopyUnderOpenDB'
  BY DEF TypeOK, NoCopyUnderOpenDB, SwapOrder
<1>a. worker \in {"close", "copyDB", "copyMeta"} => NeedsUpdate(db, meta, now, FALSE) = "yes"
  BY DEF SwapOrder
<1>b. db.st # "none" /\ db'.st # "none"
  BY DEF SwapOrder, TypeOK, DBFiles
<1>c. worker = "copyDB" => NeedsUpdate(db', meta, now, FALSE) = "yes"
  BY <1>a, <1>b, DueDependsOnMetadata
<1>d. meta' = meta \/ (worker = "copyMeta" /\ meta'.st = "torn" /\ db' = db)
  BY DEF TypeOK, MetaFiles
<1>e. meta'.st = "torn" => NeedsUpdate(db', meta', now', FALSE) = "yes"
  BY TornMetadataIsDue
<1>f. db' = db \/ worker = "copyDB"
  OBVIOUS
<1>5. SwapOrder'
  BY <1>a, <1>b, <1>c, <1>d, <1>e, <1>f DEF TypeOK, SwapOrder, NoCopyUnderOpenDB
<1>6. SelfHealing'
  BY <1>a, <1>b, <1>c, <1>d, <1>e, <1>f DEF TypeOK, SwapOrder, SelfHealing, Consistent
<1>7. ClosedCause'
  BY <1>a, <1>b, <1>c, <1>d, <1>e, <1>f DEF TypeOK, SwapOrder, ClosedCause
<1> QED BY <1>1, <1>2, <1>3, <1>4, <1>5, <1>6, <1>7 DEF IInv

\* Finish keeps the inductive invariant.
LEMMA FinishStep == IInv /\ Finish => IInv'
<1> SUFFICES ASSUME IInv, Finish PROVE IInv'
  OBVIOUS
<1> USE DEF IInv, Finish, env, disk, upd, Running, Swapping
<1>1. TypeOK'
  BY MaxFailuresAssumption DEF TypeOK, DBFiles, MetaFiles, FileStates, Schemas, SchemaVersion, WorkerStates
<1>2. WaitGroups'
  BY DEF TypeOK, WaitGroups, Announced
<1>3. ReadsPresent'
  BY DEF TypeOK, ReadsPresent, WaitGroups
<1>4. NoCopyUnderOpenDB'
  BY DEF TypeOK, NoCopyUnderOpenDB, SwapOrder
<1>5. SwapOrder'
  BY DEF TypeOK, SwapOrder, NoCopyUnderOpenDB
<1>6. SelfHealing'
  BY DEF TypeOK, SwapOrder, SelfHealing, Consistent
<1>7. ClosedCause'
  BY DEF TypeOK, SwapOrder, NoCopyUnderOpenDB, ClosedCause, DBFiles
<1> QED BY <1>1, <1>2, <1>3, <1>4, <1>5, <1>6, <1>7 DEF IInv

\* Shutdown keeps the inductive invariant.
LEMMA ShutdownStep == IInv /\ Shutdown => IInv'
<1> SUFFICES ASSUME IInv, Shutdown PROVE IInv'
  OBVIOUS
<1> USE DEF IInv, Shutdown, env, disk, upd, Running, Swapping
<1>1. TypeOK'
  BY MaxFailuresAssumption DEF TypeOK, DBFiles, MetaFiles, FileStates, Schemas, SchemaVersion, WorkerStates
<1>2. WaitGroups'
  BY DEF TypeOK, WaitGroups, Announced
<1>3. ReadsPresent'
  BY DEF TypeOK, ReadsPresent, WaitGroups
<1>4. NoCopyUnderOpenDB'
  BY DEF TypeOK, NoCopyUnderOpenDB, SwapOrder
<1>5. SwapOrder'
  BY DEF TypeOK, SwapOrder, NoCopyUnderOpenDB
<1>6. SelfHealing'
  BY DEF TypeOK, SwapOrder, SelfHealing, Consistent
<1>7. ClosedCause'
  BY DEF TypeOK, SwapOrder, NoCopyUnderOpenDB, ClosedCause, DBFiles
<1> QED BY <1>1, <1>2, <1>3, <1>4, <1>5, <1>6, <1>7 DEF IInv

\* Exit keeps the inductive invariant.
LEMMA ExitStep == IInv /\ Exit => IInv'
<1> SUFFICES ASSUME IInv, Exit PROVE IInv'
  OBVIOUS
<1> USE DEF IInv, Exit, env, disk, upd, Running, Swapping
<1>1. TypeOK'
  BY MaxFailuresAssumption DEF TypeOK, DBFiles, MetaFiles, FileStates, Schemas, SchemaVersion, WorkerStates
<1>2. WaitGroups'
  BY DEF TypeOK, WaitGroups, Announced
<1>3. ReadsPresent'
  BY DEF TypeOK, ReadsPresent, WaitGroups
<1>4. NoCopyUnderOpenDB'
  BY DEF TypeOK, NoCopyUnderOpenDB, SwapOrder
<1>5. SwapOrder'
  BY DEF TypeOK, SwapOrder, NoCopyUnderOpenDB
<1>6. SelfHealing'
  BY DEF TypeOK, SwapOrder, SelfHealing, Consistent
<1>7. ClosedCause'
  BY DEF TypeOK, SwapOrder, NoCopyUnderOpenDB, ClosedCause, DBFiles
<1> QED BY <1>1, <1>2, <1>3, <1>4, <1>5, <1>6, <1>7 DEF IInv

\* Kill keeps the inductive invariant.
LEMMA KillStep == IInv /\ Kill => IInv'
<1> SUFFICES ASSUME IInv, Kill PROVE IInv'
  OBVIOUS
<1> USE DEF IInv, Kill, env, disk, upd, Running, Swapping
<1>1. TypeOK'
  BY MaxFailuresAssumption DEF TypeOK, DBFiles, MetaFiles, FileStates, Schemas, SchemaVersion, WorkerStates
<1>2. WaitGroups'
  BY DEF TypeOK, WaitGroups, Announced
<1>3. ReadsPresent'
  BY DEF TypeOK, ReadsPresent, WaitGroups
<1>4. NoCopyUnderOpenDB'
  BY DEF TypeOK, NoCopyUnderOpenDB, SwapOrder
<1>5. SwapOrder'
  BY DEF TypeOK, SwapOrder, NoCopyUnderOpenDB
<1>6. SelfHealing'
  BY DEF TypeOK, SwapOrder, SelfHealing, Consistent
<1>7. ClosedCause'
  BY DEF TypeOK, SwapOrder, NoCopyUnderOpenDB, ClosedCause, DBFiles
<1> QED BY <1>1, <1>2, <1>3, <1>4, <1>5, <1>6, <1>7 DEF IInv

\* KillInCopy keeps the inductive invariant.
LEMMA KillInCopyStep == IInv /\ KillInCopy => IInv'
<1> SUFFICES ASSUME IInv, KillInCopy PROVE IInv'
  OBVIOUS
<1> USE DEF IInv, KillInCopy, env, disk, upd, Running, Swapping
<1>1. TypeOK'
  BY MaxFailuresAssumption DEF TypeOK, DBFiles, MetaFiles, FileStates, Schemas, SchemaVersion, WorkerStates
<1>2. WaitGroups'
  BY DEF TypeOK, WaitGroups, Announced
<1>3. ReadsPresent'
  BY DEF TypeOK, ReadsPresent, WaitGroups
<1>4. NoCopyUnderOpenDB'
  BY DEF TypeOK, NoCopyUnderOpenDB, SwapOrder
<1>a. worker \in {"copyDB", "copyMeta"} => NeedsUpdate(db, meta, now, FALSE) = "yes"
  BY DEF SwapOrder
<1>b. db.st # "none" /\ db'.st # "none"
  BY DEF SwapOrder, TypeOK, DBFiles
<1>c. worker = "copyDB" => NeedsUpdate(db', meta, now, FALSE) = "yes"
  BY <1>a, <1>b, DueDependsOnMetadata
<1>d. meta' = meta \/ (worker = "copyMeta" /\ meta'.st = "torn" /\ db' = db)
  BY DEF TypeOK, MetaFiles
<1>e. meta'.st = "torn" => NeedsUpdate(db', meta', now', FALSE) = "yes"
  BY TornMetadataIsDue
<1>f. db' = db \/ worker = "copyDB"
  OBVIOUS
<1>5. SwapOrder'
  BY <1>a, <1>b, <1>c, <1>d, <1>e, <1>f DEF TypeOK, SwapOrder, NoCopyUnderOpenDB
<1>6. SelfHealing'
  BY <1>a, <1>b, <1>c, <1>d, <1>e, <1>f DEF TypeOK, SwapOrder, SelfHealing, Consistent
<1>7. ClosedCause'
  BY <1>a, <1>b, <1>c, <1>d, <1>e, <1>f DEF TypeOK, SwapOrder, ClosedCause
<1> QED BY <1>1, <1>2, <1>3, <1>4, <1>5, <1>6, <1>7 DEF IInv

\* Every step of the server and of its environment keeps the invariant.
LEMMA NextIInv == IInv /\ [Next]_vars => IInv'
<1> SUFFICES ASSUME IInv, [Next]_vars PROVE IInv'
  OBVIOUS
<1>1. ASSUME NEW r \in Requests, Arrive(r) \/ Lookup(r) \/ Handler(r) PROVE IInv'
  BY <1>1, ArriveStep, LookupStep, WakeStep, EnterStep, LeaveStep DEF Handler
<1>2. CASE Worker
  BY <1>2, TickStep, DownloadStep, DownloadFailStep, AnnounceStep, WaitRequestsStep,
     WorkerWakeStep, CloseStep, CopyDBStep, CopyMetaStep, ReopenStep, SwapFailStep,
     FinishStep, ShutdownStep DEF Worker
<1>3. CASE UNCHANGED vars
  <2> USE <1>3 DEF vars, env, disk, upd, IInv
  <2>1. TypeOK'
    BY DEF TypeOK
  <2>2. WaitGroups' /\ ReadsPresent'
    BY DEF WaitGroups, ReadsPresent
  <2>3. NoCopyUnderOpenDB' /\ SwapOrder' /\ SelfHealing' /\ ClosedCause'
    BY DEF NoCopyUnderOpenDB, SwapOrder, SelfHealing, ClosedCause, Consistent
  <2> QED BY <2>1, <2>2, <2>3
<1> QED
  BY <1>1, <1>2, <1>3, HourlyStep, PublishStep, CancelStep, ExitStep, KillStep,
     KillInCopyStep DEF Next, Stopped

\* The inductive invariant holds in every reachable state of the server.
THEOREM Invariance == Spec => []IInv
<1> QED BY InitIInv, NextIInv, PTL DEF Spec

\* The variables keep their types.
THEOREM TypeCorrect == Spec => []TypeOK
<1>1. IInv => TypeOK
  BY DEF IInv
<1> QED BY <1>1, Invariance, PTL

\* For any number of requests, the only ones that overlap a swap of the database
\* are those the worker overtook between their Wait() and their Add(1).
THEOREM OverlapNeedsRace == Spec => []OnlyRacersOverlap
<1>1. IInv => OnlyRacersOverlap
  BY DEF IInv, WaitGroups, OnlyRacersOverlap
<1> QED BY <1>1, Invariance, PTL

\* Every other request reads one database throughout.
THEOREM ReadsAreSnapshots == Spec => []SnapshotReads
<1>1. IInv => SnapshotReads
  BY DEF IInv, ReadsPresent, SnapshotReads
<1> QED BY <1>1, Invariance, PTL

\* The file of an open database is never overwritten.
THEOREM OpenFileIsStable == Spec => []NoCopyUnderOpenDB
<1>1. IInv => NoCopyUnderOpenDB
  BY DEF IInv
<1> QED BY <1>1, Invariance, PTL

\* Wherever the swap is interrupted, the directory is either consistent or due
\* for a new download.
THEOREM InterruptedSwapHeals == Spec => []SelfHealing
<1>1. IInv => SelfHealing
  BY DEF IInv
<1> QED BY <1>1, Invariance, PTL

\* A database left closed is fetched again at the next tick, unless it was the
\* reopening that failed.
THEOREM ClosedIsDue == Spec => []ClosedHeals
<1>1. IInv => ClosedHeals
  BY DEF IInv, ClosedCause, ClosedHeals
<1> QED BY <1>1, Invariance, PTL
=============================================================================
