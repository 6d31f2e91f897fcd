--------------------------- MODULE ScanFlowProofs ---------------------------
(* Machine-checked proofs about ScanFlow, for any number of scans, any      *)
(* targets, layers and histories, any number of retries and faults.         *)
EXTENDS ScanFlow, TLAPS

\* The keys of a target are cache keys, and a random key belongs to its scan.
LEMMA KeysOfFacts ==
  ASSUME NEW s \in Scans, NEW t \in Targets
  PROVE  /\ KeysOf(s, t) \subseteq Keys
         /\ \A k \in KeysOf(s, t) : k \in Scans => k = s /\ Kind[t] = "dir"
         /\ KeysOf(s, t) \cap Targets = {}
  BY TargetsAssumption, NamesAssumption DEF KeysOf, Keys

\* No artifact that keeps its blobs shares one with an artifact that deletes them,
\* unless it is an image with a remote SBOM.
LEMMA TransientKeysArePrivate ==
  ASSUME NEW s \in Scans, NEW t \in Targets, NEW r \in Scans, NEW u \in Targets, r # s,
         Kind[t] \notin {"file", "attested"}, Transient(u)
  PROVE  KeysOf(s, t) \cap KeysOf(r, u) = {}
<1>1. CASE Kind[u] = "dir"
  BY <1>1, KeysOfFacts, NamesAssumption DEF KeysOf
<1>2. CASE Kind[u] = "file" /\ Kind[t] = "dir"
  BY <1>2, TargetsAssumption, NamesAssumption DEF KeysOf
<1>3. CASE Kind[u] = "file" /\ Kind[t] # "dir"
  BY <1>3, NamesAssumption DEF KeysOf
<1> QED BY <1>1, <1>2, <1>3 DEF Transient

\* An analysis is one of the two values, and a view of the key analysed.
LEMMA AnalysisFacts ==
  ASSUME NEW s \in Scans, NEW t \in Targets, NEW k \in KeysOf(s, t)
  PROVE  Analysis(t, k) \in {"full", "nosecrets"} /\ Analysis(t, k) \in Views(k)
  BY DEF Analysis, Views

\* The first state is one of the inductive invariant.
LEMMA InitIInv == Init => IInv
<1> SUFFICES ASSUME Init PROVE IInv
  OBVIOUS
<1> USE BoundsAssumption DEF Init, NoBlob
<1>1. TypeOK
  BY DEF TypeOK, CacheType, WorkType, ReplyType, TriesType, EnvType, Steps
<1>2. OwnEntries /\ TriesLeft /\ CacheIsSound /\ ReadSoFar /\ Accounted /\ MissingHasCause
  BY DEF OwnEntries, TriesLeft, Calls, CacheIsSound, ReadSoFar, Accounted, MissingHasCause
<1>3. TemporaryKeys
  BY DEF TemporaryKeys, Keys
<1> QED BY <1>1, <1>2, <1>3 DEF IInv

\* rpc.Retry counts the try, and goes to the error step or has tries left.
LEMMA RetryOne ==
  ASSUME NEW s \in Scans, NEW c \in Calls, NEW p \in Steps, WorkType, TriesType,
         tries[s][c] < MaxTries, Retry(s, c, p)
  PROVE  /\ TriesType' /\ pc' \in [Scans -> Steps]
         /\ \A r \in Scans \ {s} : pc'[r] = pc[r] /\ tries'[r] = tries[r]
         /\ pc'[s] \in {pc[s], p}
         /\ pc'[s] = p \/ tries'[s][c] < MaxTries
         /\ \A d \in Calls \ {c} : tries'[s][d] = tries[s][d]
<1>1. tries[s][c] + 1 \in 0 .. MaxTries
  BY BoundsAssumption DEF TriesType
<1>2. TriesType'
  BY <1>1 DEF TriesType, Retry
<1>3. tries'[s][c] = tries[s][c] + 1 /\ \A d \in Calls \ {c} : tries'[s][d] = tries[s][d]
  BY DEF TriesType, Retry
<1>4. CASE tries[s][c] + 1 = MaxTries
  BY <1>2, <1>3, <1>4 DEF Retry, WorkType, TriesType
<1>5. CASE tries[s][c] + 1 # MaxTries
  <2>1. pc' = pc
    BY <1>5 DEF Retry
  <2>2. tries'[s][c] < MaxTries
    BY <1>1, <1>3, <1>5, BoundsAssumption
  <2> QED BY <1>2, <1>3, <2>1, <2>2 DEF WorkType, TriesType, Retry
<1> QED BY <1>4, <1>5

\* The same when no request has used up its tries.
LEMMA RetryFacts ==
  ASSUME NEW s \in Scans, NEW c \in Calls, NEW p \in Steps, WorkType, TriesType,
         \A d \in Calls : tries[s][d] < MaxTries, Retry(s, c, p)
  PROVE  /\ TriesType' /\ pc' \in [Scans -> Steps]
         /\ \A r \in Scans \ {s} : pc'[r] = pc[r] /\ tries'[r] = tries[r]
         /\ pc'[s] \in {pc[s], p}
         /\ pc'[s] = p \/ \A d \in Calls : tries'[s][d] < MaxTries
  BY RetryOne

\* Start keeps the inductive invariant.
LEMMA StartStep == \A s \in Scans : IInv /\ Start(s) => IInv'
<1> SUFFICES ASSUME NEW s \in Scans, IInv, Start(s) PROVE IInv'
  OBVIOUS
<1> USE DEF Start, Enter, Goto, Leave, Fault, cache, work, reply, env, hist
<1>0. /\ CacheType /\ WorkType /\ ReplyType /\ TriesType /\ EnvType /\ OwnEntries /\ TriesLeft
      /\ CacheIsSound /\ ReadSoFar /\ Accounted /\ MissingHasCause /\ TemporaryKeys
  BY DEF IInv, TypeOK
<1>k. \A r \in Scans : /\ KeysOf(r, target[r]) \subseteq Keys
                      /\ KeysOf(r, target[r]) \cap Targets = {}
                      /\ \A x \in KeysOf(r, target[r]) : x \in Scans => x = r /\ Kind[target[r]] = "dir"
  BY <1>0, KeysOfFacts DEF WorkType
<1>c. \A r \in Scans, x \in Keys : CleanedAway(r, x) => CleanedAway(r, x)'
  BY <1>0 DEF WorkType, CleanedAway
<1>1. TypeOK'
  <2>1. CacheType'
    BY <1>0 DEF CacheType, WorkType, ImageConfig, Entries
  <2>2. WorkType'
    BY <1>0, <1>k DEF WorkType, Steps, Ended, Entries
  <2>3. ReplyType'
    BY <1>0 DEF ReplyType, CacheType, WorkType, NoBlob
  <2>4. TriesType'
    BY <1>0, BoundsAssumption DEF TriesType, Calls, Entries, WorkType
  <2>5. EnvType'
    BY <1>0, BoundsAssumption DEF EnvType
  <2> QED BY <2>1, <2>2, <2>3, <2>4, <2>5 DEF TypeOK
<1>2. OwnEntries'
  <2>1. CASE Reuses(target[s])
    BY <2>1, <1>0, <1>k DEF WorkType, OwnEntries
  <2>2. CASE ~(Reuses(target[s]))
    BY <2>2, <1>0, <1>k DEF WorkType, OwnEntries
  <2> QED BY <2>1, <2>2
<1>3. TriesLeft'
  <2>1. CASE Reuses(target[s])
    BY <2>1, <1>0, BoundsAssumption DEF WorkType, TriesType, TriesLeft, Calls, Entries
  <2>2. CASE ~(Reuses(target[s]))
    BY <2>2, <1>0, BoundsAssumption DEF WorkType, TriesType, TriesLeft, Calls, Entries
  <2> QED BY <2>1, <2>2
<1>4. CacheIsSound'
  <2>1. CASE Reuses(target[s])
    BY <2>1, <1>0 DEF CacheType, WorkType, ReplyType, CacheIsSound, NoBlob
  <2>2. CASE ~(Reuses(target[s]))
    BY <2>2, <1>0 DEF CacheType, WorkType, ReplyType, CacheIsSound, NoBlob
  <2> QED BY <2>1, <2>2
<1>5. ReadSoFar'
  <2>1. pc'[s] \in {"query", "inspect"} /\ \A r \in Scans \ {s} : pc'[r] = pc[r] /\ unread'[r] = unread[r]
    BY <1>0 DEF WorkType
  <2>2. outcome[s] = "none" /\ s \notin cleaned
    BY <1>0 DEF ReadSoFar, ReplyType, Ended
  <2> QED BY <1>0, <2>1, <2>2 DEF ReadSoFar
<1>6. Accounted'
  <2>1. CASE Reuses(target[s])
    BY <2>1, <1>0, <1>k, <1>c DEF CacheType, WorkType, Accounted, OwnEntries, Present, Ended
  <2>2. CASE ~(Reuses(target[s]))
    BY <2>2, <1>0, <1>k, <1>c DEF CacheType, WorkType, Accounted, OwnEntries, Present, Ended
  <2> QED BY <2>1, <2>2
<1>7. TemporaryKeys'
  <2>1. CASE Reuses(target[s])
    BY <2>1, <1>0, <1>k DEF CacheType, WorkType, TemporaryKeys, Keys, Ended
  <2>2. CASE ~(Reuses(target[s]))
    BY <2>2, <1>0, <1>k DEF CacheType, WorkType, TemporaryKeys, Keys, Ended
  <2> QED BY <2>1, <2>2
<1>8. MissingHasCause'
  <2>1. CASE Reuses(target[s])
    BY <2>1, <1>0, <1>k, <1>c DEF ReplyType, WorkType, MissingHasCause, Accounted, Present
  <2>2. CASE ~(Reuses(target[s]))
    BY <2>2, <1>0, <1>k, <1>c DEF ReplyType, WorkType, MissingHasCause, Accounted, Present
  <2> QED BY <2>1, <2>2
<1> QED BY <1>1, <1>2, <1>3, <1>4, <1>5, <1>6, <1>7, <1>8 DEF IInv

\* Query keeps the inductive invariant.
LEMMA QueryStep == \A s \in Scans, e \in Entries : IInv /\ Query(s, e) => IInv'
<1> SUFFICES ASSUME NEW s \in Scans, NEW e \in Entries, IInv, Query(s, e) PROVE IInv'
  OBVIOUS
<1> USE DEF Query, Goto, Leave, Fault, cache, work, reply, env, hist
<1>0. /\ CacheType /\ WorkType /\ ReplyType /\ TriesType /\ EnvType /\ OwnEntries /\ TriesLeft
      /\ CacheIsSound /\ ReadSoFar /\ Accounted /\ MissingHasCause /\ TemporaryKeys
  BY DEF IInv, TypeOK
<1>k. \A r \in Scans : /\ KeysOf(r, target[r]) \subseteq Keys
                      /\ KeysOf(r, target[r]) \cap Targets = {}
                      /\ \A x \in KeysOf(r, target[r]) : x \in Scans => x = r /\ Kind[target[r]] = "dir"
  BY <1>0, KeysOfFacts DEF WorkType
<1>c. \A r \in Scans, x \in Keys : CleanedAway(r, x) => CleanedAway(r, x)'
  BY <1>0 DEF WorkType, CleanedAway
<1>1. TypeOK'
  <2>1. CacheType'
    BY <1>0 DEF CacheType, WorkType, ImageConfig, Entries
  <2>2. WorkType'
    BY <1>0, <1>k DEF WorkType, Steps, Ended, Entries
  <2>3. ReplyType'
    BY <1>0 DEF ReplyType, CacheType, WorkType, NoBlob
  <2>4. TriesType'
    BY <1>0, BoundsAssumption DEF TriesType, Calls, Entries, WorkType
  <2>5. EnvType'
    BY <1>0, BoundsAssumption DEF EnvType
  <2> QED BY <2>1, <2>2, <2>3, <2>4, <2>5 DEF TypeOK
<1>2. OwnEntries'
  <2>1. CASE Present(e)
    BY <2>1, <1>0, <1>k DEF WorkType, OwnEntries
  <2>2. CASE ~(Present(e))
    BY <2>2, <1>0, <1>k DEF WorkType, OwnEntries
  <2> QED BY <2>1, <2>2
<1>3. TriesLeft'
  <2>1. CASE Present(e)
    BY <2>1, <1>0, BoundsAssumption DEF WorkType, TriesType, TriesLeft, Calls, Entries
  <2>2. CASE ~(Present(e))
    BY <2>2, <1>0, BoundsAssumption DEF WorkType, TriesType, TriesLeft, Calls, Entries
  <2> QED BY <2>1, <2>2
<1>4. CacheIsSound'
  <2>1. CASE Present(e)
    BY <2>1, <1>0 DEF CacheType, WorkType, ReplyType, CacheIsSound, NoBlob
  <2>2. CASE ~(Present(e))
    BY <2>2, <1>0 DEF CacheType, WorkType, ReplyType, CacheIsSound, NoBlob
  <2> QED BY <2>1, <2>2
<1>5. ReadSoFar'
  <2>1. CASE Present(e)
    BY <2>1, <1>0, <1>k DEF WorkType, ReplyType, ReadSoFar, Ended, Present
  <2>2. CASE ~(Present(e))
    BY <2>2, <1>0, <1>k DEF WorkType, ReplyType, ReadSoFar, Ended, Present
  <2> QED BY <2>1, <2>2
<1>6. Accounted'
  <2>1. CASE Present(e)
    BY <2>1, <1>0, <1>k, <1>c DEF CacheType, WorkType, Accounted, OwnEntries, Present, Ended
  <2>2. CASE ~(Present(e))
    BY <2>2, <1>0, <1>k, <1>c DEF CacheType, WorkType, Accounted, OwnEntries, Present, Ended
  <2> QED BY <2>1, <2>2
<1>7. TemporaryKeys'
  <2>1. CASE Present(e)
    BY <2>1, <1>0, <1>k DEF CacheType, WorkType, TemporaryKeys, Keys, Ended
  <2>2. CASE ~(Present(e))
    BY <2>2, <1>0, <1>k DEF CacheType, WorkType, TemporaryKeys, Keys, Ended
  <2> QED BY <2>1, <2>2
<1>8. MissingHasCause'
  <2>1. CASE Present(e)
    BY <2>1, <1>0, <1>k, <1>c DEF ReplyType, WorkType, MissingHasCause, Accounted, Present
  <2>2. CASE ~(Present(e))
    BY <2>2, <1>0, <1>k, <1>c DEF ReplyType, WorkType, MissingHasCause, Accounted, Present
  <2> QED BY <2>1, <2>2
<1> QED BY <1>1, <1>2, <1>3, <1>4, <1>5, <1>6, <1>7, <1>8 DEF IInv

\* QueryError keeps the inductive invariant.
LEMMA QueryErrorStep == \A s \in Scans, e \in Entries : IInv /\ QueryError(s, e) => IInv'
<1> SUFFICES ASSUME NEW s \in Scans, NEW e \in Entries, IInv, QueryError(s, e) PROVE IInv'
  OBVIOUS
<1> USE DEF QueryError, Goto, Leave, Fault, cache, work, reply, env, hist
<1>0. /\ CacheType /\ WorkType /\ ReplyType /\ TriesType /\ EnvType /\ OwnEntries /\ TriesLeft
      /\ CacheIsSound /\ ReadSoFar /\ Accounted /\ MissingHasCause /\ TemporaryKeys
  BY DEF IInv, TypeOK
<1>k. \A r \in Scans : /\ KeysOf(r, target[r]) \subseteq Keys
                      /\ KeysOf(r, target[r]) \cap Targets = {}
                      /\ \A x \in KeysOf(r, target[r]) : x \in Scans => x = r /\ Kind[target[r]] = "dir"
  BY <1>0, KeysOfFacts DEF WorkType
<1>c. \A r \in Scans, x \in Keys : CleanedAway(r, x) => CleanedAway(r, x)'
  BY <1>0 DEF WorkType, CleanedAway
<1>1. TypeOK'
  <2>1. CacheType'
    BY <1>0 DEF CacheType, WorkType, ImageConfig, Entries
  <2>2. WorkType'
    BY <1>0, <1>k DEF WorkType, Steps, Ended, Entries
  <2>3. ReplyType'
    BY <1>0 DEF ReplyType, CacheType, WorkType, NoBlob
  <2>4. TriesType'
    BY <1>0, BoundsAssumption DEF TriesType, Calls, Entries, WorkType
  <2>5. EnvType'
    BY <1>0, BoundsAssumption DEF EnvType
  <2> QED BY <2>1, <2>2, <2>3, <2>4, <2>5 DEF TypeOK
<1>2. OwnEntries'
  BY <1>0, <1>k DEF WorkType, OwnEntries
<1>3. TriesLeft'
  BY <1>0, BoundsAssumption DEF WorkType, TriesType, TriesLeft, Calls, Entries
<1>4. CacheIsSound'
  BY <1>0 DEF CacheType, WorkType, ReplyType, CacheIsSound, NoBlob
<1>5. ReadSoFar'
  BY <1>0, <1>k DEF WorkType, ReplyType, ReadSoFar, Ended, Present
<1>6. Accounted'
  BY <1>0, <1>k, <1>c DEF CacheType, WorkType, Accounted, OwnEntries, Present, Ended
<1>7. TemporaryKeys'
  BY <1>0, <1>k DEF CacheType, WorkType, TemporaryKeys, Keys, Ended
<1>8. MissingHasCause'
  BY <1>0, <1>k, <1>c DEF ReplyType, WorkType, MissingHasCause, Accounted, Present
<1> QED BY <1>1, <1>2, <1>3, <1>4, <1>5, <1>6, <1>7, <1>8 DEF IInv

\* QueryFail keeps the inductive invariant.
LEMMA QueryFailStep == \A s \in Scans : IInv /\ QueryFail(s) => IInv'
<1> SUFFICES ASSUME NEW s \in Scans, IInv, QueryFail(s) PROVE IInv'
  OBVIOUS
<1> USE DEF QueryFail, Goto, Leave, Fault, cache, work, reply, env, hist
<1>0. /\ CacheType /\ WorkType /\ ReplyType /\ TriesType /\ EnvType /\ OwnEntries /\ TriesLeft
      /\ CacheIsSound /\ ReadSoFar /\ Accounted /\ MissingHasCause /\ TemporaryKeys
  BY DEF IInv, TypeOK
<1>k. \A r \in Scans : /\ KeysOf(r, target[r]) \subseteq Keys
                      /\ KeysOf(r, target[r]) \cap Targets = {}
                      /\ \A x \in KeysOf(r, target[r]) : x \in Scans => x = r /\ Kind[target[r]] = "dir"
  BY <1>0, KeysOfFacts DEF WorkType
<1>c. \A r \in Scans, x \in Keys : CleanedAway(r, x) => CleanedAway(r, x)'
  BY <1>0 DEF WorkType, CleanedAway
<1>1. TypeOK'
  <2>1. CacheType'
    BY <1>0 DEF CacheType, WorkType, ImageConfig, Entries
  <2>2. WorkType'
    BY <1>0, <1>k DEF WorkType, Steps, Ended, Entries
  <2>3. ReplyType'
    BY <1>0 DEF ReplyType, CacheType, WorkType, NoBlob
  <2>4. TriesType'
    BY <1>0, BoundsAssumption DEF TriesType, Calls, Entries, WorkType
  <2>5. EnvType'
    BY <1>0, BoundsAssumption DEF EnvType
  <2> QED BY <2>1, <2>2, <2>3, <2>4, <2>5 DEF TypeOK
<1>2. OwnEntries'
  BY <1>0, <1>k DEF WorkType, OwnEntries
<1>3. TriesLeft'
  BY <1>0, BoundsAssumption DEF WorkType, TriesType, TriesLeft, Calls, Entries
<1>4. CacheIsSound'
  BY <1>0 DEF CacheType, WorkType, ReplyType, CacheIsSound, NoBlob
<1>5. ReadSoFar'
  BY <1>0, <1>k DEF WorkType, ReplyType, ReadSoFar, Ended, Present
<1>6. Accounted'
  BY <1>0, <1>k, <1>c DEF CacheType, WorkType, Accounted, OwnEntries, Present, Ended
<1>7. TemporaryKeys'
  BY <1>0, <1>k DEF CacheType, WorkType, TemporaryKeys, Keys, Ended
<1>8. MissingHasCause'
  BY <1>0, <1>k, <1>c DEF ReplyType, WorkType, MissingHasCause, Accounted, Present
<1> QED BY <1>1, <1>2, <1>3, <1>4, <1>5, <1>6, <1>7, <1>8 DEF IInv

\* QueryDone keeps the inductive invariant.
LEMMA QueryDoneStep == \A s \in Scans : IInv /\ QueryDone(s) => IInv'
<1> SUFFICES ASSUME NEW s \in Scans, IInv, QueryDone(s) PROVE IInv'
  OBVIOUS
<1> USE DEF QueryDone, Goto, Leave, Fault, cache, work, reply, env, hist
<1>0. /\ CacheType /\ WorkType /\ ReplyType /\ TriesType /\ EnvType /\ OwnEntries /\ TriesLeft
      /\ CacheIsSound /\ ReadSoFar /\ Accounted /\ MissingHasCause /\ TemporaryKeys
  BY DEF IInv, TypeOK
<1>k. \A r \in Scans : /\ KeysOf(r, target[r]) \subseteq Keys
                      /\ KeysOf(r, target[r]) \cap Targets = {}
                      /\ \A x \in KeysOf(r, target[r]) : x \in Scans => x = r /\ Kind[target[r]] = "dir"
  BY <1>0, KeysOfFacts DEF WorkType
<1>c. \A r \in Scans, x \in Keys : CleanedAway(r, x) => CleanedAway(r, x)'
  BY <1>0 DEF WorkType, CleanedAway
<1>1. TypeOK'
  <2>1. CacheType'
    BY <1>0 DEF CacheType, WorkType, ImageConfig, Entries
  <2>2. WorkType'
    BY <1>0, <1>k DEF WorkType, Steps, Ended, Entries
  <2>3. ReplyType'
    BY <1>0 DEF ReplyType, CacheType, WorkType, NoBlob
  <2>4. TriesType'
    BY <1>0, BoundsAssumption DEF TriesType, Calls, Entries, WorkType
  <2>5. EnvType'
    BY <1>0, BoundsAssumption DEF EnvType
  <2> QED BY <2>1, <2>2, <2>3, <2>4, <2>5 DEF TypeOK
<1>2. OwnEntries'
  BY <1>0, <1>k DEF WorkType, OwnEntries
<1>3. TriesLeft'
  BY <1>0, BoundsAssumption DEF WorkType, TriesType, TriesLeft, Calls, Entries
<1>4. CacheIsSound'
  BY <1>0 DEF CacheType, WorkType, ReplyType, CacheIsSound, NoBlob
<1>5. ReadSoFar'
  BY <1>0, <1>k DEF WorkType, ReplyType, ReadSoFar, Ended, Present
<1>6. Accounted'
  BY <1>0, <1>k, <1>c DEF CacheType, WorkType, Accounted, OwnEntries, Present, Ended
<1>7. TemporaryKeys'
  BY <1>0, <1>k DEF CacheType, WorkType, TemporaryKeys, Keys, Ended
<1>8. MissingHasCause'
  BY <1>0, <1>k, <1>c DEF ReplyType, WorkType, MissingHasCause, Accounted, Present
<1> QED BY <1>1, <1>2, <1>3, <1>4, <1>5, <1>6, <1>7, <1>8 DEF IInv

\* PutBlob keeps the inductive invariant.
LEMMA PutBlobStep == \A s \in Scans, k \in Keys : IInv /\ PutBlob(s, k) => IInv'
<1> SUFFICES ASSUME NEW s \in Scans, NEW k \in Keys, IInv, PutBlob(s, k) PROVE IInv'
  OBVIOUS
<1> USE DEF PutBlob, Goto, Leave, Fault, cache, work, reply, env, hist
<1>0. /\ CacheType /\ WorkType /\ ReplyType /\ TriesType /\ EnvType /\ OwnEntries /\ TriesLeft
      /\ CacheIsSound /\ ReadSoFar /\ Accounted /\ MissingHasCause /\ TemporaryKeys
  BY DEF IInv, TypeOK
<1>k. \A r \in Scans : /\ KeysOf(r, target[r]) \subseteq Keys
                      /\ KeysOf(r, target[r]) \cap Targets = {}
                      /\ \A x \in KeysOf(r, target[r]) : x \in Scans => x = r /\ Kind[target[r]] = "dir"
  BY <1>0, KeysOfFacts DEF WorkType
<1>a. k \in Keys => k \in KeysOf(s, target[s]) /\ Analysis(target[s], k) \in {"full", "nosecrets"}
                     /\ Analysis(target[s], k) \in Views(k)
  BY <1>0, AnalysisFacts, NamesAssumption DEF WorkType, OwnEntries, Keys
<1>c. \A r \in Scans, x \in Keys : CleanedAway(r, x) => CleanedAway(r, x)'
  BY <1>0 DEF WorkType, CleanedAway
<1>1. TypeOK'
  <2>1. CacheType'
    BY <1>0, <1>a DEF CacheType, WorkType, ImageConfig, Entries
  <2>2. WorkType'
    BY <1>0, <1>k DEF WorkType, Steps, Ended, Entries
  <2>3. ReplyType'
    BY <1>0 DEF ReplyType, CacheType, WorkType, NoBlob
  <2>4. TriesType'
    <3>1. 0 \in 0 .. MaxTries /\ k \in Calls
      BY <1>0, BoundsAssumption DEF Calls, Entries, WorkType
    <3> QED BY <1>0, <3>1 DEF TriesType
  <2>5. EnvType'
    BY <1>0, BoundsAssumption DEF EnvType
  <2> QED BY <2>1, <2>2, <2>3, <2>4, <2>5 DEF TypeOK
<1>2. OwnEntries'
  BY <1>0, <1>k DEF WorkType, OwnEntries
<1>3. TriesLeft'
  BY <1>0, BoundsAssumption DEF WorkType, TriesType, TriesLeft, Calls, Entries
<1>4. CacheIsSound'
  BY <1>0, <1>a DEF CacheType, WorkType, ReplyType, CacheIsSound, NoBlob
<1>5. ReadSoFar'
  BY <1>0, <1>k DEF WorkType, ReplyType, ReadSoFar, Ended, Present
<1>6. Accounted'
  BY <1>0, <1>k, <1>c, <1>a DEF CacheType, WorkType, Accounted, OwnEntries, Present, Ended
<1>7. TemporaryKeys'
  BY <1>0, <1>k, <1>a DEF CacheType, WorkType, TemporaryKeys, Keys, Ended
<1>8. MissingHasCause'
  BY <1>0, <1>k, <1>c DEF ReplyType, WorkType, MissingHasCause, Accounted, Present
<1> QED BY <1>1, <1>2, <1>3, <1>4, <1>5, <1>6, <1>7, <1>8 DEF IInv

\* PutArtifact keeps the inductive invariant.
LEMMA PutArtifactStep == \A s \in Scans : IInv /\ PutArtifact(s) => IInv'
<1> SUFFICES ASSUME NEW s \in Scans, IInv, PutArtifact(s) PROVE IInv'
  OBVIOUS
<1> USE DEF PutArtifact, Goto, Leave, Fault, cache, work, reply, env, hist
<1>0. /\ CacheType /\ WorkType /\ ReplyType /\ TriesType /\ EnvType /\ OwnEntries /\ TriesLeft
      /\ CacheIsSound /\ ReadSoFar /\ Accounted /\ MissingHasCause /\ TemporaryKeys
  BY DEF IInv, TypeOK
<1>k. \A r \in Scans : /\ KeysOf(r, target[r]) \subseteq Keys
                      /\ KeysOf(r, target[r]) \cap Targets = {}
                      /\ \A x \in KeysOf(r, target[r]) : x \in Scans => x = r /\ Kind[target[r]] = "dir"
  BY <1>0, KeysOfFacts DEF WorkType
<1>c. \A r \in Scans, x \in Keys : CleanedAway(r, x) => CleanedAway(r, x)'
  BY <1>0 DEF WorkType, CleanedAway
<1>1. TypeOK'
  <2>1. CacheType'
    BY <1>0 DEF CacheType, WorkType, ImageConfig, Entries
  <2>2. WorkType'
    BY <1>0, <1>k DEF WorkType, Steps, Ended, Entries
  <2>3. ReplyType'
    BY <1>0 DEF ReplyType, CacheType, WorkType, NoBlob
  <2>4. TriesType'
    <3>1. 0 \in 0 .. MaxTries /\ target[s] \in Calls
      BY <1>0, BoundsAssumption DEF Calls, Entries, WorkType
    <3> QED BY <1>0, <3>1 DEF TriesType
  <2>5. EnvType'
    BY <1>0, BoundsAssumption DEF EnvType
  <2> QED BY <2>1, <2>2, <2>3, <2>4, <2>5 DEF TypeOK
<1>2. OwnEntries'
  BY <1>0, <1>k DEF WorkType, OwnEntries
<1>3. TriesLeft'
  BY <1>0, BoundsAssumption DEF WorkType, TriesType, TriesLeft, Calls, Entries
<1>4. CacheIsSound'
  BY <1>0 DEF CacheType, WorkType, ReplyType, CacheIsSound, NoBlob
<1>5. ReadSoFar'
  BY <1>0, <1>k DEF WorkType, ReplyType, ReadSoFar, Ended, Present
<1>6. Accounted'
  BY <1>0, <1>k, <1>c DEF CacheType, WorkType, Accounted, OwnEntries, Present, Ended
<1>7. TemporaryKeys'
  BY <1>0, <1>k DEF CacheType, WorkType, TemporaryKeys, Keys, Ended
<1>8. MissingHasCause'
  BY <1>0, <1>k, <1>c DEF ReplyType, WorkType, MissingHasCause, Accounted, Present
<1> QED BY <1>1, <1>2, <1>3, <1>4, <1>5, <1>6, <1>7, <1>8 DEF IInv

\* PutUnavailable keeps the inductive invariant.
LEMMA PutUnavailableStep == \A s \in Scans, e \in Entries : IInv /\ PutUnavailable(s, e) => IInv'
<1> SUFFICES ASSUME NEW s \in Scans, NEW e \in Entries, IInv, PutUnavailable(s, e) PROVE IInv'
  OBVIOUS
<1> USE DEF PutUnavailable, Goto, Leave, Fault, cache, work, reply, env, hist
<1>0. /\ CacheType /\ WorkType /\ ReplyType /\ TriesType /\ EnvType /\ OwnEntries /\ TriesLeft
      /\ CacheIsSound /\ ReadSoFar /\ Accounted /\ MissingHasCause /\ TemporaryKeys
  BY DEF IInv, TypeOK
<1>k. \A r \in Scans : /\ KeysOf(r, target[r]) \subseteq Keys
                      /\ KeysOf(r, target[r]) \cap Targets = {}
                      /\ \A x \in KeysOf(r, target[r]) : x \in Scans => x = r /\ Kind[target[r]] = "dir"
  BY <1>0, KeysOfFacts DEF WorkType
<1>a. e \in Keys => e \in KeysOf(s, target[s]) /\ Analysis(target[s], e) \in {"full", "nosecrets"}
                     /\ Analysis(target[s], e) \in Views(e)
  BY <1>0, AnalysisFacts, NamesAssumption DEF WorkType, OwnEntries, Keys
<1>r. /\ TriesType' /\ pc' \in [Scans -> Steps]
      /\ \A r \in Scans \ {s} : pc'[r] = pc[r] /\ tries'[r] = tries[r]
      /\ pc'[s] \in {pc[s], "abort"}
      /\ pc'[s] = "abort" \/ \A d \in Calls : tries'[s][d] < MaxTries
  BY <1>0, RetryFacts DEF TriesLeft, Calls, Steps
<1>c. \A r \in Scans, x \in Keys : CleanedAway(r, x) => CleanedAway(r, x)'
  BY <1>0, <1>r DEF WorkType, CleanedAway
<1>1. TypeOK'
  <2>1. CacheType'
    BY <1>0, <1>a DEF CacheType, WorkType, ImageConfig, Entries
  <2>2. WorkType'
    BY <1>0, <1>k, <1>r DEF WorkType, Steps, Ended, Entries
  <2>3. ReplyType'
    BY <1>0 DEF ReplyType, CacheType, WorkType, NoBlob
  <2>4. TriesType'
    BY <1>0, <1>r, BoundsAssumption DEF TriesType, Calls, Entries, WorkType
  <2>5. EnvType'
    BY <1>0, BoundsAssumption DEF EnvType
  <2> QED BY <2>1, <2>2, <2>3, <2>4, <2>5 DEF TypeOK
<1>2. OwnEntries'
  <2>1. CASE e \in Keys
    BY <2>1, <1>0, <1>k DEF WorkType, OwnEntries
  <2>2. CASE ~(e \in Keys)
    BY <2>2, <1>0, <1>k DEF WorkType, OwnEntries
  <2> QED BY <2>1, <2>2
<1>3. TriesLeft'
  <2>1. CASE e \in Keys
    BY <2>1, <1>0, <1>r, BoundsAssumption DEF WorkType, TriesType, TriesLeft, Calls, Entries
  <2>2. CASE ~(e \in Keys)
    BY <2>2, <1>0, <1>r, BoundsAssumption DEF WorkType, TriesType, TriesLeft, Calls, Entries
  <2> QED BY <2>1, <2>2
<1>4. CacheIsSound'
  <2>1. CASE e \in Keys
    BY <2>1, <1>0, <1>a DEF CacheType, WorkType, ReplyType, CacheIsSound, NoBlob
  <2>2. CASE ~(e \in Keys)
    BY <2>2, <1>0, <1>a DEF CacheType, WorkType, ReplyType, CacheIsSound, NoBlob
  <2> QED BY <2>1, <2>2
<1>5. ReadSoFar'
  BY <1>0, <1>r DEF WorkType, ReadSoFar, Ended
<1>6. Accounted'
  <2>1. CASE e \in Keys
    BY <2>1, <1>0, <1>k, <1>c, <1>a, <1>r DEF CacheType, WorkType, Accounted, OwnEntries, Present, Ended
  <2>2. CASE ~(e \in Keys)
    BY <2>2, <1>0, <1>k, <1>c, <1>a, <1>r DEF CacheType, WorkType, Accounted, OwnEntries, Present, Ended
  <2> QED BY <2>1, <2>2
<1>7. TemporaryKeys'
  <2>1. CASE e \in Keys
    BY <2>1, <1>0, <1>k, <1>a, <1>r DEF CacheType, WorkType, TemporaryKeys, Keys, Ended
  <2>2. CASE ~(e \in Keys)
    BY <2>2, <1>0, <1>k, <1>a, <1>r DEF CacheType, WorkType, TemporaryKeys, Keys, Ended
  <2> QED BY <2>1, <2>2
<1>8. MissingHasCause'
  <2>1. CASE e \in Keys
    BY <2>1, <1>0, <1>k, <1>c DEF ReplyType, WorkType, MissingHasCause, Accounted, Present
  <2>2. CASE ~(e \in Keys)
    BY <2>2, <1>0, <1>k, <1>c DEF ReplyType, WorkType, MissingHasCause, Accounted, Present
  <2> QED BY <2>1, <2>2
<1> QED BY <1>1, <1>2, <1>3, <1>4, <1>5, <1>6, <1>7, <1>8 DEF IInv

\* InspectFail keeps the inductive invariant.
LEMMA InspectFailStep == \A s \in Scans : IInv /\ InspectFail(s) => IInv'
<1> SUFFICES ASSUME NEW s \in Scans, IInv, InspectFail(s) PROVE IInv'
  OBVIOUS
<1> USE DEF InspectFail, Goto, Leave, Fault, cache, work, reply, env, hist
<1>0. /\ CacheType /\ WorkType /\ ReplyType /\ TriesType /\ EnvType /\ OwnEntries /\ TriesLeft
      /\ CacheIsSound /\ ReadSoFar /\ Accounted /\ MissingHasCause /\ TemporaryKeys
  BY DEF IInv, TypeOK
<1>k. \A r \in Scans : /\ KeysOf(r, target[r]) \subseteq Keys
                      /\ KeysOf(r, target[r]) \cap Targets = {}
                      /\ \A x \in KeysOf(r, target[r]) : x \in Scans => x = r /\ Kind[target[r]] = "dir"
  BY <1>0, KeysOfFacts DEF WorkType
<1>c. \A r \in Scans, x \in Keys : CleanedAway(r, x) => CleanedAway(r, x)'
  BY <1>0 DEF WorkType, CleanedAway
<1>1. TypeOK'
  <2>1. CacheType'
    BY <1>0 DEF CacheType, WorkType, ImageConfig, Entries
  <2>2. WorkType'
    BY <1>0, <1>k DEF WorkType, Steps, Ended, Entries
  <2>3. ReplyType'
    BY <1>0 DEF ReplyType, CacheType, WorkType, NoBlob
  <2>4. TriesType'
    BY <1>0, BoundsAssumption DEF TriesType, Calls, Entries, WorkType
  <2>5. EnvType'
    BY <1>0, BoundsAssumption DEF EnvType
  <2> QED BY <2>1, <2>2, <2>3, <2>4, <2>5 DEF TypeOK
<1>2. OwnEntries'
  BY <1>0, <1>k DEF WorkType, OwnEntries
<1>3. TriesLeft'
  BY <1>0, BoundsAssumption DEF WorkType, TriesType, TriesLeft, Calls, Entries
<1>4. CacheIsSound'
  BY <1>0 DEF CacheType, WorkType, ReplyType, CacheIsSound, NoBlob
<1>5. ReadSoFar'
  BY <1>0, <1>k DEF WorkType, ReplyType, ReadSoFar, Ended, Present
<1>6. Accounted'
  BY <1>0, <1>k, <1>c DEF CacheType, WorkType, Accounted, OwnEntries, Present, Ended
<1>7. TemporaryKeys'
  BY <1>0, <1>k DEF CacheType, WorkType, TemporaryKeys, Keys, Ended
<1>8. MissingHasCause'
  BY <1>0, <1>k, <1>c DEF ReplyType, WorkType, MissingHasCause, Accounted, Present
<1> QED BY <1>1, <1>2, <1>3, <1>4, <1>5, <1>6, <1>7, <1>8 DEF IInv

\* Fallback keeps the inductive invariant.
LEMMA FallbackStep == \A s \in Scans : IInv /\ Fallback(s) => IInv'
<1> SUFFICES ASSUME NEW s \in Scans, IInv, Fallback(s) PROVE IInv'
  OBVIOUS
<1> USE DEF Fallback, Enter, Goto, cache, reply, env, hist
<1> DEFINE t == Otherwise[target[s]]
<1>0. /\ CacheType /\ WorkType /\ ReplyType /\ TriesType /\ EnvType /\ OwnEntries /\ TriesLeft
      /\ CacheIsSound /\ ReadSoFar /\ Accounted /\ MissingHasCause /\ TemporaryKeys
  BY DEF IInv, TypeOK
<1>t. t \in Targets /\ KeysOf(s, t) \subseteq Entries
  BY <1>0, KeysOfFacts, TargetsAssumption DEF WorkType, Entries
<1> HIDE DEF t
<1>s. /\ target'[s] = t /\ found'[s] = "none" /\ tries'[s] = [c \in Calls |-> 0]
      /\ \/ unread'[s] = {} /\ todo'[s] = KeysOf(s, t) /\ pc'[s] = "inspect"
         \/ /\ unread'[s] = KeysOf(s, t) \cup {t} \/ unread'[s] = KeysOf(s, t)
            /\ todo'[s] = {} /\ pc'[s] = "query"
  BY <1>0 DEF WorkType, TriesType, t
<1>r. \A r \in Scans \ {s} : /\ target'[r] = target[r] /\ unread'[r] = unread[r]
                             /\ todo'[r] = todo[r] /\ pc'[r] = pc[r] /\ tries'[r] = tries[r]
  BY <1>0 DEF WorkType, TriesType
<1>o. outcome[s] = "none" /\ s \notin cleaned
  BY <1>0 DEF ReadSoFar, ReplyType, Ended
<1>c. \A r \in Scans \ {s}, x \in Keys : CleanedAway(r, x) => CleanedAway(r, x)'
  BY <1>0, <1>r, <1>o DEF EnvType, CleanedAway
<1>1. TypeOK'
  <2>1. CacheType' /\ ReplyType' /\ EnvType'
    BY <1>0 DEF CacheType, ReplyType, EnvType
  <2>2. WorkType'
    BY <1>0, <1>t DEF WorkType, Steps, Entries, t
  <2>3. TriesType'
    BY <1>0, BoundsAssumption DEF TriesType
  <2> QED BY <2>1, <2>2, <2>3 DEF TypeOK
<1>2. OwnEntries'
  BY <1>0, <1>s, <1>r DEF OwnEntries
<1>3. TriesLeft'
  BY <1>0, <1>s, <1>r, BoundsAssumption DEF TriesLeft
<1>4. CacheIsSound'
  BY <1>0 DEF CacheIsSound
<1>5. ReadSoFar'
  BY <1>0, <1>s, <1>r, <1>o DEF ReadSoFar
<1>6. Accounted'
  <2> SUFFICES ASSUME NEW r \in Scans, pc'[r] \in {"query", "inspect", "scan"},
                      NEW x \in KeysOf(r, target'[r])
               PROVE  \/ blobs'[x] # "none" \/ x \in evicted' \/ CleanedAway(r, x)'
                      \/ x \in todo'[r] /\ pc'[r] # "scan"
                      \/ x \in unread'[r] /\ pc'[r] = "query"
    BY DEF Accounted
  <2>1. CASE r = s
    BY <2>1, <1>s
  <2>2. CASE r # s
    <3>1. x \in Keys
      BY <1>0, <1>r, <2>2, KeysOfFacts DEF WorkType
    <3> QED BY <1>0, <1>r, <1>c, <2>2, <3>1 DEF Accounted
  <2> QED BY <2>1, <2>2
<1>7. TemporaryKeys'
  BY <1>0, <1>s, <1>r DEF TemporaryKeys
<1>8. MissingHasCause'
  <2> SUFFICES ASSUME NEW r \in Scans, outcome[r] = "error"
               PROVE  \E k \in KeysOf(r, target'[r]) :
                          k \in evicted \/ <<r, k>> \in misread \/ CleanedAway(r, k)'
    BY DEF MissingHasCause
  <2>1. r # s
    BY <1>o
  <2>2. PICK k \in KeysOf(r, target[r]) : k \in evicted \/ <<r, k>> \in misread \/ CleanedAway(r, k)
    BY <1>0 DEF MissingHasCause
  <2>3. k \in Keys
    BY <1>0, KeysOfFacts DEF WorkType
  <2> QED BY <1>r, <1>c, <2>1, <2>2, <2>3
<1> QED BY <1>1, <1>2, <1>3, <1>4, <1>5, <1>6, <1>7, <1>8 DEF IInv

\* Abort keeps the inductive invariant.
LEMMA AbortStep == \A s \in Scans : IInv /\ Abort(s) => IInv'
<1> SUFFICES ASSUME NEW s \in Scans, IInv, Abort(s) PROVE IInv'
  OBVIOUS
<1> USE DEF Abort, Goto, Leave, Fault, cache, work, reply, env, hist
<1>0. /\ CacheType /\ WorkType /\ ReplyType /\ TriesType /\ EnvType /\ OwnEntries /\ TriesLeft
      /\ CacheIsSound /\ ReadSoFar /\ Accounted /\ MissingHasCause /\ TemporaryKeys
  BY DEF IInv, TypeOK
<1>k. \A r \in Scans : /\ KeysOf(r, target[r]) \subseteq Keys
                      /\ KeysOf(r, target[r]) \cap Targets = {}
                      /\ \A x \in KeysOf(r, target[r]) : x \in Scans => x = r /\ Kind[target[r]] = "dir"
  BY <1>0, KeysOfFacts DEF WorkType
<1>c. \A r \in Scans, x \in Keys : CleanedAway(r, x) => CleanedAway(r, x)'
  BY <1>0 DEF WorkType, CleanedAway
<1>1. TypeOK'
  <2>1. CacheType'
    BY <1>0 DEF CacheType, WorkType, ImageConfig, Entries
  <2>2. WorkType'
    BY <1>0, <1>k DEF WorkType, Steps, Ended, Entries
  <2>3. ReplyType'
    BY <1>0 DEF ReplyType, CacheType, WorkType, NoBlob
  <2>4. TriesType'
    BY <1>0, BoundsAssumption DEF TriesType, Calls, Entries, WorkType
  <2>5. EnvType'
    BY <1>0, BoundsAssumption DEF EnvType
  <2> QED BY <2>1, <2>2, <2>3, <2>4, <2>5 DEF TypeOK
<1>2. OwnEntries'
  BY <1>0, <1>k DEF WorkType, OwnEntries
<1>3. TriesLeft'
  BY <1>0, BoundsAssumption DEF WorkType, TriesType, TriesLeft, Calls, Entries
<1>4. CacheIsSound'
  BY <1>0 DEF CacheType, WorkType, ReplyType, CacheIsSound, NoBlob
<1>5. ReadSoFar'
  BY <1>0, <1>k DEF WorkType, ReplyType, ReadSoFar, Ended, Present
<1>6. Accounted'
  BY <1>0, <1>k, <1>c DEF CacheType, WorkType, Accounted, OwnEntries, Present, Ended
<1>7. TemporaryKeys'
  BY <1>0, <1>k DEF CacheType, WorkType, TemporaryKeys, Keys, Ended
<1>8. MissingHasCause'
  BY <1>0, <1>k, <1>c DEF ReplyType, WorkType, MissingHasCause, Accounted, Present
<1> QED BY <1>1, <1>2, <1>3, <1>4, <1>5, <1>6, <1>7, <1>8 DEF IInv

\* InspectDone keeps the inductive invariant.
LEMMA InspectDoneStep == \A s \in Scans : IInv /\ InspectDone(s) => IInv'
<1> SUFFICES ASSUME NEW s \in Scans, IInv, InspectDone(s) PROVE IInv'
  OBVIOUS
<1> USE DEF InspectDone, Goto, Leave, Fault, cache, work, reply, env, hist
<1>0. /\ CacheType /\ WorkType /\ ReplyType /\ TriesType /\ EnvType /\ OwnEntries /\ TriesLeft
      /\ CacheIsSound /\ ReadSoFar /\ Accounted /\ MissingHasCause /\ TemporaryKeys
  BY DEF IInv, TypeOK
<1>k. \A r \in Scans : /\ KeysOf(r, target[r]) \subseteq Keys
                      /\ KeysOf(r, target[r]) \cap Targets = {}
                      /\ \A x \in KeysOf(r, target[r]) : x \in Scans => x = r /\ Kind[target[r]] = "dir"
  BY <1>0, KeysOfFacts DEF WorkType
<1>c. \A r \in Scans, x \in Keys : CleanedAway(r, x) => CleanedAway(r, x)'
  BY <1>0 DEF WorkType, CleanedAway
<1>1. TypeOK'
  <2>1. CacheType'
    BY <1>0 DEF CacheType, WorkType, ImageConfig, Entries
  <2>2. WorkType'
    BY <1>0, <1>k DEF WorkType, Steps, Ended, Entries
  <2>3. ReplyType'
    BY <1>0 DEF ReplyType, CacheType, WorkType, NoBlob
  <2>4. TriesType'
    BY <1>0, BoundsAssumption DEF TriesType, Calls, Entries, WorkType
  <2>5. EnvType'
    BY <1>0, BoundsAssumption DEF EnvType
  <2> QED BY <2>1, <2>2, <2>3, <2>4, <2>5 DEF TypeOK
<1>2. OwnEntries'
  BY <1>0, <1>k DEF WorkType, OwnEntries
<1>3. TriesLeft'
  BY <1>0, BoundsAssumption DEF WorkType, TriesType, TriesLeft, Calls, Entries
<1>4. CacheIsSound'
  BY <1>0 DEF CacheType, WorkType, ReplyType, CacheIsSound, NoBlob
<1>5. ReadSoFar'
  BY <1>0, <1>k DEF WorkType, ReplyType, ReadSoFar, Ended, Present
<1>6. Accounted'
  BY <1>0, <1>k, <1>c DEF CacheType, WorkType, Accounted, OwnEntries, Present, Ended
<1>7. TemporaryKeys'
  BY <1>0, <1>k DEF CacheType, WorkType, TemporaryKeys, Keys, Ended
<1>8. MissingHasCause'
  BY <1>0, <1>k, <1>c DEF ReplyType, WorkType, MissingHasCause, Accounted, Present
<1> QED BY <1>1, <1>2, <1>3, <1>4, <1>5, <1>6, <1>7, <1>8 DEF IInv

\* GetBlob keeps the inductive invariant.
LEMMA GetBlobStep == \A s \in Scans, k \in Keys : IInv /\ GetBlob(s, k) => IInv'
<1> SUFFICES ASSUME NEW s \in Scans, NEW k \in Keys, IInv, GetBlob(s, k) PROVE IInv'
  OBVIOUS
<1> USE DEF GetBlob, Goto, Leave, Fault, cache, work, reply, env, hist
<1>0. /\ CacheType /\ WorkType /\ ReplyType /\ TriesType /\ EnvType /\ OwnEntries /\ TriesLeft
      /\ CacheIsSound /\ ReadSoFar /\ Accounted /\ MissingHasCause /\ TemporaryKeys
  BY DEF IInv, TypeOK
<1>k. \A r \in Scans : /\ KeysOf(r, target[r]) \subseteq Keys
                      /\ KeysOf(r, target[r]) \cap Targets = {}
                      /\ \A x \in KeysOf(r, target[r]) : x \in Scans => x = r /\ Kind[target[r]] = "dir"
  BY <1>0, KeysOfFacts DEF WorkType
<1>c. \A r \in Scans, x \in Keys : CleanedAway(r, x) => CleanedAway(r, x)'
  BY <1>0 DEF WorkType, CleanedAway
<1>1. TypeOK'
  <2>1. CacheType'
    BY <1>0 DEF CacheType, WorkType, ImageConfig, Entries
  <2>2. WorkType'
    BY <1>0, <1>k DEF WorkType, Steps, Ended, Entries
  <2>3. ReplyType'
    <3>1. CASE Present(k)
      <4>1. blobs[k] \in {"none", "full", "nosecrets"}
        BY <1>0 DEF CacheType
      <4>2. got' = [got EXCEPT ![s][k] = blobs[k]] /\ UNCHANGED <<config, outcome>>
        BY <3>1
      <4> QED BY <1>0, <4>1, <4>2 DEF ReplyType
    <3>2. CASE ~Present(k)
      BY <1>0, <3>2 DEF ReplyType
    <3> QED BY <3>1, <3>2
  <2>4. TriesType'
    BY <1>0, BoundsAssumption DEF TriesType, Calls, Entries, WorkType
  <2>5. EnvType'
    BY <1>0, BoundsAssumption DEF EnvType
  <2> QED BY <2>1, <2>2, <2>3, <2>4, <2>5 DEF TypeOK
<1>2. OwnEntries'
  <2>1. CASE Present(k)
    BY <2>1, <1>0, <1>k DEF WorkType, OwnEntries
  <2>2. CASE ~(Present(k))
    BY <2>2, <1>0, <1>k DEF WorkType, OwnEntries
  <2> QED BY <2>1, <2>2
<1>3. TriesLeft'
  <2>1. CASE Present(k)
    BY <2>1, <1>0, BoundsAssumption DEF WorkType, TriesType, TriesLeft, Calls, Entries
  <2>2. CASE ~(Present(k))
    BY <2>2, <1>0, BoundsAssumption DEF WorkType, TriesType, TriesLeft, Calls, Entries
  <2> QED BY <2>1, <2>2
<1>4. CacheIsSound'
  <2>1. CASE Present(k)
    BY <2>1, <1>0 DEF CacheType, WorkType, ReplyType, CacheIsSound, NoBlob
  <2>2. CASE ~(Present(k))
    BY <2>2, <1>0 DEF CacheType, WorkType, ReplyType, CacheIsSound, NoBlob
  <2> QED BY <2>1, <2>2
<1>5. ReadSoFar'
  <2>1. CASE Present(k)
    <3>1. got'[s][k] # "none" /\ \A r \in Scans, x \in Keys : <<r, x>> # <<s, k>> => got'[r][x] = got[r][x]
      BY <1>0, <2>1 DEF ReplyType, Present
    <3>2. unread'[s] = unread[s] \ {k} /\ \A r \in Scans \ {s} : unread'[r] = unread[r]
      BY <1>0, <2>1 DEF WorkType
    <3> QED BY <1>0, <1>k, <2>1, <3>1, <3>2 DEF ReadSoFar
  <2>2. CASE ~Present(k)
    BY <1>0, <1>k, <2>2 DEF WorkType, ReplyType, ReadSoFar, Ended
  <2> QED BY <2>1, <2>2
<1>6. Accounted'
  <2>1. CASE Present(k)
    BY <2>1, <1>0, <1>k, <1>c DEF CacheType, WorkType, Accounted, OwnEntries, Present, Ended
  <2>2. CASE ~(Present(k))
    BY <2>2, <1>0, <1>k, <1>c DEF CacheType, WorkType, Accounted, OwnEntries, Present, Ended
  <2> QED BY <2>1, <2>2
<1>7. TemporaryKeys'
  <2>1. CASE Present(k)
    BY <2>1, <1>0, <1>k DEF CacheType, WorkType, TemporaryKeys, Keys, Ended
  <2>2. CASE ~(Present(k))
    BY <2>2, <1>0, <1>k DEF CacheType, WorkType, TemporaryKeys, Keys, Ended
  <2> QED BY <2>1, <2>2
<1>8. MissingHasCause'
  <2>1. CASE Present(k)
    BY <2>1, <1>0, <1>k, <1>c DEF ReplyType, WorkType, MissingHasCause, Accounted, Present
  <2>2. CASE ~Present(k)
    <3>1. k \in KeysOf(s, target[s])
      BY <1>0, NamesAssumption DEF OwnEntries, WorkType, Keys
    <3>2. k \in evicted \/ CleanedAway(s, k)
      BY <1>0, <2>2, <3>1 DEF Accounted, Present
    <3>3. outcome' = [outcome EXCEPT ![s] = "error"] /\ UNCHANGED <<target, evicted>>
      BY <2>2
    <3>4. \A r \in Scans \ {s} : outcome'[r] = outcome[r]
      BY <1>0, <3>3 DEF ReplyType
    <3> QED BY <1>0, <1>k, <1>c, <3>1, <3>2, <3>3, <3>4 DEF MissingHasCause
  <2> QED BY <2>1, <2>2
<1> QED BY <1>1, <1>2, <1>3, <1>4, <1>5, <1>6, <1>7, <1>8 DEF IInv

\* GetBlobError keeps the inductive invariant.
LEMMA GetBlobErrorStep == \A s \in Scans, k \in Keys : IInv /\ GetBlobError(s, k) => IInv'
<1> SUFFICES ASSUME NEW s \in Scans, NEW k \in Keys, IInv, GetBlobError(s, k) PROVE IInv'
  OBVIOUS
<1> USE DEF GetBlobError, Goto, Leave, Fault, cache, work, reply, env, hist
<1>0. /\ CacheType /\ WorkType /\ ReplyType /\ TriesType /\ EnvType /\ OwnEntries /\ TriesLeft
      /\ CacheIsSound /\ ReadSoFar /\ Accounted /\ MissingHasCause /\ TemporaryKeys
  BY DEF IInv, TypeOK
<1>k. \A r \in Scans : /\ KeysOf(r, target[r]) \subseteq Keys
                      /\ KeysOf(r, target[r]) \cap Targets = {}
                      /\ \A x \in KeysOf(r, target[r]) : x \in Scans => x = r /\ Kind[target[r]] = "dir"
  BY <1>0, KeysOfFacts DEF WorkType
<1>c. \A r \in Scans, x \in Keys : CleanedAway(r, x) => CleanedAway(r, x)'
  BY <1>0 DEF WorkType, CleanedAway
<1>1. TypeOK'
  <2>1. CacheType'
    BY <1>0 DEF CacheType, WorkType, ImageConfig, Entries
  <2>2. WorkType'
    BY <1>0, <1>k DEF WorkType, Steps, Ended, Entries
  <2>3. ReplyType'
    BY <1>0 DEF ReplyType, CacheType, WorkType, NoBlob
  <2>4. TriesType'
    BY <1>0, BoundsAssumption DEF TriesType, Calls, Entries, WorkType
  <2>5. EnvType'
    BY <1>0, BoundsAssumption DEF EnvType
  <2> QED BY <2>1, <2>2, <2>3, <2>4, <2>5 DEF TypeOK
<1>2. OwnEntries'
  BY <1>0, <1>k DEF WorkType, OwnEntries
<1>3. TriesLeft'
  BY <1>0, BoundsAssumption DEF WorkType, TriesType, TriesLeft, Calls, Entries
<1>4. CacheIsSound'
  BY <1>0 DEF CacheType, WorkType, ReplyType, CacheIsSound, NoBlob
<1>5. ReadSoFar'
  BY <1>0, <1>k DEF WorkType, ReplyType, ReadSoFar, Ended, Present
<1>6. Accounted'
  BY <1>0, <1>k, <1>c DEF CacheType, WorkType, Accounted, OwnEntries, Present, Ended
<1>7. TemporaryKeys'
  BY <1>0, <1>k DEF CacheType, WorkType, TemporaryKeys, Keys, Ended
<1>8. MissingHasCause'
  <2>1. k \in KeysOf(s, target[s])
    BY <1>0, NamesAssumption DEF OwnEntries, WorkType, Keys
  <2>2. \A r \in Scans \ {s} : outcome'[r] = outcome[r]
    BY <1>0 DEF ReplyType
  <2>3. misread \subseteq misread' /\ <<s, k>> \in misread' /\ UNCHANGED <<target, evicted>>
    OBVIOUS
  <2> QED BY <1>0, <1>k, <1>c, <2>1, <2>2, <2>3 DEF MissingHasCause
<1> QED BY <1>1, <1>2, <1>3, <1>4, <1>5, <1>6, <1>7, <1>8 DEF IInv

\* GetArtifact keeps the inductive invariant.
LEMMA GetArtifactStep == \A s \in Scans : IInv /\ GetArtifact(s) => IInv'
<1> SUFFICES ASSUME NEW s \in Scans, IInv, GetArtifact(s) PROVE IInv'
  OBVIOUS
<1> USE DEF GetArtifact, Goto, Leave, Fault, cache, work, reply, env, hist
<1>0. /\ CacheType /\ WorkType /\ ReplyType /\ TriesType /\ EnvType /\ OwnEntries /\ TriesLeft
      /\ CacheIsSound /\ ReadSoFar /\ Accounted /\ MissingHasCause /\ TemporaryKeys
  BY DEF IInv, TypeOK
<1>k. \A r \in Scans : /\ KeysOf(r, target[r]) \subseteq Keys
                      /\ KeysOf(r, target[r]) \cap Targets = {}
                      /\ \A x \in KeysOf(r, target[r]) : x \in Scans => x = r /\ Kind[target[r]] = "dir"
  BY <1>0, KeysOfFacts DEF WorkType
<1>c. \A r \in Scans, x \in Keys : CleanedAway(r, x) => CleanedAway(r, x)'
  BY <1>0 DEF WorkType, CleanedAway
<1>1. TypeOK'
  <2>1. CacheType'
    BY <1>0 DEF CacheType, WorkType, ImageConfig, Entries
  <2>2. WorkType'
    BY <1>0, <1>k DEF WorkType, Steps, Ended, Entries
  <2>3. ReplyType'
    BY <1>0 DEF ReplyType, CacheType, WorkType, NoBlob
  <2>4. TriesType'
    BY <1>0, BoundsAssumption DEF TriesType, Calls, Entries, WorkType
  <2>5. EnvType'
    BY <1>0, BoundsAssumption DEF EnvType
  <2> QED BY <2>1, <2>2, <2>3, <2>4, <2>5 DEF TypeOK
<1>2. OwnEntries'
  BY <1>0, <1>k DEF WorkType, OwnEntries
<1>3. TriesLeft'
  BY <1>0, BoundsAssumption DEF WorkType, TriesType, TriesLeft, Calls, Entries
<1>4. CacheIsSound'
  BY <1>0 DEF CacheType, WorkType, ReplyType, CacheIsSound, NoBlob
<1>5. ReadSoFar'
  BY <1>0, <1>k DEF WorkType, ReplyType, ReadSoFar, Ended, Present
<1>6. Accounted'
  BY <1>0, <1>k, <1>c DEF CacheType, WorkType, Accounted, OwnEntries, Present, Ended
<1>7. TemporaryKeys'
  BY <1>0, <1>k DEF CacheType, WorkType, TemporaryKeys, Keys, Ended
<1>8. MissingHasCause'
  BY <1>0, <1>k, <1>c DEF ReplyType, WorkType, MissingHasCause, Accounted, Present
<1> QED BY <1>1, <1>2, <1>3, <1>4, <1>5, <1>6, <1>7, <1>8 DEF IInv

\* ScanUnavailable keeps the inductive invariant.
LEMMA ScanUnavailableStep == \A s \in Scans : IInv /\ ScanUnavailable(s) => IInv'
<1> SUFFICES ASSUME NEW s \in Scans, IInv, ScanUnavailable(s) PROVE IInv'
  OBVIOUS
<1> USE DEF ScanUnavailable, Goto, Leave, Fault, cache, work, reply, env, hist
<1>0. /\ CacheType /\ WorkType /\ ReplyType /\ TriesType /\ EnvType /\ OwnEntries /\ TriesLeft
      /\ CacheIsSound /\ ReadSoFar /\ Accounted /\ MissingHasCause /\ TemporaryKeys
  BY DEF IInv, TypeOK
<1>k. \A r \in Scans : /\ KeysOf(r, target[r]) \subseteq Keys
                      /\ KeysOf(r, target[r]) \cap Targets = {}
                      /\ \A x \in KeysOf(r, target[r]) : x \in Scans => x = r /\ Kind[target[r]] = "dir"
  BY <1>0, KeysOfFacts DEF WorkType
<1>r. /\ TriesType' /\ pc' \in [Scans -> Steps]
      /\ \A r \in Scans \ {s} : pc'[r] = pc[r] /\ tries'[r] = tries[r]
      /\ pc'[s] \in {pc[s], "clean"}
      /\ pc'[s] = "clean" \/ \A d \in Calls : tries'[s][d] < MaxTries
  BY <1>0, RetryFacts DEF TriesLeft, Calls, Steps
<1>c. \A r \in Scans, x \in Keys : CleanedAway(r, x) => CleanedAway(r, x)'
  BY <1>0, <1>r DEF WorkType, CleanedAway
<1>1. TypeOK'
  <2>1. CacheType'
    BY <1>0 DEF CacheType, WorkType, ImageConfig, Entries
  <2>2. WorkType'
    BY <1>0, <1>k, <1>r DEF WorkType, Steps, Ended, Entries
  <2>3. ReplyType'
    BY <1>0 DEF ReplyType, CacheType, WorkType, NoBlob
  <2>4. TriesType'
    BY <1>0, <1>r, BoundsAssumption DEF TriesType, Calls, Entries, WorkType
  <2>5. EnvType'
    BY <1>0, BoundsAssumption DEF EnvType
  <2> QED BY <2>1, <2>2, <2>3, <2>4, <2>5 DEF TypeOK
<1>2. OwnEntries'
  BY <1>0, <1>k DEF WorkType, OwnEntries
<1>3. TriesLeft'
  <2>1. tries'[s]["delete"] < MaxTries
    BY <1>0, RetryOne DEF TriesLeft, Calls, Steps
  <2> QED BY <1>0, <1>r, <2>1 DEF WorkType, TriesLeft
<1>4. CacheIsSound'
  BY <1>0 DEF CacheType, WorkType, ReplyType, CacheIsSound, NoBlob
<1>5. ReadSoFar'
  <2>1. outcome[s] = "none" /\ s \notin cleaned
    BY <1>0 DEF ReadSoFar, ReplyType, Ended
  <2>2. \/ outcome'[s] = "unavailable" /\ pc'[s] = "clean"
        \/ outcome'[s] = "none" /\ pc'[s] = "scan"
    <3>1. CASE tries[s]["scan"] + 1 = MaxTries
      <4>1. outcome' = [outcome EXCEPT ![s] = "unavailable"] /\ pc' = [pc EXCEPT ![s] = "clean"]
        BY <3>1 DEF Retry
      <4>2. outcome'[s] = "unavailable"
        BY <1>0, <4>1 DEF ReplyType
      <4>3. pc'[s] = "clean"
        BY <1>0, <4>1 DEF WorkType
      <4> QED BY <4>2, <4>3
    <3>2. CASE tries[s]["scan"] + 1 # MaxTries
      BY <1>0, <2>1, <3>2 DEF Retry, ReplyType, WorkType
    <3> QED BY <3>1, <3>2
  <2>3. \A r \in Scans \ {s} : outcome'[r] = outcome[r] /\ got'[r] = got[r] /\ unread'[r] = unread[r]
    BY <1>0 DEF ReplyType, WorkType
  <2>4. unread'[s] = KeysOf(s, target[s]) \cup {target[s]}
    BY <1>0 DEF WorkType
  <2> QED BY <1>0, <1>r, <2>1, <2>2, <2>3, <2>4 DEF ReadSoFar
<1>6. Accounted'
  BY <1>0, <1>k, <1>c, <1>r DEF CacheType, WorkType, Accounted, OwnEntries, Present, Ended
<1>7. TemporaryKeys'
  BY <1>0, <1>k, <1>r DEF CacheType, WorkType, TemporaryKeys, Keys, Ended
<1>8. MissingHasCause'
  BY <1>0, <1>k, <1>c DEF ReplyType, WorkType, MissingHasCause, Accounted, Present
<1> QED BY <1>1, <1>2, <1>3, <1>4, <1>5, <1>6, <1>7, <1>8 DEF IInv

\* What the steps at the end of a scan have in common: the blobs are deleted or not,
\* and a scan that misses one of them is of the same file or SBOM.
LEMMA CleanFacts ==
  ASSUME IInv, NEW s \in Scans, pc[s] = "clean",
         UNCHANGED <<artifacts, target, got, config, outcome, evicted, misread>>,
         (Transient(target[s]) /\ Delete(s)) \/ UNCHANGED <<blobs, cleaned>>,
         pc'[s] \in {"clean"} \cup Ended,
         \A r \in Scans \ {s} : pc'[r] = pc[r] /\ unread'[r] = unread[r] /\ todo'[r] = todo[r]
  PROVE  /\ CacheType' /\ CacheIsSound' /\ ReadSoFar' /\ Accounted' /\ MissingHasCause'
         /\ cleaned' \subseteq Scans /\ \A r \in Scans : blobs'[r] # "none" => blobs[r] # "none"
<1>0. /\ CacheType /\ WorkType /\ ReplyType /\ EnvType
      /\ CacheIsSound /\ ReadSoFar /\ Accounted /\ MissingHasCause
  BY DEF IInv, TypeOK
<1>1. /\ \A k \in Keys : blobs'[k] \in {blobs[k], "none"}
      /\ CacheType'
      /\ cleaned \subseteq cleaned' /\ cleaned' \subseteq cleaned \cup {s}
  BY <1>0 DEF Delete, CacheType
<1>2. \A r \in Scans, x \in Keys : CleanedAway(r, x) => CleanedAway(r, x)'
  BY <1>1 DEF CleanedAway
<1>3. CacheIsSound'
  BY <1>0, <1>1 DEF CacheIsSound, CacheType
<1>4. ReadSoFar'
  BY <1>0, <1>1 DEF ReadSoFar, Ended
<1>5. Accounted'
  <2> SUFFICES ASSUME NEW r \in Scans, pc'[r] \in {"query", "inspect", "scan"},
                      NEW x \in KeysOf(r, target[r])
               PROVE  \/ blobs'[x] # "none" \/ x \in evicted \/ CleanedAway(r, x)'
                      \/ x \in todo'[r] /\ pc'[r] # "scan"
                      \/ x \in unread'[r] /\ pc'[r] = "query"
    BY DEF Accounted
  <2>1. r # s /\ pc'[r] = pc[r] /\ todo'[r] = todo[r] /\ unread'[r] = unread[r]
    BY DEF Ended
  <2>2. x \in Keys
    BY <1>0, KeysOfFacts DEF WorkType
  <2>3. CASE blobs'[x] = blobs[x]
    BY <1>0, <1>2, <2>1, <2>2, <2>3 DEF Accounted
  <2>4. CASE blobs'[x] # blobs[x]
    <3>1. Transient(target[s]) /\ Delete(s)
      BY <2>4
    <3>2. x \in KeysOf(s, target[s])
      BY <1>0, <2>2, <2>4, <3>1 DEF Delete, CacheType
    <3>3. Kind[target[r]] \in {"file", "attested"}
      BY <1>0, <2>1, <3>1, <3>2, TransientKeysArePrivate DEF WorkType
    <3>4. Kind[target[s]] # "dir"
      <4> SUFFICES ASSUME Kind[target[s]] = "dir" PROVE FALSE
        OBVIOUS
      <4>1. x = s
        BY <3>2 DEF KeysOf
      <4> QED BY <1>0, <2>1, <4>1, KeysOfFacts DEF WorkType
    <3>5. Kind[target[s]] = "file" /\ s \in cleaned'
      BY <3>1, <3>4 DEF Transient, Delete
    <3> QED BY <2>1, <3>2, <3>3, <3>5 DEF CleanedAway
  <2> QED BY <2>3, <2>4
<1>6. MissingHasCause'
  BY <1>0, <1>2, KeysOfFacts DEF MissingHasCause, WorkType
<1>7. cleaned' \subseteq Scans /\ \A r \in Scans : blobs'[r] # "none" => blobs[r] # "none"
  BY <1>0, <1>1 DEF EnvType, Keys
<1> QED BY <1>1, <1>3, <1>4, <1>5, <1>6, <1>7

\* Clean keeps the inductive invariant.
LEMMA CleanStep == \A s \in Scans : IInv /\ Clean(s) => IInv'
<1> SUFFICES ASSUME NEW s \in Scans, IInv, Clean(s) PROVE IInv'
  OBVIOUS
<1> USE DEF Clean, Leave, Goto, Fault, reply
<1>0. /\ CacheType /\ WorkType /\ ReplyType /\ TriesType /\ EnvType /\ OwnEntries /\ TriesLeft
      /\ CacheIsSound /\ ReadSoFar /\ Accounted /\ MissingHasCause /\ TemporaryKeys
  BY DEF IInv, TypeOK
<1>1. /\ UNCHANGED <<artifacts, target, got, config, outcome, evicted, misread>>
      /\ (Transient(target[s]) /\ Delete(s)) \/ UNCHANGED <<blobs, cleaned>>
      /\ pc'[s] \in {"clean"} \cup Ended
      /\ \A r \in Scans \ {s} : pc'[r] = pc[r] /\ unread'[r] = unread[r] /\ todo'[r] = todo[r]
  BY <1>0 DEF WorkType, Ended
<1>2. /\ CacheType' /\ CacheIsSound' /\ ReadSoFar' /\ Accounted' /\ MissingHasCause'
      /\ cleaned' \subseteq Scans /\ \A r \in Scans : blobs'[r] # "none" => blobs[r] # "none"
  BY <1>1, CleanFacts
<1>3. WorkType' /\ TriesType'
  BY <1>0, BoundsAssumption DEF WorkType, TriesType, Steps, Ended
<1>4. ReplyType' /\ EnvType'
  BY <1>0, <1>1, <1>2, BoundsAssumption DEF ReplyType, EnvType
<1>5. OwnEntries' /\ TriesLeft'
  BY <1>0, <1>1, BoundsAssumption DEF WorkType, TriesType, OwnEntries, TriesLeft, Ended
<1>6. blobs'[s] = "none"
  <2>1. CASE Transient(target[s])
    BY <1>0, <2>1 DEF Delete, KeysOf, Keys, Transient, TemporaryKeys
  <2>2. CASE ~Transient(target[s])
    BY <1>0, <2>2 DEF Transient, TemporaryKeys
  <2> QED BY <2>1, <2>2
<1>7. TemporaryKeys'
  BY <1>0, <1>1, <1>2, <1>6 DEF TemporaryKeys
<1> QED BY <1>2, <1>3, <1>4, <1>5, <1>7 DEF IInv, TypeOK

\* CleanUnavailable keeps the inductive invariant.
LEMMA CleanUnavailableStep == \A s \in Scans : IInv /\ CleanUnavailable(s) => IInv'
<1> SUFFICES ASSUME NEW s \in Scans, IInv, CleanUnavailable(s) PROVE IInv'
  OBVIOUS
<1> USE DEF CleanUnavailable, Leave, Goto, Fault, reply
<1>0. /\ CacheType /\ WorkType /\ ReplyType /\ TriesType /\ EnvType /\ OwnEntries /\ TriesLeft
      /\ CacheIsSound /\ ReadSoFar /\ Accounted /\ MissingHasCause /\ TemporaryKeys
  BY DEF IInv, TypeOK
<1>r. /\ TriesType' /\ pc' \in [Scans -> Steps]
      /\ \A r \in Scans \ {s} : pc'[r] = pc[r] /\ tries'[r] = tries[r]
      /\ pc'[s] \in {pc[s], "uncleaned"}
      /\ pc'[s] = "uncleaned" \/ tries'[s]["delete"] < MaxTries
  BY <1>0, RetryOne DEF TriesLeft, Calls, Steps, Ended
<1>1. /\ UNCHANGED <<artifacts, target, got, config, outcome, evicted, misread>>
      /\ (Transient(target[s]) /\ Delete(s)) \/ UNCHANGED <<blobs, cleaned>>
      /\ pc'[s] \in {"clean"} \cup Ended
      /\ \A r \in Scans \ {s} : pc'[r] = pc[r] /\ unread'[r] = unread[r] /\ todo'[r] = todo[r]
  BY <1>0, <1>r DEF WorkType, Ended
<1>2. /\ CacheType' /\ CacheIsSound' /\ ReadSoFar' /\ Accounted' /\ MissingHasCause'
      /\ cleaned' \subseteq Scans /\ \A r \in Scans : blobs'[r] # "none" => blobs[r] # "none"
  BY <1>1, CleanFacts
<1>3. WorkType' /\ TriesType'
  BY <1>0, <1>r, BoundsAssumption DEF WorkType, TriesType, Steps, Ended
<1>4. ReplyType' /\ EnvType'
  BY <1>0, <1>1, <1>2, BoundsAssumption DEF ReplyType, EnvType
<1>5. OwnEntries' /\ TriesLeft'
  BY <1>0, <1>1, <1>r, BoundsAssumption DEF WorkType, TriesType, OwnEntries, TriesLeft, Ended
<1>6. pc'[s] # "done"
  BY <1>0, <1>r DEF WorkType
<1>7. TemporaryKeys'
  BY <1>0, <1>1, <1>2, <1>6 DEF TemporaryKeys
<1> QED BY <1>2, <1>3, <1>4, <1>5, <1>7 DEF IInv, TypeOK

\* CleanFail keeps the inductive invariant.
LEMMA CleanFailStep == \A s \in Scans : IInv /\ CleanFail(s) => IInv'
<1> SUFFICES ASSUME NEW s \in Scans, IInv, CleanFail(s) PROVE IInv'
  OBVIOUS
<1> USE DEF CleanFail, Leave, Goto, Fault, reply
<1>0. /\ CacheType /\ WorkType /\ ReplyType /\ TriesType /\ EnvType /\ OwnEntries /\ TriesLeft
      /\ CacheIsSound /\ ReadSoFar /\ Accounted /\ MissingHasCause /\ TemporaryKeys
  BY DEF IInv, TypeOK
<1>1. /\ UNCHANGED <<artifacts, target, got, config, outcome, evicted, misread>>
      /\ (Transient(target[s]) /\ Delete(s)) \/ UNCHANGED <<blobs, cleaned>>
      /\ pc'[s] \in {"clean"} \cup Ended
      /\ \A r \in Scans \ {s} : pc'[r] = pc[r] /\ unread'[r] = unread[r] /\ todo'[r] = todo[r]
  BY <1>0 DEF WorkType, Ended
<1>2. /\ CacheType' /\ CacheIsSound' /\ ReadSoFar' /\ Accounted' /\ MissingHasCause'
      /\ cleaned' \subseteq Scans /\ \A r \in Scans : blobs'[r] # "none" => blobs[r] # "none"
  BY <1>1, CleanFacts
<1>3. WorkType' /\ TriesType'
  BY <1>0, BoundsAssumption DEF WorkType, TriesType, Steps, Ended
<1>4. ReplyType' /\ EnvType'
  BY <1>0, <1>1, <1>2, BoundsAssumption DEF ReplyType, EnvType
<1>5. OwnEntries' /\ TriesLeft'
  BY <1>0, <1>1, BoundsAssumption DEF WorkType, TriesType, OwnEntries, TriesLeft, Ended
<1>6. pc'[s] # "done"
  BY <1>0 DEF WorkType
<1>7. TemporaryKeys'
  BY <1>0, <1>1, <1>2, <1>6 DEF TemporaryKeys
<1> QED BY <1>2, <1>3, <1>4, <1>5, <1>7 DEF IInv, TypeOK

\* Kill keeps the inductive invariant.
LEMMA KillStep == \A s \in Scans : IInv /\ Kill(s) => IInv'
<1> SUFFICES ASSUME NEW s \in Scans, IInv, Kill(s) PROVE IInv'
  OBVIOUS
<1> USE DEF Kill, Goto, Leave, Fault, cache, work, reply, env, hist
<1>0. /\ CacheType /\ WorkType /\ ReplyType /\ TriesType /\ EnvType /\ OwnEntries /\ TriesLeft
      /\ CacheIsSound /\ ReadSoFar /\ Accounted /\ MissingHasCause /\ TemporaryKeys
  BY DEF IInv, TypeOK
<1>k. \A r \in Scans : /\ KeysOf(r, target[r]) \subseteq Keys
                      /\ KeysOf(r, target[r]) \cap Targets = {}
                      /\ \A x \in KeysOf(r, target[r]) : x \in Scans => x = r /\ Kind[target[r]] = "dir"
  BY <1>0, KeysOfFacts DEF WorkType
<1>c. \A r \in Scans, x \in Keys : CleanedAway(r, x) => CleanedAway(r, x)'
  BY <1>0 DEF WorkType, CleanedAway
<1>1. TypeOK'
  <2>1. CacheType'
    BY <1>0 DEF CacheType, WorkType, ImageConfig, Entries
  <2>2. WorkType'
    BY <1>0, <1>k DEF WorkType, Steps, Ended, Entries
  <2>3. ReplyType'
    BY <1>0 DEF ReplyType, CacheType, WorkType, NoBlob
  <2>4. TriesType'
    BY <1>0, BoundsAssumption DEF TriesType, Calls, Entries, WorkType
  <2>5. EnvType'
    BY <1>0, BoundsAssumption DEF EnvType
  <2> QED BY <2>1, <2>2, <2>3, <2>4, <2>5 DEF TypeOK
<1>2. OwnEntries'
  BY <1>0, <1>k DEF WorkType, OwnEntries
<1>3. TriesLeft'
  BY <1>0, BoundsAssumption DEF WorkType, TriesType, TriesLeft, Calls, Entries
<1>4. CacheIsSound'
  BY <1>0 DEF CacheType, WorkType, ReplyType, CacheIsSound, NoBlob
<1>5. ReadSoFar'
  BY <1>0, <1>k DEF WorkType, ReplyType, ReadSoFar, Ended, Present
<1>6. Accounted'
  BY <1>0, <1>k, <1>c DEF CacheType, WorkType, Accounted, OwnEntries, Present, Ended
<1>7. TemporaryKeys'
  BY <1>0, <1>k DEF CacheType, WorkType, TemporaryKeys, Keys, Ended
<1>8. MissingHasCause'
  BY <1>0, <1>k, <1>c DEF ReplyType, WorkType, MissingHasCause, Accounted, Present
<1> QED BY <1>1, <1>2, <1>3, <1>4, <1>5, <1>6, <1>7, <1>8 DEF IInv

\* Evict keeps the inductive invariant.
LEMMA EvictStep == \A e \in Entries : IInv /\ Evict(e) => IInv'
<1> SUFFICES ASSUME NEW e \in Entries, IInv, Evict(e) PROVE IInv'
  OBVIOUS
<1> USE DEF Evict, Goto, Leave, Fault, cache, work, reply, env, hist
<1>0. /\ CacheType /\ WorkType /\ ReplyType /\ TriesType /\ EnvType /\ OwnEntries /\ TriesLeft
      /\ CacheIsSound /\ ReadSoFar /\ Accounted /\ MissingHasCause /\ TemporaryKeys
  BY DEF IInv, TypeOK
<1>k. \A r \in Scans : /\ KeysOf(r, target[r]) \subseteq Keys
                      /\ KeysOf(r, target[r]) \cap Targets = {}
                      /\ \A x \in KeysOf(r, target[r]) : x \in Scans => x = r /\ Kind[target[r]] = "dir"
  BY <1>0, KeysOfFacts DEF WorkType
<1>c. \A r \in Scans, x \in Keys : CleanedAway(r, x) => CleanedAway(r, x)'
  BY <1>0 DEF WorkType, CleanedAway
<1>1. TypeOK'
  <2>1. CacheType'
    BY <1>0 DEF CacheType, WorkType, ImageConfig, Entries
  <2>2. WorkType'
    BY <1>0, <1>k DEF WorkType, Steps, Ended, Entries
  <2>3. ReplyType'
    BY <1>0 DEF ReplyType, CacheType, WorkType, NoBlob
  <2>4. TriesType'
    BY <1>0, BoundsAssumption DEF TriesType, Calls, Entries, WorkType
  <2>5. EnvType'
    BY <1>0, BoundsAssumption DEF EnvType
  <2> QED BY <2>1, <2>2, <2>3, <2>4, <2>5 DEF TypeOK
<1>2. OwnEntries'
  <2>1. CASE e \in Keys
    BY <2>1, <1>0, <1>k DEF WorkType, OwnEntries
  <2>2. CASE ~(e \in Keys)
    BY <2>2, <1>0, <1>k DEF WorkType, OwnEntries
  <2> QED BY <2>1, <2>2
<1>3. TriesLeft'
  <2>1. CASE e \in Keys
    BY <2>1, <1>0, BoundsAssumption DEF WorkType, TriesType, TriesLeft, Calls, Entries
  <2>2. CASE ~(e \in Keys)
    BY <2>2, <1>0, BoundsAssumption DEF WorkType, TriesType, TriesLeft, Calls, Entries
  <2> QED BY <2>1, <2>2
<1>4. CacheIsSound'
  <2>1. CASE e \in Keys
    BY <2>1, <1>0 DEF CacheType, WorkType, ReplyType, CacheIsSound, NoBlob
  <2>2. CASE ~(e \in Keys)
    BY <2>2, <1>0 DEF CacheType, WorkType, ReplyType, CacheIsSound, NoBlob
  <2> QED BY <2>1, <2>2
<1>5. ReadSoFar'
  <2>1. CASE e \in Keys
    BY <2>1, <1>0, <1>k DEF WorkType, ReplyType, ReadSoFar, Ended, Present
  <2>2. CASE ~(e \in Keys)
    BY <2>2, <1>0, <1>k DEF WorkType, ReplyType, ReadSoFar, Ended, Present
  <2> QED BY <2>1, <2>2
<1>6. Accounted'
  <2>1. CASE e \in Keys
    BY <2>1, <1>0, <1>k, <1>c DEF CacheType, WorkType, Accounted, OwnEntries, Present, Ended
  <2>2. CASE ~(e \in Keys)
    BY <2>2, <1>0, <1>k, <1>c DEF CacheType, WorkType, Accounted, OwnEntries, Present, Ended
  <2> QED BY <2>1, <2>2
<1>7. TemporaryKeys'
  <2>1. CASE e \in Keys
    BY <2>1, <1>0, <1>k DEF CacheType, WorkType, TemporaryKeys, Keys, Ended
  <2>2. CASE ~(e \in Keys)
    BY <2>2, <1>0, <1>k DEF CacheType, WorkType, TemporaryKeys, Keys, Ended
  <2> QED BY <2>1, <2>2
<1>8. MissingHasCause'
  <2>1. CASE e \in Keys
    BY <2>1, <1>0, <1>k, <1>c DEF ReplyType, WorkType, MissingHasCause, Accounted, Present
  <2>2. CASE ~(e \in Keys)
    BY <2>2, <1>0, <1>k, <1>c DEF ReplyType, WorkType, MissingHasCause, Accounted, Present
  <2> QED BY <2>1, <2>2
<1> QED BY <1>1, <1>2, <1>3, <1>4, <1>5, <1>6, <1>7, <1>8 DEF IInv

\* A step that changes nothing keeps the inductive invariant.
LEMMA StutterStep == IInv /\ UNCHANGED vars => IInv'
<1> SUFFICES ASSUME IInv, UNCHANGED vars PROVE IInv'
  OBVIOUS
<1> USE DEF vars, cache, work, reply, env, hist
<1>1. TypeOK'       BY DEF IInv, TypeOK, CacheType, WorkType, ReplyType, TriesType, EnvType
<1>2. OwnEntries'   BY DEF IInv, OwnEntries
<1>3. TriesLeft'    BY DEF IInv, TriesLeft
<1>4. CacheIsSound' BY DEF IInv, CacheIsSound
<1>5. ReadSoFar'    BY DEF IInv, ReadSoFar
<1>6. Accounted'    BY DEF IInv, Accounted, CleanedAway
<1>7. TemporaryKeys' BY DEF IInv, TemporaryKeys
<1>8. MissingHasCause' BY DEF IInv, MissingHasCause, CleanedAway
<1> QED BY <1>1, <1>2, <1>3, <1>4, <1>5, <1>6, <1>7, <1>8 DEF IInv

\* IInv holds in every reachable state.
THEOREM Invariance == Spec => []IInv
<1>0. IInv => \A s \in Scans : unread[s] \subseteq Entries /\ todo[s] \subseteq Entries
  BY DEF IInv, TypeOK, WorkType
<1>k. \A s \in Scans : \A k : GetBlob(s, k) \/ GetBlobError(s, k) \/ PutBlob(s, k) => k \in Keys
  BY DEF GetBlob, GetBlobError, PutBlob
<1>1. IInv /\ [Next]_vars => IInv'
  BY <1>0, <1>k, StartStep, QueryStep, QueryErrorStep, QueryFailStep, QueryDoneStep, PutBlobStep, PutArtifactStep, PutUnavailableStep, InspectFailStep, FallbackStep, AbortStep, InspectDoneStep, GetBlobStep, GetBlobErrorStep, GetArtifactStep, ScanUnavailableStep, CleanStep, CleanUnavailableStep, CleanFailStep, KillStep, EvictStep, StutterStep
  DEF Next, Step, Trouble
<1> QED BY InitIInv, <1>1, PTL DEF Spec

\* Every variable keeps its type: no scan ever counts more tries than rpc.Retry makes.
THEOREM TypeCorrect == Spec => []TypeOK
<1>1. IInv => TypeOK
  BY DEF IInv
<1> QED BY Invariance, <1>1, PTL

\* ApplyLayers reports on every layer, and on each as some target that has it is analysed.
THEOREM AnsweredScansAreWhole == Spec => []ReportsAreWhole
<1>1. IInv => ReportsAreWhole
  BY KeysOfFacts DEF IInv, TypeOK, WorkType, ReadSoFar, CacheIsSound, ReportsAreWhole
<1> QED BY Invariance, <1>1, PTL

\* "layer cache missing" always has a cause: an eviction, a failed read, or another
\* scan of the same file or remote SBOM whose deletion took effect, answered or not.
THEOREM MissingLayersAreExplained == Spec => []MissingHasCause
<1>1. IInv => MissingHasCause
  BY DEF IInv
<1> QED BY Invariance, <1>1, PTL

\* No blob under a random key outlives its scan.
THEOREM RandomKeysAreCleaned == Spec => []TemporaryBlobsGo
<1>1. IInv => TemporaryBlobsGo
  BY DEF IInv, TemporaryKeys, TemporaryBlobsGo
<1> QED BY Invariance, <1>1, PTL

\* Why a scan may lack the secrets of a layer: some target takes that layer for
\* part of its base image, and its analysis is the one in the cache.  Where the
\* targets agree that a layer is no base layer, the cache hides no secret of it.
THEOREM OnlyBaseLayersHideSecrets ==
    Spec => [](\A s \in Scans : outcome[s] = "ok" =>
                 \A k \in KeysOf(s, target[s]) :
                     got[s][k] = "full" \/ \E t \in Targets : k \in GuessBaseLayers(t))
<1>1. ReportsAreWhole =>
        \A s \in Scans : outcome[s] = "ok" =>
            \A k \in KeysOf(s, target[s]) :
                got[s][k] = "full" \/ \E t \in Targets : k \in GuessBaseLayers(t)
  BY DEF ReportsAreWhole, Views, Analysis
<1> QED BY AnsweredScansAreWhole, <1>1, PTL

=============================================================================
