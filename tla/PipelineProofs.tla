--------------------------- MODULE PipelineProofs ---------------------------
(* Machine-checked proofs about Pipeline, for any number of items and any   *)
(* set of workers.                                                          *)
EXTENDS Pipeline, TLAPS

\* The goroutines start in a state of the inductive invariant.
LEMMA InitIInv == Init => IInv
<1> USE NumItemsAssumption DEF Init
<1>1. Init => TypeOK
  BY DEF TypeOK, Items, Errors
<1>2. Init => AtMostOnce /\ OnePlace /\ Conserved
  BY DEF AtMostOnce, OnePlace, Conserved, Holding, Items
<1>3. Init => ErrorCause /\ CompleteOnSuccess
  BY DEF ErrorCause, CompleteOnSuccess
<1> QED BY <1>1, <1>2, <1>3 DEF IInv

\* ParentCancel keeps the inductive invariant.
LEMMA ParentCancelStep == IInv /\ ParentCancel => IInv'
<1> SUFFICES ASSUME IInv, ParentCancel PROVE IInv'
  OBVIOUS
<1> USE NumItemsAssumption DEF IInv, ParentCancel, wvars, fvars, mvars
<1>1. TypeOK'
  BY DEF TypeOK, Items, Errors, OnePlace, Holding
<1>2. AtMostOnce'
  BY DEF TypeOK, AtMostOnce, OnePlace, Holding, Items
<1>3. OnePlace'
  BY DEF TypeOK, AtMostOnce, OnePlace, Holding, Items
<1>4. Conserved'
  BY DEF TypeOK, OnePlace, Conserved, Holding, Items, Errors
<1>5. ErrorCause'
  BY DEF TypeOK, ErrorCause, GroupEmpty, Errors
<1>6. CompleteOnSuccess'
  BY DEF TypeOK, CompleteOnSuccess, ErrorCause, OnePlace, Conserved, GroupEmpty, Holding, Items
<1> QED BY <1>1, <1>2, <1>3, <1>4, <1>5, <1>6 DEF IInv

\* Send keeps the inductive invariant.
LEMMA SendStep == \A w \in Workers : IInv /\ Send(w) => IInv'
<1> SUFFICES ASSUME NEW w \in Workers, IInv, Send(w) PROVE IInv'
  OBVIOUS
<1> USE NumItemsAssumption DEF IInv, Send, gvars, mvars
<1>1. TypeOK'
  BY DEF TypeOK, Items, Errors, OnePlace, Holding
<1>2. AtMostOnce'
  BY DEF TypeOK, AtMostOnce, OnePlace, Holding, Items
<1>3. OnePlace'
  BY DEF TypeOK, AtMostOnce, OnePlace, Holding, Items
<1>4. Conserved'
  BY DEF TypeOK, OnePlace, Conserved, Holding, Items, Errors
<1>5. ErrorCause'
  BY DEF TypeOK, ErrorCause, GroupEmpty, Errors
<1>6. CompleteOnSuccess'
  BY DEF TypeOK, CompleteOnSuccess, ErrorCause, OnePlace, Conserved, GroupEmpty, Holding, Items
<1> QED BY <1>1, <1>2, <1>3, <1>4, <1>5, <1>6 DEF IInv

\* SendResult keeps the inductive invariant.
LEMMA SendResultStep == \A w \in Workers : IInv /\ SendResult(w) => IInv'
<1> SUFFICES ASSUME NEW w \in Workers, IInv, SendResult(w) PROVE IInv'
  OBVIOUS
<1> USE NumItemsAssumption DEF IInv, SendResult, gvars, fvars
<1>1. TypeOK'
  BY DEF TypeOK, Items, Errors, OnePlace, Holding
<1>2. AtMostOnce'
  BY DEF TypeOK, AtMostOnce, OnePlace, Holding, Items
<1>3. OnePlace'
  BY DEF TypeOK, AtMostOnce, OnePlace, Holding, Items
<1>4. Conserved'
  BY DEF TypeOK, OnePlace, Conserved, Holding, Items, Errors
<1>5. ErrorCause'
  BY DEF TypeOK, ErrorCause, GroupEmpty, Errors
<1>6. CompleteOnSuccess'
  BY DEF TypeOK, CompleteOnSuccess, ErrorCause, OnePlace, Conserved, GroupEmpty, Holding, Items
<1> QED BY <1>1, <1>2, <1>3, <1>4, <1>5, <1>6 DEF IInv

\* WorkerDone keeps the inductive invariant.
LEMMA WorkerDoneStep == \A w \in Workers : IInv /\ WorkerDone(w) => IInv'
<1> SUFFICES ASSUME NEW w \in Workers, IInv, WorkerDone(w) PROVE IInv'
  OBVIOUS
<1> USE NumItemsAssumption DEF IInv, WorkerDone, gvars, fvars, mvars
<1>1. TypeOK'
  BY DEF TypeOK, Items, Errors, OnePlace, Holding
<1>2. AtMostOnce'
  BY DEF TypeOK, AtMostOnce, OnePlace, Holding, Items
<1>3. OnePlace'
  BY DEF TypeOK, AtMostOnce, OnePlace, Holding, Items
<1>4. Conserved'
  BY DEF TypeOK, OnePlace, Conserved, Holding, Items, Errors
<1>5. ErrorCause'
  BY DEF TypeOK, ErrorCause, GroupEmpty, Errors
<1>6. CompleteOnSuccess'
  BY DEF TypeOK, CompleteOnSuccess, ErrorCause, OnePlace, Conserved, GroupEmpty, Holding, Items
<1> QED BY <1>1, <1>2, <1>3, <1>4, <1>5, <1>6 DEF IInv

\* OnItem keeps the inductive invariant.
LEMMA OnItemStep == \A w \in Workers : IInv /\ OnItem(w) => IInv'
<1> SUFFICES ASSUME NEW w \in Workers, IInv, OnItem(w) PROVE IInv'
  OBVIOUS
<1> USE NumItemsAssumption DEF IInv, OnItem, gvars, fvars, mvars
<1>1. TypeOK'
  BY DEF TypeOK, Items, Errors, OnePlace, Holding
<1>2. AtMostOnce'
  BY DEF TypeOK, AtMostOnce, OnePlace, Holding, Items
<1>3. OnePlace'
  BY DEF TypeOK, AtMostOnce, OnePlace, Holding, Items
<1>4. Conserved'
  BY DEF TypeOK, OnePlace, Conserved, Holding, Items, Errors
<1>5. ErrorCause'
  BY DEF TypeOK, ErrorCause, GroupEmpty, Errors
<1>6. CompleteOnSuccess'
  BY DEF TypeOK, CompleteOnSuccess, ErrorCause, OnePlace, Conserved, GroupEmpty, Holding, Items
<1> QED BY <1>1, <1>2, <1>3, <1>4, <1>5, <1>6 DEF IInv

\* OnItemError keeps the inductive invariant.
LEMMA OnItemErrorStep == \A w \in Workers : IInv /\ OnItemError(w) => IInv'
<1> SUFFICES ASSUME NEW w \in Workers, IInv, OnItemError(w) PROVE IInv'
  OBVIOUS
<1> USE NumItemsAssumption DEF IInv, OnItemError, GroupError, fvars, mvars
<1>1. TypeOK'
  BY DEF TypeOK, Items, Errors, OnePlace, Holding
<1>2. AtMostOnce'
  BY DEF TypeOK, AtMostOnce, OnePlace, Holding, Items
<1>3. OnePlace'
  BY DEF TypeOK, AtMostOnce, OnePlace, Holding, Items
<1>4. Conserved'
  BY DEF TypeOK, OnePlace, Conserved, Holding, Items, Errors
<1>5. ErrorCause'
  BY DEF TypeOK, ErrorCause, GroupEmpty, Errors
<1>6. CompleteOnSuccess'
  BY DEF TypeOK, CompleteOnSuccess, ErrorCause, OnePlace, Conserved, GroupEmpty, Holding, Items
<1> QED BY <1>1, <1>2, <1>3, <1>4, <1>5, <1>6 DEF IInv

\* OnFileError keeps the inductive invariant.
LEMMA OnFileErrorStep == \A w \in Workers : IInv /\ OnFileError(w) => IInv'
<1> SUFFICES ASSUME NEW w \in Workers, IInv, OnFileError(w) PROVE IInv'
  OBVIOUS
<1> USE NumItemsAssumption DEF IInv, OnFileError, gvars, fvars, mvars
<1>1. TypeOK'
  BY DEF TypeOK, Items, Errors, OnePlace, Holding
<1>2. AtMostOnce'
  BY DEF TypeOK, AtMostOnce, OnePlace, Holding, Items
<1>3. OnePlace'
  BY DEF TypeOK, AtMostOnce, OnePlace, Holding, Items
<1>4. Conserved'
  BY DEF TypeOK, OnePlace, Conserved, Holding, Items, Errors
<1>5. ErrorCause'
  BY DEF TypeOK, ErrorCause, GroupEmpty, Errors
<1>6. CompleteOnSuccess'
  BY DEF TypeOK, CompleteOnSuccess, ErrorCause, OnePlace, Conserved, GroupEmpty, Holding, Items
<1> QED BY <1>1, <1>2, <1>3, <1>4, <1>5, <1>6 DEF IInv

\* WorkerCancelled keeps the inductive invariant.
LEMMA WorkerCancelledStep == \A w \in Workers : IInv /\ WorkerCancelled(w) => IInv'
<1> SUFFICES ASSUME NEW w \in Workers, IInv, WorkerCancelled(w) PROVE IInv'
  OBVIOUS
<1> USE NumItemsAssumption DEF IInv, WorkerCancelled, GroupError, CtxDone, fvars, mvars
<1>1. TypeOK'
  BY DEF TypeOK, Items, Errors, OnePlace, Holding
<1>2. AtMostOnce'
  BY DEF TypeOK, AtMostOnce, OnePlace, Holding, Items
<1>3. OnePlace'
  BY DEF TypeOK, AtMostOnce, OnePlace, Holding, Items
<1>4. Conserved'
  BY DEF TypeOK, OnePlace, Conserved, Holding, Items, Errors
<1>5. ErrorCause'
  BY DEF TypeOK, ErrorCause, GroupEmpty, Errors
<1>6. CompleteOnSuccess'
  BY DEF TypeOK, CompleteOnSuccess, ErrorCause, OnePlace, Conserved, GroupEmpty, Holding, Items
<1> QED BY <1>1, <1>2, <1>3, <1>4, <1>5, <1>6 DEF IInv

\* FeederCancelled keeps the inductive invariant.
LEMMA FeederCancelledStep == IInv /\ FeederCancelled => IInv'
<1> SUFFICES ASSUME IInv, FeederCancelled PROVE IInv'
  OBVIOUS
<1> USE NumItemsAssumption DEF IInv, FeederCancelled, GroupError, CtxDone, wvars, mvars
<1>1. TypeOK'
  BY DEF TypeOK, Items, Errors, OnePlace, Holding
<1>2. AtMostOnce'
  BY DEF TypeOK, AtMostOnce, OnePlace, Holding, Items
<1>3. OnePlace'
  BY DEF TypeOK, AtMostOnce, OnePlace, Holding, Items
<1>4. Conserved'
  BY DEF TypeOK, OnePlace, Conserved, Holding, Items, Errors
<1>5. ErrorCause'
  BY DEF TypeOK, ErrorCause, GroupEmpty, Errors
<1>6. CompleteOnSuccess'
  BY DEF TypeOK, CompleteOnSuccess, ErrorCause, OnePlace, Conserved, GroupEmpty, Holding, Items
<1> QED BY <1>1, <1>2, <1>3, <1>4, <1>5, <1>6 DEF IInv

\* WalkError keeps the inductive invariant.
LEMMA WalkErrorStep == IInv /\ WalkError => IInv'
<1> SUFFICES ASSUME IInv, WalkError PROVE IInv'
  OBVIOUS
<1> USE NumItemsAssumption DEF IInv, WalkError, GroupError, wvars, mvars
<1>1. TypeOK'
  BY DEF TypeOK, Items, Errors, OnePlace, Holding
<1>2. AtMostOnce'
  BY DEF TypeOK, AtMostOnce, OnePlace, Holding, Items
<1>3. OnePlace'
  BY DEF TypeOK, AtMostOnce, OnePlace, Holding, Items
<1>4. Conserved'
  BY DEF TypeOK, OnePlace, Conserved, Holding, Items, Errors
<1>5. ErrorCause'
  BY DEF TypeOK, ErrorCause, GroupEmpty, Errors
<1>6. CompleteOnSuccess'
  BY DEF TypeOK, CompleteOnSuccess, ErrorCause, OnePlace, Conserved, GroupEmpty, Holding, Items
<1> QED BY <1>1, <1>2, <1>3, <1>4, <1>5, <1>6 DEF IInv

\* FeederDone keeps the inductive invariant.
LEMMA FeederDoneStep == IInv /\ FeederDone => IInv'
<1> SUFFICES ASSUME IInv, FeederDone PROVE IInv'
  OBVIOUS
<1> USE NumItemsAssumption DEF IInv, FeederDone, gvars, wvars, mvars
<1>1. TypeOK'
  BY DEF TypeOK, Items, Errors, OnePlace, Holding
<1>2. AtMostOnce'
  BY DEF TypeOK, AtMostOnce, OnePlace, Holding, Items
<1>3. OnePlace'
  BY DEF TypeOK, AtMostOnce, OnePlace, Holding, Items
<1>4. Conserved'
  BY DEF TypeOK, OnePlace, Conserved, Holding, Items, Errors
<1>5. ErrorCause'
  BY DEF TypeOK, ErrorCause, GroupEmpty, Errors
<1>6. CompleteOnSuccess'
  BY DEF TypeOK, CompleteOnSuccess, ErrorCause, OnePlace, Conserved, GroupEmpty, Holding, Items
<1> QED BY <1>1, <1>2, <1>3, <1>4, <1>5, <1>6 DEF IInv

\* Close keeps the inductive invariant.
LEMMA CloseStep == IInv /\ Close => IInv'
<1> SUFFICES ASSUME IInv, Close PROVE IInv'
  OBVIOUS
<1> USE NumItemsAssumption DEF IInv, Close, wvars, fvars
<1>1. TypeOK'
  BY DEF TypeOK, Items, Errors, OnePlace, Holding
<1>2. AtMostOnce'
  BY DEF TypeOK, AtMostOnce, OnePlace, Holding, Items
<1>3. OnePlace'
  BY DEF TypeOK, AtMostOnce, OnePlace, Holding, Items
<1>4. Conserved'
  BY DEF TypeOK, OnePlace, Conserved, Holding, Items, Errors
<1>5. ErrorCause'
  BY DEF TypeOK, ErrorCause, GroupEmpty, Errors
<1>6. CompleteOnSuccess'
  BY DEF TypeOK, CompleteOnSuccess, ErrorCause, OnePlace, Conserved, GroupEmpty, Holding, Items
<1> QED BY <1>1, <1>2, <1>3, <1>4, <1>5, <1>6 DEF IInv

\* OnResult keeps the inductive invariant.
LEMMA OnResultStep == IInv /\ OnResult => IInv'
<1> SUFFICES ASSUME IInv, OnResult PROVE IInv'
  OBVIOUS
<1> USE NumItemsAssumption DEF IInv, OnResult, gvars, wvars, fvars
<1>1. TypeOK'
  BY DEF TypeOK, Items, Errors, OnePlace, Holding
<1>2. AtMostOnce'
  BY DEF TypeOK, AtMostOnce, OnePlace, Holding, Items
<1>3. OnePlace'
  BY DEF TypeOK, AtMostOnce, OnePlace, Holding, Items
<1>4. Conserved'
  BY DEF TypeOK, OnePlace, Conserved, Holding, Items, Errors
<1>5. ErrorCause'
  BY DEF TypeOK, ErrorCause, GroupEmpty, Errors
<1>6. CompleteOnSuccess'
  BY DEF TypeOK, CompleteOnSuccess, ErrorCause, OnePlace, Conserved, GroupEmpty, Holding, Items
<1> QED BY <1>1, <1>2, <1>3, <1>4, <1>5, <1>6 DEF IInv

\* OnResultError keeps the inductive invariant.
LEMMA OnResultErrorStep == IInv /\ OnResultError => IInv'
<1> SUFFICES ASSUME IInv, OnResultError PROVE IInv'
  OBVIOUS
<1> USE NumItemsAssumption DEF IInv, OnResultError, gvars, wvars, fvars
<1>1. TypeOK'
  BY DEF TypeOK, Items, Errors, OnePlace, Holding
<1>2. AtMostOnce'
  BY DEF TypeOK, AtMostOnce, OnePlace, Holding, Items
<1>3. OnePlace'
  BY DEF TypeOK, AtMostOnce, OnePlace, Holding, Items
<1>4. Conserved'
  BY DEF TypeOK, OnePlace, Conserved, Holding, Items, Errors
<1>5. ErrorCause'
  BY DEF TypeOK, ErrorCause, GroupEmpty, Errors
<1>6. CompleteOnSuccess'
  BY DEF TypeOK, CompleteOnSuccess, ErrorCause, OnePlace, Conserved, GroupEmpty, Holding, Items
<1> QED BY <1>1, <1>2, <1>3, <1>4, <1>5, <1>6 DEF IInv

\* Return keeps the inductive invariant.
LEMMA ReturnStep == IInv /\ Return => IInv'
<1> SUFFICES ASSUME IInv, Return PROVE IInv'
  OBVIOUS
<1> USE NumItemsAssumption DEF IInv, Return, gvars, wvars, fvars
<1>1. TypeOK'
  BY DEF TypeOK, Items, Errors, OnePlace, Holding
<1>2. AtMostOnce'
  BY DEF TypeOK, AtMostOnce, OnePlace, Holding, Items
<1>3. OnePlace'
  BY DEF TypeOK, AtMostOnce, OnePlace, Holding, Items
<1>4. Conserved'
  BY DEF TypeOK, OnePlace, Conserved, Holding, Items, Errors
<1>5. ErrorCause'
  BY DEF TypeOK, ErrorCause, GroupEmpty, Errors
<1>6. CompleteOnSuccess'
  BY DEF TypeOK, CompleteOnSuccess, ErrorCause, OnePlace, Conserved, GroupEmpty, Holding, Items
<1> QED BY <1>1, <1>2, <1>3, <1>4, <1>5, <1>6 DEF IInv

\* Every step of the pipeline, stuttering included, keeps the invariant.
LEMMA NextIInv == IInv /\ [Next]_vars => IInv'
<1> SUFFICES ASSUME IInv, [Next]_vars PROVE IInv'
  OBVIOUS
<1>1. ASSUME NEW w \in Workers, Send(w) \/ SendResult(w) \/ Worker(w) PROVE IInv'
  BY <1>1, SendStep, SendResultStep, WorkerDoneStep, OnItemStep, OnItemErrorStep,
     OnFileErrorStep, WorkerCancelledStep DEF Worker
<1>2. CASE Feeder
  BY <1>2, FeederCancelledStep, WalkErrorStep, FeederDoneStep DEF Feeder
<1>3. CASE Caller
  BY <1>3, OnResultStep, OnResultErrorStep, ReturnStep DEF Caller
<1>4. CASE UNCHANGED vars
  BY <1>4 DEF vars, gvars, wvars, fvars, mvars, IInv, TypeOK, AtMostOnce, OnePlace,
     Conserved, ErrorCause, CompleteOnSuccess, Holding, GroupEmpty
<1> QED
  BY <1>1, <1>2, <1>3, <1>4, ParentCancelStep, CloseStep DEF Next, Stopped

\* Types are kept, no item is delivered twice, and the invariant they rest on
\* holds in every reachable state of Pipeline.Do and of WalkDir.
THEOREM Invariance == Spec => []IInv
<1> QED BY InitIInv, NextIInv, PTL DEF Spec

\* The variables keep their types.
THEOREM TypeCorrect == Spec => []TypeOK
<1>1. IInv => TypeOK
  BY DEF IInv
<1> QED BY <1>1, Invariance, PTL

\* However the goroutines interleave and whatever fails, onResult is called at
\* most once for an item.
THEOREM DeliversAtMostOnce == Spec => []AtMostOnce
<1>1. IInv => AtMostOnce
  BY DEF IInv
<1> QED BY <1>1, Invariance, PTL

\* A nil error of Do means that every item reached onResult (or was skipped by
\* WalkDir): no worker, cancelled or not, lost a result silently.
THEOREM SuccessIsComplete == Spec => []CompleteOnSuccess
<1>1. IInv => CompleteOnSuccess
  BY DEF IInv
<1> QED BY <1>1, Invariance, PTL

\* Do returns a context error only if its caller's context was cancelled.
THEOREM ReportsTheCause == Spec => []CauseReported
<1>1. IInv => CauseReported
  BY DEF IInv, ErrorCause, CauseReported
<1> QED BY <1>1, Invariance, PTL

\* No worker sends on the closed results channel, and without an onResult error
\* no goroutine outlives Do.
THEOREM CleanShutdown == Spec => []CleanEnd
<1>1. IInv => CleanEnd
  BY DEF IInv, ErrorCause, GroupEmpty, NoSendOnClosed, NoLeak, CleanEnd
<1> QED BY <1>1, Invariance, PTL

\* A step of the goroutines is a step of ParallelMap, or one it does not see.
LEMMA StepImplements == IInv /\ [Next]_vars => [Abs!Next]_(Abs!vars)
<1> SUFFICES ASSUME IInv, [Next]_vars PROVE [Abs!Next]_(Abs!vars)
  OBVIOUS
<1> USE NumItemsAssumption DEF IInv
<1>1. ASSUME OnResult PROVE Abs!Next
  <2>1. PICK j \in Items : got = j /\ delivered[j] = 0 /\ j \notin skipped
    BY <1>1 DEF OnResult, OnePlace
  <2>2. {i \in Items : delivered[i] > 0}' = {i \in Items : delivered[i] > 0} \cup {j}
    BY <1>1, <2>1 DEF OnResult, TypeOK, Items
  <2>3. ret = "none" /\ ret' = ret /\ skipped' = skipped
    BY <1>1 DEF OnResult, ErrorCause
  <2>4. Abs!Deliver(j)
    BY <2>1, <2>2, <2>3 DEF Abs!Deliver
  <2> QED BY <2>4 DEF Abs!Next
<1>2. ASSUME NEW w \in Workers, OnFileError(w) PROVE Abs!Next
  <2>1. held[w] \in Items /\ held[w] \notin skipped /\ delivered[held[w]] = 0
    BY <1>2 DEF OnFileError, OnePlace, Holding
  <2>2. ret \in {"none", "result"}
    BY <1>2 DEF OnFileError, ErrorCause, GroupEmpty
  <2>3. Abs!Drop(held[w])
    BY <1>2, <2>1, <2>2 DEF OnFileError, Abs!Drop, mvars
  <2> QED BY <2>1, <2>3 DEF Abs!Next
<1>3. CASE OnResultError
  <2>1. Abs!Return("result")
    BY <1>3 DEF OnResultError, ErrorCause, Abs!Return
  <2> QED BY <2>1 DEF Abs!Next
<1>4. CASE Return
  <2>1. err = "nil" => \A i \in Items : delivered[i] = 1 \/ i \in skipped
    BY <1>4 DEF Return, TypeOK, Items, Conserved, ErrorCause, GroupEmpty, Holding
  <2>2. skipped \subseteq Items
    BY DEF TypeOK
  <2>3. err = "nil" => {i \in Items : delivered[i] > 0} \cup skipped = Items
    BY <2>1, <2>2
  <2>4. Abs!Return(err)
    BY <1>4, <2>3 DEF Return, ErrorCause, Abs!Return
  <2>5. err \in Errors \cup {"nil"}
    BY DEF TypeOK
  <2> QED BY <2>4, <2>5 DEF Abs!Next
<1>5. ASSUME UNCHANGED <<ret, delivered, skipped>> PROVE UNCHANGED Abs!vars
  BY <1>5 DEF Abs!vars
<1>6. ASSUME NEW w \in Workers, Send(w) \/ SendResult(w) \/ Worker(w)
      PROVE OnFileError(w) \/ UNCHANGED <<ret, delivered, skipped>>
  BY <1>6 DEF Worker, Send, SendResult, WorkerDone, OnItem, OnItemError, WorkerCancelled, mvars
<1>7. ParentCancel \/ Feeder \/ Close \/ UNCHANGED vars => UNCHANGED <<ret, delivered, skipped>>
  BY DEF ParentCancel, Feeder, FeederCancelled, WalkError, FeederDone, Close, vars, mvars
<1> QED
  BY <1>1, <1>2, <1>3, <1>4, <1>5, <1>6, <1>7 DEF Next, Caller, Stopped

\* The goroutines of Pipeline.Do and of WalkDir implement ParallelMap.
THEOREM Refinement == Spec => Implements
<1>1. Init => Abs!Init
  BY DEF Init, Abs!Init, Items
<1> QED BY <1>1, Invariance, StepImplements, PTL DEF Spec, Implements, Abs!Spec
=============================================================================
