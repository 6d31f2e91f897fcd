------------------------------ MODULE Pipeline ------------------------------
(***************************************************************************)
(* The fan-out/fan-in engine of pkg/parallel: Pipeline.Do (pipeline.go)    *)
(* and WalkDir (walk.go).  A feeder goroutine sends the items over an      *)
(* unbuffered channel, a fixed number of workers call onItem and send the  *)
(* results over a second unbuffered channel, the calling goroutine hands   *)
(* them to onResult, and a closer goroutine closes the second channel once *)
(* the errgroup is empty.  Every goroutine of the group selects on the     *)
(* group's context, which the first error cancels.                         *)
(*                                                                         *)
(* An item is its position in the input.  Rendezvous on an unbuffered      *)
(* channel is one step of both parties.                                    *)
(***************************************************************************)
EXTENDS Naturals

CONSTANTS
    NumItems,   \* len(p.items), or the number of regular non-empty files
    Workers,    \* the worker goroutines
    Walking     \* TRUE for WalkDir, FALSE for Pipeline.Do

ASSUME NumItemsAssumption == NumItems \in Nat
\* NewPipeline and WalkDir replace a worker count of zero by a default.
ASSUME WorkersAssumption  == Workers # {}
ASSUME WalkingAssumption  == Walking \in BOOLEAN

Items  == 1 .. NumItems
Errors == {"item", "walk", "ctx"}

VARIABLES
    cancelled,  \* the contexts cancelled: the "caller"'s, the "group"'s
    err,        \* the errgroup's error: "nil" or the first error recorded
    feeder,     \* "send" or "done"; the item channel is closed when "done"
    next,       \* the next item the feeder sends
    pc,         \* per worker: "recv", "item", "send" or "done"
    held,       \* per worker: the item in hand (stale outside item and send)
    results,    \* the results channel: "open" or "closed"
    main,       \* the caller: "recv", "handle" or "returned"
    got,        \* the item whose result the caller has in hand
    ret,        \* what Do returned: "none" before, then "nil" or an error
    delivered,  \* per item: calls of onResult that returned nil
    skipped     \* items whose onFile error WalkDir logged and dropped

gvars == <<cancelled, err>>
wvars == <<pc, held>>
fvars == <<feeder, next>>
mvars == <<results, main, got, ret, delivered>>
vars  == <<gvars, wvars, fvars, mvars, skipped>>

\* The group's context derives from the caller's.
CtxDone == cancelled # {}

Init ==
    /\ cancelled = {}
    /\ err = "nil"
    /\ feeder = "send"
    /\ next = 1
    /\ pc = [w \in Workers |-> "recv"]
    /\ held = [w \in Workers |-> 0]
    /\ results = "open"
    /\ main = "recv"
    /\ got = 0
    /\ ret = "none"
    /\ delivered = [i \in Items |-> 0]
    /\ skipped = {}

----------------------------------------------------------------------------
(* Mutants: the definitions below as plausible bugs would have them.       *)

\* An errgroup that keeps the last error.
MutGroupErrorLast(e) ==
    /\ err' = e
    /\ cancelled' = cancelled \cup {"group"}

\* The feeder's loop runs one item too far.
MutSendOffByOne(w) ==
    /\ feeder = "send"
    /\ next <= NumItems + 1
    /\ pc[w] = "recv"
    /\ pc' = [pc EXCEPT ![w] = "item"]
    /\ held' = [held EXCEPT ![w] = next]
    /\ next' = next + 1
    /\ UNCHANGED <<gvars, feeder, mvars, skipped>>

\* A cancelled worker returns nil instead of ctx.Err().
MutCancelledNil(w) ==
    /\ pc[w] = "send"
    /\ cancelled # {}
    /\ pc' = [pc EXCEPT ![w] = "done"]
    /\ UNCHANGED <<gvars, held, fvars, mvars, skipped>>

\* walk() logs the error of onFile and sends the zero result all the same.
MutSkipAndSend(w) ==
    /\ Walking
    /\ pc[w] = "item"
    /\ pc' = [pc EXCEPT ![w] = "send"]
    /\ skipped' = skipped \cup {held[w]}
    /\ UNCHANGED <<gvars, held, fvars, mvars>>

\* The workers' select has no <-ctx.Done() arm.
MutNoCtxArm(w) == w \notin Workers /\ UNCHANGED vars

\* The closer waits for the feeder only, not for the workers.
MutCloseEarly ==
    /\ feeder = "done"
    /\ results = "open"
    /\ results' = "closed"
    /\ cancelled' = cancelled \cup {"group"}
    /\ UNCHANGED <<err, wvars, fvars, main, got, ret, delivered, skipped>>

\* The closer waits for the group and forgets to close the channel.
MutNeverClose ==
    /\ feeder = "done" /\ \A w \in Workers : pc[w] = "done"
    /\ cancelled' = cancelled \cup {"group"}
    /\ UNCHANGED <<err, wvars, fvars, mvars, skipped>>

----------------------------------------------------------------------------
(* errgroup.Group (external): only the first error is recorded, and it is  *)
(* recorded before the group's context is cancelled.                       *)
GroupError(e) ==
    /\ err' = IF err = "nil" THEN e ELSE err
    /\ cancelled' = cancelled \cup {"group"}

\* The caller's context is cancelled (signal, timeout, an outer error).
ParentCancel ==
    /\ "caller" \notin cancelled
    /\ cancelled' = cancelled \cup {"caller"}
    /\ UNCHANGED <<err, wvars, fvars, mvars, skipped>>

----------------------------------------------------------------------------
(* The feeder.                                                             *)

\* The "itemCh <- item" arm meets a worker that ranges over the channel.
Send(w) ==
    /\ feeder = "send"
    /\ next <= NumItems
    /\ pc[w] = "recv"
    /\ pc' = [pc EXCEPT ![w] = "item"]
    /\ held' = [held EXCEPT ![w] = next]
    /\ next' = next + 1
    /\ UNCHANGED <<gvars, feeder, mvars, skipped>>

\* The "<-ctx.Done()" arm of the feeder.
FeederCancelled ==
    /\ feeder = "send"
    /\ next <= NumItems
    /\ CtxDone
    /\ feeder' = "done"
    /\ GroupError("ctx")
    /\ UNCHANGED <<next, wvars, mvars, skipped>>

\* fs.WalkDir hands an error to the callback, or d.Info() fails.
WalkError ==
    /\ Walking
    /\ feeder = "send"
    /\ feeder' = "done"
    /\ GroupError("walk")
    /\ UNCHANGED <<next, wvars, mvars, skipped>>

FeederDone ==
    /\ feeder = "send"
    /\ next > NumItems
    /\ feeder' = "done"
    /\ UNCHANGED <<gvars, next, wvars, mvars, skipped>>

----------------------------------------------------------------------------
(* The workers.                                                            *)

\* The item channel is closed: the range loop ends.
WorkerDone(w) ==
    /\ pc[w] = "recv"
    /\ feeder = "done"
    /\ pc' = [pc EXCEPT ![w] = "done"]
    /\ UNCHANGED <<gvars, held, fvars, mvars, skipped>>

OnItem(w) ==
    /\ pc[w] = "item"
    /\ pc' = [pc EXCEPT ![w] = "send"]
    /\ UNCHANGED <<gvars, held, fvars, mvars, skipped>>

\* onItem fails, or in walk() the open, the stat or the type assertion does.
OnItemError(w) ==
    /\ pc[w] = "item"
    /\ pc' = [pc EXCEPT ![w] = "done"]
    /\ GroupError("item")
    /\ UNCHANGED <<held, fvars, mvars, skipped>>

\* walk() logs an error of onFile and goes on with the next path.
OnFileError(w) ==
    /\ Walking
    /\ pc[w] = "item"
    /\ pc' = [pc EXCEPT ![w] = "recv"]
    /\ skipped' = skipped \cup {held[w]}
    /\ UNCHANGED <<gvars, held, fvars, mvars>>

\* The "results <- res" arm meets the caller's range loop.
SendResult(w) ==
    /\ pc[w] = "send"
    /\ main = "recv"
    /\ pc' = [pc EXCEPT ![w] = "recv"]
    /\ main' = "handle"
    /\ got' = held[w]
    /\ UNCHANGED <<gvars, held, fvars, results, ret, delivered, skipped>>

WorkerCancelled(w) ==
    /\ pc[w] = "send"
    /\ CtxDone
    /\ pc' = [pc EXCEPT ![w] = "done"]
    /\ GroupError("ctx")
    /\ UNCHANGED <<held, fvars, mvars, skipped>>

----------------------------------------------------------------------------
(* The closer goroutine and the caller.                                    *)

GroupEmpty == feeder = "done" /\ \A w \in Workers : pc[w] = "done"

\* g.Wait() returns (and cancels the group's context), then close(results).
Close ==
    /\ GroupEmpty
    /\ results = "open"
    /\ results' = "closed"
    /\ cancelled' = cancelled \cup {"group"}
    /\ UNCHANGED <<err, wvars, fvars, main, got, ret, delivered, skipped>>

OnResult ==
    /\ main = "handle"
    /\ main' = "recv"
    /\ delivered' = [delivered EXCEPT ![got] = @ + 1]
    /\ UNCHANGED <<gvars, wvars, fvars, results, got, ret, skipped>>

\* Do returns at once: nobody receives from results any more.
OnResultError ==
    /\ main = "handle"
    /\ main' = "returned"
    /\ ret' = "result"
    /\ UNCHANGED <<gvars, wvars, fvars, results, got, delivered, skipped>>

\* The range over results ends; the second g.Wait() returns the group's error.
Return ==
    /\ main = "recv"
    /\ results = "closed"
    /\ main' = "returned"
    /\ ret' = err
    /\ UNCHANGED <<gvars, wvars, fvars, results, got, delivered, skipped>>

\* Do has returned: the goroutines it leaves behind may be blocked for good.
Stopped == main = "returned" /\ UNCHANGED vars

Feeder    == FeederCancelled \/ WalkError \/ FeederDone
Worker(w) == \/ WorkerDone(w) \/ OnItem(w) \/ OnItemError(w)
             \/ OnFileError(w) \/ WorkerCancelled(w)
Caller    == OnResult \/ OnResultError \/ Return

Next ==
    \/ ParentCancel
    \/ \E w \in Workers : Send(w) \/ SendResult(w) \/ Worker(w)
    \/ Feeder
    \/ Close
    \/ Caller
    \/ Stopped

Spec == Init /\ [][Next]_vars

(* Goroutines run, rendezvous that stay possible are made, and onItem and  *)
(* onResult return; nothing makes an error or a cancellation happen.       *)
Fairness ==
    /\ WF_vars(Feeder)
    /\ \A w \in Workers : WF_vars(Send(w)) /\ WF_vars(SendResult(w)) /\ WF_vars(Worker(w))
    /\ WF_vars(Close)
    /\ WF_vars(Caller)

FairSpec == Spec /\ Fairness

----------------------------------------------------------------------------
TypeOK ==
    /\ cancelled \subseteq {"caller", "group"}
    /\ err \in Errors \cup {"nil"}
    /\ feeder \in {"send", "done"}
    /\ next \in 1 .. NumItems + 1
    /\ pc \in [Workers -> {"recv", "item", "send", "done"}]
    /\ held \in [Workers -> 0 .. NumItems]
    /\ results \in {"open", "closed"}
    /\ main \in {"recv", "handle", "returned"}
    /\ got \in 0 .. NumItems
    /\ ret \in Errors \cup {"none", "nil", "result"}
    /\ delivered \in [Items -> Nat]
    /\ skipped \subseteq Items

\* An item is processed again by nobody: onResult sees its result at most once,
\* and never the result of a file whose error walk() swallowed.
AtMostOnce ==
    \A i \in Items : delivered[i] <= 1 /\ (i \in skipped => delivered[i] = 0)

\* When Do returns nil no result was lost on the way: every item was given to
\* onResult exactly once, except the files WalkDir skipped on purpose.
CompleteOnSuccess ==
    ret = "nil" => \A i \in Items : delivered[i] = 1 \/ i \in skipped

\* The error Do returns is the cause, not its echo: the context error that the
\* cancelled goroutines return never hides the error that cancelled them.
CauseReported == ret = "ctx" => "caller" \in cancelled

\* The results channel is never closed under a worker that may still send on it.
NoSendOnClosed == results = "closed" => \A w \in Workers : pc[w] = "done"

\* Unless onResult failed, no goroutine of the group outlives Do.
NoLeak == ret \notin {"none", "result"} => GroupEmpty /\ results = "closed"

\* Do cleans up after itself: close(results) cannot meet a send, which would
\* panic, and unless onResult failed nothing it started is left when it returns.
CleanEnd == NoSendOnClosed /\ NoLeak

\* Do always returns, whatever fails.
Returns == <>(main = "returned")

\* The goroutines an onResult error leaves blocked end with the caller's context.
LeakEndsWithParent == 
    (main = "returned" /\ "caller" \in cancelled) ~> (GroupEmpty /\ results = "closed")
----------------------------------------------------------------------------
Abs == INSTANCE ParallelMap WITH
    out      <- {i \in Items : delivered[i] > 0},
    dropped  <- skipped,
    result   <- ret,
    Failures <- Errors \cup {"result"}

\* The goroutines together do what ParallelMap promises: each step of Do or of
\* WalkDir delivers one new item, skips one, returns, or changes nothing a
\* caller can see.
Implements == Abs!Spec

----------------------------------------------------------------------------
(* The inductive invariant behind the safety properties: where each item   *)
(* that was sent is now, and what the group's error stands for.            *)

Holding(w) == pc[w] \in {"item", "send"}

\* An item has one place: one worker, the caller's hand, delivered or skipped.
OnePlace ==
    /\ \A w \in Workers : Holding(w) =>
         /\ held[w] \in Items
         /\ held[w] < next
         /\ delivered[held[w]] = 0
         /\ held[w] \notin skipped
         /\ main = "handle" => got # held[w]
         /\ \A v \in Workers : Holding(v) /\ held[v] = held[w] => v = w
    /\ main = "handle" =>
         got \in Items /\ got < next /\ delivered[got] = 0 /\ got \notin skipped
    /\ \A i \in Items : i >= next => delivered[i] = 0 /\ i \notin skipped

\* While nothing failed, every item that was sent still has a place.
Conserved ==
    /\ err = "nil" /\ main # "returned" =>
         \A i \in Items : i < next =>
            \/ delivered[i] = 1
            \/ i \in skipped
            \/ main = "handle" /\ got = i
            \/ \E w \in Workers : Holding(w) /\ held[w] = i
    /\ err = "nil" /\ feeder = "done" => next > NumItems

\* Only an error or the end of the group cancels the group's own context.
ErrorCause ==
    /\ "group" \in cancelled => err # "nil" \/ results = "closed"
    /\ err = "ctx" => "caller" \in cancelled
    /\ main # "returned" => ret = "none"
    /\ results = "closed" => GroupEmpty
    /\ ret \notin {"none", "result"} => results = "closed" /\ ret = err

IInv == TypeOK /\ AtMostOnce /\ OnePlace /\ Conserved /\ ErrorCause /\ CompleteOnSuccess
=============================================================================
