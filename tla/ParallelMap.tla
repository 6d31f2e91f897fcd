---------------------------- MODULE ParallelMap ----------------------------
(***************************************************************************)
(* What pkg/parallel promises its callers, without goroutines or channels: *)
(* each item's result is given to onResult at most once and in any order,  *)
(* a nil return means that none is missing, and after a return nothing     *)
(* happens any more, except that files may still be skipped behind the     *)
(* back of a caller whose onResult failed.                                 *)
(***************************************************************************)
CONSTANTS Items, Failures

VARIABLES out, dropped, result

vars == <<out, dropped, result>>

Init == out = {} /\ dropped = {} /\ result = "none"

Deliver(i) ==
    /\ result = "none"
    /\ i \notin out \cup dropped
    /\ out' = out \cup {i}
    /\ UNCHANGED <<dropped, result>>

Drop(i) ==
    /\ result \in {"none", "result"}
    /\ i \notin out \cup dropped
    /\ dropped' = dropped \cup {i}
    /\ UNCHANGED <<out, result>>

Return(e) ==
    /\ result = "none"
    /\ e = "nil" => out \cup dropped = Items
    /\ result' = e
    /\ UNCHANGED <<out, dropped>>

Next ==
    \/ \E i \in Items : Deliver(i) \/ Drop(i)
    \/ \E e \in Failures \cup {"nil"} : Return(e)

Spec == Init /\ [][Next]_vars
=============================================================================
