-------------------------- MODULE DetectedOSProofs ---------------------------
(***************************************************************************)
(* What the order in which the goroutines of an analysis merge their       *)
(* answers can change in the OS it detects: only the version, and only if  *)
(* an answer names a family without one; for any number of analyses of a   *)
(* coherent tree.                                                          *)
(***************************************************************************)
EXTENDS AnalyzerGroupProofs, SequenceTheorems

\* Families, Firm, Fullest and Borrowed for any OS and set of answers.
Named(M)  == {o.family : o \in M} \ {""}
FirmOf(M) == Named(M) \ Provisional

FullestOf(o, M) ==
    /\ \A n \in M : n.family = o.family => IsPrefix(n.name, o.name)
    /\ o.name # <<>> => \E n \in M : n.family = o.family /\ n.name = o.name

BorrowedOf(o, M) ==
    /\ \E n \in M : n.family = o.family /\ n.name = <<>>
    /\ \E n \in M : n.family # o.family /\ n.name = o.name
    /\ \A n \in M : n.family = o.family => ~IsStrictPrefix(o.name, n.name)

\* A set of answers that come from a coherent tree.
CoherentSet(M) ==
    \A o, n \in M :
        /\ IsOS(o)
        /\ o.family \notin DOMAIN OSTypeAliases
        /\ o.family = "" => o.name = <<>>
        /\ o.extended = "yes" => o.family \notin Provisional \cup {""}
        /\ o.family = n.family => IsPrefix(o.name, n.name) \/ IsPrefix(n.name, o.name)

\* DetectedOS for the answers M, and what it needs to be inductive: before a family
\* is named there is no version, and a family whose enrolment is recorded is not
\* overwritten.
FamilyOf(o, M) ==
    /\ IF Named(M) = {} THEN o.family = "" /\ o.name = <<>> ELSE o.family \in Named(M)
    /\ FirmOf(M) # {} => o.family \in FirmOf(M)

VersionOf(o, M) ==
    FirmOf(M) # {} => FullestOf(o, M) \/ (o.name # <<>> /\ BorrowedOf(o, M))

EnrolmentOf(o, M) ==
    /\ o.extended = "yes" <=> \E n \in M : n.extended = "yes"
    /\ o.extended = "yes" => o.family \notin Provisional \cup {""}

SupplierOf(o, M) == o.supplier # "" <=> \E n \in M : n.supplier # ""

Detects(o, M) == IsOS(o) /\ FamilyOf(o, M) /\ VersionOf(o, M) /\ EnrolmentOf(o, M) /\ SupplierOf(o, M)

----------------------------------------------------------------------------
(* Prefixes.                                                               *)

\* A prefix agrees with the sequence at each of its positions.
LEMMA PrefixPoints ==
    ASSUME NEW s \in Seq(STRING), NEW t \in Seq(STRING)
    PROVE  IsPrefix(s, t) <=> Len(s) <= Len(t) /\ \A i \in 1 .. Len(s) : s[i] = t[i]
<1>1. CASE Len(s) <= Len(t)
  <2>1. /\ SubSeq(s, 1, Len(s)) = [i \in 1 .. Len(s) |-> s[i]]
        /\ SubSeq(t, 1, Len(s)) = [i \in 1 .. Len(s) |-> t[i]]
      BY <1>1
  <2> QED  BY <1>1, <2>1 DEF IsPrefix
<1>2. CASE ~(Len(s) <= Len(t))
    BY <1>2 DEF IsPrefix
<1> QED  BY <1>1, <1>2

\* Prefixes are ordered, and the empty version is the least.
LEMMA PrefixOrder ==
    ASSUME NEW s \in Seq(STRING), NEW t \in Seq(STRING), NEW u \in Seq(STRING)
    PROVE  /\ IsPrefix(s, s)
           /\ s = <<>> => IsPrefix(s, t)
           /\ IsPrefix(s, t) /\ t = <<>> => s = <<>>
           /\ IsPrefix(s, t) /\ IsPrefix(t, u) => IsPrefix(s, u)
<1>0. Len(<<>>) = 0 /\ Len(s) \in Nat /\ Len(t) \in Nat /\ (s # <<>> => Len(s) # 0)
    BY EmptySeq
<1>1. IsPrefix(s, s)
    BY PrefixPoints
<1>2. ASSUME s = <<>> PROVE IsPrefix(s, t)
  <2>1. Len(s) = 0
      BY <1>0, <1>2
  <2>2. Len(s) <= Len(t) /\ \A i \in 1 .. Len(s) : s[i] = t[i]
      BY <1>0, <2>1
  <2> QED  BY <2>2, PrefixPoints
<1>3. ASSUME IsPrefix(s, t), t = <<>> PROVE s = <<>>
  <2>1. Len(t) = 0 /\ Len(s) <= Len(t)
      BY <1>0, <1>3, PrefixPoints
  <2> QED  BY <1>0, <2>1
<1>4. IsPrefix(s, t) /\ IsPrefix(t, u) => IsPrefix(s, u)
    BY PrefixPoints
<1> QED  BY <1>1, <1>2, <1>3, <1>4

----------------------------------------------------------------------------
(* The merge of one more answer.                                           *)

\* The merge field by field, for families that are no old names.
LEMMA MergeFields ==
    ASSUME NEW o, NEW n, IsOS(o), IsOS(n), n # NoOS,
           o.family \notin DOMAIN OSTypeAliases, n.family \notin DOMAIN OSTypeAliases
    PROVE  LET m == Merge(o, n)
           IN  /\ m.supplier = FirstOf(o.supplier, n.supplier)
               /\ o.family \in Provisional /\ n.family # "" =>
                    m.family = n.family /\ m.name = n.name /\ m.extended = n.extended
               /\ ~(o.family \in Provisional /\ n.family # "") =>
                    /\ m.family = FirstOf(o.family, n.family)
                    /\ m.name = IF o.name = <<>> \/ (m.family = n.family /\ IsStrictPrefix(o.name, n.name))
                                THEN n.name ELSE o.name
                    /\ m.extended = IF n.extended = "yes" THEN "yes" ELSE o.extended
<1> DEFINE best == IF o.family \in Provisional /\ n.family # "" THEN n ELSE Complete(o, n)
<1>1. IsOS(Complete(o, n))
    BY DEF Complete, IsOS
<1>2. IsOS(best)
    BY <1>1
<1>3. best.family \notin DOMAIN OSTypeAliases
    BY DEF Complete, FirstOf
<1>4. Merge(o, n) = [best EXCEPT !.supplier = FirstOf(o.supplier, n.supplier)]
  <2>1. [best EXCEPT !.supplier = FirstOf(o.supplier, n.supplier)].family = best.family
      BY <1>2 DEF IsOS
  <2> QED  BY <1>3, <2>1 DEF Merge, Normalize
<1>5. /\ Merge(o, n).family = best.family /\ Merge(o, n).name = best.name
      /\ Merge(o, n).extended = best.extended
      /\ Merge(o, n).supplier = FirstOf(o.supplier, n.supplier)
    BY <1>2, <1>4 DEF IsOS
<1> QED  BY <1>5 DEF Complete

\* What continues a sequence strictly, continued in turn, still does.
LEMMA StrictPrefixExtends ==
    ASSUME NEW s \in Seq(STRING), NEW t \in Seq(STRING), NEW u \in Seq(STRING),
           IsStrictPrefix(s, t), IsPrefix(t, u)
    PROVE  IsStrictPrefix(s, u)
<1>1. IsPrefix(s, t) /\ s # t /\ IsPrefix(s, u)
    BY PrefixOrder DEF IsStrictPrefix
<1>2. s # u
  <2> SUFFICES ASSUME s = u PROVE FALSE
      OBVIOUS
  <2>1. Len(s) = Len(t) /\ \A i \in 1 .. Len(s) : s[i] = t[i]
      BY <1>1, PrefixPoints
  <2>2. s = t
      BY <2>1, SeqEqual
  <2> QED  BY <1>1, <2>2
<1> QED  BY <1>1, <1>2 DEF IsStrictPrefix

\* One more answer for the family at hand keeps the fullest version.
LEMMA FullestStays ==
    ASSUME NEW M, NEW o, NEW n, NEW m, CoherentSet(M \cup {n}), FullestOf(o, M),
           n.family = o.family, m.family = o.family,
           n.name \in Seq(STRING), o.name \in Seq(STRING), \A a \in M : a.name \in Seq(STRING),
           m.name = IF o.name = <<>> \/ (m.family = n.family /\ IsStrictPrefix(o.name, n.name))
                    THEN n.name ELSE o.name
    PROVE  FullestOf(m, M \cup {n})
<1>1. CASE o.name = <<>> \/ IsStrictPrefix(o.name, n.name)
  <2>1. m.name = n.name /\ IsPrefix(o.name, n.name)
      BY <1>1, PrefixOrder DEF IsStrictPrefix
  <2> QED  BY <2>1, PrefixOrder DEF FullestOf
<1>2. CASE ~(o.name = <<>> \/ IsStrictPrefix(o.name, n.name))
  <2>1. m.name = o.name
      BY <1>2
  <2>2. PICK a \in M : a.family = o.family /\ a.name = o.name
      BY <1>2 DEF FullestOf
  <2>3. IsPrefix(a.name, n.name) \/ IsPrefix(n.name, a.name)
      BY <2>2 DEF CoherentSet
  <2>4. IsPrefix(n.name, o.name)
      BY <1>2, <2>2, <2>3, PrefixOrder DEF IsStrictPrefix
  <2> QED  BY <2>1, <2>2, <2>4 DEF FullestOf
<1> QED  BY <1>1, <1>2

\* One more answer is merged.
LEMMA MergeDetects ==
    ASSUME NEW M, NEW o, NEW n, n # NoOS, CoherentSet(M \cup {n}), Detects(o, M)
    PROVE  Detects(Merge(o, n), M \cup {n})
<1> DEFINE m == Merge(o, n)
           N == M \cup {n}
           over == o.family \in Provisional /\ n.family # ""
<1>1. IsOS(o) /\ IsOS(n) /\ \A a \in M : IsOS(a)
    BY DEF Detects, CoherentSet
<1>2. Named(N) = Named(M) \cup ({n.family} \ {""}) /\ FirmOf(N) = FirmOf(M) \cup ({n.family} \ ({""} \cup Provisional))
    BY DEF Named, FirmOf
<1>3. o.family \notin DOMAIN OSTypeAliases /\ n.family \notin DOMAIN OSTypeAliases
  <2>1. "" \notin DOMAIN OSTypeAliases
      BY DEF OSTypeAliases
  <2>2. \A f \in Named(M) : f \notin DOMAIN OSTypeAliases
      BY DEF Named, CoherentSet
  <2> QED  BY <2>1, <2>2 DEF Detects, FamilyOf, CoherentSet
<1>4. /\ m.supplier = FirstOf(o.supplier, n.supplier)
      /\ over => m.family = n.family /\ m.name = n.name /\ m.extended = n.extended
      /\ ~over => /\ m.family = FirstOf(o.family, n.family)
                  /\ m.name = IF o.name = <<>> \/ (m.family = n.family /\ IsStrictPrefix(o.name, n.name))
                              THEN n.name ELSE o.name
                  /\ m.extended = IF n.extended = "yes" THEN "yes" ELSE o.extended
    BY <1>1, <1>3, MergeFields
<1>5. IsOS(m)
    BY <1>1, MergeType
<1> HIDE DEF m
<1>6. o.family = "" <=> Named(M) = {}
    BY DEF Detects, FamilyOf, Named
<1>7. n.family = "" => n.name = <<>>
    BY DEF CoherentSet
<1>8. FamilyOf(m, N)
  <2>1. CASE Named(N) = {}
      BY <1>2, <1>4, <1>6, <1>7, <2>1 DEF FamilyOf, FirstOf, Detects, FirmOf
  <2>2. CASE Named(N) # {}
    <3>1. m.family \in Named(N)
        BY <1>2, <1>4, <1>6, <2>2 DEF FamilyOf, FirstOf, Detects
    <3>2. FirmOf(N) # {} => m.family \in FirmOf(N)
        BY <1>2, <1>4, <1>6 DEF FamilyOf, FirstOf, Detects, FirmOf, Provisional
    <3> QED  BY <2>2, <3>1, <3>2 DEF FamilyOf
  <2> QED  BY <2>1, <2>2
<1>9. SupplierOf(m, N)
    BY <1>4 DEF SupplierOf, FirstOf, Detects
<1>10. EnrolmentOf(m, N)
  <2>1. n.extended = "yes" => n.family \notin Provisional \cup {""}
      BY DEF CoherentSet
  <2>2. m.extended = "yes" <=> o.extended = "yes" \/ n.extended = "yes"
      BY <1>4, <2>1 DEF Detects, EnrolmentOf
  <2>3. m.extended = "yes" => m.family \notin Provisional \cup {""}
      BY <1>4, <2>1 DEF Detects, EnrolmentOf, FirstOf
  <2> QED  BY <2>2, <2>3 DEF EnrolmentOf, Detects
<1>11. VersionOf(m, N)
  <2> SUFFICES ASSUME FirmOf(N) # {}
               PROVE  FullestOf(m, N) \/ (m.name # <<>> /\ BorrowedOf(m, N))
      BY DEF VersionOf
  <2>1. n.name \in Seq(STRING) /\ o.name \in Seq(STRING) /\ \A a \in M : a.name \in Seq(STRING)
      BY <1>1 DEF IsOS
  <2>2. CASE FirmOf(M) = {}
    <3>1. n.family # "" /\ n.family \notin Provisional
        BY <1>2, <2>2
    <3>2. m.family = n.family /\ m.name = n.name
      <4>1. CASE over
          BY <1>4, <4>1
      <4>2. CASE ~over
        <5>1. o.family = "" /\ o.name = <<>>
            BY <2>2, <3>1, <4>2, <1>6 DEF Detects, FamilyOf, FirmOf
        <5> QED  BY <1>4, <4>2, <5>1 DEF FirstOf
      <4> QED  BY <4>1, <4>2
    <3>3. \A a \in M : a.family # n.family
        BY <2>2, <3>1 DEF FirmOf, Named
    <3> QED  BY <2>1, <3>2, <3>3, PrefixOrder DEF FullestOf
  <2>3. CASE FirmOf(M) # {}
    <3>1. o.family \in FirmOf(M) /\ o.family # "" /\ ~over
        BY <2>3 DEF Detects, FamilyOf, FirmOf, Named
    <3>2. m.family = o.family
        BY <1>4, <3>1 DEF FirstOf
    <3>3. FullestOf(o, M) \/ (o.name # <<>> /\ BorrowedOf(o, M))
        BY <2>3 DEF Detects, VersionOf
    <3>4. CASE FullestOf(o, M) /\ n.family = o.family
        BY <1>4, <2>1, <3>1, <3>2, <3>4, FullestStays
    <3>5. CASE FullestOf(o, M) /\ n.family # o.family
      <4>1. CASE o.name # <<>> \/ n.name = <<>>
        <5>1. m.name = o.name
            BY <1>4, <3>1, <3>2, <3>5, <4>1
        <5> QED  BY <3>2, <3>5, <5>1 DEF FullestOf
      <4>2. CASE o.name = <<>> /\ n.name # <<>>
        <5>1. m.name = n.name
            BY <1>4, <3>1, <4>2
        <5>2. \A a \in M : a.family = o.family => a.name = <<>>
            BY <2>1, <3>5, <4>2, PrefixOrder DEF FullestOf
        <5>3. \E a \in M : a.family = o.family
            BY <3>1 DEF FirmOf, Named
        <5>4. \A a \in N : a.family = o.family => ~IsStrictPrefix(m.name, a.name)
            BY <2>1, <3>5, <4>2, <5>1, <5>2, PrefixOrder DEF IsStrictPrefix
        <5> QED  BY <3>2, <3>5, <4>2, <5>1, <5>2, <5>3, <5>4 DEF BorrowedOf
      <4> QED  BY <4>1, <4>2
    <3>6. CASE o.name # <<>> /\ BorrowedOf(o, M)
      <4>1. CASE n.family = o.family /\ IsStrictPrefix(o.name, n.name)
        <5>1. m.name = n.name
            BY <1>4, <3>1, <3>2, <4>1
        <5>2. ASSUME NEW a \in M, a.family = o.family PROVE IsPrefix(a.name, n.name)
          <6>1. ~IsStrictPrefix(o.name, a.name)
              BY <3>6, <5>2 DEF BorrowedOf
          <6>2. IsPrefix(a.name, n.name) \/ IsPrefix(n.name, a.name)
              BY <4>1, <5>2 DEF CoherentSet
          <6> QED  BY <2>1, <4>1, <6>1, <6>2, StrictPrefixExtends
        <5>3. IsPrefix(n.name, n.name)
            BY <2>1, PrefixOrder
        <5> QED  BY <3>2, <4>1, <5>1, <5>2, <5>3 DEF FullestOf
      <4>2. CASE ~(n.family = o.family /\ IsStrictPrefix(o.name, n.name))
        <5>1. m.name = o.name
            BY <1>4, <3>1, <3>2, <3>6, <4>2
        <5> QED  BY <3>2, <3>6, <4>2, <5>1 DEF BorrowedOf
      <4> QED  BY <4>1, <4>2
    <3> QED  BY <3>3, <3>4, <3>5, <3>6
  <2> QED  BY <2>2, <2>3
<1> QED  BY <1>5, <1>8, <1>9, <1>10, <1>11 DEF Detects, m

----------------------------------------------------------------------------
(* The analysis.                                                           *)

\* What the merged results of a coherent tree are.
LEMMA MergedIsCoherent ==
    ASSUME IInv, \A in \in Inputs : Coherent(in)
    PROVE  CoherentSet({input.finds[j] : j \in Jobs})
<1>1. input \in Inputs
    BY DEF IInv, TypeOK
<1>2. \A j \in Jobs : IsOS(input.finds[j])
    BY <1>1, InputsAssumption
<1>3. Coherent(input)
    BY <1>1
<1> QED  BY <1>2, <1>3 DEF Coherent, CoherentSet

\* An analysis that is merged adds its answer to the merged ones; nothing else
\* changes them or the OS.
LEMMA MergedStep ==
    ASSUME IInv, [Next]_vars
    PROVE  \/ os' = os /\ Merged' = Merged
           \/ \E j \in Jobs : /\ os' = Merge(os, input.finds[j])
                              /\ Merged' = Merged \cup ({input.finds[j]} \ {NoOS})
<1> DEFINE done == {i \in Jobs : fate[i] = "merged"}
<1>1. ASSUME UNCHANGED <<input, fate, os>> PROVE os' = os /\ Merged' = Merged
    BY <1>1 DEF Merged
<1>2. ASSUME NEW j \in Jobs, NEW how, how # "merged", Ends(j, how), UNCHANGED <<input, os>>
      PROVE  os' = os /\ Merged' = Merged
  <2>1. done' = done
      BY <1>2 DEF Ends, IInv, TypeOK, Fates
  <2> QED  BY <1>2, <2>1 DEF Merged
<1>3. ASSUME NEW j \in Jobs, MergeResult(j)
      PROVE  /\ os' = Merge(os, input.finds[j])
             /\ Merged' = Merged \cup ({input.finds[j]} \ {NoOS})
  <2>1. done' = done \cup {j} /\ input' = input /\ os' = Merge(os, input.finds[j])
      BY <1>3 DEF MergeResult, Ends, IInv, TypeOK
  <2> QED  BY <2>1 DEF Merged
<1>4. ASSUME NEW f \in Files, Walk(f) PROVE UNCHANGED <<input, fate, os>>
    BY <1>4 DEF Walk, VisitDenied, WalkFails, Vanished, OpenDenied, Open, Acquire, AcquireFails,
       Link, LinkFails, procs
<1>5. ASSUME NEW j \in Jobs, Close(j) \/ Release(j) \/ Leave(j) PROVE UNCHANGED <<input, fate, os>>
    BY <1>5 DEF Close, Release, Leave
<1>6. ASSUME Finish \/ WalkEnds \/ UNCHANGED vars PROVE UNCHANGED <<input, fate, os>>
    BY <1>6 DEF Finish, Wait, PostAnalyze, PostHandle, PutBlob, WalkEnds, vars, procs
<1>7. ASSUME NEW how, CallerEnds(how) PROVE UNCHANGED <<input, fate, os>>
    BY <1>7 DEF CallerEnds, procs
<1>8. ASSUME NEW j \in Jobs, Drop(j) \/ Cut(j) \/ \E e \in GroupErrors : Fail(j, e)
      PROVE  os' = os /\ Merged' = Merged
    BY <1>2, <1>8 DEF Drop, Cut, Fail, GroupErrors
<1> QED  BY <1>1, <1>3, <1>4, <1>5, <1>6, <1>7, <1>8 DEF Next, Analyze, Stopped

\* DetectedOS is what Detects says of the merged results.
LEMMA DetectedFromMerged == Detects(os, Merged) => DetectedOS
BY DEF Detects, FamilyOf, VersionOf, EnrolmentOf, SupplierOf, DetectedOS, Families, Firm, Fullest,
       Borrowed, Named, FirmOf, FullestOf, BorrowedOf

\* For any number of analyses of a coherent tree and any order in which they are
\* merged: a family that is not provisional wins, enrolment and supplier are kept, and
\* the version is the fullest found for the family unless an answer that named it
\* without a version has taken over another family's.
THEOREM OrderChangesOnlyBorrowedVersions ==
    ASSUME \A in \in Inputs : Coherent(in)
    PROVE  Spec => []DetectedOS
<1>1. Init => Detects(os, Merged)
  <2> SUFFICES ASSUME Init PROVE Detects(os, Merged)
      OBVIOUS
  <2>1. Merged = {} /\ os = NoOS
      BY DEF Init, Merged
  <2>2. IsOS(os)
      BY InitHolds DEF IInv, TypeOK
  <2> QED  BY <2>1, <2>2 DEF Detects, FamilyOf, VersionOf, EnrolmentOf, SupplierOf, Named, FirmOf, NoOS
<1>2. IInv /\ Detects(os, Merged) /\ [Next]_vars => Detects(os, Merged)'
  <2> SUFFICES ASSUME IInv, Detects(os, Merged), [Next]_vars PROVE Detects(os', Merged')
      BY DEF Detects, FamilyOf, VersionOf, FullestOf, BorrowedOf, EnrolmentOf, SupplierOf
  <2>1. ASSUME NEW j \in Jobs, os' = Merge(os, input.finds[j]),
               Merged' = Merged \cup ({input.finds[j]} \ {NoOS})
        PROVE  Detects(os', Merged')
    <3>1. CASE input.finds[j] = NoOS
        BY <2>1, <3>1 DEF Merge
    <3>2. CASE input.finds[j] # NoOS
      <4>1. CoherentSet(Merged \cup {input.finds[j]})
          BY MergedIsCoherent DEF CoherentSet, Merged
      <4> QED  BY <2>1, <3>2, <4>1, MergeDetects
    <3> QED  BY <3>1, <3>2
  <2> QED  BY <2>1, MergedStep
<1> QED  BY <1>1, <1>2, Invariant, DetectedFromMerged, PTL DEF Spec
=============================================================================
