------------------------------ MODULE OSMerge -------------------------------
(***************************************************************************)
(* The OS of an artifact (OS in pkg/fanal/types/artifact.go) and the merge *)
(* by which the answers of several analyzers, and later of several layers, *)
(* become one.  A version is the sequence of its dotted parts, so that     *)
(* "7.9.2009" continues "7"; the empty version is the empty sequence.      *)
(***************************************************************************)
EXTENDS Sequences, SequencesExt

IsOS(o) ==
    /\ o = [family |-> o.family, name |-> o.name, extended |-> o.extended, supplier |-> o.supplier]
    /\ o.name \in Seq(STRING)
    /\ o.extended \in {"yes", "no"}

NoOS == [family |-> "", name |-> <<>>, extended |-> "no", supplier |-> ""]

\* The families that a more specific release file corrects.
Provisional == {"redhat", "debian"}

OSTypeAliases ==
    [f \in {"opensuse.leap", "opensuse.tumbleweed", "suse linux enterprise micro",
            "suse linux enterprise server", "amazon linux", "debian gnu/linux"} |->
        CASE f = "opensuse.leap"                -> "opensuse-leap"
          [] f = "opensuse.tumbleweed"          -> "opensuse-tumbleweed"
          [] f = "suse linux enterprise micro"  -> "slem"
          [] f = "suse linux enterprise server" -> "sles"
          [] f = "amazon linux"                 -> "amazon"
          [] f = "debian gnu/linux"             -> "debian"]

Normalize(o) ==
    IF o.family \in DOMAIN OSTypeAliases
    THEN [o EXCEPT !.family = OSTypeAliases[o.family]]
    ELSE o

\* The first non-empty string (cmp.Or).
FirstOf(a, b) == IF a # "" THEN a ELSE b

\* What is filled in when the family at hand stands: an empty family or version,
\* a fuller version of the same family, the enrolment in extended maintenance.
Complete(o, n) ==
    LET family == FirstOf(o.family, n.family)
    IN  [family   |-> family,
         name     |-> IF o.name = <<>> \/ (family = n.family /\ IsStrictPrefix(o.name, n.name))
                      THEN n.name ELSE o.name,
         extended |-> IF n.extended = "yes" THEN "yes" ELSE o.extended,
         supplier |-> o.supplier]

----------------------------------------------------------------------------
(* Mutants: the merge as plausible bugs would have it.                     *)

\* The first answer stands, provisional or not.
MutFirstStands(o, n) ==
    IF n = NoOS THEN o
    ELSE Normalize([Complete(o, n) EXCEPT !.supplier = FirstOf(o.supplier, n.supplier)])

----------------------------------------------------------------------------
\* OS.Merge: a provisional family is overwritten by any answer that names one,
\* the supplier survives in any case.
Merge(o, n) ==
    IF n = NoOS THEN o
    ELSE LET os == IF o.family \in Provisional /\ n.family # "" THEN n ELSE Complete(o, n)
         IN  Normalize([os EXCEPT !.supplier = FirstOf(o.supplier, n.supplier)])
=============================================================================
