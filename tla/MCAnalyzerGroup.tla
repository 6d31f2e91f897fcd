-------------------------- MODULE MCAnalyzerGroup ---------------------------
(* Instance of AnalyzerGroup for TLC: three files, the last one only for    *)
(* the post-analyzers, three jobs, and what the analyzers find in an        *)
(* Ubuntu, an Oracle Linux and a CentOS tree.                               *)
EXTENDS AnalyzerGroup

MCWanted == <<1, 2, 0>>
MCPathOf == <<1, 1, 2>>

Found(family, name) == [NoOS EXCEPT !.family = family, !.name = name]

InOrder(a, b, c) ==
    [j \in {<<1, 1>>, <<2, 1>>, <<2, 2>>} |->
        CASE j = <<1, 1>> -> a [] j = <<2, 1>> -> b [] j = <<2, 2>> -> c]

MCInputs == {
    [mode |-> "root", parallel |-> 0,
     finds |-> InOrder(Found("debian", <<"bullseye/sid">>), Found("ubuntu", <<"20", "04">>),
                       [Found("ubuntu", <<>>) EXCEPT !.extended = "yes"])],
    [mode |-> "root", parallel |-> 2,
     finds |-> InOrder(Found("redhat", <<"7", "9">>), Found("centos", <<"7">>),
                       Found("centos", <<"7", "9", "2009">>))],
    [mode |-> "static", parallel |-> 1,
     finds |-> InOrder(Found("oracle", <<"8", "9">>), Found("redhat", <<"8", "9">>),
                       [NoOS EXCEPT !.supplier = "rapidfort"])]}

\* What DetectedOSProofs assumes of the inputs.
ASSUME CoherentInputs == \A in \in MCInputs : Coherent(in)
=============================================================================
