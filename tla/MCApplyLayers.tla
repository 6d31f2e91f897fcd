--------------------------- MODULE MCApplyLayers ----------------------------
(* Instance of ApplyLayers for TLC: three layers, each with any of the ways *)
(* to hide lower files and any of the sets of findings below.               *)
EXTENDS ApplyLayers

MCPaths   == {<<"a">>, <<"a", "b">>, <<"c">>}
MCNamespace == [p \in Pkgs |-> IF p = "y" THEN "debian" ELSE ""]
MCSecrets == {<<"aws", 1>>, <<"aws", 2>>, <<"jwt", 1>>}
MCImages  == {<<1, 2>>, <<3, 2>>, <<1, 3, 2>>}

\* <<opaque directories, whiteouts>>
Hiding == {<<{}, {}>>, <<{<<"a">>}, {}>>, <<{<<>>}, {}>>,
           <<{}, {<<"a">>}>>, <<{}, {<<"a", "b">>}>>, <<{}, {<<"c">>}>>}

AB == <<"a", "b">>
Found(S) == [k \in Keys |-> {t[3] : t \in {u \in S : <<u[1], u[2]>> = k}}]
\* <<path, kind, package, layer>>: what comes from an SBOM, with the layer it states
FromFile(S) == {<<t[1], t[2]>> : t \in S} \cap (Paths \X {"ospkg", "lib"})
States(S) == [k \in Keys |-> [p \in Pkgs |->
                 IF \E t \in S : <<t[1], t[2], t[3]>> = <<k[1], k[2], p>>
                 THEN (CHOOSE t \in S : <<t[1], t[2], t[3]>> = <<k[1], k[2], p>>)[4]
                 ELSE NoLayer]]
Leaks(S) == [p \in Paths |-> {t[2] : t \in {u \in S : u[1] = p}}]
OSIs(family, name) == [NoOS EXCEPT !.family = family, !.name = name]

\* <<findings, secrets, OS, stated layers>>
Content == {
    <<{}, {}, NoOS, {}>>,
    <<{<<AB, "lib", "x">>, <<AB, "lib", "y">>, <<<<"c">>, "ospkg", "x">>},
      {<<AB, <<"aws", 1>>>>, <<AB, <<"aws", 2>>>>}, OSIs("debian gnu/linux", <<"12">>), {}>>,
    <<{<<AB, "lib", "x">>, <<<<"a">>, "ospkg", "x">>, <<<<"c">>, "custom", "x">>},
      {<<AB, <<"jwt", 1>>>>}, OSIs("ubuntu", <<"20", "04">>), {}>>,
    \* two SBOMs, which disagree on the layer of package y
    <<{<<<<"c">>, "lib", "x">>, <<<<"c">>, "ospkg", "x">>, <<<<"c">>, "ospkg", "y">>,
       <<AB, "ospkg", "y">>, <<<<"c">>, "custom", "y">>, <<AB, "stamped", "x">>},
      {<<AB, <<"aws", 1>>>>}, NoOS,
      {<<<<"c">>, "lib", "x", 3>>, <<<<"c">>, "ospkg", "x", 3>>, <<<<"c">>, "ospkg", "y", NoLayer>>,
       <<AB, "ospkg", "y", 1>>, <<<<"c">>, "custom", "y", 3>>}>>}

MCBlobs == {[opaque |-> h[1], whiteouts |-> h[2],
             found |-> Found(c[1]), secrets |-> Leaks(c[2]), os |-> c[3],
             sbom |-> FromFile(c[4]), stated |-> States(c[4])] :
                h \in Hiding, c \in Content}
=============================================================================
