----------------------------- MODULE MCScanFlow -----------------------------
(* An Alpine base image, an application image built on it, a variant of the *)
(* base image with the same layer and another configuration, a clean commit,*)
(* a directory, an SBOM file, and the base image with that SBOM as referrer.*)
EXTENDS ScanFlow

CONSTANTS s1, s2, s3, baseImage, appImage, variant, repo, dir, sbom, attested, l1, l2, c1, f1

Attr(t, img, app, rest) ==
    IF t \in {baseImage, variant} THEN img ELSE IF t = appImage THEN app ELSE rest

MCKind == [t \in Targets |->
    IF t = repo THEN "commit" ELSE IF t = dir THEN "dir" ELSE IF t = sbom THEN "file"
    ELSE IF t = attested THEN "attested" ELSE "image"]

MCOtherwise == [t \in Targets |-> IF t = attested THEN baseImage ELSE t]

MCDiffIDs == [t \in Targets |->
    Attr(t, <<l1>>, <<l1, l2>>, IF t = repo THEN <<c1>> ELSE IF t = dir THEN <<>> ELSE <<f1>>)]

MCHistory == [t \in Targets |->
    Attr(t, <<"layer", "cmd">>, <<"layer", "cmd", "empty", "layer", "cmd">>, <<>>)]

\* Scans differ in their names only, so each pair of targets is looked at once: the
\* same target twice, targets that share an entry of the cache, and two that share
\* none.  Left out are other unrelated targets, and an attested image next to another
\* one or to the application image: it keeps its blobs, and the SBOM's key as well
\* as the image it falls back to are in the pairs here.
Pairs == {
    <<baseImage, baseImage>>, <<appImage, appImage>>, <<repo, repo>>, <<dir, dir>>, <<sbom, sbom>>,
    <<baseImage, appImage>>, <<sbom, attested>>, <<baseImage, attested>>, <<appImage, dir>>}

PairInit == Init /\ <<target[s1], target[s2]>> \in Pairs

PairSpec == PairInit /\ [][Next]_vars /\ Fairness
=============================================================================
