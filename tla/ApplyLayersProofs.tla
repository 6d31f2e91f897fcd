------------------------- MODULE ApplyLayersProofs --------------------------
(***************************************************************************)
(* Proofs about ApplyLayers, for any layers, files, packages and images.   *)
(***************************************************************************)
EXTENDS ApplyLayers, TLAPS, WellFoundedInduction

\* Nothing is attributed to a layer that is not applied yet, and a report is
\* there only when all are.
Bounded ==
    /\ \A k \in Keys : tree[k] \in 0 .. applied
    /\ \A p \in Paths : \A f \in secrets[p] : f[2] \in 1 .. applied
    /\ pc = "apply" => report = {}

IInv == TypeOK /\ Bounded /\ OverlayExact /\ SecretsKept

----------------------------------------------------------------------------
(* What is known of a blob.                                                *)

\* The image at hand is a sequence of layers.
LEMMA ImageType ==
    ASSUME TypeOK PROVE image \in Seq(Layers) /\ Len(image) \in Nat /\ applied \in Nat
<1>1. <<>> \in Seq(Layers)
    OBVIOUS
<1>2. image \in Seq(Layers)
    BY <1>1, ImagesAssumption DEF TypeOK
<1>3. Len(image) \in Nat
    BY <1>2
<1> QED  BY <1>2, <1>3 DEF TypeOK

\* A position of the image has a blob of the declared form.
LEMMA BlobType ==
    ASSUME TypeOK, NEW i \in 1 .. Len(image)
    PROVE  /\ i \in DOMAIN image
           /\ image[i] \in Layers
           /\ Blob(i).found \in [Keys -> SUBSET Pkgs]
           /\ Blob(i).secrets \in [Paths -> SUBSET Secrets]
           /\ Blob(i) \in Blobs
<1>1. image \in Seq(Layers)
    BY ImageType
<1>2. i \in DOMAIN image /\ image[i] \in Layers
    BY <1>1
<1>3. Blob(i) \in Blobs
    BY <1>2 DEF TypeOK, Blob
<1> QED  BY <1>2, <1>3, BlobsAssumption

----------------------------------------------------------------------------
(* One layer.                                                              *)

\* After a layer an entry comes from it, or from where it came from before if
\* the layer neither has it nor hides it.
LEMMA OverlayAt ==
    ASSUME NEW t, NEW b, NEW n, NEW k \in Keys
    PROVE  Overlay(t, b, n)[k] =
                IF b.found[k] # {} THEN n
                ELSE IF Hides(b, k[1]) THEN 0 ELSE t[k]
BY DEF Overlay, DeleteByString, Hides

LEMMA InitHolds == Init => IInv
<1> SUFFICES ASSUME Init PROVE IInv
    OBVIOUS
<1>1. Len(<<>>) = 0
    OBVIOUS
<1>2. TypeOK
    BY <1>1 DEF Init, TypeOK
<1>3. Bounded
    BY DEF Init, Bounded
<1>4. OverlayExact /\ SecretsKept
    BY DEF Init, OverlayExact, SecretsKept
<1> QED  BY <1>2, <1>3, <1>4 DEF IInv

LEMMA StartStep == ASSUME IInv, NEW img \in Images, Start(img) PROVE IInv'
<1>1. Len(img) \in Nat
    BY ImagesAssumption
<1>2. TypeOK'
    BY <1>1 DEF IInv, TypeOK, Start
<1>3. Bounded'
    BY DEF Start, Bounded
<1>4. OverlayExact' /\ SecretsKept'
    BY DEF Start, OverlayExact, SecretsKept
<1> QED  BY <1>2, <1>3, <1>4 DEF IInv

LEMMA ApplyLayerStep == ASSUME IInv, ApplyLayer PROVE IInv'
<1> DEFINE n == applied + 1
           b == Blob(n)
<1>1. /\ applied \in Nat /\ Len(image) \in Nat
      /\ applied < Len(image) /\ applied' = n
      /\ n \in 1 .. Len(image)
      /\ image' = image /\ cache' = cache
    BY ImageType DEF IInv, ApplyLayer
<1>2. /\ b.found \in [Keys -> SUBSET Pkgs]
      /\ b.secrets \in [Paths -> SUBSET Secrets]
    BY <1>1, BlobType DEF IInv
<1>3. \A k \in Keys : tree'[k] = IF b.found[k] # {} THEN n
                                 ELSE IF Hides(b, k[1]) THEN 0 ELSE tree[k]
    BY OverlayAt DEF ApplyLayer
<1>4. \A p \in Paths : secrets'[p] = MergeSecrets(secrets[p], b.secrets[p], n)
    BY DEF ApplyLayer
<1>5. \A i : Blob(i)' = Blob(i)
    BY <1>1 DEF Blob
<1> HIDE DEF b
<1>6. TypeOK'
  <2>1. tree' \in [Keys -> 0 .. Len(image)]
    <3>1. tree' = Overlay(tree, Blob(n), n)
        BY DEF ApplyLayer
    <3>2. DOMAIN tree' = Keys /\ tree' = [k \in Keys |-> tree'[k]]
        BY <3>1 DEF Overlay
    <3>3. \A k \in Keys : tree'[k] \in 0 .. Len(image)
        BY <1>1, <1>3 DEF IInv, TypeOK
    <3> QED  BY <3>2, <3>3
  <2>2. secrets' \in [Paths -> SUBSET (Secrets \X (1 .. Len(image)))]
    <3>1. secrets' = [p \in Paths |-> MergeSecrets(secrets[p], Blob(n).secrets[p], n)]
        BY DEF ApplyLayer
    <3>2. secrets' = [p \in Paths |-> secrets'[p]]
        BY <3>1
    <3>3. ASSUME NEW p \in Paths
          PROVE  secrets'[p] \subseteq Secrets \X (1 .. Len(image))
      <4>1. secrets[p] \subseteq Secrets \X (1 .. Len(image))
          BY DEF IInv, TypeOK
      <4>2. b.secrets[p] \subseteq Secrets
          BY <1>2
      <4> QED  BY <1>1, <1>4, <4>1, <4>2 DEF MergeSecrets
    <3> QED  BY <3>2, <3>3
  <2>3. pc' \in {"idle", "apply", "done"}
      BY DEF IInv, TypeOK, ApplyLayer
  <2> QED  BY <1>1, <2>1, <2>2, <2>3 DEF IInv, TypeOK
<1>7. Bounded'
  <2>1. \A k \in Keys : tree'[k] \in 0 .. applied'
      BY <1>1, <1>3 DEF IInv, Bounded
  <2>2. ASSUME NEW p \in Paths, NEW f \in secrets'[p] PROVE f[2] \in 1 .. applied'
    <3>1. CASE f \in secrets[p]
        BY <1>1, <3>1 DEF IInv, Bounded
    <3>2. CASE f \notin secrets[p]
      <4>1. \E s \in b.secrets[p] : f = <<s, n>>
          BY <1>4, <3>2 DEF MergeSecrets
      <4> QED  BY <1>1, <4>1
    <3> QED  BY <3>1, <3>2
  <2>3. pc' = "apply" => report' = {}
      BY DEF IInv, Bounded, ApplyLayer
  <2> QED  BY <2>1, <2>2, <2>3 DEF Bounded
<1>8. OverlayExact'
  <2>1. SUFFICES ASSUME NEW k \in Keys, NEW i \in 1 .. n
                 PROVE  tree'[k] = i <=> Seen(i, k, n)
      BY <1>1, <1>5 DEF OverlayExact, Seen
  <2>2. tree[k] \in 0 .. applied
      BY DEF IInv, Bounded
  <2>3. CASE i = n
    <3>1. Seen(n, k, n) <=> b.found[k] # {}
        BY <1>1 DEF Seen, b
    <3> QED  BY <1>1, <1>3, <2>2, <2>3, <3>1
  <2>4. CASE i \in 1 .. applied
    <3>1. tree[k] = i <=> Seen(i, k, applied)
        BY <2>4 DEF IInv, OverlayExact
    <3>2. i + 1 .. n = (i + 1 .. applied) \cup {n}
        BY <1>1, <2>4
    <3>3. Seen(i, k, n) <=> Seen(i, k, applied) /\ b.found[k] = {} /\ ~Hides(b, k[1])
        BY <3>2 DEF Seen, b
    <3> QED  BY <1>1, <1>3, <2>4, <3>1, <3>3
  <2> QED  BY <1>1, <2>3, <2>4
<1>9. SecretsKept'
  <2>1. SUFFICES ASSUME NEW p \in Paths, NEW s \in Secrets, NEW i \in 1 .. n
                 PROVE  <<s, i>> \in secrets'[p] <=> Kept(i, p, s, n)
      BY <1>1, <1>5 DEF SecretsKept, Kept
  <2>2. <<s, i>> \in secrets'[p] <=> \/ s \in b.secrets[p] /\ i = n
                                     \/ /\ <<s, i>> \in secrets[p]
                                        /\ \A t \in b.secrets[p] : t[1] # s[1]
      BY <1>4 DEF MergeSecrets
  <2>3. CASE i = n
    <3>1. <<s, n>> \notin secrets[p]
        BY <1>1 DEF IInv, Bounded
    <3>2. Kept(n, p, s, n) <=> s \in b.secrets[p]
        BY <1>1 DEF Kept, b
    <3> QED  BY <2>2, <2>3, <3>1, <3>2
  <2>4. CASE i \in 1 .. applied
    <3>1. <<s, i>> \in secrets[p] <=> Kept(i, p, s, applied)
        BY <2>4 DEF IInv, SecretsKept
    <3>2. i + 1 .. n = (i + 1 .. applied) \cup {n}
        BY <1>1, <2>4
    <3>3. Kept(i, p, s, n) <=> Kept(i, p, s, applied) /\ \A t \in b.secrets[p] : t[1] # s[1]
        BY <3>2 DEF Kept, b
    <3>4. i # n
        BY <1>1, <2>4
    <3> QED  BY <2>2, <3>1, <3>3, <3>4
  <2> QED  BY <1>1, <2>3, <2>4
<1> QED  BY <1>6, <1>7, <1>8, <1>9 DEF IInv

\* The invariant does not depend on anything else than the layers applied so far.
LEMMA FrameStep ==
    ASSUME IInv, UNCHANGED <<cache, image, applied, tree, secrets>>,
           pc' \in {"idle", "apply", "done"}, pc' = "apply" => report' = {}
    PROVE  IInv'
<1>1. \A i : Blob(i)' = Blob(i)
    BY DEF Blob
<1>2. TypeOK' /\ Bounded'
    BY DEF IInv, TypeOK, Bounded
<1>3. OverlayExact'
  <2>1. \A i, k, top : Seen(i, k, top)' <=> Seen(i, k, top)
      BY <1>1 DEF Seen
  <2> QED  BY <2>1 DEF IInv, OverlayExact
<1>4. SecretsKept'
  <2>1. \A p, s, i, top : Kept(i, p, s, top)' <=> Kept(i, p, s, top)
      BY <1>1 DEF Kept
  <2> QED  BY <2>1 DEF IInv, SecretsKept
<1> QED  BY <1>2, <1>3, <1>4 DEF IInv

LEMMA ResolveStep == ASSUME IInv, Resolve PROVE IInv'
BY FrameStep DEF Resolve, work

LEMMA StutterStep == ASSUME IInv, UNCHANGED vars PROVE IInv'
<1>1. pc' \in {"idle", "apply", "done"} /\ (pc' = "apply" => report' = {})
    BY DEF vars, IInv, TypeOK, Bounded
<1> QED  BY <1>1, FrameStep DEF vars, work

\* The inductive invariant.
THEOREM Invariant == Spec => []IInv
<1>1. Init => IInv
    BY InitHolds
<1>2. IInv /\ [Next]_vars => IInv'
    BY StartStep, ApplyLayerStep, ResolveStep, StutterStep DEF Next
<1> QED  BY <1>1, <1>2, PTL DEF Spec

\* The merge keeps its type for images of any number of layers.
THEOREM TypeCorrect == Spec => []TypeOK
BY Invariant, PTL DEF IInv

\* What ApplyLayers reports of an image of any size is what the overlay file
\* system of its layers shows, if no layer makes the root directory opaque.
THEOREM MergeIsOverlay == Spec => []OverlayExact
BY Invariant, PTL DEF IInv

\* No secret goes from the report because its file was deleted.
THEOREM SecretsSurvive == Spec => []SecretsKept
BY Invariant, PTL DEF IInv

----------------------------------------------------------------------------
(* The origins, with a backend that decodes a blob on every read.          *)

\* The first of some positions of the image is one of them, and none is before it.
LEMMA FirstIsLeast ==
    ASSUME NEW S, S \subseteq DOMAIN image, S # {}, image \in Seq(Layers)
    PROVE  \E i \in S : First(S) = image[i] /\ \A j \in S : i <= j
<1>1. S \subseteq Nat
    OBVIOUS
<1> DEFINE Less == {ss \in Nat \X Nat : ss[1] < ss[2]}
<1>2. IsWellFoundedOn(Less, Nat)
    BY NatLessThanWellFounded DEF OpToRel
<1>3. PICK x \in S : \A y \in S : ~(<<y, x>> \in Less)
  <2> HIDE DEF Less
  <2> QED  BY <1>1, <1>2, WFMin
<1>4. ASSUME NEW y \in S PROVE x <= y
  <2>1. x \in Nat /\ y \in Nat
      BY <1>1
  <2>2. y < x => <<y, x>> \in Less
      BY <2>1
  <2> QED  BY <1>3, <2>1, <2>2
<1> DEFINE m == CHOOSE i \in S : \A j \in S : i <= j
<1>5. m \in S /\ \A j \in S : m <= j
    BY <1>4
<1> QED  BY <1>5 DEF First

\* An entry of the tree as ApplyLayers finds it at the end.
LEMMA EntryType ==
    ASSUME IInv, NEW e \in Entries
    PROVE  /\ e[1] \in Keys /\ e[1] = <<e[1][1], e[1][2]>>
           /\ e[1][1] \in Paths /\ e[1][2] \in Kinds
           /\ tree[e[1]] \in 1 .. Len(image) /\ tree[e[1]] \in DOMAIN image
           /\ e[2] \in Blob(tree[e[1]]).found[e[1]]
<1>1. e[1] \in Keys /\ tree[e[1]] # 0 /\ e[2] \in Blob(tree[e[1]]).found[e[1]]
    BY DEF Entries
<1>2. e[1] = <<e[1][1], e[1][2]>> /\ e[1][1] \in Paths /\ e[1][2] \in Kinds
    BY <1>1 DEF Keys
<1>3. tree[e[1]] \in 0 .. Len(image) /\ Len(image) \in Nat
    BY <1>1, ImageType DEF IInv, TypeOK
<1>4. tree[e[1]] \in 1 .. Len(image)
    BY <1>1, <1>3
<1>5. tree[e[1]] \in DOMAIN image
    BY <1>4, BlobType DEF IInv
<1> QED  BY <1>1, <1>2, <1>4, <1>5

\* The layer that is looked up for an entry is one of the image, has what is
\* reported and is not above the layer the entry comes from.
LEMMA LookupIsSound ==
    ASSUME IInv, NEW k \in Keys, NEW p \in Pkgs, <<k, p>> \in Entries
    PROVE  \E i \in DOMAIN image :
                /\ image[i] = IF k[2] = "stamped" THEN image[tree[k]] ELSE Lookup(k, p)
                /\ Holds(Blob(i), IF k[2] = "ospkg" THEN <<>> ELSE k[1], k[2], p)
                /\ k[2] # "ospkg" => i <= tree[k]
<1> DEFINE n == tree[k]
<1>1. /\ k = <<k[1], k[2]>> /\ k[1] \in Paths /\ k[2] \in Kinds
      /\ n \in 1 .. Len(image) /\ n \in DOMAIN image
      /\ p \in Blob(n).found[k]
    BY EntryType
<1>2. image \in Seq(Layers) /\ Len(image) \in Nat
    BY ImageType DEF IInv
<1> HIDE DEF n
<1>4. SUFFICES \E i \in DOMAIN image :
                  /\ image[i] = IF k[2] = "stamped" THEN image[n] ELSE Lookup(k, p)
                  /\ Holds(Blob(i), IF k[2] = "ospkg" THEN <<>> ELSE k[1], k[2], p)
                  /\ k[2] # "ospkg" => i <= n
    BY DEF n
<1>5. CASE k[2] = "ospkg"
  <2>1. WithPkg(p) \subseteq DOMAIN image /\ n \in WithPkg(p)
      BY <1>1, <1>5 DEF WithPkg
  <2>2. PICK i \in WithPkg(p) : First(WithPkg(p)) = image[i]
      BY <1>2, <2>1, FirstIsLeast
  <2>3. Lookup(k, p) = First(WithPkg(p))
      BY <1>5 DEF Lookup
  <2>4. i \in DOMAIN image /\ \E q \in Paths : p \in Blob(i).found[<<q, "ospkg">>]
      BY <2>2 DEF WithPkg
  <2> QED  BY <1>5, <2>2, <2>3, <2>4 DEF Holds
<1>6. CASE k[2] = "lib"
  <2>1. WithLib(p, k[1]) \subseteq DOMAIN image /\ n \in WithLib(p, k[1])
      BY <1>1, <1>6 DEF WithLib
  <2>2. PICK i \in WithLib(p, k[1]) :
            First(WithLib(p, k[1])) = image[i] /\ \A j \in WithLib(p, k[1]) : i <= j
      BY <1>2, <2>1, FirstIsLeast
  <2>3. Lookup(k, p) = First(WithLib(p, k[1]))
      BY <1>6 DEF Lookup
  <2>4. i \in DOMAIN image /\ p \in Blob(i).found[<<k[1], "lib">>]
      BY <2>2 DEF WithLib
  <2> QED  BY <1>6, <2>1, <2>2, <2>3, <2>4 DEF Holds
<1>7. CASE k[2] = "stamped"
  <2>1. n \in Nat
      BY <1>1, <1>2
  <2> QED  BY <1>1, <1>7, <2>1 DEF Holds
<1>8. CASE k[2] = "custom"
  <2>1. WithCustom(k[1]) \subseteq DOMAIN image /\ n \in WithCustom(k[1])
      BY <1>1, <1>8 DEF WithCustom
  <2>2. PICK i \in WithCustom(k[1]) :
            First(WithCustom(k[1])) = image[i] /\ \A j \in WithCustom(k[1]) : i <= j
      BY <1>2, <2>1, FirstIsLeast
  <2>3. Lookup(k, p) = First(WithCustom(k[1]))
      BY <1>8 DEF Lookup
  <2>4. i \in DOMAIN image /\ Blob(i).found[<<k[1], "custom">>] # {}
      BY <2>2 DEF WithCustom
  <2> QED  BY <1>8, <2>1, <2>2, <2>3, <2>4 DEF Holds
<1> QED  BY <1>1, <1>5, <1>6, <1>7, <1>8 DEF Kinds

\* A layer that a copy of an OS package was kept with is stated by an SBOM, and then
\* no package manager of the image lists the package.
LEMMA CopyIsDeclared ==
    ASSUME IInv, NEW p \in Pkgs, NEW k \in Copies(p),
           Blob(tree[k]).stated[k][p] # NoLayer
    PROVE  \A q \in Keys : q[2] = "ospkg" /\ <<q, p>> \in Entries => FromSBOM(q)
<1>1. k \in Keys /\ k[2] = "ospkg" /\ <<k, p>> \in Entries
    BY DEF Copies, Listed
<1>2. tree[k] \in 1 .. Len(image)
    BY <1>1, EntryType
<1>3. Blob(tree[k]) \in Blobs
    BY <1>2, BlobType DEF IInv
<1>4. FromSBOM(k)
    BY <1>1, <1>3, BlobsAssumption DEF FromSBOM
<1>5. \A q \in Listed(p) : FromSBOM(q)
    BY <1>4 DEF Copies
<1>6. ASSUME NEW q \in Keys, q[2] = "ospkg", <<q, p>> \in Entries, ~FromSBOM(q)
      PROVE  q \in Listed(p)
    BY <1>6 DEF Listed, Native
<1> QED  BY <1>5, <1>6

Attributed(r) == r[4] \in Layers /\ (OfImage(r) \/ Declared(r))

\* Whatever is reported is attributed to a layer of the image that has it, or to
\* the layer it was stated with.
LEMMA OriginIsSound ==
    ASSUME IInv, stamps = {}, NEW k \in Keys, NEW p \in Pkgs, <<k, p>> \in Entries,
           k[2] = "ospkg" => k \in Copies(p)
    PROVE  Attributed(Line(k, p))
<1> DEFINE r == Line(k, p)
<1>1. /\ r[1] = (IF k[2] = "ospkg" THEN <<>> ELSE k[1])
      /\ r[2] = k[2] /\ r[3] = p /\ r[4] = Origin(k, p)
    BY DEF Line
<1> HIDE DEF r
<1>2. /\ k = <<k[1], k[2]>> /\ tree[k] \in 1 .. Len(image)
    BY EntryType
<1>3. image \in Seq(Layers)
    BY ImageType DEF IInv
<1>4. Preset(k, p) = {o \in Layers : o = Blob(tree[k]).stated[k][p]}
    BY DEF Preset
<1>5. CASE k[2] = "stamped" \/ Preset(k, p) = {}
  <2>1. Origin(k, p) = IF k[2] = "stamped" THEN image[tree[k]] ELSE Lookup(k, p)
      BY <1>5 DEF Origin
  <2>2. PICK i \in DOMAIN image :
            /\ image[i] = Origin(k, p)
            /\ Holds(Blob(i), IF k[2] = "ospkg" THEN <<>> ELSE k[1], k[2], p)
            /\ k[2] # "ospkg" => i <= tree[k]
      BY <2>1, LookupIsSound
  <2>3. OfImage(r)
      BY <1>1, <1>2, <2>2 DEF OfImage
  <2>4. r[4] \in Layers
      BY <1>1, <1>3, <2>2
  <2> QED  BY <2>3, <2>4 DEF Attributed, r
<1>6. CASE k[2] # "stamped" /\ Preset(k, p) # {}
  <2>1. Origin(k, p) \in Preset(k, p)
      BY <1>6 DEF Origin
  <2>2. r[4] \in Layers /\ Blob(tree[k]).stated[k][p] = r[4]
      BY <1>1, <1>4, <2>1
  <2>3. Blob(tree[k]).stated[k][p] # NoLayer
      BY <2>2, NoLayerAssumption
  <2>4. k[2] = "ospkg" => \A q \in Keys : q[2] = "ospkg" /\ <<q, p>> \in Entries => FromSBOM(q)
      BY <2>3, CopyIsDeclared
  <2>5. k[2] # "ospkg" => k[1] = r[1]
      BY <1>1
  <2>6. Declared(r)
      BY <1>1, <1>6, <2>2, <2>4, <2>5 DEF Declared
  <2> QED  BY <2>2, <2>6 DEF Attributed, r
<1> QED  BY <1>5, <1>6

\* An attribution depends on the layers applied only.
LEMMA AttributionKept ==
    ASSUME UNCHANGED <<cache, image, tree>>, NEW r, Attributed(r)
    PROVE  Attributed(r)'
<1>1. \A i : Blob(i)' = Blob(i)
    BY DEF Blob
<1>2. Entries' = Entries
    BY <1>1 DEF Entries
<1>3. \A k : FromSBOM(k)' <=> FromSBOM(k)
    BY <1>1 DEF FromSBOM
<1>4. OfImage(r)' <=> OfImage(r)
    BY <1>1 DEF OfImage
<1>5. Declared(r)' <=> Declared(r)
    BY <1>1, <1>2, <1>3 DEF Declared
<1> QED  BY <1>4, <1>5 DEF Attributed

OInv == IInv /\ stamps = {} /\ OriginOfImage

LEMMA OriginStep ==
    ASSUME Backend = "fs", OInv, [Next]_vars PROVE stamps' = {} /\ OriginOfImage'
<1>1. ASSUME NEW img \in Images, Start(img) PROVE stamps' = {} /\ OriginOfImage'
    BY <1>1 DEF OInv, OriginOfImage, Start
<1>2. ASSUME ApplyLayer PROVE stamps' = {} /\ OriginOfImage'
  <2>1. stamps' = {} /\ report' = {}
      BY <1>2 DEF OInv, IInv, Bounded, ApplyLayer
  <2> QED  BY <2>1 DEF OriginOfImage
<1>3. ASSUME Resolve PROVE stamps' = {} /\ OriginOfImage'
  <2>1. stamps' = {} /\ UNCHANGED <<cache, image, tree>>
      BY <1>3 DEF OInv, Resolve, work
  <2>2. PICK copy \in [OSPkgs -> Keys] :
            /\ \A p \in OSPkgs : copy[p] \in Copies(p)
            /\ report' = {Line(copy[p], p) : p \in OSPkgs}
                            \cup {Line(e[1], e[2]) : e \in {x \in Entries : x[1][2] # "ospkg"}}
      BY <1>3 DEF Resolve
  <2>3. ASSUME NEW p \in OSPkgs PROVE Attributed(Line(copy[p], p))
    <3>1. copy[p] \in Copies(p) /\ p \in Pkgs /\ copy[p] \in Keys
        BY <2>2 DEF OSPkgs
    <3>2. <<copy[p], p>> \in Entries
        BY <3>1 DEF Copies, Listed
    <3> QED  BY <3>1, <3>2, OriginIsSound DEF OInv
  <2>4. ASSUME NEW e \in Entries, e[1][2] # "ospkg" PROVE Attributed(Line(e[1], e[2]))
    <3>1. e[1] \in Keys /\ e[2] \in Pkgs /\ e = <<e[1], e[2]>>
        BY DEF Entries
    <3> QED  BY <2>4, <3>1, OriginIsSound DEF OInv
  <2>5. \A r \in report' : Attributed(r)
      BY <2>2, <2>3, <2>4
  <2>6. \A r \in report' : Attributed(r)'
      BY <2>1, <2>5, AttributionKept
  <2> QED  BY <2>1, <2>6 DEF OriginOfImage, Attributed
<1>4. ASSUME UNCHANGED vars PROVE stamps' = {} /\ OriginOfImage'
  <2>1. UNCHANGED <<cache, image, tree>> /\ stamps' = {} /\ report' = report
      BY <1>4 DEF vars, work, OInv
  <2>2. \A r \in report : Attributed(r)
      BY DEF OInv, OriginOfImage, Attributed
  <2>3. \A r \in report' : Attributed(r)'
      BY <2>1, <2>2, AttributionKept
  <2> QED  BY <2>1, <2>3 DEF OriginOfImage, Attributed
<1> QED  BY <1>1, <1>2, <1>3, <1>4 DEF Next

\* With a backend that decodes a blob on every read, the layer something is
\* reported for is one of the scanned image and has it, or is the one that an SBOM
\* of the image, or a module, stated with it.
THEOREM OriginsAreSound == ASSUME Backend = "fs" PROVE Spec => []OriginOfImage
<1>1. Init => OInv
    BY InitHolds DEF Init, OInv, OriginOfImage
<1>2. OInv /\ [Next]_vars => OInv'
  <2>1. ASSUME OInv, [Next]_vars PROVE IInv'
      BY <2>1, StartStep, ApplyLayerStep, ResolveStep, StutterStep DEF Next, OInv
  <2> QED  BY <2>1, OriginStep DEF OInv
<1>3. OInv => OriginOfImage
    BY DEF OInv
<1> QED  BY <1>1, <1>2, <1>3, PTL DEF Spec
=============================================================================
