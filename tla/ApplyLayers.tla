---------------------------- MODULE ApplyLayers -----------------------------
(***************************************************************************)
(* The merge of an image's layers into one report: ApplyLayers of          *)
(* pkg/fanal/applier/docker.go, called by the applier (applier.go) on the  *)
(* blobs of the scan cache, scan after scan in one process.                *)
(*                                                                         *)
(* A layer's blob holds the directories it makes opaque, the files it      *)
(* whites out, what the analyzers found in its files, and its secrets.     *)
(* Some of it may come from an SBOM file in the layer, which may say of a  *)
(* package which layer it is from (sbom/io/decode.go).                     *)
(* The layers are applied bottom-up to a tree keyed by file path and type. *)
(* A path is the sequence of its elements; what was found under a key is a *)
(* set of packages, empty if there is no such entry.  An entry of the tree *)
(* is the position in the image of the layer it comes from, 0 for none.    *)
(***************************************************************************)
EXTENDS Naturals, OSMerge

CONSTANTS
    Layers,    \* the layers (diff IDs)
    NoLayer,   \* the empty Layer of a package
    Paths,     \* the files with findings, as sequences of path elements
    Pkgs,      \* packages: equal if name, version and release are
    Namespace, \* per package: the namespace of the PURL an SBOM gives it, or ""
    Secrets,   \* secret findings: pairs of a rule and a place in the file
    Blobs,     \* the contents a layer can have
    Images,    \* the images scanned: non-empty sequences of layers
    Backend    \* "fs" (or redis): every read decodes the blob anew;
               \* "memory": it shares its slices with the cached one

\* Under one path: OS packages, an application, a finding that is stamped with
\* its layer when it is applied (misconfiguration, license, crypto asset), a
\* custom resource.
Kinds == {"ospkg", "lib", "stamped", "custom"}
Keys  == Paths \X Kinds

ASSUME PathsAssumption   == Paths \subseteq Seq(STRING)
ASSUME NoLayerAssumption == NoLayer \notin Layers
\* found: what is under a key; sbom: the keys read from an SBOM; stated: the layer
\* a finding came with (an SBOM's packages, a module's custom resource).
ASSUME BlobsAssumption   ==
    \A b \in Blobs : /\ b.opaque \subseteq Seq(STRING) /\ b.whiteouts \subseteq Seq(STRING)
                     /\ b.found \in [Keys -> SUBSET Pkgs]
                     /\ b.sbom \subseteq Keys
                     /\ b.stated \in [Keys -> [Pkgs -> Layers \cup {NoLayer}]]
                     /\ \A k \in Keys \ b.sbom, p \in Pkgs :
                            k[2] \in {"ospkg", "lib"} => b.stated[k][p] = NoLayer
                     /\ b.secrets \in [Paths -> SUBSET Secrets]
                     /\ DOMAIN b.os = DOMAIN NoOS
ASSUME ImagesAssumption  == Images \subseteq Seq(Layers) /\ <<>> \notin Images
ASSUME NamespaceAssumption == Namespace \in [Pkgs -> STRING]
ASSUME BackendAssumption == Backend \in {"fs", "memory"}

VARIABLES
    cache,     \* the blob of every layer, as it was analyzed
    stamps,    \* origins written into cached packages: <<layer, key, pkg, origin>>
    image,     \* the image at hand
    applied,   \* the number of its layers applied so far
    tree,      \* per key: the position of the layer that provides the entry
    secrets,   \* per path: findings with the position of their layer
    os,        \* mergedLayer.OS
    report,    \* what is reported: <<path, kind, pkg, origin>>
    pc         \* "idle", "apply" or "done"

work == <<image, applied, tree, secrets, os>>
vars == <<cache, stamps, work, report, pc>>

Blob(i) == cache[image[i]]

Init ==
    /\ cache \in [Layers -> Blobs]
    /\ stamps = {}
    /\ image = <<>>
    /\ applied = 0
    /\ tree = [k \in Keys |-> 0]
    /\ secrets = [p \in Paths |-> {}]
    /\ os = NoOS
    /\ report = {}
    /\ pc = "idle"

----------------------------------------------------------------------------
(* The tree (external: github.com/knqyf263/nested).                        *)

\* DeleteByString removes the subtree at a path; the root has no key of its own.
DeleteByString(t, paths) ==
    [k \in Keys |-> IF \E p \in paths : p # <<>> /\ IsPrefix(p, k[1]) THEN 0 ELSE t[k]]

----------------------------------------------------------------------------
(* Mutants: the definitions below as plausible bugs would have them.       *)

\* The layer's own findings are entered before its whiteouts are applied.
MutDeleteLast(t, b, n) ==
    DeleteByString([k \in Keys |-> IF b.found[k] # {} THEN n ELSE t[k]],
                   b.opaque \cup b.whiteouts)

\* A file's secrets in the upper layer replace those of the lower ones.
MutReplaceSecrets(old, new, n) == IF new = {} THEN old ELSE {<<s, n>> : s \in new}

\* The origin of a library is looked up by the package alone.
MutAnyPath(p, path) ==
    {i \in DOMAIN image : \E q \in Paths : p \in cache[image[i]].found[<<q, "lib">>]}

\* The layers are counted from zero to the length of the image.
MutOneMore ==
    /\ pc = "apply"
    /\ applied <= Len(image)
    /\ applied' = applied + 1
    /\ UNCHANGED <<cache, stamps, image, tree, secrets, os, report, pc>>

----------------------------------------------------------------------------
(* One layer.                                                              *)

\* Opaque directories and whiteouts hide what lower layers have; then the
\* layer's own findings are entered.
Overlay(t, b, n) ==
    LET hidden == DeleteByString(t, b.opaque \cup b.whiteouts)
    IN  [k \in Keys |-> IF b.found[k] # {} THEN n ELSE hidden[k]]

\* Secrets are kept from all layers; a finding of the same rule in the same file
\* of an upper layer replaces the earlier ones.
MergeSecrets(old, new, n) ==
    {<<s, n>> : s \in new} \cup {f \in old : \A s \in new : s[1] # f[1][1]}

Start(img) ==
    /\ pc # "apply"
    /\ pc' = "apply"
    /\ image' = img
    /\ applied' = 0
    /\ tree' = [k \in Keys |-> 0]
    /\ secrets' = [p \in Paths |-> {}]
    /\ os' = NoOS
    /\ report' = {}
    /\ UNCHANGED <<cache, stamps>>

ApplyLayer ==
    /\ pc = "apply"
    /\ applied < Len(image)
    /\ applied' = applied + 1
    /\ LET n == applied + 1  b == Blob(n)
       IN  /\ tree' = Overlay(tree, b, n)
           /\ secrets' = [p \in Paths |-> MergeSecrets(secrets[p], b.secrets[p], n)]
           /\ os' = Merge(os, b.os)
    /\ UNCHANGED <<cache, stamps, image, report, pc>>

----------------------------------------------------------------------------
(* The layers that introduced what is reported.                            *)

First(S) == image[CHOOSE i \in S : \A j \in S : i <= j]

\* lookupOriginLayerForPkg: any package database of the layer counts.
WithPkg(p) == {i \in DOMAIN image : \E q \in Paths : p \in Blob(i).found[<<q, "ospkg">>]}

\* lookupOriginLayerForLib: the same file only.
WithLib(p, path) == {i \in DOMAIN image : p \in Blob(i).found[<<path, "lib">>]}

\* lookupOriginLayerForCustomResource: the same file and type, whatever it holds.
WithCustom(path) == {i \in DOMAIN image : Blob(i).found[<<path, "custom">>] # {}}

Lookup(k, p) ==
    CASE k[2] = "ospkg"  -> First(WithPkg(p))
      [] k[2] = "lib"    -> First(WithLib(p, k[1]))
      [] k[2] = "custom" -> First(WithCustom(k[1]))

\* The layer that is set already: stated in the blob, or written by an earlier scan.
Preset(k, p) ==
    {o \in Layers : \/ o = Blob(tree[k]).stated[k][p]
                    \/ <<image[tree[k]], k, p, o>> \in stamps}

\* What has a layer already is not looked up again.
Origin(k, p) ==
    IF k[2] = "stamped" THEN image[tree[k]]
    ELSE IF Preset(k, p) # {} THEN CHOOSE o \in Preset(k, p) : TRUE
    ELSE Lookup(k, p)

\* What the tree holds once every layer is applied.
Entries ==
    {e \in Keys \X Pkgs : tree[e[1]] # 0 /\ e[2] \in Blob(tree[e[1]]).found[e[1]]}

PurlNamespace(family) ==
    CASE family \in {"sles", "slem"}                         -> "suse"
      [] family \in {"opensuse-tumbleweed", "opensuse-leap"} -> "opensuse"
      [] OTHER                                               -> family

FromSBOM(k) == k \in Blob(tree[k]).sbom

\* purlMatchesOS: an OS package that an SBOM gives to another distribution is left
\* out; the PURL of a package manager's is made from the detected OS.
Native(k, p) ==
    \/ os.family = "" \/ ~FromSBOM(k)
    \/ Namespace[p] \in {"", PurlNamespace(os.family)}

\* Where an OS package is listed: by a package manager if there is one.
Listed(p) == {k \in Keys : k[2] = "ospkg" /\ <<k, p>> \in Entries /\ Native(k, p)}
Copies(p) == IF \E k \in Listed(p) : ~FromSBOM(k)
             THEN {k \in Listed(p) : ~FromSBOM(k)}
             ELSE Listed(p)

OSPkgs == {p \in Pkgs : Listed(p) # {}}

\* An OS package is reported once, whichever databases list it; everything else
\* under its file.
Line(k, p) == <<IF k[2] = "ospkg" THEN <<>> ELSE k[1], k[2], p, Origin(k, p)>>

\* Of several copies of an OS package the first in the order of the tree's walk,
\* which is a map's, is kept.  The origins go into the report; those of libraries
\* are written through the slice of the application, which the memory backend
\* shares with the cache.
Resolve ==
    /\ pc = "apply"
    /\ applied = Len(image)
    /\ pc' = "done"
    /\ \E copy \in [OSPkgs -> Keys] :
        /\ \A p \in OSPkgs : copy[p] \in Copies(p)
        /\ report' = {Line(copy[p], p) : p \in OSPkgs}
                        \cup {Line(e[1], e[2]) : e \in {x \in Entries : x[1][2] # "ospkg"}}
    /\ stamps' = IF Backend = "memory"
                 THEN stamps \cup {<<image[tree[e[1]]], e[1], e[2], Origin(e[1], e[2])>> :
                                     e \in {x \in Entries : x[1][2] = "lib"}}
                 ELSE stamps
    /\ UNCHANGED <<cache, work>>

Next ==
    \/ \E img \in Images : Start(img)
    \/ ApplyLayer
    \/ Resolve

Spec == Init /\ [][Next]_vars

----------------------------------------------------------------------------
TypeOK ==
    /\ cache \in [Layers -> Blobs]
    /\ image \in Images \cup {<<>>}
    /\ applied \in 0 .. Len(image)
    /\ tree \in [Keys -> 0 .. Len(image)]
    /\ secrets \in [Paths -> SUBSET (Secrets \X (1 .. Len(image)))]
    /\ pc \in {"idle", "apply", "done"}

\* What a layer hides of those below: what is under its whiteouts and opaque
\* directories.  An opaque root directory hides nothing here, as in DeleteByString,
\* where an overlay file system would show nothing of the layers below; what is
\* said below is silent on that case.
Hides(b, path) == \E p \in b.opaque \cup b.whiteouts : p # <<>> /\ IsPrefix(p, path)

\* The file system the layers stack up to: an entry of layer i is seen through
\* the layers above it unless one of them removes its path or has it anew.
Seen(i, k, top) ==
    /\ Blob(i).found[k] # {}
    /\ \A j \in i + 1 .. top : Blob(j).found[k] = {} /\ ~Hides(Blob(j), k[1])

\* What ApplyLayers keeps after each layer is what is seen of the layers so far:
\* nothing that was removed (but by an opaque root) is reported, nothing that is
\* still there is lost.
OverlayExact ==
    \A k \in Keys, i \in 1 .. applied : tree[k] = i <=> Seen(i, k, applied)

\* A finding of layer i that no layer above it has replaced.
Kept(i, p, s, top) ==
    /\ s \in Blob(i).secrets[p]
    /\ \A j \in i + 1 .. top : \A t \in Blob(j).secrets[p] : t[1] # s[1]

\* A secret stays in the report when a later layer deletes its file; it goes only
\* for a finding of the same rule in the same file of a later layer.
SecretsKept ==
    \A p \in Paths, s \in Secrets, i \in 1 .. applied :
        <<s, i>> \in secrets[p] <=> Kept(i, p, s, applied)

Holds(b, path, kind, p) ==
    \/ kind = "ospkg"  /\ \E q \in Paths : p \in b.found[<<q, "ospkg">>]
    \/ kind = "custom" /\ b.found[<<path, kind>>] # {}
    \/ kind \in {"lib", "stamped"} /\ p \in b.found[<<path, kind>>]

\* A layer of the image, at or below the one that provides the entry, has what is
\* reported: an OS package in any package database, a library in the same file.
OfImage(r) ==
    \E i \in DOMAIN image :
        /\ image[i] = r[4]
        /\ Holds(Blob(i), r[1], r[2], r[3])
        /\ r[2] # "ospkg" => i <= tree[<<r[1], r[2]>>]

\* The entry came with this layer; for an OS package, and no package manager of
\* the image lists it.
Declared(r) ==
    /\ r[2] # "stamped"
    /\ \E k \in Keys :
        /\ <<k, r[3]>> \in Entries
        /\ k[2] = r[2]
        /\ r[2] # "ospkg" => k[1] = r[1]
        /\ Blob(tree[k]).stated[k][r[3]] = r[4]
    /\ r[2] = "ospkg" => \A k \in Keys :
                            k[2] = "ospkg" /\ <<k, r[3]>> \in Entries => FromSBOM(k)

\* The layer something is reported for is one of the scanned image that has it,
\* unless an SBOM in the image (or a module, of its custom resource) states the
\* layer.  That one need not be a layer of the image.
OriginOfImage ==
    \A r \in report : r[4] \in Layers /\ (OfImage(r) \/ Declared(r))
=============================================================================
