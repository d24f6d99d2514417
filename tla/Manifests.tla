----------------------------- MODULE Manifests -----------------------------
(***************************************************************************)
(* From the files of a synthesized plan to the bundles that are applied:   *)
(* PlanService.findManifests, isLocalManifest and normalizeManifests of    *)
(* internal/core/service/plan.go, as operators.                            *)
(*                                                                         *)
(* A file tree is a function from directories (numbers, in the order       *)
(* slices.Sorted puts their names) to the sequence of files of the         *)
(* directory, in the lexical order fs.WalkDir visits them.  Of a file only *)
(* what decides its fate is kept:                                          *)
(*   yaml      the extension is .yaml or .yml                              *)
(*   reads     it can be read and unmarshalled                             *)
(*   csa       its apiVersion and kind are those of a ClientSideApply      *)
(*   onFailure the spec.onFailure field: "abort", "continue" or "unset"    *)
(***************************************************************************)
EXTENDS SequencesExt

(* S as a sequence, ordered by Before.                                     *)
Sorted(S, Before(_, _)) ==
    [i \in 1..Cardinality(S) |->
        CHOOSE x \in S : Cardinality({y \in S : Before(y, x)}) = i - 1]

(* isLocalManifest: a file that cannot be read counts as remote.           *)
isLocalManifest(f) == f.reads /\ f.csa

(* findManifests: the YAML files of every directory that has one.          *)
findManifests(tree) ==
    LET YAML(d) == FlattenSeq([i \in DOMAIN tree[d] |->
                       IF tree[d][i].yaml THEN <<tree[d][i]>> ELSE <<>>])
        dirs == {d \in DOMAIN tree : YAML(d) # <<>>}
    IN  [d \in dirs |->
            [i \in DOMAIN YAML(d) |->
                [file |-> YAML(d)[i], isLocal |-> isLocalManifest(YAML(d)[i])]]]

EmptyBundle(local) == [manifests |-> <<>>, isLocal |-> local]

(* "if len(currentBundle.manifests) > 0 { bundles = append(...) }"         *)
Close(acc) ==
    IF acc.current.manifests = <<>> THEN acc.bundles
    ELSE Append(acc.bundles, acc.current)

(* Mutant of AddManifest: a switch drops the bundle instead of closing it. *)
AddAndDrop(acc, m) ==
    LET switched ==
            IF acc.isLocal = m.isLocal THEN acc
            ELSE [bundles |-> acc.bundles,
                  current |-> EmptyBundle(m.isLocal),
                  isLocal |-> m.isLocal]
    IN  IF m.isLocal
        THEN [switched EXCEPT !.bundles = Close(switched),
                              !.current.manifests = <<m>>]
        ELSE [switched EXCEPT !.current.manifests = Append(@, m)]

(* Mutant of AddManifest: local and remote share a bundle.                 *)
AddMixed(acc, m) == [acc EXCEPT !.current.manifests = Append(@, m)]

(* Mutant of AddManifest: every manifest starts a bundle of its own.       *)
AddAlone(acc, m) ==
    [bundles |-> Close(acc),
     current |-> [manifests |-> <<m>>, isLocal |-> m.isLocal],
     isLocal |-> m.isLocal]

(* The body of the inner loop: a switch between local and remote closes    *)
(* the current bundle; a remote manifest joins it; a local manifest always *)
(* starts a bundle of its own.                                             *)
AddManifest(acc, m) ==
    LET switched ==
            IF acc.isLocal = m.isLocal THEN acc
            ELSE [bundles |-> Close(acc),
                  current |-> EmptyBundle(m.isLocal),
                  isLocal |-> m.isLocal]
    IN  IF m.isLocal
        THEN [switched EXCEPT !.bundles = Close(switched),
                              !.current.manifests = <<m>>]
        ELSE [switched EXCEPT !.current.manifests = Append(@, m)]

(* One round of the outer loop.                                            *)
normalizeDir(ms) ==
    Close(FoldLeft(AddManifest,
                   [bundles |-> <<>>, current |-> EmptyBundle(FALSE),
                    isLocal |-> FALSE],
                   ms))

(* Mutant of SortedKeys: the directories in an order a Go map may have.    *)
MapKeys(m) == Sorted(DOMAIN m, LAMBDA a, b : a > b)

SortedKeys(m) == Sorted(DOMAIN m, LAMBDA a, b : a < b)

normalizeManifests(manifests) ==
    LET dirs == SortedKeys(manifests)
    IN  FlattenSeq([i \in DOMAIN dirs |-> normalizeDir(manifests[dirs[i]])])

(* ManifestBundle.Client: a local bundle must hold one manifest, a remote  *)
(* one at least one; the local one is read again and its onFailure used.   *)
(* A remote bundle becomes "kubectl apply", which aborts on failure.       *)
ClientOK(bundle) ==
    IF bundle.isLocal THEN Len(bundle.manifests) = 1
                      ELSE Len(bundle.manifests) > 0

OnFailure(bundle) ==
    IF bundle.isLocal THEN bundle.manifests[1].file.onFailure ELSE "abort"

(* The manifests of some bundles, in the order they are applied.           *)
ManifestsIn(bs) == FlattenSeq([i \in DOMAIN bs |-> bs[i].manifests])
=============================================================================
