------------------------- MODULE StaticRegistryTree -------------------------
(***************************************************************************)
(* The static-registry v0 tree that build_static_registry.py emits from a  *)
(* fixture set, and the conformance check check_static_registry.py makes   *)
(* of a local tree.                                                        *)
(*                                                                         *)
(* A path is a tuple.  The bytes of an object are abstracted to what the   *)
(* protocol tells apart: an artifact is its blob, an index the sequence of *)
(* its NDJSON lines.  SHA-256 is taken to be injective, so the digest of   *)
(* an object is the object itself and the checkpoint, which lists path and *)
(* digest of every object, is the function from paths to objects.          *)
(***************************************************************************)
EXTENDS Naturals, Sequences, SequencesExt

CONSTANTS
    Packages,   \* org/name pairs
    Versions,   \* version directory names
    Core,       \* [Versions -> Nat]: semver_key, which drops a pre-release
    Lex,        \* [Packages \cup Versions -> Nat]: lexical order of the names
    Blobs,      \* contents of a package artifact
    Fixtures,   \* the fixture sets a tree may be built from
    Absent      \* "no such object"

Discovery == <<".well-known">>
IndexPath(p) == <<"index", p>>
ArtifactPath(p, v) == <<"pkgs", p, v>>

Objects == {Discovery} \cup {IndexPath(p) : p \in Packages}
             \cup {ArtifactPath(p, v) : p \in Packages, v \in Versions}

(***************************************************************************)
(* Lexical order of the object paths: ".well-known" < "index" < "pkgs",    *)
(* then org/name, then the version's file name.                            *)
(***************************************************************************)
Kind(o) == CASE o[1] = ".well-known" -> 0 [] o[1] = "index" -> 1 [] OTHER -> 2

Precedes(o, q) ==
    \/ Kind(o) < Kind(q)
    \/ /\ Kind(o) = Kind(q) /\ Kind(o) > 0
       /\ \/ Lex[o[2]] < Lex[q[2]]
          \/ /\ o[2] = q[2] /\ Kind(o) = 2
             /\ Lex[o[3]] < Lex[q[3]]

IsFirst(o, S) == o \in S /\ \A q \in S \ {o} : Precedes(o, q)

(***************************************************************************)
(* A fixture set maps each package version to its blob and yank flag, or   *)
(* to Absent.                                                              *)
(***************************************************************************)
VersionsOf(fix, p) == {v \in Versions : fix[p][v] # Absent}

Line(fix, p, v) ==
    [version |-> v, cksum |-> fix[p][v].blob, yanked |-> fix[p][v].yanked]

\* list.sort is stable: versions with equal semver_key keep the glob order.
SemverLess(v, w) == \/ Core[v] < Core[w]
                    \/ Core[v] = Core[w] /\ Lex[v] < Lex[w]

IndexLines(fix, p) ==
    LET order == SetToSortSeq(VersionsOf(fix, p), SemverLess)
    IN  [i \in DOMAIN order |-> Line(fix, p, order[i])]

BuildTree(fix) ==
    [o \in Objects |->
        CASE Kind(o) = 0 -> "static-export"
          [] Kind(o) = 1 -> IF VersionsOf(fix, o[2]) = {} THEN Absent
                            ELSE IndexLines(fix, o[2])
          [] Kind(o) = 2 -> IF fix[o[2]][o[3]] = Absent THEN Absent
                            ELSE fix[o[2]][o[3]].blob]

Trees == {BuildTree(fix) : fix \in Fixtures}

\* What can be stored at path o of a bucket.
ContentsOf(o) == {t[o] : t \in Trees} \cup {Absent}

IsStore(b) ==
    /\ b = [o \in Objects |-> b[o]]
    /\ \A o \in Objects : b[o] \in ContentsOf(o)

Listed(t) == {o \in Objects : t[o] # Absent}

ListedIndexes(t) == {o \in Listed(t) : Kind(o) = 1}

(***************************************************************************)
(* run_checks on a local tree: the file set is the checkpoint's by         *)
(* construction of BuildTree, so what is left are the index checks and the *)
(* rule that the tree must hold a yanked version whose bytes are retained. *)
(***************************************************************************)
AscendingUnique(lines) ==
    \A i, j \in DOMAIN lines : i < j => /\ Core[lines[i].version] <= Core[lines[j].version]
                                        /\ lines[i].version # lines[j].version

IndexConforms(t, o) ==
    /\ t[o] # <<>>
    /\ AscendingUnique(t[o])
    /\ \A i \in DOMAIN t[o] : t[ArtifactPath(o[2], t[o][i].version)] = t[o][i].cksum

YankedArtifacts(o, lines) ==
    {ArtifactPath(o[2], lines[i].version) : i \in {j \in DOMAIN lines : lines[j].yanked}}

LocallyConforms(t) ==
    /\ ListedIndexes(t) # {}
    /\ \A o \in ListedIndexes(t) : IndexConforms(t, o)
    /\ \E o \in ListedIndexes(t) : YankedArtifacts(o, t[o]) # {}
=============================================================================
