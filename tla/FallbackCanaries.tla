-------------------------- MODULE FallbackCanaries --------------------------
(***************************************************************************)
(* The live fallback canaries: scripts that publish one package version to *)
(* GitHub, as the assets of a Release (scripts/github_api_fallback.py) or  *)
(* as an OCI artifact of GitHub Packages (scripts/ghcr_fallback.py), prove *)
(* that it can be read back, and install it with the registry down; and    *)
(* the credential-free attestation of the same Release and of the CDN in   *)
(* front of it (scripts/public_edge_fallback_readonly.py).                 *)
(*                                                                         *)
(* One canary repository, several people or jobs that start a canary run,  *)
(* one request per step.  A run may be killed, or a request or its answer  *)
(* lost, at any step (Dies); the next run starts from what is left.  The   *)
(* tarball carries the time it was packed, so each run has bytes of its    *)
(* own: they are named by the number of the run, 0 for those the ledger of *)
(* the attestation pins.                                                   *)
(***************************************************************************)
EXTENDS Integers, FiniteSets

CONSTANTS
    Publishers,     \* those who start canary runs
    Kinds,          \* of "release" and "packages": what the canary publishes to
    MaxRuns,        \* bound: canary runs
    MaxAttests,     \* bound: attestations
    None

ASSUME FallbackAssumption ==
    /\ Kinds \subseteq {"release", "packages"}
    /\ MaxRuns \in Nat /\ MaxAttests \in Nat
    /\ None \notin Nat /\ None \notin [id : Nat, digest : Nat]

Names == {"tarball", "sidecar"}
Digests == 0..MaxRuns
Unlisted == [n \in Names |-> None]

VARIABLES
    kind,        \* the canary
    repo,        \* "absent", "empty" until auto_init is done, or "ready"
    manifest,    \* .zpkg.toml is on the default branch
    tag,         \* refs/tags/v0.0.1
    release,     \* its Release exists
    assets,      \* per name: None, or the identifier and the bytes of the asset
    nextId,      \* GitHub's next asset identifier
    blobs,       \* GHCR: config and layer blobs by digest
    image,       \* GHCR: the digest that the manifest of the tag names
    cdn,         \* the bytes that the CDN has cached, for good
    runs,        \* bound: runs started
    pc,          \* per publisher: the next request of its run
    digest,      \* ... the bytes that it packed
    listing,     \* ... the asset identifiers, by name, of the Release object it holds
    lock,        \* ... the digest in the lockfile of its consumer
    attest,      \* the next request of the attestation, or its exit status
    failing,     \* the attestation has recorded a required failure
    direct,      \* its direct proof has succeeded so far
    attests,     \* bound: attestations started
    disturbed,   \* history, per publisher: its run was not left alone
    whole,       \* history: digests that were once published in full
    pinned       \* history: the Release held the ledger's when the attestation began

github == <<repo, manifest, tag, release, assets, nextId>>
ghcr == <<blobs, image>>
run == <<pc, digest, listing, lock, disturbed>>
attestation == <<attest, failing, direct, attests, pinned>>
vars == <<kind, github, ghcr, cdn, runs, run, attestation, whole>>

Holds(a, d) == \A n \in Names : a[n] # None /\ a[n].digest = d
Complete(b, d) == {<<"config", d>>, <<"layer", d>>} \subseteq b
Whole(d) == IF kind = "release" THEN Holds(assets, d)
            ELSE image = d /\ Complete(blobs, d)

Init ==
    /\ kind \in Kinds
    /\ \/ repo = "absent" /\ manifest = FALSE /\ tag = FALSE /\ release = FALSE
          /\ assets = [n \in Names |-> None] /\ nextId = 1
       \/ repo = "ready" /\ manifest = TRUE /\ tag = TRUE /\ release = (kind = "release")
          /\ assets = [n \in Names |-> IF release THEN [id |-> 0, digest |-> 0] ELSE None]
          /\ nextId = 1
    /\ blobs = {} /\ image = None
    /\ cdn = None
    /\ runs = 0
    /\ pc = [p \in Publishers |-> "idle"]
    /\ digest = [p \in Publishers |-> None]
    /\ listing = [p \in Publishers |-> Unlisted]
    /\ lock = [p \in Publishers |-> None]
    /\ attest = "idle" /\ failing = FALSE /\ direct = FALSE /\ attests = 0
    /\ disturbed = [p \in Publishers |-> FALSE]
    /\ whole = {d \in {0} : Whole(d)} /\ pinned = FALSE

-----------------------------------------------------------------------------

Idle(p) == pc[p] \in {"idle", "passed", "failed"}
Goto(p, where) == pc' = [pc EXCEPT ![p] = where]

\* A request of p that changes what others read.
Writes(p) ==
    /\ disturbed' = [q \in Publishers |-> disturbed[q] \/ (q # p /\ ~Idle(q))]
    /\ whole' = whole \cup
         {d \in Digests : IF kind = "release" THEN Holds(assets', d)
                          ELSE image' = d /\ Complete(blobs', d)}
Reads == UNCHANGED <<disturbed, whole>>

Fails(p) == Goto(p, "failed") /\ Reads

\* main: a fresh work root, and the package is packed.
Start(p) ==
    /\ Idle(p) /\ runs < MaxRuns
    /\ runs' = runs + 1
    /\ digest' = [digest EXCEPT ![p] = runs']
    /\ listing' = [listing EXCEPT ![p] = Unlisted]
    /\ lock' = [lock EXCEPT ![p] = None]
    /\ disturbed' = [disturbed EXCEPT ![p] = FALSE]
    /\ Goto(p, "get repo")
    /\ UNCHANGED <<kind, github, ghcr, cdn, attestation, whole>>

\* The run is killed, or the answer to its last request is lost: no request is
\* repeated.
Dies(p) ==
    /\ ~Idle(p)
    /\ Goto(p, "failed")
    /\ disturbed' = [disturbed EXCEPT ![p] = TRUE]
    /\ UNCHANGED <<kind, github, ghcr, cdn, runs, digest, listing, lock, attestation, whole>>

Request(p, from) ==
    /\ pc[p] = from
    /\ UNCHANGED <<kind, cdn, runs, digest, lock, attestation>>

\* ensure_repo.
GetRepo(p) ==
    /\ Request(p, "get repo")
    /\ Goto(p, IF repo = "absent" THEN "create repo"
               ELSE IF kind = "release" THEN "wait" ELSE "get manifest")
    /\ Reads /\ UNCHANGED <<github, ghcr, listing>>

CreateRepo(p) ==
    /\ Request(p, "create repo")
    /\ UNCHANGED <<manifest, tag, release, assets, nextId, ghcr, listing>>
    /\ IF repo = "absent"
         THEN /\ repo' = "empty" /\ Writes(p)
              /\ Goto(p, IF kind = "release" THEN "wait" ELSE "get manifest")
         ELSE repo' = repo /\ Fails(p)

\* GitHub creates the first commit of the repository.
AutoInit ==
    /\ repo = "empty"
    /\ repo' = "ready"
    /\ UNCHANGED <<kind, manifest, tag, release, assets, nextId, ghcr, cdn, runs, run,
                   attestation, whole>>

\* The Release canary polls for the first commit, ten times at most.
Wait(p) ==
    /\ Request(p, "wait")
    /\ Goto(p, "get manifest")
    /\ disturbed' = [disturbed EXCEPT ![p] = @ \/ repo = "empty"]
    /\ UNCHANGED <<github, ghcr, listing, whole>>

\* ensure_manifest_on_default_branch.
GetManifest(p) ==
    /\ Request(p, "get manifest")
    /\ Goto(p, IF manifest THEN "get tag" ELSE "put manifest")
    /\ Reads /\ UNCHANGED <<github, ghcr, listing>>

\* A file that appeared since, or no branch yet: refused.  The packages canary
\* does not wait for the branch.
PutManifest(p) ==
    /\ Request(p, "put manifest")
    /\ UNCHANGED <<repo, tag, release, assets, nextId, ghcr, listing>>
    /\ IF repo = "ready" /\ ~manifest
         THEN manifest' = TRUE /\ Goto(p, "get tag") /\ Writes(p)
         ELSE /\ manifest' = manifest /\ Goto(p, "failed")
              /\ disturbed' = [disturbed EXCEPT ![p] = @ \/ repo = "empty"]
              /\ UNCHANGED whole

-----------------------------------------------------------------------------
(* The Release canary.                                                     *)

\* ensure_release, and the assets that the Release has now.
GetRelease(p) ==
    /\ Request(p, "get tag") /\ kind = "release"
    /\ listing' = [listing EXCEPT ![p] =
                     [n \in Names |-> IF assets[n] = None THEN None ELSE assets[n].id]]
    /\ Goto(p, IF release THEN "delete tarball" ELSE "create release")
    /\ Reads /\ UNCHANGED <<github, ghcr>>

CreateRelease(p) ==
    /\ Request(p, "create release")
    /\ UNCHANGED <<repo, manifest, assets, nextId, ghcr, listing>>
    /\ IF release
         THEN UNCHANGED <<tag, release>> /\ Fails(p)
         ELSE tag' = TRUE /\ release' = TRUE /\ Goto(p, "delete tarball") /\ Writes(p)

DeleteStep(n) == IF n = "tarball" THEN "delete tarball" ELSE "delete sidecar"
UploadStep(n) == IF n = "tarball" THEN "upload tarball" ELSE "upload sidecar"
AfterUpload(n) == IF n = "tarball" THEN "delete sidecar" ELSE "prove list"

\* Mutant: only the tarball is deleted.
DeleteTarball(p, n) ==
    /\ Request(p, DeleteStep(n))
    /\ assets' = IF n = "tarball" THEN [assets EXCEPT ![n] = None] ELSE assets
    /\ UNCHANGED <<repo, manifest, tag, release, nextId, ghcr, listing>>
    /\ Goto(p, UploadStep(n)) /\ Writes(p)

\* replace_asset: the asset of that name that the Release object lists, which
\* another run may have deleted since.
DeleteAsset(p, n) ==
    /\ Request(p, DeleteStep(n))
    /\ UNCHANGED <<repo, manifest, tag, release, nextId, ghcr, listing>>
    /\ IF listing[p][n] = None
         THEN assets' = assets /\ Goto(p, UploadStep(n)) /\ Reads
         ELSE IF assets[n] # None /\ assets[n].id = listing[p][n]
           THEN /\ assets' = [assets EXCEPT ![n] = None]
                /\ Goto(p, UploadStep(n)) /\ Writes(p)
           ELSE assets' = assets /\ Fails(p)

\* GitHub refuses a second asset of the same name.
UploadAsset(p, n) ==
    /\ Request(p, UploadStep(n))
    /\ UNCHANGED <<repo, manifest, tag, release, ghcr, listing>>
    /\ IF assets[n] = None
         THEN /\ assets' = [assets EXCEPT ![n] = [id |-> nextId, digest |-> digest[p]]]
              /\ nextId' = nextId + 1
              /\ Goto(p, AfterUpload(n)) /\ Writes(p)
         ELSE UNCHANGED <<assets, nextId>> /\ Fails(p)

\* prove_github_roundtrip: what the tag and the Release list, then the tarball by
\* its identifier, then tarball and sidecar by their public names.
ProveList(p) ==
    /\ Request(p, "prove list")
    /\ listing' = [listing EXCEPT ![p] =
                     [n \in Names |-> IF assets[n] = None THEN None ELSE assets[n].id]]
    /\ Goto(p, IF tag /\ \A n \in Names : assets[n] # None THEN "prove asset" ELSE "failed")
    /\ Reads /\ UNCHANGED <<github, ghcr>>

\* Mutant: the status of an answer is checked, its bytes are not.
ReadingUncompared(p, from, ok, next) ==
    /\ Request(p, from)
    /\ Goto(p, next)
    /\ Reads /\ UNCHANGED <<github, ghcr, listing>>

\* An answer that is missing or not as expected raises, and ends the run.
Reading(p, from, ok, next) ==
    /\ Request(p, from)
    /\ Goto(p, IF ok THEN next ELSE "failed")
    /\ Reads /\ UNCHANGED <<github, ghcr, listing>>

Named(n, d) == assets[n] # None /\ assets[n].digest = d

ProveAsset(p) ==
    Reading(p, "prove asset",
            Named("tarball", digest[p]) /\ assets["tarball"].id = listing[p]["tarball"],
            "prove tarball")

ProveTarball(p) ==
    Reading(p, "prove tarball", Named("tarball", digest[p]), "prove sidecar")

ProveSidecar(p) ==
    Reading(p, "prove sidecar", Named("sidecar", digest[p]), "proven")

-----------------------------------------------------------------------------
(* The packages canary: no Release, which the client would prefer.         *)

\* ensure_lightweight_tag.
GetTag(p) ==
    /\ Request(p, "get tag") /\ kind = "packages"
    /\ Goto(p, IF tag THEN "put config" ELSE "create tag")
    /\ Reads /\ UNCHANGED <<github, ghcr, listing>>

CreateTag(p) ==
    /\ Request(p, "create tag")
    /\ UNCHANGED <<repo, manifest, release, assets, nextId, ghcr, listing>>
    /\ IF tag THEN tag' = tag /\ Fails(p)
             ELSE tag' = TRUE /\ Goto(p, "put config") /\ Writes(p)

\* put_blob: nothing is sent when the registry has the digest.
PutBlob(p, part, from, next) ==
    /\ Request(p, from)
    /\ UNCHANGED <<github, listing>>
    /\ blobs' = blobs \cup {<<part, digest[p]>>}
    /\ image' = image
    /\ Goto(p, next) /\ Writes(p)

\* Mutant: the manifest is put before the layer.
PutConfigOnly(p) == PutBlob(p, "config", "put config", "put image")

PutConfig(p) == PutBlob(p, "config", "put config", "put layer")
PutLayer(p) == PutBlob(p, "layer", "put layer", "put image")

\* The manifest, under the version's tag whatever it named before.
PutImage(p) ==
    /\ Request(p, "put image")
    /\ UNCHANGED <<github, listing>>
    /\ image' = digest[p] /\ blobs' = blobs
    /\ Goto(p, "prove image") /\ Writes(p)

\* prove_ghcr_get.
ProveImage(p) ==
    Reading(p, "prove image", image = digest[p], "prove layer")

ProveLayer(p) ==
    Reading(p, "prove layer", <<"layer", digest[p]>> \in blobs, "proven")

-----------------------------------------------------------------------------
(* With --zed, the client installs with the registry down.  The client is  *)
(* not part of this repository: it prefers a Release's sidecar, checks the *)
(* bytes against it, and writes the lock.                                  *)

NoZed(p) ==
    Reading(p, "proven", TRUE, "passed")

Resolved == IF assets["sidecar"] # None THEN assets["sidecar"].digest ELSE image
Served(d) == Named("tarball", d) \/ <<"layer", d>> \in blobs

\* zed_frozen_install: the first install; the home and the modules are removed.
Install(p) ==
    /\ pc[p] = "proven"
    /\ IF Resolved # None /\ Served(Resolved)
         THEN lock' = [lock EXCEPT ![p] = Resolved] /\ Goto(p, "frozen")
         ELSE lock' = lock /\ Goto(p, "failed")
    /\ Reads
    /\ UNCHANGED <<kind, github, ghcr, cdn, runs, digest, listing, attestation>>

\* ... and restored from the lock, which stays as it was.
Frozen(p) ==
    Reading(p, "frozen", Served(lock[p]), "passed")

-----------------------------------------------------------------------------
(* public_edge_fallback_readonly.py: every check is recorded, and the next *)
(* one made whatever its result.                                           *)

Check(from, ok, next) ==
    /\ attest = from
    /\ attest' = next
    /\ \E answered \in BOOLEAN : failing' = (failing \/ ~(ok /\ answered))
    /\ UNCHANGED <<kind, github, ghcr, runs, run, attests, whole, pinned>>

BeginAttest ==
    /\ attest \in {"idle", "0", "1"} /\ attests < MaxAttests /\ kind = "release"
    /\ attest' = "list" /\ failing' = FALSE /\ direct' = FALSE
    /\ attests' = attests + 1
    /\ pinned' = Holds(assets, 0)
    /\ UNCHANGED <<kind, github, ghcr, cdn, runs, run, whole>>

AttestList ==
    /\ Check("list", release /\ Named("tarball", 0) /\ assets["sidecar"] # None, "sidecar")
    /\ UNCHANGED <<cdn, direct>>

\* direct_release: two requests, one verdict.
AttestSidecar ==
    /\ attest = "sidecar" /\ attest' = "tarball"
    /\ direct' = Named("sidecar", 0)
    /\ UNCHANGED <<kind, github, ghcr, cdn, runs, run, attests, whole, pinned, failing>>

AttestTarball ==
    /\ Check("tarball", direct /\ Named("tarball", 0), "cdn get")
    /\ direct' = (direct /\ Named("tarball", 0))
    /\ UNCHANGED cdn

\* The worker in front of the Release, which caches what it once fetched.
CdnFetch == cdn' = IF cdn = None /\ assets["tarball"] # None
                     THEN assets["tarball"].digest ELSE cdn

\* cloudflare_get: compared with the bytes of the direct proof.
AttestGet ==
    /\ CdnFetch
    /\ Check("cdn get", direct /\ cdn' = 0, "cdn head")
    /\ UNCHANGED direct

\* cloudflare_head compares lengths only.
AttestHead ==
    /\ CdnFetch
    /\ Check("cdn head", cdn' # None, "cdn range")
    /\ UNCHANGED direct

AttestRange ==
    /\ CdnFetch
    /\ Check("cdn range", direct /\ cdn' = 0, "end")
    /\ UNCHANGED direct

AttestEnd ==
    /\ attest = "end"
    /\ attest' = IF failing THEN "1" ELSE "0"
    /\ UNCHANGED <<kind, github, ghcr, cdn, runs, run, attests, whole, pinned, failing, direct>>

Evict ==
    /\ cdn # None /\ cdn' = None
    /\ UNCHANGED <<kind, github, ghcr, runs, run, attestation, whole>>

-----------------------------------------------------------------------------

Publisher(p) ==
    \/ Start(p) \/ Dies(p)
    \/ GetRepo(p) \/ CreateRepo(p) \/ Wait(p) \/ GetManifest(p) \/ PutManifest(p)
    \/ GetRelease(p) \/ CreateRelease(p)
    \/ \E n \in Names : DeleteAsset(p, n) \/ UploadAsset(p, n)
    \/ ProveList(p) \/ ProveAsset(p) \/ ProveTarball(p) \/ ProveSidecar(p)
    \/ GetTag(p) \/ CreateTag(p) \/ PutConfig(p) \/ PutLayer(p) \/ PutImage(p)
    \/ ProveImage(p) \/ ProveLayer(p)
    \/ NoZed(p) \/ Install(p) \/ Frozen(p)

Attestation ==
    \/ BeginAttest \/ AttestList \/ AttestSidecar \/ AttestTarball
    \/ AttestGet \/ AttestHead \/ AttestRange \/ AttestEnd

Next == AutoInit \/ Evict \/ Attestation \/ \E p \in Publishers : Publisher(p)

Spec == Init /\ [][Next]_vars

-----------------------------------------------------------------------------

Asset == [id : Nat, digest : Digests]

Steps == {"idle", "passed", "failed", "get repo", "create repo", "wait", "get manifest",
          "put manifest", "get tag", "create release", "create tag", "delete tarball",
          "upload tarball", "delete sidecar", "upload sidecar", "prove list",
          "prove asset", "prove tarball", "prove sidecar", "put config", "put layer",
          "put image", "prove image", "prove layer", "proven", "frozen"}

\* Every variable has its type.
TypeOK ==
    /\ kind \in Kinds
    /\ repo \in {"absent", "empty", "ready"}
    /\ manifest \in BOOLEAN /\ tag \in BOOLEAN /\ release \in BOOLEAN
    /\ assets \in [Names -> Asset \cup {None}] /\ nextId \in Nat
    /\ blobs \subseteq {"config", "layer"} \X Digests /\ image \in Digests \cup {None}
    /\ cdn \in Digests \cup {None}
    /\ runs \in 0..MaxRuns
    /\ pc \in [Publishers -> Steps]
    /\ digest \in [Publishers -> Digests \cup {None}]
    /\ listing \in [Publishers -> [Names -> Nat \cup {None}]]
    /\ lock \in [Publishers -> Digests \cup {None}]
    /\ attest \in {"idle", "list", "sidecar", "tarball", "cdn get", "cdn head",
                   "cdn range", "end", "0", "1"}
    /\ failing \in BOOLEAN /\ direct \in BOOLEAN /\ attests \in 0..MaxAttests
    /\ disturbed \in [Publishers -> BOOLEAN]
    /\ whole \subseteq Digests /\ pinned \in BOOLEAN

\* What a canary reports as proven was published: the Release held this run's
\* tarball and this run's sidecar at one and the same moment, or the tag named
\* this run's image with its blobs, though every request of the proof reads at a
\* moment of its own and other runs replace assets meanwhile.  An attestation
\* that passes began when the Release held what the ledger pins.
ReportedWasWhole ==
    /\ \A p \in Publishers :
          pc[p] \in {"proven", "frozen", "passed"} => digest[p] \in whole
    /\ attest = "0" => pinned

\* Whatever earlier runs left behind (a repository without a manifest, a Release
\* without assets, one asset deleted and not uploaded again, two assets of
\* different runs), a run that is left alone repairs it and passes, and its consumer
\* locks what it proved.
RerunsRepair ==
    \A p \in Publishers :
        pc[p] = "failed" \/ (lock[p] # None /\ lock[p] # digest[p]) => disturbed[p]

\* The tag of the package never names an image whose config or layer is not
\* there, at any moment of any run.
TagIsComplete == image # None => Complete(blobs, image)
=============================================================================
