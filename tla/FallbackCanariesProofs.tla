---------------------- MODULE FallbackCanariesProofs ----------------------
(***************************************************************************)
(* What a fallback canary reports was published whole, its tag is always   *)
(* complete, and a run that is left alone repairs what others left: for    *)
(* any publishers, runs, kills and attestations.                           *)
(***************************************************************************)
EXTENDS FallbackCanaries, TLAPS

-----------------------------------------------------------------------------
(* What a step of a publisher may change.                                  *)

Own(p) ==
    /\ digest[p] # None => digest[p] \in 1..runs
    /\ pc[p] # "idle" => digest[p] # None
    /\ \A q \in Publishers \ {p} : digest[q] # None => digest[p] # digest[q]

Typed == TypeOK /\ \A p \in Publishers : Own(p)

Listings == [Names -> Nat \cup {None}]
Listed == [n \in Names |-> IF assets[n] = None THEN None ELSE assets[n].id]

LEMMA ExceptKeepsType ==
    ASSUME NEW P, NEW S, NEW f \in [P -> S], NEW p \in P, NEW v \in S
    PROVE  [f EXCEPT ![p] = v] \in [P -> S] /\ [f EXCEPT ![p] = v][p] = v
OBVIOUS

\* A publisher moves its own run only.
LEMMA StepOfRun ==
    ASSUME TypeOK, NEW p \in Publishers, Publisher(p)
    PROVE  /\ pc' \in [Publishers -> Steps] /\ pc' = [pc EXCEPT ![p] = pc'[p]]
           /\ Start(p) \/ UNCHANGED <<runs, digest>>
           /\ \/ UNCHANGED listing
              \/ listing' = [listing EXCEPT ![p] = Unlisted]
              \/ listing' = [listing EXCEPT ![p] = Listed]
           /\ \/ UNCHANGED lock
              \/ lock' = [lock EXCEPT ![p] = None]
              \/ lock' = [lock EXCEPT ![p] = Resolved]
           /\ UNCHANGED <<kind, cdn, attest, failing, direct, attests, pinned>>
<1> USE DEF TypeOK, Steps, Goto, Request, Fails, attestation, Listed
<1>1. CASE Start(p) \/ Dies(p) \/ Install(p)
  BY <1>1 DEF Start, Dies, Install
<1>2. CASE GetRepo(p) \/ CreateRepo(p) \/ Wait(p) \/ GetManifest(p) \/ PutManifest(p)
  BY <1>2 DEF GetRepo, CreateRepo, Wait, GetManifest, PutManifest
<1>3. CASE GetRelease(p) \/ CreateRelease(p) \/ ProveList(p)
  BY <1>3 DEF GetRelease, CreateRelease, ProveList
<1>4. ASSUME NEW n \in Names, DeleteAsset(p, n) \/ UploadAsset(p, n)
      PROVE  /\ pc' \in [Publishers -> Steps] /\ pc' = [pc EXCEPT ![p] = pc'[p]]
             /\ UNCHANGED <<runs, digest, listing, lock, kind, cdn, attest, failing, direct,
                            attests, pinned>>
  BY <1>4 DEF DeleteAsset, UploadAsset, AfterUpload, UploadStep
<1>5. CASE ProveAsset(p) \/ ProveTarball(p) \/ ProveSidecar(p) \/ ProveImage(p)
           \/ ProveLayer(p) \/ NoZed(p) \/ Frozen(p)
  BY <1>5 DEF ProveAsset, ProveTarball, ProveSidecar, ProveImage, ProveLayer, NoZed, Frozen,
              Reading
<1>6. CASE GetTag(p) \/ CreateTag(p) \/ PutConfig(p) \/ PutLayer(p) \/ PutImage(p)
  BY <1>6 DEF GetTag, CreateTag, PutConfig, PutLayer, PutImage, PutBlob
<1> QED
  BY <1>1, <1>2, <1>3, <1>4, <1>5, <1>6 DEF Publisher

\* ... and either leaves what others read alone, or disturbs their runs and records what is
\* published whole now.
LEMMA StepOfPublic ==
    ASSUME TypeOK, NEW p \in Publishers, Publisher(p)
    PROVE  \/ /\ UNCHANGED <<repo, manifest, tag, release, assets, nextId, blobs, image, whole>>
              /\ disturbed' = [disturbed EXCEPT ![p] = disturbed'[p]]
              /\ disturbed' \in [Publishers -> BOOLEAN]
           \/ Writes(p)
<1> USE DEF TypeOK, Request, Reads, Fails, github, ghcr
<1>1. CASE Start(p) \/ Dies(p) \/ Install(p)
  BY <1>1 DEF Start, Dies, Install
<1>2. CASE GetRepo(p) \/ CreateRepo(p) \/ Wait(p) \/ GetManifest(p) \/ PutManifest(p)
  BY <1>2 DEF GetRepo, CreateRepo, Wait, GetManifest, PutManifest
<1>3. CASE GetRelease(p) \/ CreateRelease(p) \/ ProveList(p)
  BY <1>3 DEF GetRelease, CreateRelease, ProveList
<1>4. ASSUME NEW n \in Names, DeleteAsset(p, n) \/ UploadAsset(p, n)
      PROVE  \/ /\ UNCHANGED <<repo, manifest, tag, release, assets, nextId, blobs, image,
                               disturbed, whole>>
             \/ Writes(p)
  BY <1>4 DEF DeleteAsset, UploadAsset
<1>5. CASE ProveAsset(p) \/ ProveTarball(p) \/ ProveSidecar(p) \/ ProveImage(p)
           \/ ProveLayer(p) \/ NoZed(p) \/ Frozen(p)
  BY <1>5 DEF ProveAsset, ProveTarball, ProveSidecar, ProveImage, ProveLayer, NoZed, Frozen,
              Reading
<1>6. CASE GetTag(p) \/ CreateTag(p) \/ PutConfig(p) \/ PutLayer(p) \/ PutImage(p)
  BY <1>6 DEF GetTag, CreateTag, PutConfig, PutLayer, PutImage, PutBlob
<1> QED
  BY <1>1, <1>2, <1>3, <1>4, <1>5, <1>6 DEF Publisher

\* Assets are deleted and uploaded one at a time, and blobs are only added.
LEMMA StepOfRepository ==
    ASSUME Typed, NEW p \in Publishers, Publisher(p)
    PROVE  /\ repo' \in {"absent", "empty", "ready"} /\ manifest' \in BOOLEAN
           /\ tag' \in BOOLEAN /\ release' \in BOOLEAN /\ nextId' \in Nat
           /\ \/ UNCHANGED assets
              \/ \E n \in Names : DeleteAsset(p, n) /\ assets' = [assets EXCEPT ![n] = None]
              \/ \E n \in Names :
                    /\ UploadAsset(p, n)
                    /\ assets' = [assets EXCEPT ![n] = [id |-> nextId, digest |-> digest[p]]]
           /\ UNCHANGED blobs \/ PutConfig(p) \/ PutLayer(p)
           /\ UNCHANGED image \/ PutImage(p)
<1> USE DEF Typed, TypeOK, Request, github, ghcr
<1>1. CASE Start(p) \/ Dies(p) \/ Install(p)
  BY <1>1 DEF Start, Dies, Install
<1>2. CASE GetRepo(p) \/ CreateRepo(p) \/ Wait(p) \/ GetManifest(p) \/ PutManifest(p)
  BY <1>2 DEF GetRepo, CreateRepo, Wait, GetManifest, PutManifest
<1>3. CASE GetRelease(p) \/ CreateRelease(p) \/ ProveList(p)
  BY <1>3 DEF GetRelease, CreateRelease, ProveList
<1>4. ASSUME NEW n \in Names, DeleteAsset(p, n)
      PROVE  /\ UNCHANGED <<repo, manifest, tag, release, nextId, blobs, image>>
             /\ UNCHANGED assets \/ assets' = [assets EXCEPT ![n] = None]
  BY <1>4 DEF DeleteAsset
<1>5. ASSUME NEW n \in Names, UploadAsset(p, n)
      PROVE  /\ UNCHANGED <<repo, manifest, tag, release, blobs, image>> /\ nextId' \in Nat
             /\ \/ UNCHANGED assets
                \/ assets' = [assets EXCEPT ![n] = [id |-> nextId, digest |-> digest[p]]]
  <2>1. /\ UNCHANGED <<repo, manifest, tag, release, blobs, image>>
        /\ \/ UNCHANGED <<assets, nextId>>
           \/ /\ assets' = [assets EXCEPT ![n] = [id |-> nextId, digest |-> digest[p]]]
              /\ nextId' = nextId + 1
    BY <1>5 DEF UploadAsset
  <2>2. nextId \in Nat
    OBVIOUS
  <2> HIDE DEF Typed, TypeOK
  <2> QED
    BY <2>1, <2>2
<1>6. CASE ProveAsset(p) \/ ProveTarball(p) \/ ProveSidecar(p) \/ ProveImage(p)
           \/ ProveLayer(p) \/ NoZed(p) \/ Frozen(p)
  BY <1>6 DEF ProveAsset, ProveTarball, ProveSidecar, ProveImage, ProveLayer, NoZed, Frozen,
              Reading
<1>7. CASE GetTag(p) \/ CreateTag(p) \/ PutConfig(p) \/ PutLayer(p) \/ PutImage(p)
  BY <1>7 DEF GetTag, CreateTag, PutConfig, PutLayer, PutImage, PutBlob
<1> QED
  BY <1>1, <1>2, <1>3, <1>4, <1>5, <1>6, <1>7 DEF Publisher

\* The bytes of a run are its own.
LEMMA StepOfOwn ==
    ASSUME Typed, NEW p \in Publishers, Publisher(p)
    PROVE  /\ runs' \in 0..MaxRuns /\ digest' \in [Publishers -> Digests \cup {None}]
           /\ \A q \in Publishers : Own(q)'
<1> USE FallbackAssumption
<1>1. /\ pc' = [pc EXCEPT ![p] = pc'[p]] /\ pc \in [Publishers -> Steps]
      /\ digest \in [Publishers -> Digests \cup {None}] /\ runs \in 0..MaxRuns
      /\ \A q \in Publishers : Own(q)
  BY StepOfRun DEF Typed, TypeOK
<1>2. CASE Start(p)
  <2>1. /\ runs < MaxRuns /\ runs' = runs + 1 /\ runs' \in 0..MaxRuns /\ runs' \in Digests
        /\ digest' = [digest EXCEPT ![p] = runs']
    <3>1. /\ runs < MaxRuns /\ runs' = runs + 1
          /\ digest' = [digest EXCEPT ![p] = runs']
      BY <1>2 DEF Start
    <3> QED
      BY <1>1, <3>1 DEF Digests
  <2>2. digest' \in [Publishers -> Digests \cup {None}] /\ digest'[p] = runs'
    BY <1>1, <2>1, ExceptKeepsType
  <2>3. ASSUME NEW q \in Publishers PROVE Own(q)'
    BY <1>1, <2>1, <2>2 DEF Own
  <2> QED
    BY <2>1, <2>2, <2>3
<1>3. CASE UNCHANGED <<runs, digest>>
  <2>1. pc[p] # "idle" \/ Start(p)
    BY <1>1 DEF Publisher, Dies, Idle, Install, Request, GetRepo, CreateRepo, Wait, GetManifest,
                PutManifest, GetRelease, CreateRelease, DeleteAsset, UploadAsset, DeleteStep,
                UploadStep, ProveList, ProveAsset, ProveTarball, ProveSidecar, GetTag, CreateTag,
                PutConfig, PutLayer, PutBlob, PutImage, ProveImage, ProveLayer, NoZed, Frozen,
                Reading
  <2> QED
    BY <1>1, <1>2, <1>3, <2>1 DEF Own
<1> QED
  BY <1>2, <1>3, StepOfRun DEF Typed

\* Every variable has its type, and no two runs pack the same bytes.
THEOREM Typing == Spec => []Typed
<1>1. Init => Typed
  <2> SUFFICES ASSUME Init PROVE Typed
    OBVIOUS
  <2> USE FallbackAssumption DEF Init, Digests
  <2>1. 0 \in Digests /\ None \notin Nat
    OBVIOUS
  <2>2. /\ assets \in [Names -> Asset \cup {None}]
        /\ listing \in [Publishers -> [Names -> Nat \cup {None}]]
    BY <2>1 DEF Asset, Unlisted
  <2>3. /\ kind \in Kinds /\ repo \in {"absent", "empty", "ready"}
        /\ nextId \in Nat /\ blobs = {} /\ image = None /\ cdn = None /\ runs = 0
    OBVIOUS
  <2>4. manifest \in BOOLEAN /\ tag \in BOOLEAN /\ release \in BOOLEAN
    OBVIOUS
  <2>5. whole \subseteq Digests
    BY <2>1
  <2>6. /\ pc \in [Publishers -> Steps] /\ disturbed \in [Publishers -> BOOLEAN]
        /\ digest \in [Publishers -> Digests \cup {None}]
        /\ lock \in [Publishers -> Digests \cup {None}]
    BY DEF Steps
  <2>7. attest = "idle" /\ failing = FALSE /\ direct = FALSE /\ attests = 0 /\ pinned = FALSE
    OBVIOUS
  <2>8. TypeOK
    <3>1. /\ blobs \subseteq {"config", "layer"} \X Digests /\ image \in Digests \cup {None}
          /\ cdn \in Digests \cup {None} /\ runs \in 0..MaxRuns /\ attests \in 0..MaxAttests
      BY <2>3, <2>7
    <3> HIDE DEF Init, Digests
    <3> QED
      BY <2>2, <2>3, <2>4, <2>5, <2>6, <2>7, <3>1 DEF TypeOK
  <2>9. \A p \in Publishers : Own(p)
    BY DEF Init, Own
  <2> QED
    BY <2>8, <2>9 DEF Typed
<1>2. Typed /\ [Next]_vars => Typed'
  <2> SUFFICES ASSUME Typed, [Next]_vars PROVE Typed'
    OBVIOUS
  <2>1. CASE UNCHANGED vars \/ AutoInit \/ Evict \/ Attestation
    <3>1. UNCHANGED <<kind, manifest, tag, release, assets, nextId, blobs, image, runs, pc,
                      digest, listing, lock, disturbed, whole>>
      BY <2>1 DEF AutoInit, Evict, Attestation, BeginAttest, AttestList, AttestSidecar,
                  AttestTarball, AttestGet, AttestHead, AttestRange, AttestEnd, Check, vars,
                  github, ghcr, run
    <3>2. repo' \in {"absent", "empty", "ready"} /\ cdn' \in Digests \cup {None}
      <4>1. CASE UNCHANGED vars \/ AutoInit \/ Evict
        BY <4>1 DEF AutoInit, Evict, vars, github, TypeOK, Typed
      <4>2. CASE Attestation
        BY <4>2 DEF TypeOK, Typed, Attestation, BeginAttest, AttestList, AttestSidecar,
                    AttestTarball, AttestGet, AttestHead, AttestRange, AttestEnd, Check,
                    CdnFetch, github, Asset, Names
      <4> QED
        BY <2>1, <4>1, <4>2
    <3>3. /\ attest' \in {"idle", "list", "sidecar", "tarball", "cdn get", "cdn head",
                          "cdn range", "end", "0", "1"}
          /\ attests' \in 0..MaxAttests
      <4>1. CASE BeginAttest
        <5>1. attest' = "list" /\ attests < MaxAttests /\ attests' = attests + 1
          BY <4>1 DEF BeginAttest
        <5>2. attests \in 0..MaxAttests
          BY DEF Typed, TypeOK
        <5> QED
          BY <5>1, <5>2, FallbackAssumption
      <4>2. CASE UNCHANGED vars \/ AutoInit \/ Evict
        BY <4>2 DEF AutoInit, Evict, vars, attestation, TypeOK, Typed
      <4> QED
        BY <2>1, <4>1, <4>2
           DEF Attestation, AttestList, AttestSidecar, AttestTarball, AttestGet, AttestHead,
               AttestRange, AttestEnd, Check, TypeOK, Typed
    <3>4. pinned' \in BOOLEAN /\ direct' \in BOOLEAN /\ failing' \in BOOLEAN
      BY <2>1 DEF AutoInit, Evict, Attestation, BeginAttest, AttestList, AttestSidecar,
                  AttestTarball, AttestGet, AttestHead, AttestRange, AttestEnd, Check, vars,
                  attestation, TypeOK, Typed, Holds, Named
    <3>5. TypeOK'
      BY <3>1, <3>2, <3>3, <3>4 DEF Typed, TypeOK
    <3>6. \A p \in Publishers : Own(p)'
      BY <3>1 DEF Typed, Own
    <3> QED
      BY <3>5, <3>6 DEF Typed
  <2>2. ASSUME NEW p \in Publishers, Publisher(p) PROVE Typed'
    <3>0. TypeOK
      BY DEF Typed
    <3>1. /\ UNCHANGED <<kind, cdn, attest, failing, direct, attests, pinned>>
          /\ pc' \in [Publishers -> Steps]
      BY <2>2, <3>0, StepOfRun
    <3>2. runs' \in 0..MaxRuns /\ digest' \in [Publishers -> Digests \cup {None}]
      BY <2>2, StepOfOwn
    <3>3. /\ repo' \in {"absent", "empty", "ready"} /\ manifest' \in BOOLEAN
          /\ tag' \in BOOLEAN /\ release' \in BOOLEAN /\ nextId' \in Nat
      BY <2>2, StepOfRepository
    <3>4. assets' \in [Names -> Asset \cup {None}]
      <4>1. ASSUME NEW n \in Names, UploadAsset(p, n)
            PROVE  [id |-> nextId, digest |-> digest[p]] \in Asset \cup {None}
        BY <4>1 DEF UploadAsset, UploadStep, Request, Own, Typed, TypeOK, Asset
      <4>2. assets \in [Names -> Asset \cup {None}]
        BY DEF Typed, TypeOK
      <4> QED
        BY <2>2, <4>1, <4>2, StepOfRepository, ExceptKeepsType
    <3>5. blobs' \subseteq {"config", "layer"} \X Digests /\ image' \in Digests \cup {None}
      <4>1. CASE PutConfig(p) \/ PutLayer(p) \/ PutImage(p)
        <5>1. digest[p] \in Digests
          BY <4>1 DEF PutConfig, PutLayer, PutImage, PutBlob, Request, Own, Typed, TypeOK
        <5> QED
          <6>1. /\ \/ UNCHANGED blobs
                   \/ blobs' = blobs \cup {<<"config", digest[p]>>}
                   \/ blobs' = blobs \cup {<<"layer", digest[p]>>}
                /\ UNCHANGED image \/ image' = digest[p]
            BY <4>1 DEF PutConfig, PutLayer, PutImage, PutBlob
          <6>2. blobs \subseteq {"config", "layer"} \X Digests /\ image \in Digests \cup {None}
            BY <3>0 DEF TypeOK
          <6> QED
            BY <5>1, <6>1, <6>2
      <4> QED
        BY <2>2, <3>0, <4>1, StepOfRepository DEF TypeOK
    <3>6. listing' \in [Publishers -> Listings]
      <4>1. listing \in [Publishers -> Listings] /\ Unlisted \in Listings /\ Listed \in Listings
        BY <3>0 DEF TypeOK, Listings, Unlisted, Listed, Asset
      <4> QED
        BY <2>2, <3>0, <4>1, StepOfRun, ExceptKeepsType
    <3>7. lock' \in [Publishers -> Digests \cup {None}]
      <4>1. /\ lock \in [Publishers -> Digests \cup {None}]
            /\ Resolved \in Digests \cup {None}
        BY <3>0 DEF TypeOK, Resolved, Asset, Names
      <4> QED
        BY <2>2, <3>0, <4>1, StepOfRun, ExceptKeepsType
    <3>8. disturbed' \in [Publishers -> BOOLEAN] /\ whole' \subseteq Digests
      <4>1. CASE Writes(p)
        BY <3>0, <4>1 DEF Writes, TypeOK
      <4> QED
        BY <2>2, <3>0, <4>1, StepOfPublic DEF TypeOK
    <3>9. TypeOK'
      BY <3>0, <3>1, <3>2, <3>3, <3>4, <3>5, <3>6, <3>7, <3>8 DEF TypeOK, Listings
    <3> QED
      BY <2>2, <3>9, StepOfOwn DEF Typed
  <2> QED
    BY <2>1, <2>2 DEF Next
<1> QED
  BY <1>1, <1>2, PTL DEF Spec

-----------------------------------------------------------------------------
(* The order of the requests.                                              *)

\* Each place is reached by its own request.
LEMMA Arrivals ==
    ASSUME TypeOK, NEW p \in Publishers, Publisher(p)
    PROVE  /\ pc'[p] = "create release" => GetRelease(p)
           /\ pc'[p] = "delete tarball" => GetRelease(p) \/ CreateRelease(p)
           /\ pc'[p] \in {"upload tarball", "delete sidecar", "upload sidecar"}
                 => \E n \in Names : DeleteAsset(p, n) \/ UploadAsset(p, n)
           /\ pc'[p] = "prove list" => UploadAsset(p, "sidecar")
           /\ pc'[p] = "prove asset" => ProveList(p)
           /\ pc'[p] = "prove tarball" => ProveAsset(p)
           /\ pc'[p] = "prove sidecar" => ProveTarball(p)
           /\ pc'[p] = "create tag" => GetTag(p)
           /\ pc'[p] = "put config" => GetTag(p) \/ CreateTag(p)
           /\ pc'[p] = "put layer" => PutConfig(p)
           /\ pc'[p] = "put image" => PutLayer(p)
           /\ pc'[p] = "prove image" => PutImage(p)
           /\ pc'[p] = "prove layer" => ProveImage(p)
           /\ pc'[p] = "proven" => ProveSidecar(p) \/ ProveLayer(p)
           /\ pc'[p] = "frozen" => Install(p)
           /\ pc'[p] = "passed" => NoZed(p) \/ Frozen(p)
<1> USE DEF Goto, Request, Fails
<1>0. pc \in [Publishers -> Steps]
  BY DEF TypeOK
<1>1. CASE Start(p) \/ Dies(p) \/ Install(p)
  BY <1>0, <1>1 DEF Start, Dies, Install
<1>2. CASE GetRepo(p) \/ CreateRepo(p) \/ Wait(p) \/ GetManifest(p) \/ PutManifest(p)
  BY <1>0, <1>2 DEF GetRepo, CreateRepo, Wait, GetManifest, PutManifest
<1>3. CASE GetRelease(p) \/ ProveList(p)
  BY <1>0, <1>3 DEF GetRelease, ProveList
<1>4. CASE CreateRelease(p)
  BY <1>0, <1>4 DEF CreateRelease
<1>5. ASSUME NEW n \in Names, DeleteAsset(p, n)
      PROVE  pc'[p] \in {UploadStep(n), "failed"}
  BY <1>0, <1>5 DEF DeleteAsset
<1>6. ASSUME NEW n \in Names, UploadAsset(p, n)
      PROVE  pc'[p] \in {AfterUpload(n), "failed"}
  BY <1>0, <1>6 DEF UploadAsset
<1>7. CASE \E n \in Names : DeleteAsset(p, n) \/ UploadAsset(p, n)
  BY <1>5, <1>6, <1>7 DEF UploadStep, AfterUpload, Names
<1>8. CASE ProveAsset(p) \/ ProveTarball(p) \/ ProveSidecar(p) \/ ProveImage(p)
           \/ ProveLayer(p) \/ NoZed(p) \/ Frozen(p)
  BY <1>0, <1>8 DEF ProveAsset, ProveTarball, ProveSidecar, ProveImage, ProveLayer, NoZed,
                    Frozen, Reading
<1>9. CASE GetTag(p) \/ CreateTag(p) \/ PutConfig(p) \/ PutLayer(p) \/ PutImage(p)
  BY <1>0, <1>9 DEF GetTag, CreateTag, PutConfig, PutLayer, PutImage, PutBlob
<1> QED
  BY <1>1, <1>2, <1>3, <1>4, <1>7, <1>8, <1>9 DEF Publisher

LEMMA OthersStay ==
    ASSUME Typed, NEW p \in Publishers, Publisher(p), NEW q \in Publishers \ {p}
    PROVE  /\ pc'[q] = pc[q] /\ digest'[q] = digest[q]
           /\ listing'[q] = listing[q] /\ lock'[q] = lock[q]
<1>1. /\ pc \in [Publishers -> Steps] /\ digest \in [Publishers -> Digests \cup {None}]
      /\ listing \in [Publishers -> [Names -> Nat \cup {None}]]
      /\ lock \in [Publishers -> Digests \cup {None}]
  BY DEF Typed, TypeOK
<1>2. Start(p) => digest' = [digest EXCEPT ![p] = runs']
  BY DEF Start
<1>3. TypeOK
  BY DEF Typed
<1> QED
  BY <1>1, <1>2, <1>3, StepOfRun

\* The bytes of a run that has begun; a step other than Start keeps them.
LEMMA OwnBytes ==
    ASSUME Typed, NEW p \in Publishers, Publisher(p)
    PROVE  /\ pc'[p] # "get repo" => UNCHANGED digest /\ pc[p] # "idle"
           /\ pc[p] # "idle" => /\ digest[p] \in Digests /\ digest[p] \in Nat
                                /\ digest[p] # 0 /\ digest[p] # None
<1>1. /\ pc \in [Publishers -> Steps] /\ digest \in [Publishers -> Digests \cup {None}]
      /\ runs \in 0..MaxRuns /\ Own(p)
  BY DEF Typed, TypeOK
<1>2. pc'[p] # "get repo" => ~Start(p)
  BY <1>1 DEF Start, Goto
<1>3. pc'[p] # "get repo" => pc[p] # "idle"
  BY <1>2 DEF Publisher, Dies, Idle, Install, Request, GetRepo, CreateRepo, Wait, GetManifest,
              PutManifest, GetRelease, CreateRelease, DeleteAsset, UploadAsset, DeleteStep,
              UploadStep, ProveList, ProveAsset, ProveTarball, ProveSidecar, GetTag, CreateTag,
              PutConfig, PutLayer, PutBlob, PutImage, ProveImage, ProveLayer, NoZed, Frozen,
              Reading
<1>4. pc[p] # "idle" => digest[p] \in 1..runs /\ digest[p] # None
  BY <1>1 DEF Own
<1>5. pc[p] # "idle" => digest[p] \in Digests /\ digest[p] \in Nat /\ digest[p] # 0
  BY <1>1, <1>4
<1>6. pc'[p] # "get repo" => UNCHANGED digest
  BY <1>2, StepOfRun DEF Typed
<1> QED
  BY <1>3, <1>4, <1>5, <1>6

\* An uploaded asset is there.
LEMMA UploadIsAsset ==
    ASSUME Typed, NEW p \in Publishers, Publisher(p), NEW n \in Names, UploadAsset(p, n)
    PROVE  [id |-> nextId, digest |-> digest[p]] # None
<1>1. pc[p] # "idle" /\ nextId \in Nat
  BY DEF UploadAsset, UploadStep, Request, Typed, TypeOK
<1>2. digest[p] \in Nat
  BY <1>1, OwnBytes
<1>3. [id |-> nextId, digest |-> digest[p]] \in [id : Nat, digest : Nat]
  BY <1>1, <1>2
<1> QED
  BY <1>3, FallbackAssumption

\* No bytes come back: what an asset holds now it held before, or they are those of p.
LEMMA NewBytes ==
    ASSUME Typed, NEW p \in Publishers, Publisher(p), NEW n \in Names, NEW d, Named(n, d)'
    PROVE  Named(n, d) \/ (UploadAsset(p, n) /\ d = digest[p])
<1>1. assets \in [Names -> Asset \cup {None}]
  BY DEF Typed, TypeOK
<1>2. ASSUME NEW m \in Names, DeleteAsset(p, m), assets' = [assets EXCEPT ![m] = None]
      PROVE  Named(n, d)
  BY <1>1, <1>2 DEF Named
<1>3. ASSUME NEW m \in Names, UploadAsset(p, m),
             assets' = [assets EXCEPT ![m] = [id |-> nextId, digest |-> digest[p]]]
      PROVE  Named(n, d) \/ (UploadAsset(p, n) /\ d = digest[p])
  BY <1>1, <1>3 DEF Named
<1> QED
  BY <1>2, <1>3, StepOfRepository DEF Named

-----------------------------------------------------------------------------
(* The tag of the package.                                                 *)

Filled(p) ==
    /\ pc[p] = "put layer" => <<"config", digest[p]>> \in blobs
    /\ pc[p] = "put image" => Complete(blobs, digest[p])

TagInv == TagIsComplete /\ \A p \in Publishers : Filled(p)

LEMMA TagStep == Typed /\ TagInv /\ [Next]_vars => TagInv'
<1> SUFFICES ASSUME Typed, TagInv, [Next]_vars PROVE TagInv'
  OBVIOUS
<1>1. CASE UNCHANGED vars \/ AutoInit \/ Evict \/ Attestation
  <2>1. UNCHANGED <<blobs, image, pc, digest>>
    BY <1>1 DEF AutoInit, Evict, Attestation, BeginAttest, AttestList, AttestSidecar,
                AttestTarball, AttestGet, AttestHead, AttestRange, AttestEnd, Check, vars,
                ghcr, run
  <2> QED
    BY <2>1 DEF TagInv, TagIsComplete, Filled, Complete
<1>2. ASSUME NEW p \in Publishers, Publisher(p) PROVE TagInv'
  <2>0. TypeOK
    BY DEF Typed
  <2>1. blobs \subseteq blobs'
    BY <1>2, StepOfRepository DEF PutConfig, PutLayer, PutBlob
  <2>2. TagIsComplete'
    <3>1. PutImage(p) => Filled(p) /\ pc[p] = "put image" /\ image' = digest[p]
      BY DEF TagInv, PutImage, Request
    <3> QED
      BY <1>2, <2>1, <3>1, StepOfRepository DEF TagInv, TagIsComplete, Filled, Complete
  <2>3. Filled(p)'
    <3>1. CASE pc'[p] = "put layer"
      <4>1. PutConfig(p) /\ UNCHANGED digest
        BY <1>2, <2>0, <3>1, Arrivals, OwnBytes
      <4> QED
        BY <3>1, <4>1 DEF PutConfig, PutBlob, Filled
    <3>2. CASE pc'[p] = "put image"
      <4>1. PutLayer(p) /\ UNCHANGED digest
        BY <1>2, <2>0, <3>2, Arrivals, OwnBytes
      <4>2. Filled(p)
        BY DEF TagInv
      <4> QED
        BY <3>2, <4>1, <4>2 DEF PutLayer, PutBlob, Filled, Complete, Request
    <3> QED
      BY <3>1, <3>2 DEF Filled
  <2>4. ASSUME NEW q \in Publishers \ {p} PROVE Filled(q)'
    BY <1>2, <2>1, OthersStay DEF TagInv, Filled, Complete
  <2> QED
    BY <2>2, <2>3, <2>4 DEF TagInv
<1> QED
  BY <1>1, <1>2 DEF Next

\* The tag never names an image whose parts are missing: the config is put before the
\* layer, the layer before the manifest, and no blob is ever removed.
THEOREM TagStaysComplete == Spec => []TagIsComplete
<1>1. Init => TagInv
  BY DEF Init, TagInv, TagIsComplete, Filled
<1>2. TagInv => TagIsComplete
  BY DEF TagInv
<1> QED
  BY <1>1, <1>2, Typing, TagStep, PTL DEF Spec

-----------------------------------------------------------------------------
(* What was reported was whole.                                            *)

ReleaseSteps == {"create release", "delete tarball", "upload tarball", "delete sidecar",
                 "upload sidecar", "prove list", "prove asset", "prove tarball",
                 "prove sidecar"}
PackageSteps == {"create tag", "put config", "put layer", "put image", "prove image",
                 "prove layer"}

\* A run follows the kind of the canary.
Apart(p) ==
    /\ pc[p] \in ReleaseSteps => kind = "release"
    /\ pc[p] \in PackageSteps => kind = "packages"

\* From the upload of the sidecar on, a run that finds its tarball has been whole.
Shown(p) ==
    /\ pc[p] \in {"prove list", "prove asset", "prove tarball"} /\ Named("tarball", digest[p])
          => digest[p] \in whole
    /\ pc[p] \in {"prove sidecar", "prove layer", "proven", "frozen", "passed"}
          => digest[p] \in whole

ImageWasWhole == kind = "packages" /\ image # None => image \in whole

\* An attestation that began without the ledger's bytes fails at the direct proof, since
\* they never come back.
Attested ==
    /\ attest # "idle" /\ ~pinned => ~Holds(assets, 0)
    /\ attest = "tarball" /\ direct /\ ~pinned => ~Named("tarball", 0)
    /\ attest \in {"cdn get", "cdn head", "cdn range", "end"} /\ ~pinned => failing
    /\ attest = "0" => pinned

ReportInv ==
    /\ \A p \in Publishers : Apart(p) /\ Shown(p)
    /\ ImageWasWhole /\ Attested

LEMMA WholeGrows ==
    ASSUME Typed, NEW p \in Publishers, Publisher(p)
    PROVE  whole \subseteq whole'
BY StepOfPublic DEF Typed, Writes

LEMMA ApartStep ==
    ASSUME Typed, NEW p \in Publishers, Publisher(p), Apart(p)
    PROVE  Apart(p)'
<1> USE DEF Apart, ReleaseSteps, PackageSteps
<1>1. kind' = kind /\ TypeOK
  BY StepOfRun DEF Typed
<1>2. CASE pc'[p] \in {"create release", "delete tarball"}
  BY <1>1, <1>2, Arrivals DEF GetRelease, CreateRelease, Request
<1>3. CASE pc'[p] \in {"upload tarball", "delete sidecar", "upload sidecar"}
  BY <1>1, <1>3, Arrivals DEF DeleteAsset, UploadAsset, DeleteStep, UploadStep, Request, Names
<1>4. CASE pc'[p] \in {"prove list", "prove asset", "prove tarball", "prove sidecar"}
  BY <1>1, <1>4, Arrivals DEF UploadAsset, UploadStep, ProveList, ProveAsset, ProveTarball,
                              Reading, Request, Names
<1>5. CASE pc'[p] \in PackageSteps
  BY <1>1, <1>5, Arrivals DEF GetTag, CreateTag, PutConfig, PutLayer, PutBlob, PutImage,
                              ProveImage, Reading, Request
<1> QED
  BY <1>2, <1>3, <1>4, <1>5

LEMMA ShownStep ==
    ASSUME Typed, ReportInv, NEW p \in Publishers, Publisher(p)
    PROVE  Shown(p)'
<1>0. TypeOK /\ Shown(p) /\ Apart(p) /\ kind' = kind /\ whole \subseteq whole'
  BY StepOfRun, WholeGrows DEF Typed, ReportInv
<1>1. CASE pc'[p] = "prove list"
  <2>1. UploadAsset(p, "sidecar") /\ UNCHANGED digest /\ digest[p] \in Digests
        /\ kind = "release"
    BY <1>0, <1>1, Arrivals, OwnBytes DEF UploadAsset, UploadStep, Request, Apart, ReleaseSteps
  <2>2. /\ assets' = [assets EXCEPT !["sidecar"] = [id |-> nextId, digest |-> digest[p]]]
        /\ Writes(p)
    BY <1>0, <1>1, <2>1 DEF UploadAsset, Goto, Fails, TypeOK
  <2>3. /\ assets \in [Names -> Asset \cup {None}] /\ nextId \in Nat
        /\ Names = {"tarball", "sidecar"}
    BY <1>0 DEF TypeOK, Names
  <2>4. [id |-> nextId, digest |-> digest[p]] # None
    BY <2>1, <2>3, UploadIsAsset
  <2>5. Named("sidecar", digest[p])'
    BY <2>1, <2>2, <2>3, <2>4 DEF Named
  <2>6. Named("tarball", digest[p])' => digest[p] \in whole'
    BY <2>1, <2>2, <2>3, <2>5, <1>0 DEF Named, Holds, Writes
  <2> QED
    BY <1>1, <2>1, <2>6 DEF Shown
<1>2. CASE pc'[p] = "prove asset"
  <2>1. ProveList(p) /\ UNCHANGED digest
    BY <1>0, <1>2, Arrivals, OwnBytes
  <2> QED
    BY <1>0, <1>2, <2>1 DEF ProveList, Request, Shown, Named, github
<1>3. CASE pc'[p] = "prove tarball"
  <2>1. ProveAsset(p) /\ UNCHANGED digest
    BY <1>0, <1>3, Arrivals, OwnBytes
  <2> QED
    BY <1>0, <1>3, <2>1 DEF ProveAsset, Reading, Request, Shown, Named, github
<1>4. CASE pc'[p] = "prove sidecar"
  <2>1. ProveTarball(p) /\ UNCHANGED digest
    BY <1>0, <1>4, Arrivals, OwnBytes
  <2>2. pc[p] = "prove tarball" /\ Named("tarball", digest[p])
    BY <1>0, <1>4, <2>1 DEF ProveTarball, Reading, Request, Goto, TypeOK
  <2> QED
    BY <1>0, <1>4, <2>1, <2>2 DEF Shown
<1>5. CASE pc'[p] = "prove layer"
  <2>1. ProveImage(p) /\ UNCHANGED digest
    BY <1>0, <1>5, Arrivals, OwnBytes
  <2>2. image = digest[p] /\ pc[p] = "prove image"
    BY <1>0, <1>5, <2>1 DEF ProveImage, Reading, Request, Goto, TypeOK
  <2>3. digest[p] # None
    BY <1>0, <2>2, OwnBytes
  <2> QED
    BY <1>0, <1>5, <2>1, <2>2, <2>3
       DEF Shown, ReportInv, ImageWasWhole, Apart, PackageSteps
<1>6. CASE pc'[p] \in {"proven", "frozen", "passed"}
  <2>1. /\ UNCHANGED digest
        /\ ProveSidecar(p) \/ ProveLayer(p) \/ Install(p) \/ NoZed(p) \/ Frozen(p)
    BY <1>0, <1>6, Arrivals, OwnBytes
  <2> QED
    BY <1>0, <1>6, <2>1 DEF ProveSidecar, ProveLayer, Install, NoZed, Frozen, Reading, Request,
                            Shown
<1> QED
  BY <1>1, <1>2, <1>3, <1>4, <1>5, <1>6 DEF Shown

LEMMA ReportStep == Typed /\ TagInv /\ ReportInv /\ [Next]_vars => ReportInv'
<1> SUFFICES ASSUME Typed, TagInv, ReportInv, [Next]_vars PROVE ReportInv'
  OBVIOUS
<1>1. CASE UNCHANGED vars \/ AutoInit \/ Evict \/ Attestation
  <2>1. UNCHANGED <<kind, assets, image, pc, digest, whole>>
    BY <1>1 DEF AutoInit, Evict, Attestation, BeginAttest, AttestList, AttestSidecar,
                AttestTarball, AttestGet, AttestHead, AttestRange, AttestEnd, Check, vars,
                github, ghcr, run
  <2>2. Attested'
    <3>1. CASE UNCHANGED vars \/ AutoInit \/ Evict
      <4>1. UNCHANGED <<attest, failing, direct, pinned>>
        BY <3>1 DEF vars, AutoInit, Evict, attestation
      <4> QED
        BY <2>1, <4>1 DEF ReportInv, Attested, Holds, Named
    <3>2. CASE BeginAttest
      BY <2>1, <3>2 DEF BeginAttest, ReportInv, Attested, Holds, Named
    <3>3. CASE AttestList \/ AttestSidecar
      BY <2>1, <3>3 DEF AttestList, AttestSidecar, Check, ReportInv, Attested, Holds, Named,
                        Names
    <3>4. CASE AttestTarball
      BY <2>1, <3>4 DEF AttestTarball, Check, ReportInv, Attested, Holds, Named
    <3>5. CASE AttestGet \/ AttestHead \/ AttestRange \/ AttestEnd
      BY <2>1, <3>5 DEF AttestGet, AttestHead, AttestRange, AttestEnd, Check, ReportInv,
                        Attested, Holds, Named
    <3> QED
      BY <1>1, <3>1, <3>2, <3>3, <3>4, <3>5 DEF Attestation
  <2> QED
    BY <2>1, <2>2 DEF ReportInv, Apart, Shown, Named, ImageWasWhole
<1>2. ASSUME NEW p \in Publishers, Publisher(p) PROVE ReportInv'
  <2>0. /\ TypeOK /\ whole \subseteq whole'
        /\ UNCHANGED <<kind, cdn, attest, failing, direct, attests, pinned>>
    BY <1>2, WholeGrows, StepOfRun DEF Typed
  <2>1. Apart(p)' /\ Shown(p)'
    BY <1>2, ApartStep, ShownStep DEF ReportInv
  <2>2. ASSUME NEW q \in Publishers \ {p} PROVE Apart(q)' /\ Shown(q)'
    <3>1. pc'[q] = pc[q] /\ digest'[q] = digest[q] /\ Apart(q) /\ Shown(q)
      BY <1>2, OthersStay DEF ReportInv
    <3>2. pc[q] \in {"prove list", "prove asset", "prove tarball"}
             /\ Named("tarball", digest[q])' => Named("tarball", digest[q])
      <4>1. ASSUME UploadAsset(p, "tarball"), pc[q] # "idle" PROVE digest[q] # digest[p]
        <5>1. pc[p] # "idle"
          BY <4>1 DEF UploadAsset, UploadStep, Request
        <5> QED
          BY <4>1, <5>1 DEF Typed, Own
      <4>2. "tarball" \in Names
        BY DEF Names
      <4> QED
        BY <1>2, <3>1, <4>1, <4>2, NewBytes DEF Named
    <3> QED
      BY <2>0, <3>1, <3>2 DEF Apart, Shown, Named
  <2>3. ImageWasWhole'
    <3>1. CASE PutImage(p)
      <4>1. pc[p] = "put image" /\ image' = digest[p] /\ Writes(p) /\ blobs' = blobs
        BY <3>1 DEF PutImage, Request
      <4>2. kind = "packages" /\ Complete(blobs, digest[p]) /\ digest[p] \in Digests
        BY <1>2, <4>1, OwnBytes DEF ReportInv, Apart, PackageSteps, TagInv, Filled
      <4> QED
        BY <2>0, <4>1, <4>2 DEF ImageWasWhole, Writes
    <3>2. CASE UNCHANGED image
      BY <2>0, <3>2 DEF ReportInv, ImageWasWhole
    <3> QED
      BY <1>2, <3>1, <3>2, StepOfRepository
  <2>4. Attested'
    <3>1. \A n \in Names : Named(n, 0)' => Named(n, 0)
      <4>1. ASSUME NEW n \in Names, UploadAsset(p, n) PROVE digest[p] # 0
        BY <1>2, <4>1, OwnBytes DEF UploadAsset, UploadStep, Request
      <4> QED
        BY <1>2, <4>1, NewBytes
    <3> QED
      BY <2>0, <3>1 DEF ReportInv, Attested, Holds, Named, Names
  <2> QED
    BY <2>1, <2>2, <2>3, <2>4 DEF ReportInv
<1> QED
  BY <1>1, <1>2 DEF Next

\* What a canary reports as proven was published whole, and an attestation passes only if
\* the Release held the ledger's bytes when it began.
THEOREM ReportsAreTrue == Spec => []ReportedWasWhole
<1>1. Init => ReportInv
  BY DEF Init, ReportInv, Apart, Shown, ReleaseSteps, PackageSteps, ImageWasWhole, Attested
<1>2. ReportInv => ReportedWasWhole
  BY DEF ReportInv, Shown, Attested, ReportedWasWhole
<1>3. Init => TagInv
  BY DEF Init, TagInv, TagIsComplete, Filled
<1> QED
  BY <1>1, <1>2, <1>3, Typing, TagStep, ReportStep, PTL DEF Spec

-----------------------------------------------------------------------------
(* A run that is left alone repairs what others left behind.               *)

AfterRelease == {"delete tarball", "upload tarball", "delete sidecar", "upload sidecar",
                 "prove list", "prove asset", "prove tarball", "prove sidecar"}

\* There are no assets without a Release, and no Release without its tag.
Consistent ==
    /\ release => tag /\ kind = "release"
    /\ ~release => \A n \in Names : assets[n] = None
    /\ \A p \in Publishers : pc[p] \in AfterRelease => release

\* p knows the asset of that name.
Known(p, n) == listing[p][n] = IF assets[n] = None THEN None ELSE assets[n].id

\* What the requests of a run have established, as long as nothing disturbed it.
Before(p) ==
    /\ pc[p] # "failed"
    /\ pc[p] = "create repo" => repo = "absent"
    /\ pc[p] \in {"wait", "get manifest", "put manifest"} => repo # "absent"
    /\ pc[p] = "put manifest" => ~manifest
    /\ pc[p] = "create release" => ~release
    /\ pc[p] = "create tag" => ~tag
Replacing(p) ==
    /\ pc[p] = "delete tarball" => Known(p, "tarball")
    /\ pc[p] \in {"create release", "delete tarball", "upload tarball", "delete sidecar"}
          => Known(p, "sidecar")
    /\ pc[p] = "create release" => Known(p, "tarball")
    /\ pc[p] = "upload tarball" => assets["tarball"] = None
    /\ pc[p] \in {"delete sidecar", "upload sidecar"} => Named("tarball", digest[p])
    /\ pc[p] = "upload sidecar" => assets["sidecar"] = None
Proving(p) ==
    /\ pc[p] \in {"prove list", "prove asset", "prove tarball", "prove sidecar"}
          => Named("tarball", digest[p]) /\ Named("sidecar", digest[p])
    /\ pc[p] = "prove asset" => Known(p, "tarball")
    /\ pc[p] \in {"prove image", "prove layer"} => image = digest[p]
    /\ pc[p] \in {"proven", "frozen"} => Resolved = digest[p] /\ Served(digest[p])
    /\ pc[p] = "frozen" => lock[p] = digest[p]
    /\ lock[p] # None => lock[p] = digest[p]

Calm(p) == ~disturbed[p] => Before(p) /\ Replacing(p) /\ Proving(p)

RepairInv == Consistent /\ \A p \in Publishers : Calm(p)

LEMMA ConsistentStep ==
    ASSUME Typed, Consistent, NEW p \in Publishers, Publisher(p), \A q \in Publishers : Apart(q)
    PROVE  Consistent'
<1>0. TypeOK /\ kind' = kind
  BY StepOfRun DEF Typed
<1>1. \/ UNCHANGED <<tag, release>>
      \/ release /\ release' /\ tag'
      \/ CreateTag(p) /\ tag' /\ UNCHANGED release
      \/ CreateRelease(p) /\ release' /\ tag'
  <2> USE DEF Request, github
  <2>1. CASE Start(p) \/ Dies(p) \/ Install(p)
    BY <2>1 DEF Start, Dies, Install
  <2>2. CASE GetRepo(p) \/ CreateRepo(p) \/ Wait(p) \/ GetManifest(p) \/ PutManifest(p)
    BY <2>2 DEF GetRepo, CreateRepo, Wait, GetManifest, PutManifest
  <2>3. CASE GetRelease(p) \/ CreateRelease(p) \/ ProveList(p)
    BY <2>3 DEF GetRelease, CreateRelease, ProveList
  <2>4. ASSUME NEW n \in Names, DeleteAsset(p, n) \/ UploadAsset(p, n)
        PROVE  UNCHANGED <<tag, release>>
    BY <2>4 DEF DeleteAsset, UploadAsset
  <2>5. CASE ProveAsset(p) \/ ProveTarball(p) \/ ProveSidecar(p) \/ ProveImage(p)
             \/ ProveLayer(p) \/ NoZed(p) \/ Frozen(p)
    BY <2>5 DEF ProveAsset, ProveTarball, ProveSidecar, ProveImage, ProveLayer, NoZed,
                Frozen, Reading
  <2>6. CASE GetTag(p) \/ CreateTag(p) \/ PutConfig(p) \/ PutLayer(p) \/ PutImage(p)
    BY <2>6 DEF GetTag, CreateTag, PutConfig, PutLayer, PutImage, PutBlob
  <2> QED
    BY <2>1, <2>2, <2>3, <2>4, <2>5, <2>6 DEF Publisher
<1>2. release => release'
  BY <1>1
<1>3. release' => tag' /\ kind' = "release"
  BY <1>0, <1>1 DEF Consistent, CreateRelease, Request, Apart, ReleaseSteps
<1>4. ~release' => \A n \in Names : assets'[n] = None
  <2>1. ~release' => ~release /\ \A n \in Names : ~UploadAsset(p, n)
    BY <1>2 DEF Consistent, UploadAsset, UploadStep, Request, AfterRelease
  <2>2. assets \in [Names -> Asset \cup {None}]
    BY <1>0 DEF TypeOK
  <2> QED
    BY <2>1, <2>2, StepOfRepository DEF Consistent
<1>5. pc'[p] \in AfterRelease => release'
  <2>1. CASE pc'[p] = "delete tarball"
    BY <1>0, <2>1, Arrivals DEF GetRelease, CreateRelease, Request, Goto, Fails, github, TypeOK
  <2>2. CASE pc'[p] \in AfterRelease \ {"delete tarball"}
    BY <1>0, <1>2, <2>2, Arrivals
       DEF AfterRelease, Consistent, DeleteAsset, UploadAsset, DeleteStep, UploadStep, Request,
           ProveList, ProveAsset, ProveTarball, Reading, Names
  <2> QED
    BY <2>1, <2>2
<1>6. ASSUME NEW q \in Publishers \ {p} PROVE pc'[q] \in AfterRelease => release'
  BY <1>2, OthersStay DEF Consistent
<1> QED
  BY <1>3, <1>4, <1>5, <1>6 DEF Consistent

\* Other publishers: a run in progress is marked when what it relies on is changed.
LEMMA OthersCalm ==
    ASSUME Typed, NEW p \in Publishers, Publisher(p), NEW q \in Publishers \ {p}, Calm(q)
    PROVE  Calm(q)'
<1>0. TypeOK /\ kind' = kind
  BY StepOfRun DEF Typed
<1>1. /\ pc'[q] = pc[q] /\ digest'[q] = digest[q]
      /\ listing'[q] = listing[q] /\ lock'[q] = lock[q]
  BY OthersStay
<1>2. disturbed \in [Publishers -> BOOLEAN]
  BY <1>0 DEF TypeOK
<1>3. CASE Writes(p)
  <2>1. disturbed'[q] \/ (Idle(q) /\ disturbed'[q] = disturbed[q])
    BY <1>2, <1>3 DEF Writes
  <2> QED
    BY <1>1, <2>1 DEF Calm, Before, Replacing, Proving, Idle
<1>4. CASE /\ UNCHANGED <<repo, manifest, tag, release, assets, nextId, blobs, image, whole>>
           /\ disturbed' = [disturbed EXCEPT ![p] = disturbed'[p]]
  <2>1. disturbed'[q] = disturbed[q]
    BY <1>2, <1>4
  <2> QED
    BY <1>1, <1>4, <2>1 DEF Calm, Before, Replacing, Proving, Known, Named, Resolved, Served
<1> QED
  BY <1>0, <1>3, <1>4, StepOfPublic

\* The run itself: each request finds what it needs.
LEMMA OwnCalm ==
    ASSUME Typed, TagInv, RepairInv, \A q \in Publishers : Apart(q),
           NEW p \in Publishers, Publisher(p)
    PROVE  Calm(p)'
<1> SUFFICES ASSUME ~disturbed'[p] PROVE Before(p)' /\ Replacing(p)' /\ Proving(p)'
  BY DEF Calm
<1>0. /\ pc \in [Publishers -> Steps] /\ disturbed \in [Publishers -> BOOLEAN]
      /\ listing \in [Publishers -> [Names -> Nat \cup {None}]]
      /\ lock \in [Publishers -> Digests \cup {None}]
      /\ assets \in [Names -> Asset \cup {None}] /\ Names = {"tarball", "sidecar"}
      /\ \A n \in Names : assets[n] # None => assets[n].id \in Nat
      /\ \A n \in Names : assets[n] # None => assets[n].id # None
      /\ None \notin Nat
  BY FallbackAssumption DEF Typed, TypeOK, Names, Asset
<1>1. kind' = kind /\ kind \in {"release", "packages"} /\ pc' = [pc EXCEPT ![p] = pc'[p]]
  BY StepOfRun, FallbackAssumption DEF Typed, TypeOK
<1>2. CASE Start(p)
  BY <1>0, <1>2 DEF Start, Goto, Before, Replacing, Proving
<1>3. CASE ~Start(p)
  <2>1. Before(p) /\ Replacing(p) /\ Proving(p)
    <3>1. CASE Dies(p)
      BY <1>0, <3>1 DEF Dies
    <3>2. CASE Writes(p)
      BY <1>0, <3>2 DEF Writes, RepairInv, Calm
    <3>3. CASE Wait(p) \/ PutManifest(p)
      BY <1>0, <3>3 DEF Wait, PutManifest, Writes, RepairInv, Calm
    <3>4. CASE UNCHANGED disturbed
      BY <1>0, <3>4 DEF RepairInv, Calm
    <3> QED
      BY <1>0, <1>3, <3>1, <3>2, <3>3, <3>4
         DEF Publisher, Install, GetRepo, CreateRepo, GetManifest, GetRelease, CreateRelease,
             DeleteAsset, UploadAsset, ProveList, ProveAsset, ProveTarball, ProveSidecar, GetTag,
             CreateTag, PutConfig, PutLayer, PutImage, PutBlob, ProveImage, ProveLayer, NoZed,
             Frozen, Reading, Reads, Fails
  <2>2. digest' = digest /\ (pc[p] # "idle" => digest[p] # None /\ digest[p] \in Nat)
    BY <1>3, StepOfRun, OwnBytes DEF Typed
  <2> USE DEF Goto, Request
  <2>3. CASE Dies(p)
    BY <1>0, <2>3 DEF Dies
  <2>4. CASE GetRepo(p) \/ Wait(p) \/ GetManifest(p)
    <3> USE DEF github, ghcr
    <3>1. CASE GetRepo(p)
      BY <1>0, <2>1, <2>2, <3>1 DEF GetRepo, Before, Replacing, Proving
    <3>2. CASE Wait(p)
      BY <1>0, <2>1, <2>2, <3>2 DEF Wait, Before, Replacing, Proving
    <3>3. CASE GetManifest(p)
      BY <1>0, <2>1, <2>2, <3>3 DEF GetManifest, Before, Replacing, Proving
    <3> QED
      BY <2>4, <3>1, <3>2, <3>3
  <2>5. CASE CreateRepo(p)
    BY <1>0, <2>1, <2>2, <2>5 DEF CreateRepo, Before, Replacing, Proving
  <2>6. CASE PutManifest(p)
    <3>1. repo \in {"absent", "empty", "ready"}
      BY DEF Typed, TypeOK
    <3> QED
      BY <1>0, <2>1, <2>2, <2>6, <3>1 DEF PutManifest, Before, Replacing, Proving
  <2>7. CASE GetRelease(p)
    BY <1>0, <2>1, <2>2, <2>7 DEF GetRelease, Before, Replacing, Proving, Known, github
  <2>8. CASE CreateRelease(p)
    BY <1>0, <2>1, <2>2, <2>8 DEF CreateRelease, Before, Replacing, Proving, Known
  <2>9. CASE DeleteAsset(p, "tarball")
    BY <1>0, <2>1, <2>2, <2>9
       DEF DeleteAsset, DeleteStep, UploadStep, Before, Replacing, Proving, Known
  <2>10. CASE DeleteAsset(p, "sidecar")
    BY <1>0, <2>1, <2>2, <2>10
       DEF DeleteAsset, DeleteStep, UploadStep, Before, Replacing, Proving, Known, Named
  <2>11. CASE UploadAsset(p, "tarball")
    <3>1. pc[p] = "upload tarball" /\ assets["tarball"] = None
      BY <2>1, <2>11 DEF UploadAsset, UploadStep, Replacing
    <3>2. [id |-> nextId, digest |-> digest[p]] # None
      BY <1>0, <2>11, UploadIsAsset
    <3>3. /\ assets' = [assets EXCEPT !["tarball"] = [id |-> nextId, digest |-> digest[p]]]
          /\ pc'[p] = "delete sidecar" /\ lock' = lock /\ listing' = listing
      BY <1>0, <2>11, <3>1 DEF UploadAsset, AfterUpload
    <3>4. Named("tarball", digest[p])' /\ assets'["sidecar"] = assets["sidecar"]
      BY <1>0, <2>2, <3>2, <3>3 DEF Named
    <3> QED
      BY <2>1, <2>2, <3>1, <3>3, <3>4 DEF Before, Replacing, Proving, Known
  <2>12. CASE UploadAsset(p, "sidecar")
    <3>1. pc[p] = "upload sidecar" /\ assets["sidecar"] = None
      BY <2>1, <2>12 DEF UploadAsset, UploadStep, Replacing
    <3>2. [id |-> nextId, digest |-> digest[p]] # None
      BY <1>0, <2>12, UploadIsAsset
    <3>3. /\ assets' = [assets EXCEPT !["sidecar"] = [id |-> nextId, digest |-> digest[p]]]
          /\ pc'[p] = "prove list" /\ lock' = lock /\ listing' = listing
      BY <1>0, <2>12, <3>1 DEF UploadAsset, AfterUpload
    <3>4. Named("sidecar", digest[p])' /\ assets'["tarball"] = assets["tarball"]
      BY <1>0, <2>2, <3>2, <3>3 DEF Named
    <3> QED
      BY <2>1, <2>2, <3>1, <3>3, <3>4 DEF Before, Replacing, Proving, Named
  <2>13. CASE ProveList(p)
    BY <1>0, <2>1, <2>2, <2>13
       DEF ProveList, Before, Replacing, Proving, Named, Known, github, RepairInv,
           Consistent, AfterRelease
  <2>14. CASE ProveAsset(p) \/ ProveTarball(p)
    BY <1>0, <2>1, <2>2, <2>14
       DEF ProveAsset, ProveTarball, Reading, Before, Replacing, Proving, Named, Known,
           github
  <2>15. CASE ProveSidecar(p)
    BY <1>0, <2>1, <2>2, <2>15
       DEF ProveSidecar, Reading, Before, Replacing, Proving, Named, github, Resolved,
           Served
  <2>16. CASE GetTag(p)
    BY <1>0, <2>1, <2>2, <2>16 DEF GetTag, Before, Replacing, Proving, github
  <2>17. CASE CreateTag(p)
    BY <1>0, <2>1, <2>2, <2>17 DEF CreateTag, Before, Replacing, Proving
  <2>18. CASE PutConfig(p) \/ PutLayer(p) \/ PutImage(p)
    BY <1>0, <2>1, <2>2, <2>18
       DEF PutConfig, PutLayer, PutBlob, PutImage, Before, Replacing, Proving
  <2>19. CASE ProveImage(p)
    BY <1>0, <2>1, <2>2, <2>19 DEF ProveImage, Reading, Before, Replacing, Proving, ghcr
  <2>20. CASE ProveLayer(p)
    <3>1. pc[p] = "prove layer"
      BY <2>20 DEF ProveLayer, Reading
    <3>2. image = digest[p] /\ <<"layer", digest[p]>> \in blobs
      BY <2>1, <2>2, <2>20, <3>1
         DEF Proving, TagInv, TagIsComplete, Complete, ProveLayer, Reading
    <3>3. Resolved = digest[p] /\ Served(digest[p])
      BY <1>0, <3>1, <3>2
         DEF Apart, PackageSteps, RepairInv, Consistent, Resolved, Served
    <3> QED
      BY <1>0, <2>1, <2>2, <2>20, <3>2, <3>3
         DEF ProveLayer, Reading, Before, Replacing, Proving, ghcr, github, Resolved,
             Served, Named
  <2>21. CASE NoZed(p)
    BY <1>0, <2>1, <2>2, <2>21 DEF NoZed, Reading, Before, Replacing, Proving
  <2>22. CASE Install(p)
    BY <1>0, <2>1, <2>2, <2>22
       DEF Install, Before, Replacing, Proving, github, ghcr, Resolved, Served, Named
  <2>23. CASE Frozen(p)
    BY <1>0, <2>1, <2>2, <2>23 DEF Frozen, Reading, Before, Replacing, Proving
  <2> QED
    BY <1>0, <1>3, <2>3, <2>4, <2>5, <2>6, <2>7, <2>8, <2>9, <2>10, <2>11, <2>12, <2>13,
       <2>14, <2>15, <2>16, <2>17, <2>18, <2>19, <2>20, <2>21, <2>22, <2>23 DEF Publisher
<1> QED
  BY <1>2, <1>3

LEMMA RepairStep == Typed /\ TagInv /\ ReportInv /\ RepairInv /\ [Next]_vars => RepairInv'
<1> SUFFICES ASSUME Typed, TagInv, ReportInv, RepairInv, [Next]_vars PROVE RepairInv'
  OBVIOUS
<1>1. CASE UNCHANGED vars \/ AutoInit \/ Evict \/ Attestation
  <2>1. /\ UNCHANGED <<kind, manifest, tag, release, assets, nextId, blobs, image, pc, digest,
                       listing, lock, disturbed>>
        /\ UNCHANGED repo \/ (repo = "empty" /\ repo' = "ready")
    BY <1>1 DEF AutoInit, Evict, Attestation, BeginAttest, AttestList, AttestSidecar,
                AttestTarball, AttestGet, AttestHead, AttestRange, AttestEnd, Check, vars,
                github, ghcr, run
  <2>2. Consistent'
    BY <2>1 DEF RepairInv, Consistent
  <2>3. ASSUME NEW p \in Publishers PROVE Calm(p)'
    BY <2>1 DEF RepairInv, Calm, Before, Replacing, Proving, Known, Named, Resolved, Served
  <2> QED
    BY <2>2, <2>3 DEF RepairInv
<1>2. ASSUME NEW p \in Publishers, Publisher(p) PROVE RepairInv'
  BY <1>2, ConsistentStep, OthersCalm, OwnCalm DEF RepairInv, ReportInv
<1> QED
  BY <1>1, <1>2 DEF Next

\* Whatever earlier runs left behind, a run that nothing disturbs passes and its consumer
\* locks what it proved.
THEOREM UndisturbedRunsRepair == Spec => []RerunsRepair
<1>1. Init => RepairInv
  <2> SUFFICES ASSUME Init PROVE RepairInv
    OBVIOUS
  <2>1. Consistent
    BY DEF Init, Consistent, AfterRelease
  <2>2. \A p \in Publishers : Calm(p)
    BY DEF Init, Calm, Before, Replacing, Proving
  <2> QED
    BY <2>1, <2>2 DEF RepairInv
<1>2. RepairInv => RerunsRepair
  BY DEF RepairInv, Calm, Before, Proving, RerunsRepair
<1>3. Init => TagInv /\ ReportInv
  BY DEF Init, TagInv, TagIsComplete, Filled, ReportInv, Apart, Shown, ReleaseSteps,
         PackageSteps, ImageWasWhole, Attested
<1> QED
  BY <1>1, <1>2, <1>3, Typing, TagStep, ReportStep, RepairStep, PTL DEF Spec
=============================================================================
