-------------------------- MODULE InventoryProofs --------------------------
(***************************************************************************)
(* Proofs about the dependency inventory, for every set of repositories,   *)
(* contents, page size and limits.                                         *)
(***************************************************************************)
EXTENDS Inventory, FiniteSetTheorems, WellFoundedInduction, TLAPS

\* Every set of numbers that is not empty has a least one.
LEMMA LeastIsLeast ==
    ASSUME NEW S, S \subseteq Nat, S # {}
    PROVE  Least(S) \in S /\ \A m \in S : Least(S) <= m
<1> DEFINE R == OpToRel(<, Nat)
<1>1. \A m, n \in Nat : m < n => <<m, n>> \in R
  BY DEF OpToRel
<1>2. IsWellFoundedOn(R, Nat)
  BY NatLessThanWellFounded
<1> HIDE DEF R
<1>3. PICK x \in S : \A y \in S : <<y, x>> \notin R
  BY <1>2, WFMin
<1>4. \A y \in S : x <= y
  <2> TAKE y \in S
  <2>1. x \in Nat /\ y \in Nat /\ ~(y < x)
    BY <1>3, <1>1
  <2> QED
    BY <2>1
<1> QED
  BY <1>4 DEF Least

-----------------------------------------------------------------------------
(* Type correctness.                                                       *)

LEMMA ContentType ==
    ASSUME NEW r \in Repos, NEW c \in Commits
    PROVE  /\ Held(r, c) \in Content
           /\ \A m \in Files : /\ Held(r, c).members[m] \subseteq Files
                              /\ Held(r, c).paths[m] \subseteq Files
                              /\ Held(r, c).declares[m] \subseteq Packages \X Versions
                              /\ Held(r, c).package[m] \in Packages \cup {None}
           /\ Held(r, c).files \subseteq Files
           /\ Held(r, c).pins \subseteq Packages \X Versions
           /\ Held(r, c).links \subseteq Targets
BY TreeAssumption DEF Held, Content

\* Where the run is, and what it has already begun to scan.
Discovering == pc \in {"list", "get"}
Scanning == pc \in {"pin", "tree", "blob", "zed", "lock", "modules"}
Untouched(r) == records[r] \in {None, Failed(r)}

ScanOK ==
    /\ pc = "list" => todo = Requested /\ metadata = {}
    /\ pc \in {"write", "sync"} => todo = {}
    /\ \A r \in Repos : Discovering \/ r \in todo => Untouched(r)
    /\ Scanning => /\ cur \in Repos \ todo
                   /\ records[cur] # None /\ records[cur].status = "scanning"
    /\ pc = "pin" => Pinned = None
    /\ Scanning /\ pc # "pin" => Pinned \in Commits

LEMMA RecordTypes ==
    /\ \A r \in Repos : Failed(r) \in Record /\ Failed(r).commit = None /\ Failed(r).status = "failed"
    /\ \A x \in Record : [x EXCEPT !.status = "failed"] \in Record
BY DEF Failed, Record

\* A package with one selection has one.
LEMMA LoneSelection ==
    ASSUME NEW P, NEW d, Cardinality(Selections(P, d)) = 1
    PROVE  /\ (CHOOSE v \in Selections(P, d) : TRUE) \in Selections(P, d)
           /\ \A v \in Selections(P, d) : v = CHOOSE w \in Selections(P, d) : TRUE
           /\ Selections(P, d) \subseteq Versions
<1>1. Selections(P, d) \subseteq Versions /\ IsFiniteSet(Selections(P, d))
  BY InventoryAssumption, FS_Subset DEF Selections
<1>2. PICK x : Selections(P, d) = {x}
  BY <1>1, FS_Singleton
<1> QED
  BY <1>1, <1>2

\* The part of the type invariant that the parsers change.
GraphOK ==
    /\ nodes \subseteq Repos \cup Targets /\ scannedNodes \subseteq nodes
    /\ edges \subseteq Repos \X Targets \X Commits
    /\ unparsed \subseteq Files \ {Lock, Modules}
    /\ packages \in [DOMAIN packages -> Files \cup {None}] /\ DOMAIN packages \subseteq Packages
    /\ roots \in [Repos -> Packages \cup {None}]
    /\ zed \in [DOMAIN zed -> Versions \cup {None}] /\ DOMAIN zed \subseteq Edges
    /\ pins \subseteq Repos \X SourceNodes \X Packages \X Versions
    /\ contradictions \subseteq {"conflicting", "missing"} \X SourceNodes \X (Packages \cup {None})

\* What a manifest declares are edges.
LEMMA EdgeTypes ==
    ASSUME NEW r \in Repos, NEW c \in Commits, NEW m \in Files
    PROVE  /\ SourceOf(r, c, m) \in SourceNodes
           /\ \A D : D \subseteq Held(r, c).declares[m] => Requires(r, c, m, D) \subseteq Edges
           /\ Contains(r, c, m) \subseteq Edges
           /\ MembersOf(r, c, m) \subseteq Edges /\ PathsOf(r, c, m) \subseteq Edges
<1>1. SourceOf(r, c, m) \in SourceNodes /\ <<"repository", r>> \in SourceNodes
  BY ContentType DEF SourceOf, SourceNodes
<1>2. \A s \in SourceNodes, k \in {"declared", "member", "contains"}, t \in Packages \cup {None},
          q \in Versions \cup {None}, p \in Files \cup {None} : Edge(s, k, t, q, p) \in Edges
  BY DEF Edge, Edges
<1>3. \A d \in Held(r, c).declares[m] : d[1] \in Packages /\ d[2] \in Versions
  BY ContentType
<1>4. /\ \A p \in Held(r, c).members[m] \cup Held(r, c).paths[m] :
            p \in Files /\ Held(r, c).package[p] \in Packages \cup {None}
      /\ Held(r, c).package[m] \in Packages \cup {None}
  BY ContentType
<1>5. ASSUME NEW D, D \subseteq Held(r, c).declares[m]
      PROVE  Requires(r, c, m, D) \subseteq Edges
  BY <1>1, <1>2, <1>3, <1>5 DEF Requires
<1>6. Contains(r, c, m) \subseteq Edges
  BY <1>1, <1>2, <1>4 DEF Contains
<1>7. MembersOf(r, c, m) \subseteq Edges
  BY <1>1, <1>2, <1>4 DEF MembersOf
<1>8. PathsOf(r, c, m) \subseteq Edges
  BY <1>1, <1>2, <1>4 DEF PathsOf
<1> QED
  BY <1>1, <1>5, <1>6, <1>7, <1>8

\* New edges have nothing selected, old ones keep what they have.
LEMMA ExtendedZed ==
    ASSUME NEW E
    PROVE  /\ DOMAIN Extended(E) = DOMAIN zed \cup E
           /\ \A e \in DOMAIN Extended(E) :
                 Extended(E)[e] = IF e \in DOMAIN zed THEN zed[e] ELSE None
           /\ Extended(E) = [e \in DOMAIN Extended(E) |-> Extended(E)[e]]
BY DEF Extended

LEMMA ReadTyped ==
    ASSUME TypeOK, cur \in Repos, Pinned \in Commits,
           NEW m \in Files, NEW D, D \subseteq Here.declares[m], ReadManifest(m, D)
    PROVE  GraphOK' /\ UNCHANGED <<pins, nodes, scannedNodes, edges>>
<1> DEFINE added == Requires(cur, Pinned, m, D) \cup Contains(cur, Pinned, m)
           own == {Here.package[m]} \ {None}
<1>1. added \subseteq Edges
  BY EdgeTypes DEF Here
<1>2. own \subseteq Packages /\ \A d \in D : d[1] \in Packages
  BY ContentType DEF Here
<1>3. zed' = Extended(added)
  BY DEF ReadManifest
<1>4. zed' \in [DOMAIN zed' -> Versions \cup {None}] /\ DOMAIN zed' \subseteq Edges
  <2> HIDE DEF added
  <2>1. zed \in [DOMAIN zed -> Versions \cup {None}] /\ DOMAIN zed \subseteq Edges
    BY DEF TypeOK
  <2> QED
    BY <1>1, <1>3, <2>1, ExtendedZed
<1>5. packages' \in [DOMAIN packages' -> Files \cup {None}] /\ DOMAIN packages' \subseteq Packages
  BY <1>2 DEF ReadManifest, TypeOK
<1>6. roots' \in [Repos -> Packages \cup {None}]
  BY <1>2 DEF ReadManifest, TypeOK
<1> HIDE DEF added, own
<1> QED
  BY <1>4, <1>5, <1>6 DEF ReadManifest, GraphOK, TypeOK

LEMMA LinkTyped ==
    ASSUME TypeOK, cur \in Repos, Pinned \in Commits, Root \in Files,
           NEW E, E \subseteq PathEdges, Link(E)
    PROVE  GraphOK' /\ UNCHANGED <<pins, nodes, scannedNodes, edges>>
<1> DEFINE added == (UNION {MembersOf(cur, Pinned, m) : m \in Zpkgs}) \cup E
<1>1. Zpkgs \subseteq Files
  BY DEF Zpkgs, TypeOK
<1>2. added \subseteq Edges
  <2>1. \A m \in Zpkgs : MembersOf(cur, Pinned, m) \subseteq Edges /\ PathsOf(cur, Pinned, m) \subseteq Edges
    BY <1>1, EdgeTypes
  <2>2. PathEdges \subseteq Edges
    BY <2>1 DEF PathEdges
  <2>3. UNION {MembersOf(cur, Pinned, m) : m \in Zpkgs} \subseteq Edges
    BY <2>1
  <2> QED
    BY <2>2, <2>3
<1>3. zed' = Extended(added)
  BY DEF Link
<1>4. zed' \in [DOMAIN zed' -> Versions \cup {None}] /\ DOMAIN zed' \subseteq Edges
  <2> HIDE DEF added
  <2>1. zed \in [DOMAIN zed -> Versions \cup {None}] /\ DOMAIN zed \subseteq Edges
    BY DEF TypeOK
  <2> QED
    BY <1>2, <1>3, <2>1, ExtendedZed
<1>5. roots' \in [Repos -> Packages \cup {None}]
  BY ContentType DEF Link, TypeOK, Here
<1> HIDE DEF added
<1> QED
  BY <1>4, <1>5 DEF Link, GraphOK, TypeOK

\* What a lock selects: one of its pins, and the only one of that package.
LEMMA LockSelects ==
    ASSUME NEW P, ReadLock(P)
    PROVE  /\ DOMAIN zed' = DOMAIN zed /\ zed' = [e \in DOMAIN zed |-> zed'[e]]
           /\ \A e \in DOMAIN zed :
                 \/ zed'[e] = zed[e]
                 \/ /\ e.kind = "declared" /\ e.source = Source
                    /\ zed'[e] \in Versions
                    /\ \A v \in Versions : <<e.target, v>> \in P <=> v = zed'[e]
<1>1. /\ DOMAIN zed' = DOMAIN zed /\ zed' = [e \in DOMAIN zed |-> zed'[e]]
      /\ \A e \in DOMAIN zed :
            \/ zed'[e] = zed[e]
            \/ /\ e.kind = "declared" /\ e.source = Source
               /\ Cardinality(Selections(P, e.target)) = 1
               /\ zed'[e] = CHOOSE v \in Selections(P, e.target) : TRUE
  BY DEF ReadLock
<1>2. ASSUME NEW e \in DOMAIN zed, Cardinality(Selections(P, e.target)) = 1,
             zed'[e] = CHOOSE v \in Selections(P, e.target) : TRUE
      PROVE  zed'[e] \in Versions /\ \A v \in Versions : <<e.target, v>> \in P <=> v = zed'[e]
  <2>1. /\ zed'[e] \in Selections(P, e.target)
        /\ \A v \in Selections(P, e.target) : v = zed'[e]
    BY <1>2, LoneSelection
  <2> QED
    BY <2>1 DEF Selections
<1> QED
  BY <1>1, <1>2

LEMMA LockTyped ==
    ASSUME TypeOK, cur \in Repos, Pinned \in Commits,
           NEW P, P \subseteq Here.pins, ReadLock(P)
    PROVE  GraphOK' /\ pins \subseteq pins' /\ UNCHANGED <<nodes, scannedNodes, edges>>
<1>1. Source \in SourceNodes
  BY DEF Source, SourceNodes, TypeOK
<1>2. \A p \in P : p[1] \in Packages /\ p[2] \in Versions
  BY ContentType DEF Here
<1>3. pins' \subseteq Repos \X SourceNodes \X Packages \X Versions
  BY <1>1, <1>2 DEF ReadLock, TypeOK
<1>4. zed' \in [DOMAIN zed' -> Versions \cup {None}] /\ DOMAIN zed' \subseteq Edges
  BY LockSelects DEF TypeOK
<1>5. contradictions' \subseteq {"conflicting", "missing"} \X SourceNodes \X (Packages \cup {None})
  <2>1. \A e \in DOMAIN zed : e.target \in Packages \cup {None}
    BY DEF TypeOK, Edges
  <2> QED
    BY <1>1, <2>1 DEF ReadLock, TypeOK
<1> QED
  BY <1>3, <1>4, <1>5 DEF ReadLock, GraphOK, TypeOK

LEMMA TargetsTyped ==
    ASSUME TypeOK, cur \in Repos, Pinned \in Commits,
           NEW L, L \subseteq Targets, AddTargets(L)
    PROVE  GraphOK' /\ UNCHANGED evidence
<1>1. edges' \subseteq Repos \X Targets \X Commits
  BY DEF AddTargets, TypeOK
<1>2. nodes' \subseteq Repos \cup Targets /\ scannedNodes' \subseteq nodes'
  BY DEF AddTargets, TypeOK
<1> QED
  BY <1>1, <1>2 DEF AddTargets, evidence, GraphOK, TypeOK

LEMMA InitTyped == Init => TypeOK /\ ScanOK
<1> SUFFICES ASSUME Init PROVE TypeOK /\ ScanOK
  OBVIOUS
<1>1. TypeOK
  <2>1. \A S : <<>> \in [DOMAIN <<>> -> S] /\ DOMAIN <<>> \subseteq S
    OBVIOUS
  <2>4. Init => roots \in [Repos -> Packages \cup {None}]
    BY DEF Init
  <2>2. Requested \subseteq Repos /\ 0 \in Commits /\ 0 \in 0..MaxEvents /\ 0 \in 0..MaxRequests /\ 0 \in 0..MaxRetries
    BY InventoryAssumption
  <2>3. steady \subseteq OrgRepos /\ head \in [Repos -> Commits] /\ records \in [Repos -> Record \cup {None}]
    BY <2>2 DEF Init
  <2> QED
    BY <2>1, <2>2, <2>3, <2>4 DEF Init, TypeOK
<1>2. ScanOK
  BY DEF Init, ScanOK, Discovering, Scanning, Untouched
<1> QED
  BY <1>1, <1>2

LEMMA StepTyped == TypeOK /\ ScanOK /\ [Next]_vars => TypeOK'
<1> SUFFICES ASSUME TypeOK, ScanOK, [Next]_vars
             PROVE  TypeOK'
  OBVIOUS
<1> USE InventoryAssumption DEF TypeOK
<1>types. /\ todo \subseteq Nat /\ \A r \in Repos : records[r] # None => records[r] \in Record
          /\ todo # {} => Least(todo) \in todo
  BY LeastIsLeast
<1>scan. /\ Scanning => /\ cur \in Repos /\ records[cur] \in Record
                        /\ records[cur].status = "scanning"
                        /\ [records[cur] EXCEPT !.status = "failed"] \in Record
         /\ Scanning /\ pc # "pin" => Pinned \in Commits
  BY <1>types, RecordTypes DEF ScanOK
<1>0. CASE UNCHANGED vars
  BY <1>0 DEF vars, github, scan, graph, evidence, file, history
<1> USE DEF github, scan, graph, evidence, file, history
<1>1. CASE OverLimit
  BY <1>1 DEF OverLimit, Exceeded, Exit, Exits
<1>2. CASE Retry
  BY <1>2 DEF Retry, Asked
<1>3. CASE ListPage
  <2>1. /\ PageOf(page) \subseteq OrgRepos /\ page' \in Nat
        /\ requests' \in 0..MaxRequests /\ tries' \in 0..MaxRetries
    BY <1>3 DEF ListPage, Answered, Asked, PageOf, Listing
  <2>2. listed' \subseteq OrgRepos
    BY <1>3, <2>1 DEF ListPage
  <2>3. /\ pc' \in {pc, "get", "done"} /\ metadata' \in {metadata, listed'}
        /\ exit' \in {exit, "3"} /\ limited' \in BOOLEAN
    BY <1>3 DEF ListPage, Exceeded, Exit
  <2> QED
    BY <1>3, <2>1, <2>2, <2>3 DEF ListPage, Exits
<1>4. CASE ListFails
  BY <1>4 DEF ListFails, Answered, Asked
<1>5. CASE GetRepository
  BY <1>5, <1>types DEF GetRepository, Answered, Asked
<1>6. CASE GetFails
  BY <1>6, <1>types, RecordTypes DEF GetFails, Answered, Asked
<1>7. CASE Discovered
  BY <1>7 DEF Discovered, Exceeded, Exit, Exits
<1>8. CASE BeginScan
  BY <1>8, <1>types DEF BeginScan, Within, Exceeded, Exit, Exits, Record
<1>9. CASE PinBranch
  BY <1>9, <1>scan DEF PinBranch, Answered, Asked, Scanning, Record
<1>10. CASE GetTree
  BY <1>10, <1>scan, ContentType DEF GetTree, Answered, Asked, Scanning, Here
<1>11. CASE ScanRequestFails
  BY <1>11, <1>scan DEF ScanRequestFails, Answered, Asked, Scanning, ScanFailed
<1>12. CASE ReadingEnds
  BY <1>12, <1>scan DEF ReadingEnds, Scanning, Record
<1> USE DEF Parsing
<1>parse. ASSUME pc \in {"zed", "lock", "modules"}
          PROVE  cur \in Repos /\ Pinned \in Commits
  BY <1>parse, <1>scan DEF Scanning
<1>ended. ASSUME pc \in {"zed", "lock", "modules"}, EndScan \/ ScanFailed \/ UNCHANGED records
          PROVE  records' \in [Repos -> Record \cup {None}]
  BY <1>ended, <1>scan DEF EndScan, ScanFailed, Scanning, Record
<1>rest. ASSUME GraphOK', records' \in [Repos -> Record \cup {None}],
                pc' \in {"next", "zed", "lock", "modules"},
                failures' \subseteq failures \cup {"source", "repository-scan"},
                UNCHANGED <<github, requests, tries, page, listed, metadata, todo, cur, scan,
                            file, history, limited>>
         PROVE  TypeOK'
  BY <1>rest DEF GraphOK
<1>same. UNCHANGED graph => GraphOK'
  BY DEF GraphOK
<1>13. CASE ParseManifest
  <2>1. unparsed \subseteq Nat /\ unparsed # {} /\ pc = "zed"
    BY <1>13 DEF ParseManifest
  <2>2. Least(unparsed) \in Files
    BY <2>1, LeastIsLeast
  <2>3. GraphOK'
    BY <1>13, <1>parse, <2>1, <2>2, ReadTyped DEF ParseManifest
  <2> QED
    BY <1>13, <1>rest, <2>3 DEF ParseManifest
<1>13a. CASE LinkWorkspace
  <2>1. Root \in Files /\ pc = "zed"
    BY <1>13a DEF LinkWorkspace, Selected
  <2>2. GraphOK'
    BY <1>13a, <1>parse, <1>same, <2>1, LinkTyped DEF LinkWorkspace
  <2> QED
    BY <1>13a, <1>rest, <2>2 DEF LinkWorkspace
<1>14. CASE ParseLock
  <2>1. GraphOK'
    BY <1>14, <1>parse, <1>same, LockTyped DEF ParseLock
  <2> QED
    BY <1>14, <1>rest, <2>1 DEF ParseLock
<1>links. pc = "modules" => Links \subseteq Targets
  BY <1>parse, ContentType DEF Here, Links
<1>15. CASE ParseModules
  <2>1. GraphOK' /\ records' \in [Repos -> Record \cup {None}]
    BY <1>15, <1>parse, <1>links, <1>ended, TargetsTyped DEF ParseModules
  <2> QED
    BY <1>15, <1>rest, <2>1 DEF ParseModules
<1>16. CASE SourceFailure
  <2>1. pc \in {"zed", "lock", "modules"} /\ unparsed \subseteq Nat
    BY <1>16 DEF SourceFailure
  <2>2. records' \in [Repos -> Record \cup {None}]
    BY <1>16, <1>ended, <2>1 DEF SourceFailure
  <2>4. ASSUME unparsed # {}, NEW D \in SUBSET Here.declares[Least(unparsed)],
               ReadManifest(Least(unparsed), D)
        PROVE  GraphOK'
    <3>1. Least(unparsed) \in Files
      BY <2>1, <2>4, LeastIsLeast
    <3> QED
      BY <1>parse, <2>1, <2>4, <3>1, ReadTyped
  <2>5. ASSUME NEW P \in SUBSET Here.pins, ReadLock(P)
        PROVE  GraphOK'
    BY <1>parse, <2>1, <2>5, LockTyped
  <2>6. ASSUME NEW L \in SUBSET Links, AddTargets(L), pc = "modules"
        PROVE  GraphOK'
    BY <1>parse, <1>links, <2>6, TargetsTyped
  <2>7. GraphOK'
    BY <1>16, <1>same, <2>4, <2>5, <2>6 DEF SourceFailure
  <2> QED
    BY <1>16, <1>rest, <2>2, <2>7 DEF SourceFailure
<1>17. CASE ParseRaises
  <2>1. pc \in {"zed", "lock", "modules"} /\ Root \in Files
    BY <1>17 DEF ParseRaises, Selected
  <2>2. records' \in [Repos -> Record \cup {None}]
    BY <1>17, <1>ended, <2>1 DEF ParseRaises
  <2>3. ASSUME unparsed # {}, NEW D \in SUBSET Here.declares[Least(unparsed)],
               ReadManifest(Least(unparsed), D)
        PROVE  GraphOK'
    <3>1. unparsed \subseteq Nat
      OBVIOUS
    <3>2. Least(unparsed) \in Files
      BY <2>3, <3>1, LeastIsLeast
    <3> QED
      BY <1>parse, <2>1, <2>3, <3>2, ReadTyped
  <2>4. ASSUME NEW E \in SUBSET PathEdges, Link(E)
        PROVE  GraphOK'
    BY <1>parse, <2>1, <2>4, LinkTyped
  <2>5. GraphOK'
    BY <1>17, <1>same, <2>3, <2>4 DEF ParseRaises
  <2> QED
    BY <1>17, <1>rest, <2>2, <2>5 DEF ParseRaises, ScanFailed
<1>18. CASE CreateTemp
  BY <1>18 DEF CreateTemp
<1>19. CASE ReplaceOutput
  BY <1>19 DEF ReplaceOutput, Completeness
<1>20. CASE SyncDirectory
  BY <1>20 DEF SyncDirectory, Exit, Exits
<1>21. CASE WriteFails \/ OutputRefused
  BY <1>21 DEF WriteFails, OutputRefused, Exit, Exits
<1>22. CASE Killed
  BY <1>22 DEF Killed, Exit, Exits
<1>23. ASSUME NEW m \in unread, GetBlob(m)
       PROVE  TypeOK'
  BY <1>23 DEF GetBlob, Answered, Asked
<1>24. ASSUME NEW m \in unread, MemberRejected(m)
       PROVE  TypeOK'
  BY <1>24, <1>scan DEF MemberRejected, ScanFailed, Scanning
<1>25. ASSUME NEW m \in frontier, Expand(m)
       PROVE  TypeOK'
  BY <1>25, <1>scan, ContentType DEF Expand, Scanning, Here
<1>26. ASSUME NEW r \in Repos, PushBranch(r)
       PROVE  TypeOK'
  BY <1>26 DEF PushBranch, Environment
<1>27. ASSUME NEW r \in Repos, Create(r)
       PROVE  TypeOK'
  BY <1>27 DEF Create, Environment
<1>28. ASSUME NEW r \in Repos, Remove(r)
       PROVE  TypeOK'
  <2>1. CASE pc = "list"
    <3>1. flickered' \in BOOLEAN
      BY <1>28, <2>1, Zenon DEF Remove
    <3> QED
      BY <1>28, <2>1, <3>1 DEF Remove, Environment
  <2>2. CASE pc # "list"
    BY <1>28, <2>2 DEF Remove, Environment
  <2> QED
    BY <2>1, <2>2
<1> HIDE InventoryAssumption DEF TypeOK, github, scan, graph, evidence, file, history, Parsing
<1> QED
  BY <1>0, <1>1, <1>2, <1>3, <1>4, <1>5, <1>6, <1>7, <1>8, <1>9, <1>10, <1>11, <1>12, <1>13, <1>13a,
     <1>14, <1>15, <1>16, <1>17, <1>18, <1>19, <1>20, <1>21, <1>22, <1>23, <1>24, <1>25,
     <1>26, <1>27, <1>28 DEF Next, Run

LEMMA StepScan == TypeOK /\ ScanOK /\ [Next]_vars => ScanOK'
<1> SUFFICES ASSUME TypeOK, ScanOK, [Next]_vars
             PROVE  ScanOK'
  OBVIOUS
<1> USE DEF ScanOK, Discovering, Scanning, Untouched, Failed, Pinned
<1>types. /\ records \in [Repos -> Record \cup {None}]
          /\ todo \subseteq Repos
          /\ todo # {} => Least(todo) \in todo
          /\ None \notin Record
  BY LeastIsLeast, InventoryAssumption, NoneAssumption DEF TypeOK
<1>0. CASE UNCHANGED vars
  BY <1>0 DEF vars
<1>1. CASE OverLimit
  BY <1>1 DEF OverLimit, Exceeded, Exit
<1>2. CASE Retry
  BY <1>2 DEF Retry
<1>3. CASE ListPage
  BY <1>3 DEF ListPage, Exceeded, Exit
<1>4. CASE ListFails
  BY <1>4 DEF ListFails
<1>5. CASE GetRepository
  BY <1>5 DEF GetRepository
<1>6. CASE GetFails
  BY <1>6, <1>types DEF GetFails
<1>7. CASE Discovered
  <2>1. \A r \in Repos : records'[r] \in {None, Failed(r)} /\ records' = records
    BY <1>7 DEF Discovered
  <2> QED
    BY <1>7, <2>1 DEF Discovered, Exceeded, Exit
<1>8. CASE BeginScan
  <2>1. /\ cur' \in Repos /\ cur' \in todo /\ todo' = todo \ {cur'} /\ pc' \in {"pin", "done"}
        /\ records' = [records EXCEPT ![cur'] = [status |-> "scanning", commit |-> None, manifests |-> {}]]
    BY <1>8, <1>types DEF BeginScan, Exceeded, Exit
  <2>2. records'[cur'] = [status |-> "scanning", commit |-> None, manifests |-> {}]
    BY <2>1, <1>types
  <2>3. records'[cur'] \in Record
    BY <2>2 DEF Record
  <2>4. \A r \in Repos : r \in todo' => records'[r] = records[r]
    BY <2>1, <1>types
  <2> QED
    BY <2>1, <2>2, <2>3, <2>4, <1>types
<1>9. CASE PinBranch
  <2>1. head[cur] \in Commits /\ records[cur] \in Record
    BY <1>9, <1>types DEF PinBranch, TypeOK
  <2>2. records'[cur].commit = head[cur] /\ records'[cur].status = "scanning" /\ records'[cur] \in Record
    BY <1>9, <2>1, <1>types DEF PinBranch, Record
  <2> QED
    BY <1>9, <2>1, <2>2, <1>types DEF PinBranch
<1>10. CASE GetTree
  BY <1>10 DEF GetTree
<1>11. CASE ScanRequestFails
  BY <1>11, <1>types DEF ScanRequestFails, ScanFailed
<1>12. CASE ReadingEnds
  <2>1. records[cur] \in Record
    BY <1>12, <1>types DEF ReadingEnds
  <2>2. /\ records'[cur].commit = records[cur].commit /\ records'[cur].status = "scanning"
        /\ records'[cur] # None
    BY <1>12, <2>1, <1>types DEF ReadingEnds, Record, TypeOK
  <2> QED
    BY <1>12, <2>2, <1>types DEF ReadingEnds
<1> USE DEF Parsing
<1>13. CASE ParseManifest
  BY <1>13 DEF ParseManifest
<1>13a. CASE LinkWorkspace
  BY <1>13a DEF LinkWorkspace
<1>14. CASE ParseLock
  BY <1>14 DEF ParseLock
<1>15. CASE ParseModules
  BY <1>15, <1>types DEF ParseModules, EndScan
<1>16. CASE SourceFailure
  BY <1>16, <1>types DEF SourceFailure, EndScan
<1>17. CASE ParseRaises
  BY <1>17, <1>types DEF ParseRaises, ScanFailed
<1>18. CASE CreateTemp
  BY <1>18 DEF CreateTemp
<1>19. CASE ReplaceOutput
  BY <1>19 DEF ReplaceOutput
<1>20. CASE SyncDirectory
  BY <1>20 DEF SyncDirectory, Exit
<1>21. CASE WriteFails \/ OutputRefused
  BY <1>21 DEF WriteFails, OutputRefused, Exit
<1>22. CASE Killed
  BY <1>22 DEF Killed, Exit
<1>23. ASSUME NEW m \in unread, GetBlob(m)
       PROVE  ScanOK'
  BY <1>23 DEF GetBlob
<1>24. ASSUME NEW m \in unread, MemberRejected(m)
       PROVE  ScanOK'
  BY <1>24, <1>types DEF MemberRejected, ScanFailed
<1>25. ASSUME NEW m \in frontier, Expand(m)
       PROVE  ScanOK'
  BY <1>25 DEF Expand
<1>26. ASSUME NEW r \in Repos, PushBranch(r) \/ Create(r) \/ Remove(r)
       PROVE  ScanOK'
  BY <1>26 DEF PushBranch, Create, Remove, Environment
<1> HIDE DEF ScanOK, Parsing
<1> QED
  BY <1>0, <1>1, <1>2, <1>3, <1>4, <1>5, <1>6, <1>7, <1>8, <1>9, <1>10, <1>11, <1>12, <1>13, <1>13a,
     <1>14, <1>15, <1>16, <1>17, <1>18, <1>19, <1>20, <1>21, <1>22, <1>23, <1>24, <1>25,
     <1>26 DEF Next, Run

\* Type correctness of the inventory while GitHub changes.
THEOREM InventoryTyping == Spec => [](TypeOK /\ ScanOK)
<1>1. TypeOK /\ ScanOK /\ [Next]_vars => (TypeOK /\ ScanOK)'
  BY StepTyped, StepScan
<1> QED
  BY InitTyped, <1>1, PTL DEF Spec

-----------------------------------------------------------------------------
(* What is published.                                                      *)

FileOK ==
    /\ exit # None <=> pc = "done"
    /\ limited => pc = "done"
    /\ limited => output = "prior" /\ ~temp
    /\ pc \notin {"write", "done"} => ~temp
    /\ pc \notin {"sync", "done"} => output = "prior"
    /\ pc = "sync" => output = Completeness
    /\ output = "complete" => failures = {}
    /\ exit = "0" => output = "complete"
    /\ exit = "1" => output = "partial"
    /\ exit = "3" => limited
    /\ exit = "2" => output = "prior" /\ ~temp
    /\ exit # None /\ temp => exit = "killed"

LEMMA StepFile == TypeOK /\ FileOK /\ [Next]_vars => FileOK'
<1> SUFFICES ASSUME TypeOK, FileOK, [Next]_vars
             PROVE  FileOK'
  OBVIOUS
<1> USE NoneAssumption DEF FileOK, Exit, Exits, Completeness, file
<1>0. CASE UNCHANGED vars
  BY <1>0 DEF vars
<1>1. CASE OverLimit
  BY <1>1 DEF OverLimit, Exceeded, Requesting
<1>2. CASE Retry
  BY <1>2 DEF Retry, Requesting
<1>3. CASE ListPage
  BY <1>3 DEF ListPage, Exceeded
<1>4. CASE ListFails
  BY <1>4 DEF ListFails
<1>5. CASE GetRepository
  BY <1>5 DEF GetRepository
<1>6. CASE GetFails
  BY <1>6 DEF GetFails
<1>7. CASE Discovered
  BY <1>7 DEF Discovered, Exceeded
<1>8. CASE BeginScan
  BY <1>8 DEF BeginScan, Exceeded
<1>9. CASE PinBranch
  BY <1>9 DEF PinBranch
<1>10. CASE GetTree
  BY <1>10 DEF GetTree
<1>11. CASE ScanRequestFails
  BY <1>11 DEF ScanRequestFails, ScanFailed
<1>12. CASE ReadingEnds
  BY <1>12 DEF ReadingEnds
<1>13. CASE ParseManifest \/ LinkWorkspace \/ ParseLock \/ ParseModules \/ SourceFailure
  BY <1>13 DEF ParseManifest, LinkWorkspace, ParseLock, ParseModules, SourceFailure, Parsing
<1>17. CASE ParseRaises
  BY <1>17 DEF ParseRaises, ScanFailed
<1>18. CASE CreateTemp
  BY <1>18 DEF CreateTemp
<1>19. CASE ReplaceOutput
  BY <1>19 DEF ReplaceOutput
<1>20. CASE SyncDirectory
  BY <1>20 DEF SyncDirectory
<1>21. CASE WriteFails \/ OutputRefused
  BY <1>21 DEF WriteFails, OutputRefused
<1>22. CASE Killed
  BY <1>22 DEF Killed
<1>23. ASSUME NEW m \in unread, GetBlob(m) \/ MemberRejected(m)
       PROVE  FileOK'
  BY <1>23 DEF GetBlob, MemberRejected, ScanFailed
<1>25. ASSUME NEW m \in frontier, Expand(m)
       PROVE  FileOK'
  BY <1>25 DEF Expand
<1>26. ASSUME NEW r \in Repos, PushBranch(r) \/ Create(r) \/ Remove(r)
       PROVE  FileOK'
  BY <1>26 DEF PushBranch, Create, Remove, Environment
<1> HIDE DEF FileOK
<1> QED
  BY <1>0, <1>1, <1>2, <1>3, <1>4, <1>5, <1>6, <1>7, <1>8, <1>9, <1>10, <1>11, <1>12, <1>13,
     <1>17, <1>18, <1>19, <1>20, <1>21, <1>22, <1>23, <1>25, <1>26 DEF Next, Run

LEMMA FileHolds == Spec => []FileOK
<1>1. Init => FileOK
  BY NoneAssumption DEF Init, FileOK, Exits
<1>2. TypeOK /\ FileOK /\ [Next]_vars => FileOK'
  BY StepFile
<1> QED
  BY <1>1, <1>2, InventoryTyping, PTL DEF Spec

\* A hard limit and a refused output leave the earlier output and no temporary
\* file, whichever step they stop; a status of 0 tells a complete inventory and
\* a 1 that main returns a partial one, and neither a kill nor a failing call
\* publishes as complete what missed something.
THEOREM LimitsPublishNothing == Spec => []LimitPublishesNothing
<1>1. FileOK => LimitPublishesNothing
  BY DEF FileOK, LimitPublishesNothing
<1> QED
  BY <1>1, FileHolds, PTL

-----------------------------------------------------------------------------
(* What a finished scan has recorded stays.                                *)

Keeps(r) ==
    /\ records[r] # None /\ records[r].commit # None =>
           records'[r] # None /\ records'[r].commit = records[r].commit
    /\ Scanned(r) => records'[r] = records[r]

\* The parsers take nothing away.
LEMMA Grows ==
    ASSUME ParseModules \/ SourceFailure \/ ParseLock \/ ParseManifest \/ LinkWorkspace \/ ParseRaises
    PROVE  /\ DOMAIN zed \subseteq DOMAIN zed' /\ pins \subseteq pins'
           /\ failures \subseteq failures'
<1> DEFINE Grown == DOMAIN zed \subseteq DOMAIN zed' /\ pins \subseteq pins'
<1>1. ASSUME NEW m, NEW D, ReadManifest(m, D) PROVE Grown
  <2> DEFINE added == Requires(cur, Pinned, m, D) \cup Contains(cur, Pinned, m)
  <2>1. zed' = Extended(added) /\ pins' = pins
    BY <1>1 DEF ReadManifest
  <2> HIDE DEF added
  <2> QED
    BY <2>1, ExtendedZed
<1>2. ASSUME NEW E, Link(E) PROVE Grown
  <2> DEFINE added == (UNION {MembersOf(cur, Pinned, m) : m \in Zpkgs}) \cup E
  <2>1. zed' = Extended(added) /\ pins' = pins
    BY <1>2 DEF Link
  <2> HIDE DEF added
  <2> QED
    BY <2>1, ExtendedZed
<1>3. ASSUME NEW P, ReadLock(P) PROVE Grown
  BY <1>3 DEF ReadLock
<1>4. ASSUME NEW L, AddTargets(L) PROVE Grown
  BY <1>4 DEF AddTargets, evidence
<1>5. UNCHANGED graph => Grown
  BY DEF graph, evidence
<1> HIDE DEF Grown
<1>6. CASE ParseModules \/ ParseManifest
  BY <1>1, <1>4, <1>6 DEF ParseModules, ParseManifest, Grown
<1>7. CASE LinkWorkspace \/ ParseLock
  BY <1>2, <1>3, <1>5, <1>7 DEF LinkWorkspace, ParseLock, Grown
<1>8. CASE SourceFailure
  <2>1. Grown
    BY <1>1, <1>3, <1>4, <1>5, <1>8 DEF SourceFailure
  <2> QED
    BY <1>8, <2>1 DEF SourceFailure, Grown
<1>9. CASE ParseRaises
  <2>1. Grown
    BY <1>1, <1>2, <1>5, <1>9 DEF ParseRaises
  <2> QED
    BY <1>9, <2>1 DEF ParseRaises, ScanFailed, Grown
<1> QED
  BY <1>6, <1>7, <1>8, <1>9

LEMMA StepKeeps ==
    TypeOK /\ ScanOK /\ [Next]_vars =>
        /\ \A r \in Repos : Keeps(r)
        /\ pins \subseteq pins' /\ failures \subseteq failures' /\ DOMAIN zed \subseteq DOMAIN zed'
<1> DEFINE Kept == /\ \A r \in Repos : Keeps(r)
                   /\ pins \subseteq pins' /\ failures \subseteq failures'
                   /\ DOMAIN zed \subseteq DOMAIN zed'
<1> SUFFICES ASSUME TypeOK, ScanOK, [Next]_vars
             PROVE  Kept
  OBVIOUS
<1> USE DEF Keeps, Scanned, graph, evidence
<1>types. /\ records \in [Repos -> Record \cup {None}]
          /\ todo # {} => Least(todo) \in todo
          /\ todo \subseteq Repos
          /\ None \notin Record
  BY LeastIsLeast, InventoryAssumption, NoneAssumption DEF TypeOK
<1>fresh. \A r \in Repos : Discovering \/ r \in todo =>
            records[r] = None \/ (records[r].commit = None /\ records[r].status = "failed")
  BY DEF ScanOK, Untouched, Failed
<1>cur. Scanning => /\ cur \in Repos /\ records[cur] \in Record
                    /\ records[cur].status = "scanning"
                    /\ pc = "pin" => records[cur].commit = None
  BY <1>types DEF ScanOK, Pinned
<1>1. CASE UNCHANGED <<records, pins, zed, failures>>
  BY <1>1
<1>2. CASE failures \subseteq failures' /\ UNCHANGED <<records, pins, zed>>
  BY <1>2
<1>3. CASE GetFails
  BY <1>3, <1>types, <1>fresh DEF GetFails, Discovering, Failed
<1>4. CASE BeginScan
  BY <1>4, <1>types, <1>fresh DEF BeginScan
<1>5. CASE Scanning /\ ScanFailed /\ pins \subseteq pins' /\ DOMAIN zed \subseteq DOMAIN zed'
  BY <1>5, <1>types, <1>cur DEF ScanFailed, Record
<1>5b. ASSUME pc \in {"zed", "lock", "modules"}, EndScan \/ UNCHANGED records,
              pins \subseteq pins', failures \subseteq failures', DOMAIN zed \subseteq DOMAIN zed'
       PROVE  Kept
  BY <1>5b, <1>types, <1>cur DEF EndScan, Scanning, Record
<1>6. CASE PinBranch
  BY <1>6, <1>types, <1>cur DEF PinBranch, Scanning
<1>7. CASE ReadingEnds
  <2>1. cur \in Repos /\ records[cur] \in Record /\ records[cur].status = "scanning"
    BY <1>7, <1>cur DEF ReadingEnds, Scanning
  <2>2. blobs \subseteq Files /\ records' = [records EXCEPT ![cur].manifests = blobs]
    BY <1>7 DEF ReadingEnds, TypeOK
  <2>3. /\ records'[cur] \in Record /\ records'[cur].commit = records[cur].commit
        /\ \A r \in Repos \ {cur} : records'[r] = records[r]
    BY <2>1, <2>2, <1>types DEF Record
  <2> QED
    BY <1>7, <2>1, <2>3, <1>types DEF ReadingEnds
<1>8. CASE ParseModules \/ SourceFailure \/ ParseLock \/ ParseManifest \/ LinkWorkspace
  <2>1. pins \subseteq pins' /\ failures \subseteq failures' /\ DOMAIN zed \subseteq DOMAIN zed'
    BY <1>8, Grows
  <2>2. pc \in {"zed", "lock", "modules"} /\ (EndScan \/ UNCHANGED records)
    BY <1>8 DEF ParseModules, SourceFailure, ParseLock, ParseManifest, LinkWorkspace, Parsing
  <2> QED
    BY <1>5b, <2>1, <2>2
<1>11. ASSUME NEW m \in unread, MemberRejected(m)
       PROVE  Kept
  BY <1>5, <1>11 DEF MemberRejected, Scanning
<1>12. CASE ScanRequestFails
  BY <1>5, <1>12 DEF ScanRequestFails, Scanning
<1>12a. CASE ParseRaises
  <2>1. pins \subseteq pins' /\ DOMAIN zed \subseteq DOMAIN zed'
    BY <1>12a, Grows
  <2> QED
    BY <1>5, <1>12a, <2>1 DEF ParseRaises, Scanning
<1>13. CASE \/ OverLimit \/ Retry \/ ListPage \/ GetRepository \/ Discovered \/ GetTree
            \/ CreateTemp \/ ReplaceOutput \/ SyncDirectory \/ WriteFails \/ OutputRefused \/ Killed
  BY <1>1, <1>13 DEF OverLimit, Retry, ListPage, GetRepository, Discovered, GetTree, CreateTemp,
                     ReplaceOutput, SyncDirectory, WriteFails, OutputRefused, Killed
<1>14. CASE ListFails
  BY <1>2, <1>14 DEF ListFails
<1>16. ASSUME NEW m, GetBlob(m) \/ Expand(m)
       PROVE  Kept
  BY <1>1, <1>16 DEF GetBlob, Expand
<1>17. ASSUME NEW r \in Repos, PushBranch(r) \/ Create(r) \/ Remove(r)
       PROVE  Kept
  BY <1>1, <1>17 DEF PushBranch, Create, Remove, Environment
<1>18. CASE UNCHANGED vars
  BY <1>1, <1>18 DEF vars
<1> HIDE DEF Keeps, Scanned, graph, evidence
<1> QED
  BY <1>3, <1>4, <1>6, <1>7, <1>8, <1>11, <1>12, <1>12a, <1>13, <1>14, <1>16, <1>17, <1>18
     DEF Next, Run

-----------------------------------------------------------------------------
(* A scan reads the manifests of one commit.                               *)

LEMMA ManifestsAreLeast ==
    ASSUME NEW r \in Repos, NEW c \in Commits, NEW S \in SUBSET Files, Whole(S, r, c)
    PROVE  ManifestsAt[r][c] \subseteq S
BY DEF ManifestsAt

LEMMA ManifestsAreWhole ==
    ASSUME NEW r \in Repos, NEW c \in Commits
    PROVE  Whole(ManifestsAt[r][c], r, c) /\ ManifestsAt[r][c] \subseteq Files
<1>1. Selected \cap Held(r, c).files \subseteq ManifestsAt[r][c]
  BY InventoryAssumption DEF ManifestsAt, Whole
<1>2. ASSUME NEW m \in ManifestsAt[r][c] \ {Lock, Modules}
      PROVE  Held(r, c).members[m] \subseteq ManifestsAt[r][c]
  <2>1. m \in Files /\ Held(r, c).members[m] \subseteq Files
    BY <1>2, ContentType DEF ManifestsAt
  <2>2. ASSUME NEW S \in SUBSET Files, Whole(S, r, c)
        PROVE  Held(r, c).members[m] \subseteq S
    BY <1>2, <2>2 DEF ManifestsAt, Whole
  <2> QED
    BY <2>1, <2>2 DEF ManifestsAt
<1>3. ManifestsAt[r][c] \subseteq Files
  BY DEF ManifestsAt
<1> QED
  BY <1>1, <1>2, <1>3 DEF Whole

\* What is read and what is still to be read, against the commit.
BlobsOK(c) ==
    /\ blobs \subseteq Held(cur, c).files
    /\ frontier \subseteq blobs \ {Lock, Modules}
    /\ Selected \cap Held(cur, c).files \subseteq blobs \cup unread
    /\ \A m \in blobs \ ({Lock, Modules} \cup frontier) :
           Held(cur, c).members[m] \subseteq blobs \cup unread
    /\ blobs \cup unread \subseteq ManifestsAt[cur][c]

ReadingOK ==
    /\ pc \in {"pin", "tree"} => blobs = {} /\ frontier = {}
    /\ pc = "blob" => BlobsOK(Pinned)
    /\ pc \in {"zed", "lock", "modules"} =>
         /\ records[cur].manifests = blobs
         /\ blobs = ManifestsAt[cur][Pinned]
         /\ Selected \cap blobs = Selected \cap Here.files
         /\ unparsed \subseteq Zpkgs

LEMMA StepReading == TypeOK /\ ScanOK /\ ReadingOK /\ [Next]_vars => ReadingOK'
<1> SUFFICES ASSUME TypeOK, ScanOK, ReadingOK, [Next]_vars
             PROVE  ReadingOK'
  OBVIOUS
<1>types. Scanning => /\ records \in [Repos -> Record \cup {None}]
                      /\ cur \in Repos /\ records[cur] \in Record
                      /\ pc # "pin" => Pinned \in Commits
  BY DEF ScanOK, TypeOK
<1>0. CASE UNCHANGED <<pc, cur, records, blobs, unread, frontier, unparsed>>
  BY <1>0 DEF ReadingOK, BlobsOK, Pinned, Here, Zpkgs
<1>1. CASE pc' \in {"list", "get", "next", "write", "sync", "done"}
  BY <1>1 DEF ReadingOK
<1>2. CASE BeginScan
  BY <1>2 DEF BeginScan, Exceeded, Exit, ReadingOK
<1>3. CASE PinBranch
  BY <1>3 DEF PinBranch, ReadingOK, scan
<1>4. CASE GetTree
  <2> DEFINE c == Pinned
  <2>1. c \in Commits /\ cur \in Repos
    BY <1>4, <1>types DEF GetTree, Scanning
  <2>2. cur' = cur /\ Pinned' = c /\ pc' = "blob"
    BY <1>4 DEF GetTree, Pinned
  <2>3. blobs' = {} /\ frontier' = {} /\ unread' = Selected \cap Held(cur, c).files
    BY <1>4 DEF GetTree, ReadingOK, Here
  <2> HIDE DEF c
  <2>4. Selected \cap Held(cur, c).files \subseteq ManifestsAt[cur][c]
    BY <2>1, ManifestsAreWhole DEF Whole
  <2> QED
    BY <2>2, <2>3, <2>4 DEF ReadingOK, BlobsOK
<1>5. ASSUME NEW m \in unread, GetBlob(m)
      PROVE  ReadingOK'
  <2> DEFINE c == Pinned
  <2>1. cur' = cur /\ Pinned' = c /\ pc' = "blob" /\ m \in Held(cur, c).files
    BY <1>5 DEF GetBlob, Pinned, Here
  <2>2. BlobsOK(c)
    BY <1>5 DEF GetBlob, ReadingOK
  <2> HIDE DEF c
  <2>3. BlobsOK(c)'
    BY <1>5, <2>1, <2>2 DEF GetBlob, BlobsOK, c
  <2> QED
    BY <2>1, <2>3 DEF ReadingOK, c
<1>6. ASSUME NEW m \in frontier, Expand(m)
      PROVE  ReadingOK'
  <2> DEFINE c == Pinned
  <2>1. cur' = cur /\ Pinned' = c /\ pc' = "blob" /\ c \in Commits /\ cur \in Repos
    BY <1>6, <1>types DEF Expand, Pinned, Scanning
  <2>2. BlobsOK(c)
    BY <1>6 DEF Expand, ReadingOK
  <2>3. unread = {} /\ unread' = Held(cur, c).members[m] /\ frontier' = frontier \ {m} /\ blobs' = blobs
    BY <1>6 DEF Expand, Here
  <2> HIDE DEF c
  <2>4. Held(cur, c).members[m] \subseteq ManifestsAt[cur][c]
    BY <2>1, <2>2, ManifestsAreWhole DEF Whole, BlobsOK
  <2>5. BlobsOK(c)'
    BY <2>1, <2>2, <2>3, <2>4 DEF BlobsOK, c
  <2> QED
    BY <2>1, <2>5 DEF ReadingOK, c
<1>7. CASE ReadingEnds
  <2> DEFINE c == Pinned
  <2>1. c \in Commits /\ cur \in Repos /\ records \in [Repos -> Record \cup {None}] /\ records[cur] \in Record
    BY <1>7, <1>types DEF ReadingEnds, Scanning
  <2>2. BlobsOK(c) /\ unread = {} /\ frontier = {}
    BY <1>7 DEF ReadingEnds, ReadingOK
  <2>3. cur' = cur /\ blobs' = blobs /\ pc' = "zed" /\ records'[cur].commit = c /\ records'[cur].manifests = blobs
    BY <1>7, <2>1 DEF ReadingEnds, Pinned, Record, scan
  <2> HIDE DEF c
  <2>4. blobs \subseteq Files
    BY DEF TypeOK
  <2>5. Whole(blobs, cur, c)
    BY <2>2 DEF BlobsOK, Whole
  <2>6. blobs = ManifestsAt[cur][c]
    BY <2>1, <2>2, <2>4, <2>5, ManifestsAreLeast DEF BlobsOK
  <2>7. Selected \cap blobs = Selected \cap Held(cur, c).files
    BY <2>2 DEF BlobsOK
  <2>8. unparsed' \subseteq Zpkgs'
    BY <1>7 DEF ReadingEnds, Zpkgs, scan
  <2> QED
    BY <2>3, <2>6, <2>7, <2>8 DEF ReadingOK, Pinned, Here
<1>8. CASE ParseManifest \/ LinkWorkspace \/ ParseLock \/ ParseModules \/ SourceFailure
  <2>1. unparsed' \subseteq unparsed
    BY <1>8 DEF ParseManifest, LinkWorkspace, ParseLock, ParseModules, SourceFailure, graph, evidence,
                ReadManifest, Link, ReadLock, AddTargets
  <2>2. /\ UNCHANGED <<cur, blobs>> /\ pc \in {"zed", "lock", "modules"}
        /\ pc' \in {"zed", "lock"} \/ pc' = "modules" \/ pc' = "next"
        /\ pc' # "next" => UNCHANGED records
    BY <1>8 DEF ParseManifest, LinkWorkspace, ParseLock, ParseModules, SourceFailure, Parsing, scan
  <2> QED
    BY <2>1, <2>2 DEF ReadingOK, Pinned, Here, Zpkgs
<1>9. CASE ScanRequestFails \/ ParseRaises
  BY <1>1, <1>9 DEF ScanRequestFails, ParseRaises, ScanFailed
<1>10. ASSUME NEW m \in unread, MemberRejected(m)
       PROVE  ReadingOK'
  BY <1>1, <1>10 DEF MemberRejected, ScanFailed
<1>11. CASE \/ OverLimit \/ Discovered \/ SyncDirectory \/ WriteFails \/ OutputRefused \/ Killed
            \/ CreateTemp \/ ReplaceOutput
  BY <1>1, <1>11 DEF OverLimit, Discovered, SyncDirectory, WriteFails, OutputRefused, Killed,
                     CreateTemp, ReplaceOutput, Exceeded, Exit
<1>12. CASE ListPage \/ ListFails \/ GetRepository \/ GetFails
  BY <1>1, <1>12 DEF ListPage, ListFails, GetRepository, GetFails, Exceeded, Exit
<1>13. CASE Retry
  BY <1>0, <1>13 DEF Retry, scan, graph, evidence
<1>14. ASSUME NEW r \in Repos, PushBranch(r) \/ Create(r) \/ Remove(r)
       PROVE  ReadingOK'
  BY <1>0, <1>14 DEF PushBranch, Create, Remove, Environment, scan, graph, evidence
<1>15. CASE UNCHANGED vars
  BY <1>0, <1>15 DEF vars, scan, graph, evidence
<1> QED
  BY <1>2, <1>3, <1>4, <1>5, <1>6, <1>7, <1>8, <1>9, <1>10, <1>11, <1>12, <1>13, <1>14, <1>15 DEF Next, Run

LEMMA ReadingHolds == Spec => []ReadingOK
<1>1. Init => ReadingOK
  BY DEF Init, ReadingOK
<1>2. TypeOK /\ ScanOK /\ ReadingOK /\ [Next]_vars => ReadingOK'
  BY StepReading
<1> QED
  BY <1>1, <1>2, InventoryTyping, PTL DEF Spec

\* What the parsers have added of the commit's declarations.
ParsedOK ==
    /\ pc = "zed" => \A m \in Zpkgs \ unparsed :
         Requires(cur, Pinned, m, Here.declares[m]) \cup Contains(cur, Pinned, m) \subseteq DOMAIN zed
    /\ pc \in {"lock", "modules"} /\ "source" \notin failures =>
         EdgesAt[cur][Pinned] \subseteq DOMAIN zed

\* While it is parsed, the edges of the commit are those of the blobs.
LEMMA ParsedEdges ==
    ASSUME TypeOK, ScanOK, ReadingOK, pc \in {"zed", "lock", "modules"}
    PROVE  /\ cur \in Repos /\ Pinned \in Commits /\ records[cur] # None
           /\ unparsed \subseteq Zpkgs /\ Zpkgs \subseteq Files
           /\ EdgesAt[cur][Pinned] = UNION {EdgesOf(cur, Pinned, m) : m \in Zpkgs}
<1>1. cur \in Repos /\ Pinned \in Commits /\ blobs = ManifestsAt[cur][Pinned] /\ unparsed \subseteq Zpkgs
      /\ records[cur] # None
  BY DEF ScanOK, Scanning, ReadingOK
<1> QED
  BY <1>1 DEF EdgesAt, Zpkgs, TypeOK

LEMMA StepParsed == TypeOK /\ ScanOK /\ ReadingOK /\ ParsedOK /\ [Next]_vars => ParsedOK'
<1> SUFFICES ASSUME TypeOK, ScanOK, ReadingOK, ParsedOK, [Next]_vars
             PROVE  ParsedOK'
  OBVIOUS
<1> DEFINE Said(c, m) == Requires(cur, c, m, Held(cur, c).declares[m]) \cup Contains(cur, c, m)
<1>1. CASE pc' \notin {"zed", "lock", "modules"}
  BY <1>1 DEF ParsedOK
<1>2. CASE UNCHANGED <<pc, cur, records, blobs, unparsed, failures, zed>>
  BY <1>2 DEF ParsedOK, Pinned, Here, Zpkgs
<1>3. CASE ReadingEnds
  <2>1. pc' = "zed" /\ Zpkgs' \ unparsed' = {}
    BY <1>3 DEF ReadingEnds, Zpkgs, scan
  <2> QED
    BY <2>1 DEF ParsedOK
<1>4. CASE ParseManifest
  <2> DEFINE m == Least(unparsed)
             c == Pinned
             added == Requires(cur, Pinned, m, Here.declares[m]) \cup Contains(cur, Pinned, m)
  <2>1. /\ pc = "zed" /\ pc' = "zed" /\ cur' = cur /\ Pinned' = c /\ Zpkgs' = Zpkgs
        /\ unparsed' = unparsed \ {m} /\ zed' = Extended(added)
    BY <1>4 DEF ParseManifest, Parsing, ReadManifest, Pinned, Zpkgs, scan
  <2>2. \A n \in Zpkgs \ unparsed : Said(c, n) \subseteq DOMAIN zed
    BY <2>1 DEF ParsedOK, Here
  <2>3. DOMAIN zed' = DOMAIN zed \cup Said(c, m)
    BY <2>1, ExtendedZed DEF Here
  <2> HIDE DEF added, m, c
  <2>4. \A n \in Zpkgs' \ unparsed' : Said(c, n) \subseteq DOMAIN zed'
    BY <2>1, <2>2, <2>3
  <2> QED
    BY <2>1, <2>4 DEF ParsedOK, Here
<1>5. CASE LinkWorkspace
  <2> DEFINE c == Pinned
             added == (UNION {MembersOf(cur, Pinned, m) : m \in Zpkgs}) \cup PathEdges
  <2>1. /\ pc = "zed" /\ pc' = "lock" /\ cur' = cur /\ Pinned' = c /\ unparsed = {}
        /\ IF Workspace THEN zed' = Extended(added) ELSE zed' = zed
    BY <1>5 DEF LinkWorkspace, Parsing, Link, Pinned, scan, graph, evidence
  <2>2. \A m \in Zpkgs : Said(c, m) \subseteq DOMAIN zed
    BY <2>1 DEF ParsedOK, Here
  <2>3. EdgesAt[cur][c] = UNION {EdgesOf(cur, c, m) : m \in Zpkgs}
    BY <2>1, ParsedEdges
  <2>4. ASSUME NEW m \in Zpkgs
        PROVE  EdgesOf(cur, c, m) \subseteq DOMAIN zed'
    <3>1. CASE Workspace
      <4>1. DOMAIN zed' = DOMAIN zed \cup added
        BY <2>1, <3>1, ExtendedZed
      <4>2. EdgesOf(cur, c, m) = Said(c, m) \cup MembersOf(cur, c, m) \cup PathsOf(cur, c, m)
        BY <3>1 DEF EdgesOf, Workspace
      <4>3. MembersOf(cur, c, m) \cup PathsOf(cur, c, m) \subseteq added
        <5>1. MembersOf(cur, c, m) \subseteq UNION {MembersOf(cur, Pinned, n) : n \in Zpkgs}
          BY <2>4
        <5>2. PathsOf(cur, c, m) \subseteq PathEdges
          BY <2>4 DEF PathEdges
        <5> HIDE DEF c
        <5> QED
          BY <5>1, <5>2, Zenon
      <4> HIDE DEF added, c
      <4> QED
        BY <2>2, <2>4, <4>1, <4>2, <4>3
    <3>2. CASE ~Workspace
      <4>1. EdgesOf(cur, c, m) = Said(c, m)
        BY <3>2 DEF EdgesOf, Workspace
      <4> QED
        BY <2>1, <2>2, <2>4, <3>2, <4>1
    <3> QED
      BY <3>1, <3>2
  <2> HIDE DEF added, c
  <2> QED
    BY <2>1, <2>3, <2>4 DEF ParsedOK
<1>6. CASE ParseLock
  <2>1. DOMAIN zed \subseteq DOMAIN zed'
    BY <1>6, Grows
  <2>2. pc = "lock" /\ pc' = "modules" /\ UNCHANGED <<cur, records, failures>>
    BY <1>6 DEF ParseLock, Parsing
  <2> QED
    BY <2>1, <2>2 DEF ParsedOK, Pinned
<1>7. CASE SourceFailure
  BY <1>7 DEF SourceFailure, Parsing, ParsedOK
<1>8. CASE ParseModules
  BY <1>1, <1>8 DEF ParseModules, Parsing
<1>9. CASE \/ OverLimit \/ ListPage \/ ListFails \/ GetRepository \/ GetFails \/ Discovered
           \/ BeginScan \/ PinBranch \/ GetTree
  BY <1>1, <1>9 DEF OverLimit, ListPage, ListFails, GetRepository, GetFails, Discovered,
                    BeginScan, PinBranch, GetTree, Exceeded, Exit
<1>10. CASE \/ ScanRequestFails \/ ParseRaises \/ CreateTemp \/ ReplaceOutput \/ SyncDirectory
            \/ WriteFails \/ OutputRefused \/ Killed
  BY <1>1, <1>10 DEF ScanRequestFails, ParseRaises, ScanFailed, CreateTemp, ReplaceOutput,
                     SyncDirectory, WriteFails, OutputRefused, Killed, Exit
<1>11. ASSUME NEW m, GetBlob(m) \/ Expand(m) \/ MemberRejected(m)
       PROVE  ParsedOK'
  BY <1>1, <1>11 DEF GetBlob, Expand, MemberRejected, ScanFailed
<1>12. CASE Retry
  BY <1>2, <1>12 DEF Retry, scan, graph, evidence
<1>13. ASSUME NEW r \in Repos, PushBranch(r) \/ Create(r) \/ Remove(r)
       PROVE  ParsedOK'
  BY <1>2, <1>13 DEF PushBranch, Create, Remove, Environment, scan, graph, evidence
<1>14. CASE UNCHANGED vars
  BY <1>2, <1>14 DEF vars, scan, graph, evidence
<1> QED
  BY <1>3, <1>4, <1>5, <1>6, <1>7, <1>8, <1>9, <1>10, <1>11, <1>12, <1>13, <1>14 DEF Next, Run

LEMMA ParsedHolds == Spec => [](ReadingOK /\ ParsedOK)
<1>1. Init => ParsedOK
  BY DEF Init, ParsedOK
<1>2. TypeOK /\ ScanOK /\ ReadingOK /\ ParsedOK /\ [Next]_vars => ParsedOK'
  BY StepParsed
<1> QED
  BY <1>1, <1>2, InventoryTyping, ReadingHolds, PTL DEF Spec

LinksAt(r) ==
    LET c == records[r].commit IN IF Modules \in Held(r, c).files THEN Held(r, c).links ELSE {}

ScannedOK ==
    /\ \A e \in edges : Scanned(e[1]) /\ e[3] = records[e[1]].commit /\ e[2] \in LinksAt(e[1])
    /\ \A r \in Repos : Scanned(r) =>
         /\ records[r].manifests = ManifestsAt[r][records[r].commit]
         /\ "source" \notin failures =>
              /\ \A t \in LinksAt(r) : <<r, t, records[r].commit>> \in edges
              /\ EdgesAt[r][records[r].commit] \subseteq DOMAIN zed

LEMMA StepScanned ==
    TypeOK /\ ScanOK /\ ReadingOK /\ ParsedOK /\ ScannedOK /\ [Next]_vars => ScannedOK'
<1> SUFFICES ASSUME TypeOK, ScanOK, ReadingOK, ParsedOK, ScannedOK, [Next]_vars
             PROVE  ScannedOK'
  OBVIOUS
<1>keeps. /\ \A r \in Repos : Keeps(r)
          /\ failures \subseteq failures' /\ DOMAIN zed \subseteq DOMAIN zed'
  BY StepKeeps
<1>types. /\ records \in [Repos -> Record \cup {None}]
          /\ todo # {} => Least(todo) \in todo
          /\ todo \subseteq Repos
          /\ edges \subseteq Repos \X Targets \X Commits
  BY LeastIsLeast, InventoryAssumption DEF TypeOK
<1>cur. Scanning => cur \in Repos /\ records[cur] \in Record /\ records[cur].status = "scanning"
  BY <1>types DEF ScanOK
<1>1. ASSUME UNCHANGED edges, \A r \in Repos : Scanned(r)' => Scanned(r)
      PROVE  ScannedOK'
  <2>1. ASSUME NEW r \in Repos, Scanned(r)
        PROVE  Scanned(r)' /\ records'[r] = records[r] /\ LinksAt(r)' = LinksAt(r)
    BY <2>1, <1>keeps DEF Keeps, Scanned, LinksAt
  <2>2. \A e \in edges' : Scanned(e[1])' /\ e[3] = records'[e[1]].commit /\ e[2] \in LinksAt(e[1])'
    BY <1>1, <2>1, <1>types DEF ScannedOK
  <2>3. ASSUME NEW r \in Repos, Scanned(r)'
        PROVE  /\ records'[r].manifests = ManifestsAt[r][records'[r].commit]
               /\ "source" \notin failures' =>
                    /\ \A t \in LinksAt(r)' : <<r, t, records'[r].commit>> \in edges'
                    /\ EdgesAt[r][records'[r].commit] \subseteq DOMAIN zed'
    BY <1>1, <2>1, <2>3, <1>keeps DEF ScannedOK
  <2> QED
    BY <2>2, <2>3 DEF ScannedOK
<1>2. ASSUME pc = "modules", cur' = cur, NEW L,
             edges' = edges \cup {<<cur, t, Pinned>> : t \in L},
             L \subseteq LinksAt(cur), "source" \notin failures' => L = LinksAt(cur),
             "source" \notin failures => EdgesAt[cur][Pinned] \subseteq DOMAIN zed,
             records' = [records EXCEPT ![cur].status = "scanned"]
      PROVE  ScannedOK'
  <2>1. /\ cur \in Repos /\ ~Scanned(cur) /\ Pinned = records[cur].commit
        /\ records[cur].manifests = ManifestsAt[cur][Pinned]
        /\ records[cur] \in Record
    BY <1>2, <1>cur DEF Scanning, Scanned, Pinned, ReadingOK
  <2>2. /\ records'[cur] # None /\ records'[cur].status = "scanned"
        /\ records'[cur].commit = Pinned /\ records'[cur].manifests = ManifestsAt[cur][Pinned]
    BY <1>2, <2>1, <1>types, NoneAssumption DEF Record
  <2>3. Scanned(cur)' /\ LinksAt(cur)' = LinksAt(cur)
    BY <1>2, <2>1, <2>2 DEF Scanned, LinksAt
  <2>4. ASSUME NEW r \in Repos, r # cur
        PROVE  records'[r] = records[r] /\ (Scanned(r)' <=> Scanned(r)) /\ LinksAt(r)' = LinksAt(r)
    BY <1>2, <2>4, <1>types DEF Scanned, LinksAt
  <2>5. ASSUME NEW e \in edges
        PROVE  Scanned(e[1])' /\ e[3] = records'[e[1]].commit /\ e[2] \in LinksAt(e[1])'
    <3>1. e[1] \in Repos /\ Scanned(e[1]) /\ e[1] # cur
      BY <2>1, <1>types DEF ScannedOK
    <3> QED
      BY <3>1, <2>4 DEF ScannedOK
  <2>6. ASSUME NEW t \in L
        PROVE  t \in LinksAt(cur)'
    BY <1>2, <2>3
  <2>7. \A e \in edges' : Scanned(e[1])' /\ e[3] = records'[e[1]].commit /\ e[2] \in LinksAt(e[1])'
    BY <1>2, <2>2, <2>3, <2>5, <2>6
  <2>8. ASSUME NEW r \in Repos, Scanned(r)'
        PROVE  /\ records'[r].manifests = ManifestsAt[r][records'[r].commit]
               /\ "source" \notin failures' =>
                    /\ \A t \in LinksAt(r)' : <<r, t, records'[r].commit>> \in edges'
                    /\ EdgesAt[r][records'[r].commit] \subseteq DOMAIN zed'
    <3>1. CASE r = cur
      BY <3>1, <1>2, <1>keeps, <2>2, <2>3
    <3>2. CASE r # cur
      BY <3>2, <1>2, <2>4, <2>8, <1>keeps DEF ScannedOK
    <3> QED
      BY <3>1, <3>2
  <2> QED
    BY <2>7, <2>8 DEF ScannedOK
<1>links. pc = "modules" => /\ Links = LinksAt(cur)
                            /\ "source" \notin failures => EdgesAt[cur][Pinned] \subseteq DOMAIN zed
  BY DEF Links, LinksAt, ReadingOK, ParsedOK, Here, Pinned, Selected
<1>3. CASE ParseModules
  BY <1>2, <1>3, <1>links DEF ParseModules, AddTargets, EndScan, Parsing
<1>4. CASE SourceFailure
  <2>1. CASE UNCHANGED <<edges, records>>
    BY <1>1, <2>1 DEF Scanned
  <2>2. ASSUME pc = "modules", EndScan, NEW L \in SUBSET Links, AddTargets(L)
        PROVE  ScannedOK'
    <3>1. "source" \in failures' /\ cur' = cur
      BY <1>4 DEF SourceFailure, Parsing
    <3> QED
      BY <1>2, <1>links, <2>2, <3>1 DEF AddTargets, EndScan
  <2> QED
    BY <1>4, <2>1, <2>2 DEF SourceFailure, Parsing, graph, ReadManifest, ReadLock
<1>5. CASE UNCHANGED <<edges, records>>
  BY <1>1, <1>5 DEF Scanned
<1>6. CASE GetFails
  BY <1>1, <1>6, <1>types DEF GetFails, Failed, Scanned, graph
<1>7. CASE BeginScan
  BY <1>1, <1>7, <1>types DEF BeginScan, Scanned
<1>8. CASE Scanning /\ ScanFailed /\ UNCHANGED edges
  BY <1>1, <1>8, <1>types, <1>cur DEF ScanFailed, Scanned, Record
<1>9. CASE PinBranch
  BY <1>1, <1>9, <1>types, <1>cur DEF PinBranch, Scanning, Scanned, Record, graph
<1>10. CASE ReadingEnds
  <2>1. cur \in Repos /\ records[cur] \in Record /\ records[cur].status = "scanning"
    BY <1>10, <1>cur DEF ReadingEnds, Scanning
  <2>2. records'[cur].status = "scanning" /\ \A r \in Repos \ {cur} : records'[r] = records[r]
    BY <1>10, <2>1, <1>types DEF ReadingEnds, Record
  <2> QED
    BY <1>1, <1>10, <2>2 DEF ReadingEnds, Scanned, graph
<1>11. CASE ScanRequestFails \/ ParseRaises
  BY <1>8, <1>11 DEF ScanRequestFails, ParseRaises, ReadManifest, Link, Scanning, graph
<1>12. ASSUME NEW m \in unread, MemberRejected(m)
       PROVE  ScannedOK'
  BY <1>8, <1>12 DEF MemberRejected, Scanning, graph
<1>13. CASE \/ OverLimit \/ Retry \/ ListPage \/ ListFails \/ GetRepository \/ Discovered \/ GetTree
            \/ CreateTemp \/ ReplaceOutput \/ SyncDirectory \/ WriteFails \/ OutputRefused \/ Killed
  BY <1>5, <1>13 DEF OverLimit, Retry, ListPage, ListFails, GetRepository, Discovered, GetTree,
                     CreateTemp, ReplaceOutput, SyncDirectory, WriteFails, OutputRefused, Killed, graph
<1>14. CASE ParseManifest \/ LinkWorkspace \/ ParseLock
  BY <1>5, <1>14 DEF ParseManifest, LinkWorkspace, ParseLock, Parsing, ReadManifest, Link, ReadLock, graph
<1>15. ASSUME NEW m, GetBlob(m) \/ Expand(m)
       PROVE  ScannedOK'
  BY <1>5, <1>15 DEF GetBlob, Expand, graph
<1>16. ASSUME NEW r \in Repos, PushBranch(r) \/ Create(r) \/ Remove(r)
       PROVE  ScannedOK'
  BY <1>5, <1>16 DEF PushBranch, Create, Remove, Environment, graph
<1>17. CASE UNCHANGED vars
  BY <1>5, <1>17 DEF vars, graph
<1> QED
  BY <1>3, <1>4, <1>6, <1>7, <1>9, <1>10, <1>11, <1>12, <1>13, <1>14, <1>15, <1>16, <1>17
     DEF Next, Run

\* The record of a scanned repository is one commit's: its manifests, with the
\* members of members, its submodules and its declared edges, however the
\* branch moves meanwhile.
THEOREM ScansReadOneCommit == Spec => []ScannedAtPin
<1>1. Init => ScannedOK
  BY DEF Init, ScannedOK, Scanned
<1>2. TypeOK /\ ScannedOK => ScannedAtPin
  <2> SUFFICES ASSUME TypeOK, ScannedOK, NEW r \in Repos, Scanned(r)
               PROVE  LET c == records[r].commit
                          L == LinksAt(r)
                          said == {e \in edges : e[1] = r}
                      IN  /\ records[r].manifests = ManifestsAt[r][c]
                          /\ said \subseteq {<<r, t, c>> : t \in L}
                          /\ "source" \notin failures =>
                               said = {<<r, t, c>> : t \in L} /\ EdgesAt[r][c] \subseteq DOMAIN zed
    BY DEF ScannedAtPin, LinksAt
  <2> DEFINE c == records[r].commit
             L == LinksAt(r)
             said == {e \in edges : e[1] = r}
  <2>1. ASSUME NEW e \in edges, e[1] = r
        PROVE  e \in {<<r, t, c>> : t \in L}
    <3>1. e = <<e[1], e[2], e[3]>>
      BY DEF TypeOK
    <3> QED
      BY <2>1, <3>1 DEF ScannedOK
  <2>2. /\ "source" \notin failures =>
              (\A t \in L : <<r, t, c>> \in edges) /\ EdgesAt[r][c] \subseteq DOMAIN zed
        /\ records[r].manifests = ManifestsAt[r][c]
    BY DEF ScannedOK
  <2>3. said \subseteq {<<r, t, c>> : t \in L}
    BY <2>1
  <2>4. "source" \notin failures => {<<r, t, c>> : t \in L} \subseteq said
    BY <2>2
  <2> HIDE DEF said
  <2>5. "source" \notin failures => said = {<<r, t, c>> : t \in L}
    BY <2>3, <2>4
  <2> QED
    BY <2>2, <2>3, <2>5 DEF said
<1>3. TypeOK /\ ScanOK /\ ReadingOK /\ ParsedOK /\ ScannedOK /\ [Next]_vars => ScannedOK'
  BY StepScanned
<1> QED
  BY <1>1, <1>2, <1>3, InventoryTyping, ParsedHolds, PTL DEF Spec

-----------------------------------------------------------------------------
(* Lock pins are evidence.                                                 *)

PinnedRepos == {r \in Repos : IsPinned(r)}
Declared == UNION {EdgesAt[r][records[r].commit] : r \in PinnedRepos}

\* The pins of a repository are those of its one lock.
EvidenceOK ==
    /\ DOMAIN zed \subseteq Declared
    /\ \A p \in pins : IsPinned(p[1]) /\ (Scanning /\ p[1] = cur => pc = "modules")
    /\ \A e \in DOMAIN zed : zed[e] # None =>
          /\ e.kind = "declared"
          /\ \E r \in Repos : \A v \in Versions : <<r, e.source, e.target, v>> \in pins <=> v = zed[e]

LEMMA StepEvidence ==
    TypeOK /\ ScanOK /\ ReadingOK /\ EvidenceOK /\ [Next]_vars => EvidenceOK'
<1> SUFFICES ASSUME TypeOK, ScanOK, ReadingOK, EvidenceOK, [Next]_vars
             PROVE  EvidenceOK'
  OBVIOUS
<1> DEFINE Marked(e, r) == \A v \in Versions : <<r, e.source, e.target, v>> \in pins <=> v = zed[e]
           PinsOK == \A p \in pins : IsPinned(p[1]) /\ (Scanning /\ p[1] = cur => pc = "modules")
           MarksOK == \A e \in DOMAIN zed : zed[e] # None =>
                         e.kind = "declared" /\ \E r \in Repos : Marked(e, r)
<1>types. /\ pins \subseteq Repos \X SourceNodes \X Packages \X Versions
          /\ todo # {} => Least(todo) \in todo
          /\ todo \subseteq Repos
  BY LeastIsLeast, InventoryAssumption DEF TypeOK
<1>old. DOMAIN zed \subseteq Declared /\ PinsOK /\ MarksOK
  BY DEF EvidenceOK
<1>new. DOMAIN zed' \subseteq Declared' /\ PinsOK' /\ MarksOK' => EvidenceOK'
  BY DEF EvidenceOK
<1>keeps. (\A r \in Repos : IsPinned(r) => IsPinned(r)') /\ Declared \subseteq Declared'
  <2>1. \A r \in Repos : IsPinned(r) => records'[r] # None /\ records'[r].commit = records[r].commit
    BY StepKeeps DEF Keeps, IsPinned
  <2> QED
    BY <2>1 DEF IsPinned, Declared, PinnedRepos
<1> HIDE DEF PinsOK, MarksOK
<1>pins. ASSUME UNCHANGED pins,
                \/ UNCHANGED <<pc, cur>> \/ ~Scanning'
                \/ Scanning /\ pc # "modules" /\ cur' = cur
         PROVE  PinsOK'
  BY <1>pins, <1>old, <1>keeps, <1>types DEF PinsOK, Scanning
<1>marks. ASSUME UNCHANGED pins, \A e \in DOMAIN zed' : (e \in DOMAIN zed /\ zed'[e] = zed[e]) \/ zed'[e] = None
          PROVE  MarksOK'
  <2> SUFFICES ASSUME NEW e \in DOMAIN zed', zed'[e] # None
               PROVE  e.kind = "declared" /\ \E r \in Repos : Marked(e, r)'
    BY DEF MarksOK
  <2>1. e \in DOMAIN zed /\ zed'[e] = zed[e]
    BY <1>marks
  <2>2. PICK r \in Repos : e.kind = "declared" /\ Marked(e, r)
    BY <1>old, <2>1 DEF MarksOK
  <2> QED
    BY <1>marks, <2>1, <2>2
<1>1. CASE UNCHANGED <<zed, pins>> /\ (UNCHANGED <<pc, cur>> \/ ~Scanning' \/ (Scanning /\ pc # "modules" /\ cur' = cur))
  BY <1>1, <1>old, <1>new, <1>keeps, <1>pins, <1>marks
<1>parse. pc \in {"zed", "lock", "modules"} =>
            /\ cur \in PinnedRepos /\ Pinned = records[cur].commit /\ Pinned \in Commits
            /\ EdgesAt[cur][Pinned] \subseteq Declared
            /\ EdgesAt[cur][Pinned] = UNION {EdgesOf(cur, Pinned, m) : m \in Zpkgs}
            /\ unparsed \subseteq Zpkgs
  <2>1. pc \in {"zed", "lock", "modules"} => cur \in PinnedRepos
    BY ParsedEdges, NoneAssumption DEF PinnedRepos, IsPinned, Pinned
  <2>2. cur \in PinnedRepos => EdgesAt[cur][Pinned] \subseteq Declared
    BY DEF Declared, Pinned
  <2> QED
    BY <2>1, <2>2, ParsedEdges DEF Pinned
<1>grow. ASSUME NEW E, E \subseteq EdgesAt[cur][Pinned], zed' = Extended(E), pins' = pins,
                pc = "zed", cur' = cur
         PROVE  EvidenceOK'
  <2>1. DOMAIN zed' \subseteq Declared'
    <3>1. E \subseteq Declared /\ DOMAIN zed' = DOMAIN zed \cup E
      BY <1>grow, <1>parse, ExtendedZed
    <3> QED
      BY <1>old, <1>keeps, <3>1
  <2>2. \A e \in DOMAIN zed' : (e \in DOMAIN zed /\ zed'[e] = zed[e]) \/ zed'[e] = None
    BY <1>grow, ExtendedZed
  <2> QED
    BY <1>grow, <1>new, <1>marks, <1>pins, <2>1, <2>2 DEF Scanning
<1>2. ASSUME NEW m \in Zpkgs, NEW D, D \subseteq Here.declares[m], ReadManifest(m, D), pc = "zed", cur' = cur
      PROVE  EvidenceOK'
  <2> DEFINE added == Requires(cur, Pinned, m, D) \cup Contains(cur, Pinned, m)
  <2>1. added \subseteq EdgesOf(cur, Pinned, m)
    BY <1>2 DEF EdgesOf, Requires, Here
  <2>2. zed' = Extended(added) /\ pins' = pins
    BY <1>2 DEF ReadManifest
  <2> HIDE DEF added
  <2>3. added \subseteq EdgesAt[cur][Pinned]
    BY <1>2, <1>parse, <2>1
  <2> QED
    BY <1>2, <1>grow, <2>2, <2>3
<1>3. ASSUME NEW E, E \subseteq PathEdges, Link(E), Workspace, pc = "zed", cur' = cur
      PROVE  EvidenceOK'
  <2> DEFINE added == (UNION {MembersOf(cur, Pinned, m) : m \in Zpkgs}) \cup E
  <2>1. \A m \in Zpkgs : MembersOf(cur, Pinned, m) \cup PathsOf(cur, Pinned, m) \subseteq EdgesOf(cur, Pinned, m)
    BY <1>3 DEF EdgesOf, Workspace
  <2>2. zed' = Extended(added) /\ pins' = pins
    BY <1>3 DEF Link
  <2>3. added \subseteq EdgesAt[cur][Pinned]
    <3>1. PathEdges \subseteq EdgesAt[cur][Pinned]
      BY <1>3, <1>parse, <2>1 DEF PathEdges
    <3>2. UNION {MembersOf(cur, Pinned, m) : m \in Zpkgs} \subseteq EdgesAt[cur][Pinned]
      BY <1>3, <1>parse, <2>1
    <3> QED
      BY <1>3, <3>1, <3>2, Zenon
  <2> HIDE DEF added
  <2> QED
    BY <1>3, <1>grow, <2>2, <2>3
<1>4. ASSUME NEW P, P \subseteq Here.pins, ReadLock(P), pc = "lock", pc' = "modules", cur' = cur
      PROVE  EvidenceOK'
  <2>1. /\ pins' = pins \cup {<<cur, Source, p[1], p[2]>> : p \in P}
        /\ \A p \in pins : p[1] # cur
        /\ \A p \in P : p = <<p[1], p[2]>>
        /\ cur \in Repos /\ IsPinned(cur)
    BY <1>4, <1>old, <1>parse, ContentType DEF ReadLock, PinsOK, Scanning, Here, PinnedRepos
  <2>2. DOMAIN zed' \subseteq Declared'
    BY <1>4, <1>old, <1>keeps, LockSelects
  <2>3. PinsOK'
    BY <1>4, <1>old, <1>keeps, <1>types, <2>1 DEF PinsOK
  <2>4. ASSUME NEW e \in DOMAIN zed', zed'[e] # None
        PROVE  e.kind = "declared" /\ \E r \in Repos : Marked(e, r)'
    <3>1. e \in DOMAIN zed
      BY <1>4, <2>4, LockSelects
    <3>2. CASE zed'[e] = zed[e]
      <4>1. PICK r \in Repos : e.kind = "declared" /\ Marked(e, r)
        BY <1>old, <2>4, <3>1, <3>2 DEF MarksOK
      <4>2. zed[e] \in Versions
        BY <2>4, <3>1, <3>2 DEF TypeOK
      <4>3. r # cur
        BY <2>1, <4>1, <4>2
      <4> QED
        BY <2>1, <3>2, <4>1, <4>3
    <3>3. CASE zed'[e] # zed[e]
      <4>1. /\ e.kind = "declared" /\ e.source = Source
            /\ \A v \in Versions : <<e.target, v>> \in P <=> v = zed'[e]
        BY <1>4, <3>1, <3>3, LockSelects
      <4>2. \A v \in Versions : <<cur, e.source, e.target, v>> \in pins' <=> <<e.target, v>> \in P
        BY <2>1, <4>1
      <4> QED
        BY <2>1, <4>1, <4>2
    <3> QED
      BY <3>2, <3>3
  <2>5. MarksOK'
    BY <2>4 DEF MarksOK
  <2> QED
    BY <1>new, <2>2, <2>3, <2>5
<1>5. ASSUME UNCHANGED graph, pc \in {"zed", "lock"}, cur' = cur
      PROVE  EvidenceOK'
  BY <1>1, <1>5 DEF graph, evidence, Scanning
<1>6. ASSUME UNCHANGED <<zed, pins>>, pc' = "next"
      PROVE  EvidenceOK'
  BY <1>1, <1>6 DEF Scanning
<1>7. CASE ParseManifest
  <2>1. pc = "zed" /\ cur' = cur /\ unparsed # {} /\ unparsed \subseteq Nat
    BY <1>7, InventoryAssumption DEF ParseManifest, Parsing, TypeOK
  <2>2. Least(unparsed) \in Zpkgs
    BY <1>parse, <2>1, LeastIsLeast
  <2> QED
    BY <1>2, <1>7, <2>1, <2>2 DEF ParseManifest
<1>8. CASE LinkWorkspace
  BY <1>3, <1>5, <1>8 DEF LinkWorkspace, Parsing
<1>9. CASE ParseLock
  BY <1>4, <1>5, <1>9 DEF ParseLock, Parsing
<1>10. CASE ParseModules
  BY <1>6, <1>10 DEF ParseModules, Parsing, AddTargets, evidence
<1>11. CASE SourceFailure
  <2>1. CASE pc = "zed"
    <3>1. unparsed # {} /\ ~Workspace /\ cur' = cur
      BY <1>11, <2>1 DEF SourceFailure, Parsing
    <3>2. Least(unparsed) \in Zpkgs
      <4>1. unparsed \subseteq Nat
        BY InventoryAssumption DEF TypeOK
      <4> QED
        BY <1>parse, <2>1, <3>1, <4>1, LeastIsLeast
    <3>3. UNCHANGED graph \/ \E D \in SUBSET Here.declares[Least(unparsed)] : ReadManifest(Least(unparsed), D)
      BY <1>11, <2>1 DEF SourceFailure, Parsing
    <3>4. ASSUME NEW D \in SUBSET Here.declares[Least(unparsed)], ReadManifest(Least(unparsed), D)
          PROVE  EvidenceOK'
      BY <1>2, <2>1, <3>1, <3>2, <3>4
    <3> QED
      BY <1>5, <2>1, <3>1, <3>3, <3>4
  <2>2. CASE pc = "lock"
    BY <1>4, <1>5, <1>11, <2>2 DEF SourceFailure, Parsing
  <2>3. CASE pc = "modules"
    BY <1>6, <1>11, <2>3 DEF SourceFailure, Parsing, AddTargets, evidence
  <2> QED
    BY <1>11, <2>1, <2>2, <2>3 DEF SourceFailure, Parsing
<1>12. CASE ParseRaises
  <2>1. pc \in {"zed", "lock", "modules"} /\ cur' = cur /\ pc' = "next"
    BY <1>12 DEF ParseRaises, ScanFailed
  <2>2. CASE UNCHANGED graph
    BY <1>6, <2>1, <2>2 DEF graph, evidence
  <2>3. ASSUME unparsed # {}, pc = "zed", NEW D \in SUBSET Here.declares[Least(unparsed)],
               ReadManifest(Least(unparsed), D)
        PROVE  EvidenceOK'
    <3>1. Least(unparsed) \in Zpkgs
      <4>1. unparsed \subseteq Nat
        BY InventoryAssumption DEF TypeOK
      <4> QED
        BY <1>parse, <2>3, <4>1, LeastIsLeast
    <3> QED
      BY <1>2, <2>1, <2>3, <3>1
  <2> QED
    BY <1>3, <1>12, <2>1, <2>2, <2>3 DEF ParseRaises
<1>13. CASE \/ OverLimit \/ Retry \/ ListPage \/ ListFails \/ GetRepository \/ GetFails \/ Discovered
            \/ PinBranch \/ GetTree
  BY <1>1, <1>13 DEF OverLimit, Retry, ListPage, ListFails, GetRepository, GetFails, Discovered,
       PinBranch, GetTree, Exceeded, Exit, Scanning, graph, evidence
<1>14. CASE \/ ScanRequestFails \/ ReadingEnds \/ CreateTemp \/ ReplaceOutput \/ SyncDirectory
            \/ WriteFails \/ OutputRefused \/ Killed
  BY <1>1, <1>14 DEF ScanRequestFails, ScanFailed, ReadingEnds, CreateTemp, ReplaceOutput,
       SyncDirectory, WriteFails, OutputRefused, Killed, Exit, Scanning, graph, evidence
<1>15. CASE BeginScan
  <2>1. /\ UNCHANGED <<zed, pins>> /\ cur' \in Repos
        /\ records'[cur'].commit = None
    BY <1>15, <1>types DEF BeginScan, evidence, TypeOK
  <2>2. \A p \in pins : p[1] # cur'
    BY <1>old, <1>keeps, <1>types, <2>1 DEF PinsOK, IsPinned
  <2>3. PinsOK'
    BY <1>old, <1>keeps, <1>types, <2>1, <2>2 DEF PinsOK
  <2> QED
    BY <1>old, <1>new, <1>keeps, <1>marks, <2>1, <2>3
<1>16. ASSUME NEW m, GetBlob(m) \/ Expand(m) \/ MemberRejected(m)
       PROVE  EvidenceOK'
  BY <1>1, <1>16 DEF GetBlob, Expand, MemberRejected, ScanFailed, Scanning, graph, evidence
<1>17. ASSUME NEW r \in Repos, PushBranch(r) \/ Create(r) \/ Remove(r)
       PROVE  EvidenceOK'
  BY <1>1, <1>17 DEF PushBranch, Create, Remove, Environment, graph, evidence
<1>18. CASE UNCHANGED vars
  BY <1>1, <1>18 DEF vars, graph, evidence
<1> QED
  BY <1>7, <1>8, <1>9, <1>10, <1>11, <1>12, <1>13, <1>14, <1>15, <1>16, <1>17, <1>18 DEF Next, Run

\* Locks add no edge between packages, whichever manifests of a workspace and
\* whichever repositories share them, and select for a declared dependency only
\* what a lock of its very source pinned and pinned alone.
THEOREM LocksAreEvidence == Spec => []EvidenceIsNotTopology
<1>1. Init => EvidenceOK
  BY DEF Init, EvidenceOK
<1>2. TypeOK /\ ScanOK /\ ReadingOK /\ EvidenceOK /\ [Next]_vars => EvidenceOK'
  BY StepEvidence
<1>3. EvidenceOK => EvidenceIsNotTopology
  BY DEF EvidenceOK, EvidenceIsNotTopology, Declared, PinnedRepos
<1> QED
  BY <1>1, <1>2, <1>3, InventoryTyping, ReadingHolds, PTL DEF Spec

-----------------------------------------------------------------------------
(* Pages by number.                                                        *)

Below(S, r) == {q \in S : q < r}

LEMMA PageNumber ==
    ASSUME NEW b \in Nat, NEW p \in Nat \ {0}, NEW n \in Nat, p * n <= b, b < p * (n + 1)
    PROVE  b \div p = n
<1> DEFINE q == b \div p
           s == b % p
<1>1. b = p * q + s /\ s >= 0 /\ s < p /\ q \in Int /\ s \in Int
  <2>1. b = p * (b \div p) + (b % p) /\ (b % p) \in 0..(p - 1) /\ b \div p \in Int
    OBVIOUS
  <2> QED
    BY <2>1
<1> HIDE DEF q, s
<1>2. CASE q < n
  <2>1. PICK d \in Nat : n = q + 1 + d
    <3>1. n - q - 1 \in Nat /\ n = q + 1 + (n - q - 1)
      BY <1>2, <1>1
    <3> QED
      BY <3>1
  <2>2. p * n = p * q + p + p * d /\ p * d >= 0
    BY <2>1, <1>1
  <2> QED
    BY <2>2, <1>1
<1>3. CASE q > n
  <2>1. PICK d \in Nat : q = n + 1 + d
    <3>1. q - n - 1 \in Nat /\ q = n + 1 + (q - n - 1)
      BY <1>3, <1>1
    <3> QED
      BY <3>1
  <2>2. p * q = p * (n + 1) + p * d /\ p * d >= 0
    BY <2>1, <1>1
  <2> QED
    BY <2>2, <1>1
<1> QED
  BY <1>1, <1>2, <1>3 DEF q

LEMMA BelowFewer ==
    ASSUME NEW S, S \subseteq Nat, IsFiniteSet(S), NEW r \in Nat
    PROVE  /\ Cardinality(Below(S, r)) \in Nat /\ Cardinality(S) \in Nat
           /\ r \in S => Cardinality(Below(S, r)) < Cardinality(S)
<1>1. IsFiniteSet(Below(S, r)) /\ Cardinality(Below(S, r)) \in Nat /\ Cardinality(S) \in Nat
  BY FS_Subset, FS_CardinalityType DEF Below
<1>2. ASSUME r \in S
      PROVE  Cardinality(Below(S, r)) < Cardinality(S)
  <2>1. IsFiniteSet(S \ {r}) /\ Cardinality(S \ {r}) = Cardinality(S) - 1
    BY <1>2, FS_RemoveElement
  <2>2. Below(S, r) \subseteq S \ {r}
    BY DEF Below
  <2>3. Cardinality(Below(S, r)) <= Cardinality(S \ {r})
    BY <2>1, <2>2, FS_Subset
  <2> QED
    BY <1>1, <2>1, <2>3
<1> QED
  BY <1>1, <1>2

\* A repository that comes or goes moves those after it, and none to a page
\* before its own.
LEMMA BelowGrows ==
    ASSUME NEW S, NEW T, S \subseteq T, T \subseteq Nat, IsFiniteSet(T), NEW r \in Nat
    PROVE  Cardinality(Below(S, r)) <= Cardinality(Below(T, r))
<1>1. Below(S, r) \subseteq Below(T, r) /\ Below(T, r) \subseteq T
  BY DEF Below
<1> QED
  BY <1>1, FS_Subset

LEMMA BelowLoses ==
    ASSUME NEW S, S \subseteq Nat, IsFiniteSet(S), NEW q \in S, NEW r \in S \ {q}
    PROVE  \/ Cardinality(Below(S \ {q}, r)) = Cardinality(Below(S, r))
           \/ Cardinality(Below(S, q)) <= Cardinality(Below(S \ {q}, r))
<1>1. CASE r < q
  BY <1>1, Below(S \ {q}, r) = Below(S, r) DEF Below
<1>2. CASE q < r
  <2>1. Below(S, q) \subseteq Below(S \ {q}, r) /\ Below(S \ {q}, r) \subseteq S
    <3>1. \A x \in S : x < q => x < r /\ x # q
      BY <1>2
    <3> QED
      BY <3>1 DEF Below
  <2> QED
    BY <2>1, FS_Subset
<1> QED
  BY <1>1, <1>2

\* Until a page is missed, what stayed and is not yet listed is on a page still
\* to come.
PagesOK ==
    pc = "list" =>
        /\ page = 0 => steady = Listing /\ listed = {} /\ gone = {}
        /\ steady \subseteq Listing
        /\ ~flickered /\ gone \cap listed = {} =>
               \A r \in steady \ listed : PageSize * page <= Cardinality(Below(Listing, r))

\* What was lost between two pages is not there to be scanned.
GoneOK ==
    ~flickered =>
        \A q \in gone : q \notin exists /\ ~Scanned(q) /\ (Scanning /\ q = cur => pc = "pin")

\* What a complete inventory owes.
Owed == Requested \cup (IF flickered \/ gone \cap metadata # {} THEN {} ELSE steady)

ListedOK ==
    failures = {} =>
        /\ pc = "get" => Owed \subseteq metadata \cup todo
        /\ pc \in {"next", "write", "sync"} \/ Scanning =>
             /\ Owed \subseteq metadata
             /\ \A r \in metadata : Scanned(r) \/ r \in todo \/ (Scanning /\ r = cur)

LEMMA ListingCounts ==
    ASSUME TypeOK
    PROVE  Listing \subseteq Nat /\ IsFiniteSet(Listing) /\ page \in Nat
<1>1. Listing \subseteq Repos
  BY DEF Listing, TypeOK
<1> QED
  BY <1>1, InventoryAssumption, FS_Subset DEF TypeOK

LEMMA PageIsListed ==
    ASSUME TypeOK, NEW r \in Listing, r \notin PageOf(page),
           PageSize * page <= Cardinality(Below(Listing, r))
    PROVE  PageSize * (page + 1) <= Cardinality(Below(Listing, r))
<1> DEFINE b == Cardinality(Below(Listing, r))
<1>1. b \in Nat /\ page \in Nat /\ PageSize \in Nat \ {0}
  BY ListingCounts, BelowFewer, InventoryAssumption
<1>2. b \div PageSize # page
  BY DEF PageOf, Before, Below
<1> HIDE DEF b
<1>3. ~(PageSize * page <= b /\ b < PageSize * (page + 1))
  BY <1>1, <1>2, PageNumber
<1> QED
  BY <1>1, <1>3 DEF b

LEMMA StepPages == TypeOK /\ GoneOK /\ PagesOK /\ [Next]_vars => PagesOK'
<1> SUFFICES ASSUME TypeOK, GoneOK, PagesOK, [Next]_vars
             PROVE  PagesOK'
  OBVIOUS
<1> USE DEF history
<1>count. /\ Listing \subseteq Nat /\ IsFiniteSet(Listing) /\ page \in Nat
          /\ PageSize \in Nat \ {0} /\ OrgRepos \subseteq Repos /\ Repos \subseteq Nat
          /\ IsFiniteSet(Repos) /\ exists \subseteq Repos /\ steady \subseteq OrgRepos
  BY ListingCounts, InventoryAssumption DEF TypeOK
<1>1. CASE pc' # "list"
  BY <1>1 DEF PagesOK
<1>2. CASE UNCHANGED <<pc, exists, page, listed, steady, gone, flickered>>
  BY <1>2 DEF PagesOK, Listing
<1>3. CASE pc' = "list" /\ ListPage
  <2>1. /\ pc = "list" /\ page' = page + 1 /\ listed' = listed \cup PageOf(page)
        /\ UNCHANGED <<exists, steady, gone, flickered>>
    BY <1>3 DEF ListPage, github, Exceeded, Exit
  <2>2. ASSUME ~flickered, gone \cap listed' = {}, NEW r \in steady \ listed'
        PROVE  PageSize * page' <= Cardinality(Below(Listing, r))
    <3>1. PageSize * page <= Cardinality(Below(Listing, r)) /\ r \in Listing
      BY <2>1, <2>2 DEF PagesOK
    <3> QED
      BY <2>1, <2>2, <3>1, PageIsListed
  <2>3. Listing' = Listing
    BY <2>1 DEF Listing
  <2> QED
    BY <2>1, <2>2, <2>3, <1>count DEF PagesOK
<1>4. ASSUME NEW r \in Repos, Create(r), pc = "list"
      PROVE  PagesOK'
  <2>1. /\ Listing' = Listing \cup ({r} \cap OrgRepos) /\ UNCHANGED <<pc, page, listed, gone>>
        /\ flickered => flickered'
    BY <1>4 DEF Create, Environment, Listing
  <2>2. Listing' \subseteq Nat /\ IsFiniteSet(Listing')
    BY <2>1, <1>count, FS_Subset DEF Listing
  <2>3. CASE page = 0
    <3>1. steady' = Listing' /\ listed' = {} /\ gone' = {}
      BY <2>1, <2>3, <1>4 DEF Create, PagesOK
    <3>2. \A q \in Listing' : Cardinality(Below(Listing', q)) \in Nat
      BY <2>2, BelowFewer
    <3> QED
      BY <2>1, <2>3, <3>1, <3>2, <1>count DEF PagesOK
  <2>4. CASE page # 0
    <3>1. steady' = steady
      BY <2>4, <1>4 DEF Create
    <3>2. ASSUME ~flickered', gone \cap listed = {}, NEW q \in steady \ listed
          PROVE  PageSize * page <= Cardinality(Below(Listing', q))
      <4>1. PageSize * page <= Cardinality(Below(Listing, q)) /\ q \in Nat
        BY <1>4, <3>2, <2>1, <1>count DEF PagesOK
      <4>2. Cardinality(Below(Listing, q)) <= Cardinality(Below(Listing', q))
        BY <4>1, <2>1, <2>2, BelowGrows
      <4>3. Cardinality(Below(Listing, q)) \in Nat /\ Cardinality(Below(Listing', q)) \in Nat
        BY <4>1, <2>2, <1>count, BelowFewer
      <4> QED
        BY <4>1, <4>2, <4>3, <1>count
    <3> QED
      BY <2>1, <2>4, <3>1, <3>2, <1>4 DEF PagesOK
  <2> QED
    BY <2>3, <2>4
<1>5. ASSUME NEW r \in Repos, Remove(r), pc = "list"
      PROVE  PagesOK'
  <2>1. /\ r \in exists /\ steady' = steady \ {r} /\ Listing' = Listing \ {r}
        /\ UNCHANGED <<pc, page, listed>>
        /\ page # 0 => gone' = gone \cup ({r} \cap OrgRepos)
        /\ page = 0 => gone' = gone
        /\ ~flickered' => ~flickered /\ (page # 0 /\ r \in OrgRepos => r \in steady \cup listed)
    <3>1. flickered' <=> flickered \/ (page > 0 /\ r \in OrgRepos \ (steady \cup listed))
      BY <1>5, Zenon DEF Remove
    <3> QED
      BY <1>5, <3>1, <1>count DEF Remove, Environment, Listing
  <2>2. /\ page = 0 => steady' = Listing' /\ listed' = {} /\ gone' = {}
        /\ steady' \subseteq Listing'
    BY <2>1, <1>5 DEF PagesOK
  <2>3. ASSUME ~flickered', gone' \cap listed = {}, NEW q \in steady \ {r}, q \notin listed
        PROVE  PageSize * page <= Cardinality(Below(Listing \ {r}, q))
    <3>1. PageSize * page <= Cardinality(Below(Listing, q)) /\ q \in Listing
      BY <1>5, <2>1, <2>3 DEF PagesOK
    <3>2. CASE r \notin Listing
      BY <3>1, <3>2, Listing \ {r} = Listing
    <3>3. CASE r \in Listing /\ page = 0
      <4>1. Cardinality(Below(Listing \ {r}, q)) \in Nat
        BY <3>1, <1>count, FS_Subset, BelowFewer
      <4> QED
        BY <3>3, <4>1, <1>count
    <3>4. CASE r \in Listing /\ page # 0
      <4>1. r \in steady \ listed
        BY <2>1, <2>3, <3>4 DEF Listing
      <4>2. PageSize * page <= Cardinality(Below(Listing, r))
        BY <1>5, <2>1, <2>3, <4>1 DEF PagesOK
      <4>3. /\ Cardinality(Below(Listing, q)) \in Nat /\ Cardinality(Below(Listing, r)) \in Nat
            /\ Cardinality(Below(Listing \ {r}, q)) \in Nat
        BY <3>1, <3>4, <1>count, FS_Subset, BelowFewer
      <4>4. \/ Cardinality(Below(Listing \ {r}, q)) = Cardinality(Below(Listing, q))
            \/ Cardinality(Below(Listing, r)) <= Cardinality(Below(Listing \ {r}, q))
        BY <3>1, <3>4, <2>3, <1>count, BelowLoses
      <4> QED
        BY <3>1, <4>2, <4>3, <4>4, <1>count
    <3> QED
      BY <3>2, <3>3, <3>4
  <2> QED
    BY <2>1, <2>2, <2>3 DEF PagesOK
<1>6. ASSUME NEW r \in Repos, PushBranch(r)
      PROVE  PagesOK'
  BY <1>2, <1>6 DEF PushBranch, Environment
<1>7. ASSUME NEW r \in Repos, Create(r) \/ Remove(r), pc # "list"
      PROVE  PagesOK'
  BY <1>1, <1>7 DEF Create, Remove, Environment
<1>8. CASE Retry
  BY <1>2, <1>8 DEF Retry, github
<1>9. CASE UNCHANGED vars
  BY <1>2, <1>9 DEF vars, github
<1>10. CASE \/ OverLimit \/ ListFails \/ GetRepository \/ GetFails \/ Discovered
            \/ BeginScan \/ PinBranch \/ GetTree \/ ScanRequestFails \/ ReadingEnds
            \/ ParseManifest \/ LinkWorkspace \/ ParseLock \/ ParseModules \/ SourceFailure \/ ParseRaises
            \/ CreateTemp \/ ReplaceOutput \/ SyncDirectory \/ WriteFails \/ OutputRefused \/ Killed
  BY <1>1, <1>10 DEF OverLimit, ListFails, GetRepository, GetFails, Discovered, BeginScan, PinBranch,
       GetTree, ScanRequestFails, ReadingEnds, ParseManifest, LinkWorkspace, OutputRefused, ParseLock, ParseModules, SourceFailure,
       ParseRaises, CreateTemp, ReplaceOutput, SyncDirectory, WriteFails, Killed, Exceeded, Exit,
       Parsing, ScanFailed
<1>11. ASSUME NEW m, GetBlob(m) \/ Expand(m) \/ MemberRejected(m)
       PROVE  PagesOK'
  BY <1>1, <1>11 DEF GetBlob, Expand, MemberRejected, ScanFailed
<1> QED
  BY <1>1, <1>3, <1>4, <1>5, <1>6, <1>7, <1>8, <1>9, <1>10, <1>11 DEF Next, Run

LEMMA StepGone == TypeOK /\ ScanOK /\ GoneOK /\ [Next]_vars => GoneOK'
<1> SUFFICES ASSUME TypeOK, ScanOK, GoneOK, [Next]_vars, ~flickered', NEW q \in gone'
             PROVE  q \notin exists' /\ ~Scanned(q)' /\ (Scanning' /\ q = cur' => pc' = "pin")
  BY DEF GoneOK
<1> USE DEF history
<1>types. /\ records \in [Repos -> Record \cup {None}] /\ q \in Repos
          /\ todo # {} => Least(todo) \in todo
          /\ todo \subseteq Repos
  <2>1. gone' \subseteq Repos
    BY StepTyped, InventoryAssumption DEF TypeOK
  <2> QED
    BY <2>1, LeastIsLeast, InventoryAssumption DEF TypeOK
<1>cur. Scanning => cur \in Repos /\ records[cur] \in Record /\ records[cur].status = "scanning"
  BY <1>types DEF ScanOK
<1>old. q \in gone /\ ~flickered =>
          q \notin exists /\ ~Scanned(q) /\ (Scanning /\ q = cur => pc = "pin")
  BY DEF GoneOK
<1>1. ASSUME UNCHANGED <<exists, gone, flickered, records, cur>>, Scanning' /\ pc' # "pin" => Scanning /\ pc # "pin"
      PROVE  q \notin exists' /\ ~Scanned(q)' /\ (Scanning' /\ q = cur' => pc' = "pin")
  BY <1>1, <1>old DEF Scanned
<1>2. ASSUME UNCHANGED <<exists, gone, flickered>>, Scanned(q)' => Scanned(q), ~Scanning' \/ pc' = "pin"
      PROVE  q \notin exists' /\ ~Scanned(q)' /\ (Scanning' /\ q = cur' => pc' = "pin")
  BY <1>2, <1>old
<1>3. ASSUME UNCHANGED <<exists, gone, flickered, cur>>, q # cur,
             \A r \in Repos \ {cur} : records'[r] = records[r]
      PROVE  q \notin exists' /\ ~Scanned(q)' /\ (Scanning' /\ q = cur' => pc' = "pin")
  BY <1>3, <1>old, <1>types DEF Scanned
<1>4. CASE PinBranch
  <2>1. q # cur
    BY <1>4, <1>old DEF PinBranch, github
  <2> QED
    BY <1>3, <1>4, <2>1, <1>types DEF PinBranch, github
<1>5. CASE ReadingEnds
  BY <1>3, <1>5, <1>old, <1>types DEF ReadingEnds, github, Scanning
<1>6. CASE ParseModules \/ SourceFailure
  <2>1. UNCHANGED <<exists, gone, flickered, cur>> /\ Scanning /\ pc # "pin"
    BY <1>6 DEF ParseModules, SourceFailure, Parsing, github, Scanning
  <2>2. UNCHANGED records \/ EndScan
    BY <1>6 DEF ParseModules, SourceFailure
  <2>3. CASE UNCHANGED records
    BY <1>1, <2>1, <2>3
  <2>4. CASE EndScan
    BY <1>3, <1>old, <1>types, <2>1, <2>4 DEF EndScan
  <2> QED
    BY <2>2, <2>3, <2>4
<1>7. CASE GetFails
  BY <1>2, <1>7, <1>types DEF GetFails, Failed, Scanned, Scanning, github
<1>8. CASE BeginScan
  BY <1>2, <1>8, <1>types DEF BeginScan, Exceeded, Exit, Scanned, Scanning, github
<1>9. CASE ScanFailed /\ Scanning /\ UNCHANGED <<exists, gone, flickered>>
  BY <1>2, <1>9, <1>types, <1>cur DEF ScanFailed, Scanned, Scanning, Record
<1>10. CASE ScanRequestFails \/ ParseRaises
  BY <1>9, <1>10 DEF ScanRequestFails, ParseRaises, Scanning, github
<1>11. ASSUME NEW m \in unread, MemberRejected(m)
       PROVE  q \notin exists' /\ ~Scanned(q)' /\ (Scanning' /\ q = cur' => pc' = "pin")
  BY <1>9, <1>11 DEF MemberRejected, Scanning, github
<1>12. CASE \/ OverLimit \/ Retry \/ ListPage \/ ListFails \/ GetRepository \/ Discovered
            \/ CreateTemp \/ ReplaceOutput \/ SyncDirectory \/ WriteFails \/ OutputRefused \/ Killed
  BY <1>1, <1>12 DEF OutputRefused, OverLimit, Retry, ListPage, ListFails, GetRepository, Discovered, CreateTemp,
       ReplaceOutput, SyncDirectory, WriteFails, Killed, Exceeded, Exit, Scanning, github
<1>13. CASE GetTree \/ ParseManifest \/ LinkWorkspace \/ ParseLock
  BY <1>1, <1>13 DEF GetTree, ParseManifest, LinkWorkspace, ParseLock, Parsing, Scanning, github
<1>14. ASSUME NEW m, GetBlob(m) \/ Expand(m)
       PROVE  q \notin exists' /\ ~Scanned(q)' /\ (Scanning' /\ q = cur' => pc' = "pin")
  BY <1>1, <1>14 DEF GetBlob, Expand, Scanning, github
<1>15. ASSUME NEW r \in Repos, PushBranch(r)
       PROVE  q \notin exists' /\ ~Scanned(q)' /\ (Scanning' /\ q = cur' => pc' = "pin")
  BY <1>1, <1>15 DEF PushBranch, Environment, Scanning
<1>16. ASSUME NEW r \in Repos, Create(r)
       PROVE  q \notin exists' /\ ~Scanned(q)' /\ (Scanning' /\ q = cur' => pc' = "pin")
  <2>1. q \in gone /\ ~flickered /\ q # r
    <3>1. flickered' <=> flickered \/ r \in gone
      BY <1>16, Zenon DEF Create
    <3> QED
      BY <1>16, <3>1 DEF Create
  <2> QED
    BY <1>16, <1>old, <2>1 DEF Create, Environment, Scanned, Scanning
<1>17. ASSUME NEW r \in Repos, Remove(r)
       PROVE  q \notin exists' /\ ~Scanned(q)' /\ (Scanning' /\ q = cur' => pc' = "pin")
  <2>1. CASE pc = "list"
    <3>1. ~flickered
      BY <1>17, <2>1, Zenon DEF Remove
    <3>2. ~Scanned(q) /\ UNCHANGED <<records, pc>>
      BY <1>17, <2>1, <1>types DEF ScanOK, Discovering, Untouched, Failed, Scanned, Remove, Environment
    <3>3. q \notin exists'
      BY <1>17, <2>1, <3>1, <1>old DEF Remove
    <3> QED
      BY <2>1, <3>2, <3>3 DEF Scanned, Scanning
  <2>2. CASE pc # "list"
    BY <1>17, <2>2, <1>old DEF Remove, Environment, Scanned, Scanning
  <2> QED
    BY <2>1, <2>2
<1>18. CASE UNCHANGED vars
  BY <1>1, <1>18 DEF vars, github, Scanning
<1> QED
  BY <1>4, <1>5, <1>6, <1>7, <1>8, <1>10, <1>11, <1>12, <1>13, <1>14, <1>15, <1>16, <1>17, <1>18
     DEF Next, Run

\* The last page: what stayed is listed, unless a lost repository was.
LEMMA LastPage ==
    ASSUME TypeOK, ScanOK, PagesOK, ListPage, pc' = "get"
    PROVE  Owed' \subseteq metadata' \cup todo'
<1>1. /\ pc = "list" /\ page' = page + 1 /\ listed' = listed \cup PageOf(page)
      /\ UNCHANGED <<exists, steady, gone, flickered, todo>>
      /\ PageSize * (page + 1) >= Cardinality(Listing) /\ metadata' = listed'
      /\ page \in Nat /\ PageSize \in Nat \ {0} /\ Cardinality(Listing) \in Nat
  <2>1. /\ page \in Nat /\ PageSize \in Nat \ {0}
        /\ Cardinality(Listing) \in Nat
    BY ListingCounts, InventoryAssumption, FS_CardinalityType
  <2>2. ~(PageSize * (page + 1) < Cardinality(Listing))
    BY DEF ListPage
  <2> QED
    BY <2>1, <2>2 DEF ListPage, github, history, Exceeded, Exit
<1>2. ASSUME ~flickered, gone \cap listed' = {}, NEW r \in steady
      PROVE  r \in listed'
  <2> SUFFICES ASSUME r \notin listed'
               PROVE  FALSE
    OBVIOUS
  <2>1. PageSize * page <= Cardinality(Below(Listing, r)) /\ r \in Listing
    BY <1>1, <1>2 DEF PagesOK
  <2>2. PageSize * (page + 1) <= Cardinality(Below(Listing, r))
    BY <1>1, <2>1, PageIsListed
  <2>3. Cardinality(Below(Listing, r)) \in Nat /\ Cardinality(Below(Listing, r)) < Cardinality(Listing)
    BY <2>1, ListingCounts, BelowFewer
  <2> QED
    BY <1>1, <2>2, <2>3
<1>3. todo' = Requested
  BY <1>1 DEF ScanOK
<1> QED
  BY <1>1, <1>2, <1>3 DEF Owed

LEMMA StepListed ==
    TypeOK /\ ScanOK /\ PagesOK /\ ListedOK /\ [Next]_vars => ListedOK'
<1> SUFFICES ASSUME TypeOK, ScanOK, PagesOK, ListedOK, [Next]_vars
             PROVE  ListedOK'
  OBVIOUS
<1> USE DEF history
<1>keeps. (\A r \in Repos : Scanned(r) => Scanned(r)') /\ failures \subseteq failures'
  BY StepKeeps DEF Keeps, Scanned
<1>types. /\ todo # {} => Least(todo) \in todo
          /\ todo \subseteq Repos /\ metadata \subseteq Repos
  BY LeastIsLeast, InventoryAssumption DEF TypeOK
<1>1. CASE pc' \in {"list", "done"} \/ failures' # {}
  BY <1>1 DEF ListedOK, Scanning
<1>2. ASSUME UNCHANGED <<metadata, todo, cur>>, Owed' \subseteq Owed,
             pc' = pc \/ (Scanning /\ Scanning')
      PROVE  ListedOK'
  BY <1>2, <1>keeps, <1>types DEF ListedOK, Scanning
<1>3. ASSUME UNCHANGED <<metadata, steady, gone>>, flickered => flickered'
      PROVE  Owed' \subseteq Owed
  BY <1>3 DEF Owed
<1>4. CASE ListPage
  <2>1. CASE pc' = "get"
    BY <1>4, <2>1, LastPage DEF ListedOK, Scanning
  <2>2. CASE pc' # "get"
    BY <1>1, <1>4, <2>2 DEF ListPage, Exceeded, Exit
  <2> QED
    BY <2>1, <2>2
<1>5. CASE ListFails \/ GetFails \/ SourceFailure \/ ScanRequestFails \/ ParseRaises
  <2>1. failures' # {}
    BY <1>5 DEF ListFails, GetFails, SourceFailure, ScanRequestFails, ParseRaises, ScanFailed
  <2> QED
    BY <1>1, <2>1
<1>6. ASSUME NEW m \in unread, MemberRejected(m)
      PROVE  ListedOK'
  BY <1>1, <1>6 DEF MemberRejected, ScanFailed
<1>7. CASE GetRepository
  BY <1>7, <1>types DEF GetRepository, ListedOK, Owed, Scanning
<1>8. CASE Discovered
  <2>1. Owed' \subseteq Owed
    BY <1>3, <1>8 DEF Discovered
  <2> QED
    BY <1>8, <2>1 DEF Discovered, Exceeded, Exit, ListedOK, Scanning
<1>9. CASE BeginScan
  <2>1. Owed' \subseteq Owed
    BY <1>3, <1>9 DEF BeginScan
  <2> QED
    BY <1>9, <2>1, <1>types, <1>keeps DEF BeginScan, Exceeded, Exit, ListedOK, Scanning
<1>10. CASE PinBranch \/ GetTree \/ ReadingEnds \/ ParseManifest \/ LinkWorkspace \/ ParseLock
  <2>1. Owed' \subseteq Owed
    BY <1>3, <1>10 DEF PinBranch, GetTree, ReadingEnds, ParseManifest, LinkWorkspace, ParseLock, Parsing
  <2> QED
    BY <1>2, <1>10, <2>1 DEF PinBranch, GetTree, ReadingEnds, ParseManifest, LinkWorkspace, ParseLock, Parsing, Scanning
<1>11. CASE ParseModules
  <2>1. Owed' \subseteq Owed
    BY <1>3, <1>11 DEF ParseModules, Parsing
  <2>2. Scanned(cur)'
    <3>1. cur \in Repos /\ records[cur] \in Record
      BY <1>11 DEF ParseModules, Parsing, Scanning, ScanOK, TypeOK
    <3>2. records'[cur] \in Record /\ records'[cur].status = "scanned"
      BY <1>11, <3>1 DEF ParseModules, EndScan, TypeOK, Record
    <3>3. cur' = cur
      BY <1>11 DEF ParseModules, Parsing
    <3> QED
      BY <3>2, <3>3, NoneAssumption DEF Scanned
  <2> QED
    BY <1>11, <2>1, <2>2, <1>keeps, <1>types DEF ParseModules, Parsing, ListedOK, Scanning
<1>12. CASE CreateTemp \/ ReplaceOutput
  <2>1. Owed' \subseteq Owed
    BY <1>3, <1>12 DEF CreateTemp, ReplaceOutput
  <2> QED
    BY <1>12, <2>1, <1>keeps, <1>types DEF CreateTemp, ReplaceOutput, ListedOK, Scanning
<1>13. CASE OverLimit \/ SyncDirectory \/ WriteFails \/ OutputRefused \/ Killed
  BY <1>1, <1>13 DEF OutputRefused, OverLimit, SyncDirectory, WriteFails, Killed, Exceeded, Exit
<1>14. CASE Retry \/ UNCHANGED vars
  BY <1>2, <1>3, <1>14 DEF Retry, vars
<1>15. ASSUME NEW m, GetBlob(m) \/ Expand(m)
       PROVE  ListedOK'
  BY <1>2, <1>3, <1>15 DEF GetBlob, Expand
<1>16. ASSUME NEW r \in Repos, PushBranch(r)
       PROVE  ListedOK'
  BY <1>2, <1>3, <1>16 DEF PushBranch, Environment
<1>17. ASSUME NEW r \in Repos, Create(r), pc # "list"
       PROVE  ListedOK'
  <2>1. flickered => flickered'
    BY <1>17, Zenon DEF Create
  <2> QED
    BY <1>2, <1>3, <1>17, <2>1 DEF Create, Environment
<1>18. ASSUME NEW r \in Repos, Remove(r), pc # "list"
       PROVE  ListedOK'
  BY <1>2, <1>3, <1>18 DEF Remove, Environment
<1>19. ASSUME NEW r \in Repos, Create(r) \/ Remove(r), pc = "list"
       PROVE  ListedOK'
  BY <1>1, <1>19 DEF Create, Remove, Environment
<1> QED
  BY <1>4, <1>5, <1>6, <1>7, <1>8, <1>9, <1>10, <1>11, <1>12, <1>13, <1>14, <1>15, <1>16, <1>17,
     <1>18, <1>19 DEF Next, Run

LEMMA StepWhole ==
    TypeOK /\ ScanOK /\ FileOK /\ GoneOK /\ ListedOK /\ CompleteIsWhole /\ [Next]_vars => CompleteIsWhole'
<1> SUFFICES ASSUME TypeOK, ScanOK, FileOK, GoneOK, ListedOK, CompleteIsWhole, [Next]_vars
             PROVE  CompleteIsWhole'
  OBVIOUS
<1> USE DEF history, file
<1>types. Requested \subseteq Repos /\ steady \subseteq Repos
  BY InventoryAssumption DEF TypeOK
<1>1. CASE pc \notin {"sync", "done"} /\ UNCHANGED output
  BY <1>1 DEF FileOK, CompleteIsWhole
<1>2. ASSUME UNCHANGED <<output, records>>, pc \in {"sync", "done"},
             UNCHANGED steady, flickered => flickered'
      PROVE  CompleteIsWhole'
  BY <1>2 DEF CompleteIsWhole, Scanned
<1>3. CASE ReplaceOutput
  <2>1. /\ UNCHANGED <<records, steady, gone, flickered, metadata>> /\ pc = "write" /\ todo = {}
        /\ output' = "complete" => failures = {}
    BY <1>3 DEF ReplaceOutput, Completeness, ScanOK
  <2>2. ASSUME failures = {}
        PROVE  \A r \in Requested \cup (IF flickered THEN {} ELSE steady) : Scanned(r)
    <3>1. (\A r \in metadata : Scanned(r)) /\ Owed \subseteq metadata
      BY <2>1, <2>2 DEF ListedOK, Scanning
    <3>2. ~flickered => gone \cap metadata = {}
      BY <3>1 DEF GoneOK
    <3> QED
      BY <3>1, <3>2 DEF Owed
  <2> QED
    BY <2>1, <2>2 DEF CompleteIsWhole, Scanned
<1>4. CASE SyncDirectory \/ WriteFails \/ OutputRefused \/ Killed
  BY <1>1, <1>2, <1>4 DEF OutputRefused, SyncDirectory, WriteFails, Killed
<1>5. CASE \/ OverLimit \/ Retry \/ ListPage \/ ListFails \/ GetRepository \/ GetFails \/ Discovered
           \/ BeginScan \/ PinBranch \/ GetTree \/ ScanRequestFails \/ ReadingEnds
           \/ ParseManifest \/ LinkWorkspace \/ ParseLock \/ ParseModules \/ SourceFailure
           \/ ParseRaises \/ CreateTemp
  <2>1. pc \notin {"sync", "done"} /\ UNCHANGED output
    BY <1>5 DEF OverLimit, Retry, Requesting, ListPage, ListFails, GetRepository, GetFails, Discovered,
                BeginScan, PinBranch, GetTree, ScanRequestFails, ReadingEnds, ParseManifest,
                LinkWorkspace, ParseLock, ParseModules, SourceFailure, ParseRaises, CreateTemp, Parsing
  <2> QED
    BY <1>1, <2>1
<1>6. ASSUME NEW m, GetBlob(m) \/ Expand(m) \/ MemberRejected(m)
      PROVE  CompleteIsWhole'
  BY <1>1, <1>6 DEF GetBlob, Expand, MemberRejected
<1>7. ASSUME NEW r \in Repos, PushBranch(r) \/ Create(r) \/ Remove(r)
      PROVE  CompleteIsWhole'
  <2>1. UNCHANGED <<output, records>>
    BY <1>7 DEF PushBranch, Create, Remove, Environment
  <2>2. CASE pc \in {"sync", "done"}
    <3>1. UNCHANGED steady
      BY <1>7, <2>2 DEF PushBranch, Create, Remove
    <3>2. flickered => flickered'
      <4>1. CASE Create(r)
        BY <4>1, Zenon DEF Create
      <4>2. CASE PushBranch(r) \/ Remove(r)
        BY <4>2, <2>2 DEF PushBranch, Remove
      <4> QED
        BY <1>7, <4>1, <4>2
    <3> QED
      BY <1>2, <2>1, <2>2, <3>1, <3>2
  <2> QED
    BY <1>1, <2>1, <2>2
<1>8. CASE UNCHANGED vars
  BY <1>8 DEF vars, CompleteIsWhole, Scanned
<1> QED
  BY <1>3, <1>4, <1>5, <1>6, <1>7, <1>8 DEF Next, Run

\* A complete inventory has scanned what it was asked for and what stayed in
\* the organization while it was listed: pages by number lose a repository
\* that stayed only when one before it went, whose own scan then fails.
THEOREM CompleteInventories == Spec => []CompleteIsWhole
<1> DEFINE Inv == GoneOK /\ PagesOK /\ ListedOK /\ CompleteIsWhole
<1>1. Init => Inv
  <2> SUFFICES ASSUME Init
               PROVE  Inv
    OBVIOUS
  <2>1. GoneOK /\ ListedOK /\ CompleteIsWhole
    BY DEF Init, GoneOK, ListedOK, CompleteIsWhole, Scanning
  <2>2. TypeOK /\ steady = Listing /\ page = 0 /\ listed = {} /\ gone = {}
    BY InitTyped DEF Init, Listing
  <2>3. \A r \in Listing : Cardinality(Below(Listing, r)) \in Nat
    BY <2>2, ListingCounts, BelowFewer
  <2>4. PagesOK
    BY <2>2, <2>3, InventoryAssumption DEF PagesOK
  <2> QED
    BY <2>1, <2>4
<1>2. TypeOK /\ ScanOK /\ FileOK /\ Inv /\ [Next]_vars => Inv'
  BY StepGone, StepPages, StepListed, StepWhole
<1>3. Inv => CompleteIsWhole
  OBVIOUS
<1> HIDE DEF Inv
<1> QED
  BY <1>1, <1>2, <1>3, InventoryTyping, FileHolds, PTL DEF Spec
=============================================================================
