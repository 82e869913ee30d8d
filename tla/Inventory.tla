----------------------------- MODULE Inventory -----------------------------
(***************************************************************************)
(* The GitHub dependency inventory (harness/github_inventory_*.py): one    *)
(* run of github_dependency_inventory.py over an organization and a list   *)
(* of repositories that people go on changing while it reads them.         *)
(*                                                                         *)
(* A request is answered, answered with a transient status and repeated,   *)
(* refused, or takes the run over one of its hard limits; the limits on    *)
(* time, bytes and tree entries are left open (LimitError), those on       *)
(* requests, repositories and nodes are counted.  A repository holds, per  *)
(* commit, Zed manifests, each with its package, its dependencies and the  *)
(* workspace members it declares, lock pins, and submodules; dev tables,   *)
(* whose edges no lock marks, and Nix sources, which add nodes and edges   *)
(* as submodules do, are left out.                                         *)
(***************************************************************************)
EXTENDS Integers, FiniteSets

CONSTANTS
    Repos,            \* repositories, numbered in the order of their names
    OrgRepos,         \* those that can belong to the requested organization
    Requested,        \* --repo
    PageSize,         \* per_page of the listing
    Commits,          \* heads of a default branch, 0 and up
    Files,            \* paths of manifests, numbered in their order
    Targets,          \* repositories that submodules name
    Packages,         \* package nodes: coordinates, of a workspace member with its version
    Versions,         \* requirements and exact versions
    Tree,             \* [Repos -> [Commits -> what the commit holds]]
    Root,             \* .zpkg.toml
    Lock,             \* .zpkg.lock
    Modules,          \* .gitmodules
    MaxRequests, MaxRetries, MaxRepositories, MaxNodes,
    MaxEvents,        \* bound: changes on GitHub
    None

\* _selected_manifest_paths.
Selected == {Root, Lock, Modules}

ASSUME InventoryAssumption ==
    /\ Repos \subseteq Nat /\ IsFiniteSet(Repos)
    /\ OrgRepos \subseteq Repos /\ Requested \subseteq Repos
    /\ PageSize \in Nat \ {0}
    /\ Commits \subseteq Nat /\ 0 \in Commits /\ Files \subseteq Nat
    /\ MaxRequests \in Nat /\ MaxRetries \in Nat /\ MaxRepositories \in Nat
    /\ MaxNodes \in Nat /\ MaxEvents \in Nat /\ IsFiniteSet(Versions)
    /\ Selected \subseteq Files

Content == [files : SUBSET Files,                \* manifests it holds
            members : [Files -> SUBSET Files],   \* workspace members a manifest declares
            package : [Files -> Packages \cup {None}],
            declares : [Files -> SUBSET (Packages \X Versions)],
            paths : [Files -> SUBSET Files],     \* members it depends on by path
            pins : SUBSET (Packages \X Versions),
            links : SUBSET Targets]              \* submodules

\* A member path, and the path of a dependency, name a directory below the root:
\* never a selected path.
ASSUME TreeAssumption ==
    /\ Tree \in [Repos -> [Commits -> Content]]
    /\ \A r \in Repos, c \in Commits, m \in Files :
          (Tree[r][c].members[m] \cup Tree[r][c].paths[m]) \cap Selected = {}

Record == [status : {"scanning", "scanned", "failed"},
           commit : Commits \cup {None},
           manifests : SUBSET Files]

\* What main returns; a traceback ends the process with status 1 as well.
Exits == {"0", "1", "2", "3", "traceback", "killed"}

\* "Nothing yet" is none of the things it stands for.
ASSUME NoneAssumption ==
    /\ None \notin Commits /\ None \notin Repos /\ None \notin Record /\ None \notin Exits
    /\ None \notin Packages /\ None \notin Files

VARIABLES
    exists, head, events,  \* GitHub: repositories, default branches, bound
    pc,          \* the request or the step the run is at
    requests,    \* Budget.requests
    tries,       \* attempts already made for the request at hand
    page,        \* list_org_repositories: the next page
    listed,      \* ... and what the earlier pages returned
    metadata,    \* repositories to scan
    todo,        \* explicit requests, then scans, not yet done
    cur,         \* the repository being scanned
    blobs,       \* _scan_repository: manifests read
    unread,      \* ... and selected or declared ones not yet read
    frontier,    \* _expand_zed_workspace_manifests: manifests to expand
    declared,    \* ... and the members declared so far
    records,     \* repository_records
    scannedNodes, nodes, edges, failures,
    unparsed,    \* _parse_zed_manifests: manifests not yet parsed
    packages,    \* package nodes -> zed_manifest_path
    roots,       \* package_roots
    zed,         \* edges between packages -> selected version
    pins,        \* lock-pin evidence: repository, source, package, version
    contradictions,
    temp, output, exit,
    steady,      \* history: in the organization from the first page to the last
    gone,        \* history: repositories it lost between two pages
    flickered,   \* history: one of them came back, or one came and went unlisted
    limited      \* history: a hard limit was exceeded

github == <<exists, head, events>>
scan == <<blobs, unread, frontier, declared>>
evidence == <<unparsed, packages, roots, zed, pins, contradictions>>
graph == <<scannedNodes, nodes, edges, evidence>>
file == <<temp, output, exit>>
history == <<steady, gone, flickered>>
vars == <<github, pc, requests, tries, page, listed, metadata, todo, cur, scan,
          records, graph, failures, file, history, limited>>

Least(S) == CHOOSE n \in S : \A m \in S : n <= m
Held(r, c) == Tree[r][c]
Pinned == records[cur].commit
Here == Held(cur, Pinned)

\* Repositories and packages share one limit.
Within(N, P) == Cardinality(N) + Cardinality(P) <= MaxNodes

Init ==
    /\ exists \in SUBSET Repos
    /\ head = [r \in Repos |-> 0] /\ events = 0
    /\ pc = "list" /\ requests = 0 /\ tries = 0
    /\ page = 0 /\ listed = {} /\ metadata = {} /\ todo = Requested /\ cur = None
    /\ blobs = {} /\ unread = {} /\ frontier = {} /\ declared = {}
    /\ records = [r \in Repos |-> None]
    /\ scannedNodes = {} /\ nodes = {} /\ edges = {} /\ failures = {}
    /\ unparsed = {} /\ packages = <<>> /\ roots = [r \in Repos |-> None]
    /\ zed = <<>> /\ pins = {} /\ contradictions = {}
    /\ temp = FALSE /\ output = "prior" /\ exit = None
    /\ steady = exists \cap OrgRepos /\ gone = {} /\ flickered = FALSE
    /\ limited = FALSE

-----------------------------------------------------------------------------
(* People and other tools change GitHub while the run reads it.  The run   *)
(* sees GitHub in its requests only: what changes between two of them is   *)
(* taken to change before the second.                                      *)

Requesting == pc \in {"list", "get", "pin", "tree", "blob"}

Environment ==
    /\ Requesting /\ events < MaxEvents
    /\ events' = events + 1
    /\ UNCHANGED <<pc, requests, tries, page, listed, metadata, todo, cur, scan,
                   records, graph, failures, file, limited>>

PushBranch(r) ==
    /\ r \in exists /\ head[r] + 1 \in Commits
    /\ head' = [head EXCEPT ![r] = @ + 1]
    /\ Environment
    /\ UNCHANGED <<exists, history>>

Create(r) ==
    /\ r \in Repos \ exists
    /\ exists' = exists \cup {r}
    /\ steady' = IF pc = "list" /\ page = 0 THEN steady \cup ({r} \cap OrgRepos) ELSE steady
    /\ flickered' = (flickered \/ r \in gone)
    /\ Environment
    /\ UNCHANGED <<head, gone>>

Remove(r) ==
    /\ r \in exists
    /\ exists' = exists \ {r}
    /\ IF pc = "list"
         THEN /\ steady' = steady \ {r}
              /\ gone' = IF page > 0 THEN gone \cup ({r} \cap OrgRepos) ELSE gone
              /\ flickered' = (flickered \/ (page > 0 /\ r \in OrgRepos \ (steady \cup listed)))
         ELSE UNCHANGED history
    /\ Environment
    /\ UNCHANGED head

-----------------------------------------------------------------------------
(* GitHubClient._get_json and Budget.                                      *)

Exit(code) == pc' = "done" /\ exit' = code
Exceeded == Exit("3") /\ limited' = TRUE

\* One more request within the budget.
Asked == /\ requests < MaxRequests
         /\ requests' = requests + 1

\* Mutant: the scan takes a limit for one more InventoryError.
LimitRecorded ==
    /\ pc \in {"pin", "tree", "blob"}
    /\ limited' = TRUE
    /\ failures' = failures \cup {"repository-scan"}
    /\ records' = [records EXCEPT ![cur].status = "failed"]
    /\ pc' = "next"
    /\ UNCHANGED <<github, requests, tries, page, listed, metadata, todo, cur, scan,
                   graph, file, history>>

\* A hard limit: the request budget is spent, or time, bytes or entries are.
\* The exception passes every handler of the run up to main.
OverLimit ==
    /\ \/ Requesting
       \/ pc = "next" /\ todo # {}
       \/ pc \in {"zed", "lock", "modules"}
    /\ Exceeded
    /\ UNCHANGED <<github, requests, tries, page, listed, metadata, todo, cur, scan,
                   records, graph, failures, temp, output, history>>

\* Mutant: a repeated request is not counted.
RetryUncounted ==
    /\ Requesting /\ requests < MaxRequests /\ MaxRetries > 0
    /\ tries' = 1 - tries
    /\ UNCHANGED <<github, pc, requests, page, listed, metadata, todo, cur, scan,
                   records, graph, failures, file, history, limited>>

\* 429, 502, 503, 504 or an exhausted rate limit, with attempts left.
Retry ==
    /\ Requesting /\ Asked
    /\ tries < MaxRetries
    /\ tries' = tries + 1
    /\ UNCHANGED <<github, pc, page, listed, metadata, todo, cur, scan,
                   records, graph, failures, file, history, limited>>

Answered == Asked /\ tries' = 0

-----------------------------------------------------------------------------
(* _discover_repositories.                                                 *)

Listing == exists \cap OrgRepos
Before(r) == Cardinality({q \in Listing : q < r})
PageOf(n) == {r \in Listing : Before(r) \div PageSize = n}

\* One page, by number; GitHub names a next page while there are more.
ListPage ==
    /\ pc = "list" /\ Answered
    /\ page' = page + 1
    /\ listed' = listed \cup PageOf(page)
    /\ IF PageSize * (page + 1) < Cardinality(Listing)
         THEN UNCHANGED <<pc, metadata, exit, limited>>
         ELSE IF Cardinality(listed') > MaxRepositories
           THEN Exceeded /\ UNCHANGED metadata
           ELSE /\ pc' = "get" /\ metadata' = listed'
                /\ UNCHANGED <<exit, limited>>
    /\ UNCHANGED <<github, todo, cur, scan, records, graph, failures,
                   temp, output, history>>

\* A failed page drops the whole organization.
ListFails ==
    /\ pc = "list" /\ Answered
    /\ failures' = failures \cup {"org-pagination"}
    /\ pc' = "get"
    /\ UNCHANGED <<github, page, listed, metadata, todo, cur, scan, records, graph,
                   file, history, limited>>

Failed(r) == [status |-> "failed", commit |-> None, manifests |-> {}]

GetRepository ==
    /\ pc = "get" /\ todo # {} /\ Least(todo) \in exists /\ Answered
    /\ metadata' = metadata \cup {Least(todo)}
    /\ todo' = todo \ {Least(todo)}
    /\ UNCHANGED <<github, pc, page, listed, cur, scan, records, graph, failures,
                   file, history, limited>>

\* Mutant: the failure is recorded with the repository only.
GetFailsQuietly ==
    /\ pc = "get" /\ todo # {} /\ Answered
    /\ records' = [records EXCEPT ![Least(todo)] = Failed(Least(todo))]
    /\ todo' = todo \ {Least(todo)}
    /\ UNCHANGED <<github, pc, page, listed, metadata, cur, scan, graph, failures,
                   file, history, limited>>

\* The record says failed; if the organization listed the repository, its scan
\* writes a new record over this one.
GetFails ==
    /\ pc = "get" /\ todo # {} /\ Answered
    /\ failures' = failures \cup {"repository-metadata"}
    /\ records' = [records EXCEPT ![Least(todo)] = Failed(Least(todo))]
    /\ todo' = todo \ {Least(todo)}
    /\ UNCHANGED <<github, pc, page, listed, metadata, cur, scan, graph,
                   file, history, limited>>

Discovered ==
    /\ pc = "get" /\ todo = {}
    /\ IF Cardinality(metadata) > MaxRepositories
         THEN Exceeded /\ UNCHANGED todo
         ELSE pc' = "next" /\ todo' = metadata /\ UNCHANGED <<exit, limited>>
    /\ UNCHANGED <<github, requests, tries, page, listed, metadata, cur, scan, records,
                   graph, failures, temp, output, history>>

-----------------------------------------------------------------------------
(* _scan_repository.                                                       *)

BeginScan ==
    /\ pc = "next" /\ todo # {}
    /\ cur' = Least(todo)
    /\ todo' = todo \ {cur'}
    /\ records' = [records EXCEPT ![cur'] =
                     [status |-> "scanning", commit |-> None, manifests |-> {}]]
    /\ nodes' = nodes \cup {cur'}
    /\ scannedNodes' = scannedNodes \cup {cur'}
    /\ IF Within(nodes', DOMAIN packages)
         THEN pc' = "pin" /\ UNCHANGED <<exit, limited>>
         ELSE Exceeded
    /\ blobs' = {} /\ unread' = {} /\ frontier' = {} /\ declared' = {}
    /\ UNCHANGED <<github, requests, tries, page, listed, metadata, edges, evidence,
                   failures, temp, output, history>>

\* An InventoryError inside the scan: the run goes on with the next repository,
\* and keeps the nodes and edges the scan had added.
ScanFailed ==
    /\ failures' = failures \cup {"repository-scan"}
    /\ records' = [records EXCEPT ![cur].status = "failed"]
    /\ pc' = "next"

PinBranch ==
    /\ pc = "pin" /\ cur \in exists /\ Answered
    /\ records' = [records EXCEPT ![cur].commit = head[cur]]
    /\ pc' = "tree"
    /\ UNCHANGED <<github, page, listed, metadata, todo, cur, scan, graph, failures,
                   file, history, limited>>

GetTree ==
    /\ pc = "tree" /\ cur \in exists /\ Answered
    /\ unread' = Selected \cap Here.files
    /\ pc' = "blob"
    /\ UNCHANGED <<github, page, listed, metadata, todo, cur, blobs, frontier, declared,
                   records, graph, failures, file, history, limited>>

\* A selected manifest, or a workspace member that its parent declares.
GetBlob(m) ==
    /\ pc = "blob" /\ m \in unread /\ cur \in exists
    /\ m \in Here.files /\ m \notin declared
    /\ Answered
    /\ unread' = unread \ {m}
    /\ blobs' = blobs \cup {m}
    /\ frontier' = IF m \in {Lock, Modules} THEN frontier ELSE frontier \cup {m}
    /\ declared' = IF m \in Selected THEN declared ELSE declared \cup {m}
    /\ UNCHANGED <<github, pc, page, listed, metadata, todo, cur, records, graph,
                   failures, file, history, limited>>

\* Mutant: the members of a member are not looked for.
ExpandRootOnly(m) ==
    /\ pc = "blob" /\ unread = {} /\ m \in frontier
    /\ frontier' = frontier \ {m}
    /\ unread' = IF m = Root THEN Here.members[m] ELSE {}
    /\ UNCHANGED <<github, pc, requests, tries, page, listed, metadata, todo, cur, blobs,
                   declared, records, graph, failures, file, history, limited>>

Expand(m) ==
    /\ pc = "blob" /\ unread = {} /\ m \in frontier
    /\ frontier' = frontier \ {m}
    /\ unread' = Here.members[m]
    /\ UNCHANGED <<github, pc, requests, tries, page, listed, metadata, todo, cur, blobs,
                   declared, records, graph, failures, file, history, limited>>

\* A member is declared by two manifests, or missing at the commit.
MemberRejected(m) ==
    /\ pc = "blob" /\ m \in unread
    /\ m \in declared \/ m \notin Here.files
    /\ ScanFailed
    /\ UNCHANGED <<github, requests, tries, page, listed, metadata, todo, cur, scan,
                   graph, file, history, limited>>

\* A refused request, a malformed answer, a truncated tree, a wrong blob.
ScanRequestFails ==
    /\ pc \in {"pin", "tree", "blob"} /\ (pc = "blob" => unread # {}) /\ Answered
    /\ ScanFailed
    /\ UNCHANGED <<github, page, listed, metadata, todo, cur, scan, graph, file, history, limited>>

\* The manifests are read and listed in the record.
ReadingEnds ==
    /\ pc = "blob" /\ unread = {} /\ frontier = {}
    /\ records' = [records EXCEPT ![cur].manifests = blobs]
    /\ unparsed' = blobs \ {Lock, Modules}
    /\ pc' = "zed"
    /\ UNCHANGED <<github, requests, tries, page, listed, metadata, todo, cur, scan, packages,
                   roots, zed, pins, contradictions, scannedNodes, nodes, edges, failures,
                   file, history, limited>>

Parsing(stage, next) ==
    /\ pc = stage /\ pc' = next
    /\ UNCHANGED <<github, requests, tries, page, listed, metadata, todo, cur, scan,
                   file, history, limited>>

-----------------------------------------------------------------------------
(* The parsers: what the manifests and the lock of one commit say.         *)

Edge(source, kind, target, requirement, path) ==
    [source |-> source, kind |-> kind, target |-> target,
     requirement |-> requirement, path |-> path]

\* The node that declares: the manifest's package, or else the repository.
SourceOf(r, c, m) == IF Held(r, c).package[m] = None THEN <<"repository", r>>
                     ELSE <<"package", Held(r, c).package[m]>>

\* A root manifest with members makes a workspace; without, it is parsed alone.
IsWorkspace(r, c) == Root \in Held(r, c).files /\ Held(r, c).members[Root] # {}

Requires(r, c, m, D) == {Edge(SourceOf(r, c, m), "declared", d[1], d[2], None) : d \in D}

MembersOf(r, c, m) == {Edge(SourceOf(r, c, m), "member", Held(r, c).package[p], None, p) :
                          p \in Held(r, c).members[m]}

\* A dependency by path becomes an edge to the member there (the code adds its
\* requirement).
PathsOf(r, c, m) == {Edge(SourceOf(r, c, m), "declared", Held(r, c).package[p], None, p) :
                        p \in Held(r, c).paths[m]}

\* The repository holds the package, which only a manifest parsed alone says.
Contains(r, c, m) ==
    IF IsWorkspace(r, c) \/ Held(r, c).package[m] = None THEN {}
    ELSE {Edge(<<"repository", r>>, "contains", Held(r, c).package[m], None, None)}

Workspace == IsWorkspace(cur, Pinned)

\* An edge that is there keeps its selection.
Extended(E) == [e \in DOMAIN zed \cup E |-> IF e \in DOMAIN zed THEN zed[e] ELSE None]

\* _parse_workspace_zed_manifest and _parse_zed_manifest: the package node, which
\* in a workspace remembers its manifest, and the declarations D of the manifest.
ReadManifest(m, D) ==
    LET own == {Here.package[m]} \ {None}
        added == Requires(cur, Pinned, m, D) \cup Contains(cur, Pinned, m)
    IN
    /\ packages' = [p \in DOMAIN packages \cup own \cup {d[1] : d \in D} |->
                      IF p \in own /\ Workspace THEN m
                      ELSE IF p \in DOMAIN packages THEN packages[p] ELSE None]
    /\ Within(nodes, DOMAIN packages')
    /\ zed' = Extended(added)
    /\ roots' = IF Workspace \/ own = {} THEN roots
                ELSE [roots EXCEPT ![cur] = Here.package[m]]
    /\ unparsed' = unparsed \ {m}
    /\ UNCHANGED <<pins, contradictions, scannedNodes, nodes, edges>>

\* A workspace manifest names a package, and none that another path has.
Readable(m) ==
    Workspace => /\ Here.package[m] # None
                 /\ Here.package[m] \in DOMAIN packages => packages[Here.package[m]] \in {None, m}

ParseManifest ==
    LET m == Least(unparsed) IN
    /\ Parsing("zed", "zed")
    /\ unparsed # {} /\ Readable(m)
    /\ ReadManifest(m, Here.declares[m])
    /\ UNCHANGED <<records, failures>>

Zpkgs == blobs \ {Lock, Modules}

\* The root package, an edge to each member, and those dependencies by path.
Link(E) ==
    /\ roots' = [roots EXCEPT ![cur] = Here.package[Root]]
    /\ zed' = Extended((UNION {MembersOf(cur, Pinned, m) : m \in Zpkgs}) \cup E)
    /\ UNCHANGED <<unparsed, packages, pins, contradictions, scannedNodes, nodes, edges>>

PathEdges == UNION {PathsOf(cur, Pinned, m) : m \in Zpkgs}

\* Every manifest is parsed; a dependency by path names one of them.
LinkWorkspace ==
    /\ Parsing("zed", "lock")
    /\ unparsed = {}
    /\ IF Workspace
         THEN (\A m \in Zpkgs : Here.paths[m] \subseteq blobs) /\ Link(PathEdges)
         ELSE UNCHANGED graph
    /\ UNCHANGED <<records, failures>>

\* The source of a lock: package_roots, or else the repository.
Source == IF roots[cur] = None THEN <<"repository", cur>> ELSE <<"package", roots[cur]>>

Selections(P, d) == {v \in Versions : <<d, v>> \in P}

\* Mutant: a pin marks the declarations of every source.
ReadLockForAll(P) ==
    /\ pins' = pins \cup {<<cur, Source, p[1], p[2]>> : p \in P}
    /\ zed' = [e \in DOMAIN zed |->
                IF e.kind = "declared" /\ Cardinality(Selections(P, e.target)) = 1
                  THEN CHOOSE v \in Selections(P, e.target) : TRUE
                  ELSE zed[e]]
    /\ UNCHANGED <<contradictions, unparsed, packages, roots, scannedNodes, nodes, edges>>

\* _parse_zed_lock: pins are evidence; a unique one marks every declaration
\* edge of the same source and package, whichever repository declared it.
ReadLock(P) ==
    LET declaring == {e \in DOMAIN zed : e.kind = "declared" /\ e.source = Source} IN
    /\ pins' = pins \cup {<<cur, Source, p[1], p[2]>> : p \in P}
    /\ zed' = [e \in DOMAIN zed |->
                IF e \in declaring /\ Cardinality(Selections(P, e.target)) = 1
                  THEN CHOOSE v \in Selections(P, e.target) : TRUE
                  ELSE zed[e]]
    /\ contradictions' = contradictions
         \cup {<<"conflicting", Source, d>> : d \in {d \in Packages : Cardinality(Selections(P, d)) > 1}}
         \cup {<<"missing", Source, e.target>> : e \in {e \in declaring : Selections(P, e.target) = {}}}
    /\ UNCHANGED <<unparsed, packages, roots, scannedNodes, nodes, edges>>

ParseLock ==
    /\ Parsing("lock", "modules")
    /\ IF Lock \in blobs THEN ReadLock(Here.pins) ELSE UNCHANGED graph
    /\ UNCHANGED <<records, failures>>

Links == IF Modules \in blobs THEN Here.links ELSE {}

AddTargets(L) ==
    /\ nodes' = nodes \cup L
    /\ Within(nodes', DOMAIN packages)
    /\ scannedNodes' = scannedNodes \cup {t \in L : t \in Repos /\ records[t] # None}
    /\ edges' = edges \cup {<<cur, t, Pinned>> : t \in L}
    /\ UNCHANGED evidence

EndScan == records' = [records EXCEPT ![cur].status = "scanned"]

ParseModules ==
    /\ Parsing("modules", "next")
    /\ AddTargets(Links) /\ EndScan
    /\ UNCHANGED failures

\* A parser reports what it cannot read of its source and keeps the rest: all
\* of it, or some of the declarations, pins or submodules.
SourceFailure ==
    /\ \/ /\ Parsing("zed", "lock") /\ unparsed # {} /\ ~Workspace
          /\ \/ UNCHANGED graph
             \/ \E D \in SUBSET Here.declares[Least(unparsed)] : ReadManifest(Least(unparsed), D)
          /\ UNCHANGED records
       \/ /\ Parsing("lock", "modules") /\ Lock \in blobs
          /\ \/ UNCHANGED graph
             \/ \E P \in SUBSET Here.pins : ReadLock(P)
          /\ UNCHANGED records
       \/ /\ Parsing("modules", "next") /\ Modules \in blobs
          /\ \E L \in SUBSET Links : AddTargets(L)
          /\ EndScan
    /\ failures' = failures \cup {"source"}

\* A ParseFailure raised by a parser, after those before it, and the workspace
\* manifests and edges before it, added to the graph.
ParseRaises ==
    /\ \/ pc \in {"zed", "lock", "modules"} /\ UNCHANGED graph
       \/ /\ pc = "zed" /\ Workspace /\ unparsed # {} /\ Readable(Least(unparsed))
          /\ \E D \in SUBSET Here.declares[Least(unparsed)] : ReadManifest(Least(unparsed), D)
       \/ /\ pc = "zed" /\ Workspace /\ unparsed = {}
          /\ \E E \in SUBSET PathEdges : Link(E)
    /\ ScanFailed
    /\ UNCHANGED <<github, requests, tries, page, listed, metadata, todo, cur, scan,
                   file, history, limited>>

-----------------------------------------------------------------------------
(* build's completeness, write_atomic, and the exit code.                  *)

Completeness == IF failures = {} THEN "complete" ELSE "partial"

\* analyze_graph (module InventoryGraph), rendering, and mkstemp.
CreateTemp ==
    /\ pc = "next" /\ todo = {}
    /\ temp' = TRUE /\ pc' = "write"
    /\ UNCHANGED <<github, requests, tries, page, listed, metadata, todo, cur, scan,
                   records, graph, failures, output, exit, history, limited>>

\* Write, flush, fsync of the file, then os.replace.
ReplaceOutput ==
    /\ pc = "write"
    /\ output' = Completeness
    /\ temp' = FALSE /\ pc' = "sync"
    /\ UNCHANGED <<github, requests, tries, page, listed, metadata, todo, cur, scan,
                   records, graph, failures, exit, history, limited>>

SyncDirectory ==
    /\ pc = "sync"
    /\ Exit(IF Completeness = "complete" THEN "0" ELSE "1")
    /\ UNCHANGED <<github, requests, tries, page, listed, metadata, todo, cur, scan,
                   records, graph, failures, temp, output, history, limited>>

\* The output is there and is not a regular file.
OutputRefused ==
    /\ pc = "next" /\ todo = {}
    /\ Exit("2")
    /\ UNCHANGED <<github, requests, tries, page, listed, metadata, todo, cur, scan,
                   records, graph, failures, temp, output, history, limited>>

\* A system call of write_atomic fails: the temporary file is unlinked and the
\* OSError leaves main, a traceback.  Past os.replace the new output is there.
WriteFails ==
    /\ pc \in {"write", "sync"} \/ (pc = "next" /\ todo = {})
    /\ temp' = FALSE
    /\ Exit("traceback")
    /\ UNCHANGED <<github, requests, tries, page, listed, metadata, todo, cur, scan,
                   records, graph, failures, output, history, limited>>

\* Killed while the temporary file exists or just after (before that a kill
\* leaves no trace).
Killed ==
    /\ pc \in {"write", "sync"}
    /\ Exit("killed")
    /\ UNCHANGED <<github, requests, tries, page, listed, metadata, todo, cur, scan,
                   records, graph, failures, temp, output, history, limited>>

Run ==
    \/ OverLimit \/ Retry
    \/ ListPage \/ ListFails \/ GetRepository \/ GetFails \/ Discovered
    \/ BeginScan \/ PinBranch \/ GetTree \/ ScanRequestFails \/ ReadingEnds
    \/ ParseManifest \/ LinkWorkspace \/ ParseLock \/ ParseModules
    \/ SourceFailure \/ ParseRaises
    \/ CreateTemp \/ ReplaceOutput \/ SyncDirectory
    \/ OutputRefused \/ WriteFails \/ Killed
    \/ \E m \in unread : GetBlob(m) \/ MemberRejected(m)
    \/ \E m \in frontier : Expand(m)

Next == Run \/ \E r \in Repos : PushBranch(r) \/ Create(r) \/ Remove(r)

Spec == Init /\ [][Next]_vars

\* Every request is answered or times out, so the run keeps stepping.
FairSpec == Spec /\ WF_vars(Run)

-----------------------------------------------------------------------------

SourceNodes == ({"package"} \X Packages) \cup ({"repository"} \X Repos)

Edges == [source : SourceNodes, kind : {"declared", "member", "contains"},
          target : Packages \cup {None}, requirement : Versions \cup {None},
          path : Files \cup {None}]

\* Every variable has its type.
TypeOK ==
    /\ exists \subseteq Repos /\ head \in [Repos -> Commits] /\ events \in 0..MaxEvents
    /\ pc \in {"list", "get", "next", "pin", "tree", "blob", "zed", "lock", "modules", "write", "sync", "done"}
    /\ requests \in 0..MaxRequests /\ tries \in 0..MaxRetries
    /\ page \in Nat /\ listed \subseteq OrgRepos
    /\ metadata \subseteq Repos /\ todo \subseteq Repos /\ cur \in Repos \cup {None}
    /\ blobs \subseteq Files /\ unread \subseteq Files
    /\ frontier \subseteq Files /\ declared \subseteq Files
    /\ records \in [Repos -> Record \cup {None}]
    /\ nodes \subseteq Repos \cup Targets /\ scannedNodes \subseteq nodes
    /\ edges \subseteq Repos \X Targets \X Commits
    /\ unparsed \subseteq Files \ {Lock, Modules}
    /\ packages \in [DOMAIN packages -> Files \cup {None}] /\ DOMAIN packages \subseteq Packages
    /\ roots \in [Repos -> Packages \cup {None}]
    /\ zed \in [DOMAIN zed -> Versions \cup {None}] /\ DOMAIN zed \subseteq Edges
    /\ pins \subseteq Repos \X SourceNodes \X Packages \X Versions
    /\ contradictions \subseteq {"conflicting", "missing"} \X SourceNodes \X (Packages \cup {None})
    /\ failures \subseteq {"org-pagination", "repository-metadata", "repository-scan",
                          "source"}
    /\ temp \in BOOLEAN /\ output \in {"prior", "complete", "partial"}
    /\ exit \in Exits \cup {None}
    /\ steady \subseteq OrgRepos /\ gone \subseteq OrgRepos /\ flickered \in BOOLEAN /\ limited \in BOOLEAN

Scanned(r) == records[r] # None /\ records[r].status = "scanned"

\* An inventory that calls itself complete has scanned every repository asked
\* for by name and every one that was in the organization while it was listed,
\* whatever failed, was retried or was overwritten on the way.  The pages are
\* asked for by number (github_inventory_client.py:62), so that a repository
\* which goes between two of them makes the next page miss one that stayed; but
\* its own scan then fails, unless it has come back meanwhile.  Nothing tells of
\* one that comes between two pages, before what is listed next, and goes again.
CompleteIsWhole ==
    output = "complete" =>
        \A r \in Requested \cup (IF flickered THEN {} ELSE steady) : Scanned(r)

\* The manifests of a commit: the least set that holds the selected ones and
\* the workspace members that its manifests declare.
Whole(S, r, c) == /\ Selected \cap Held(r, c).files \subseteq S
                  /\ \A m \in S \ {Lock, Modules} : Held(r, c).members[m] \subseteq S
ManifestsAt == [r \in Repos |-> [c \in Commits |->
    {m \in Files : \A S \in SUBSET Files : Whole(S, r, c) => m \in S}]]

\* The edges that the manifests of a commit declare: from each package its
\* dependencies and, in a workspace, its members and dependencies by path.
EdgesOf(r, c, m) ==
    Requires(r, c, m, Held(r, c).declares[m]) \cup Contains(r, c, m)
      \cup (IF IsWorkspace(r, c) THEN MembersOf(r, c, m) \cup PathsOf(r, c, m) ELSE {})
EdgesAt == [r \in Repos |-> [c \in Commits |->
    UNION {EdgesOf(r, c, m) : m \in ManifestsAt[r][c] \ {Lock, Modules}}]]

\* What the inventory says of a scanned repository is what one commit held,
\* although its branch moves between the requests: all the manifests of that
\* commit, workspace members of members included, and, unless a source was
\* reported unreadable, its submodules and every edge its manifests declare.
ScannedAtPin ==
    \A r \in Repos : Scanned(r) =>
        LET c == records[r].commit
            links == IF Modules \in Held(r, c).files THEN Held(r, c).links ELSE {}
            said == {e \in edges : e[1] = r}
        IN
          /\ records[r].manifests = ManifestsAt[r][c]
          /\ said \subseteq {<<r, t, c>> : t \in links}
          /\ "source" \notin failures =>
               /\ said = {<<r, t, c>> : t \in links}
               /\ EdgesAt[r][c] \subseteq DOMAIN zed

IsPinned(r) == records[r] # None /\ records[r].commit # None

\* Lock pins are evidence, never topology (docs, invariant 11): an edge of a
\* package was declared by a manifest at a commit that was pinned; only a
\* declared dependency has a version selected, and a lock whose root package is
\* the very source of that edge pinned it, and pinned no other version, though
\* the members of one workspace declare the same dependencies under other
\* packages and repositories of one package share its edges.
EvidenceIsNotTopology ==
    /\ DOMAIN zed \subseteq UNION {EdgesAt[r][records[r].commit] :
                                    r \in {r \in Repos : IsPinned(r)}}
    /\ \A e \in DOMAIN zed : zed[e] # None =>
          /\ e.kind = "declared"
          /\ \E r \in Repos : \A v \in Versions :
                <<r, e.source, e.target, v>> \in pins <=> v = zed[e]

\* What the exit status tells of the output.  "A limit error never becomes a
\* partial inventory": once a hard limit is exceeded, and when the output is
\* refused, the earlier output stays and no temporary file is left.  A status of
\* 0, or of 1 that main returned, is the completeness of what was published, and
\* what is published calls itself complete only if nothing failed.  A traceback
\* or a kill tells nothing: past os.replace the new output is there, although
\* "failed runs preserve the prior output" (docs, invariant 8).
LimitPublishesNothing ==
    /\ limited \/ exit \in {"2", "3"} => output = "prior" /\ ~temp
    /\ exit = "0" => output = "complete"
    /\ exit = "1" => output = "partial"
    /\ output = "complete" => failures = {}
    /\ exit # None /\ temp => exit = "killed"

\* The run ends: pages, retries and workspace members all spend the budget.
RunEnds == <>(pc = "done")
=============================================================================
