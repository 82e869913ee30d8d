----------------------- MODULE FleetBootstrapProofs -----------------------
(***************************************************************************)
(* Proofs about FleetBootstrap: type correctness, that no branch is        *)
(* rewritten, that an invocation pins one commit of the source, what an    *)
(* invocation without errors has left behind, that only invocations which  *)
(* overlapped leave pins out of order, and, where invocations do not       *)
(* overlap, that no pin moves back and that a repository which is          *)
(* bootstrapped and current is left alone.                                 *)
(***************************************************************************)
EXTENDS FleetBootstrap, WellFoundedInduction, TLAPS

OpenIn(s) == {i \in DOMAIN s.pulls : s.pulls[i].state = "open"}

\* GitHub has at most one open pull request for the branch, and its branch.
OneOpenPull(s) ==
    /\ \A i, j \in OpenIn(s) : i = j
    /\ OpenIn(s) # {} => s.branch # None

GoodRepository(s) ==
    /\ s \in Repository
    /\ s.base # <<>> /\ s.branch # <<>>
    /\ OneOpenPull(s)

GoodLocals(l) ==
    /\ l \in Locals
    /\ l.pc # "idle" => l.left # <<>>
    /\ l.pc = "push" => l.work # <<>>

GhOK == gh \in [Repos -> Repository] /\ \A r \in Repos : GoodRepository(gh[r])

AtOK ==
    /\ at \in [Runs -> [Workers -> Locals]]
    /\ \A n \in Runs, k \in Workers : GoodLocals(at[n][k])

ControlOK ==
    /\ source \in Shas
    /\ status \in [Runs -> {"waiting", "running", "exited", "cancelled"}]
    /\ met \in [Runs -> SUBSET Runs]
    /\ touched \in [Runs -> SUBSET Repos]
    /\ failed \in [Runs -> BOOLEAN]
    /\ queue \in [Runs -> Seq(DOMAIN ReposOf)]
    /\ cache \in [Runs -> Shas \cup {None, Rejected}]
    /\ faults \in 0..MaxFaults /\ human \in 0..MaxHuman

\* TypeOK with the fact about open pull requests that makes it inductive.
TypeInv == GhOK /\ AtOK /\ ControlOK

LEMMA TypeInvImpliesTypeOK == TypeInv => TypeOK
BY DEF TypeInv, GhOK, AtOK, ControlOK, TypeOK, GoodRepository, GoodLocals

LEMMA GhStep ==
    ASSUME GhOK, NEW r \in Repos, NEW s, GoodRepository(s),
           gh' = [gh EXCEPT ![r] = s]
    PROVE  GhOK'
BY DEF GhOK, GoodRepository

LEMMA AtStep ==
    ASSUME AtOK, NEW n \in Runs, NEW k \in Workers, NEW l, GoodLocals(l),
           SetLocals(n, k, l)
    PROVE  AtOK'
<1>1. at' = [at EXCEPT ![n][k] = l] /\ l \in Locals
  BY DEF SetLocals, GoodLocals
<1>2. at' \in [Runs -> [Workers -> Locals]]
  BY <1>1 DEF AtOK
<1>3. \A m \in Runs, j \in Workers :
        at'[m][j] = IF m = n /\ j = k THEN l ELSE at[m][j]
  BY <1>1 DEF AtOK
<1> QED
  BY <1>2, <1>3 DEF AtOK

LEMMA IdleIsGood == GoodLocals(Idle)
BY BootstrapBounds DEF GoodLocals, Idle, Locals, Steps, Shas

LEMMA AtRepo ==
    ASSUME AtOK, NEW n \in Runs, NEW k \in Workers, at[n][k].pc # "idle"
    PROVE  /\ Repo(n, k) \in Repos
           /\ at[n][k].left \in Seq(Repos) /\ at[n][k].left # <<>>
BY DEF AtOK, GoodLocals, Locals, Repo

\* The three ways in which a worker leaves a call.
LEMMA GotoStep ==
    ASSUME AtOK, NEW n \in Runs, NEW k \in Workers, NEW pc \in Steps \ {"push"},
           at[n][k].pc # "idle", Goto(n, k, pc)
    PROVE  AtOK' /\ failed' = failed /\ faults' = faults
<1>1. at[n][k] \in Locals /\ at[n][k].left # <<>>
  BY DEF AtOK, GoodLocals
<1>2. GoodLocals([at[n][k] EXCEPT !.pc = pc])
  BY <1>1 DEF GoodLocals, Locals
<1> QED
  BY <1>2, AtStep DEF Goto

LEMMA ThrowStep ==
    ASSUME AtOK, NEW n \in Runs, NEW k \in Workers, Throw(n, k),
           failed \in [Runs -> BOOLEAN]
    PROVE  AtOK' /\ failed' \in [Runs -> BOOLEAN]
BY IdleIsGood, AtStep DEF Throw

LEMMA AnsweredStep ==
    ASSUME AtOK, ControlOK, NEW n \in Runs, NEW k \in Workers,
           NEW pc \in Steps \ {"push"}, at[n][k].pc # "idle", Answered(n, k, pc)
    PROVE  AtOK' /\ failed' \in [Runs -> BOOLEAN] /\ faults' \in 0..MaxFaults
<1>1. CASE Goto(n, k, pc)
  BY <1>1, GotoStep DEF ControlOK
<1>2. CASE MayFault /\ faults' = faults + 1 /\ Throw(n, k)
  BY <1>2, ThrowStep, BootstrapBounds DEF ControlOK, MayFault
<1> QED
  BY <1>1, <1>2 DEF Answered

\* The generated tree, and the commit made of it.
LEMMA GeneratedIsTree ==
    ASSUME NEW r \in Repos, NEW pins \in Shas, NEW old \in Commit
    PROVE  Generated(r, pins, old) \in Tree
BY BootstrapBounds DEF Generated, Tree, Commit, Shas

LEMMA LastIsCommit ==
    ASSUME NEW tip \in Seq(Commit), tip # <<>>
    PROVE  Last(tip) \in Commit
BY DEF Last

LEMMA CommitStep ==
    ASSUME AtOK, NEW n \in Runs, NEW k \in Workers, at[n][k].pc # "idle",
           NEW tip \in Seq(Commit), tip # <<>>, CommitOn(n, k, tip)
    PROVE  AtOK'
<1> DEFINE tree == Generated(Repo(n, k), at[n][k].pins, Last(tip))
           work == Append(tip, CommitOf(n, tree))
<1>1. at[n][k] \in Locals /\ at[n][k].left # <<>> /\ at[n][k].pins \in Shas
  BY DEF AtOK, GoodLocals, Locals
<1>2. tree \in Tree
  BY <1>1, AtRepo, LastIsCommit, GeneratedIsTree
<1>3. CommitOf(n, tree) \in Commit
  BY <1>2 DEF Tree, CommitOf, Commit
<1>4. work \in Seq(Commit) /\ work # <<>>
  BY <1>3
<1> HIDE DEF work, tree
<1>5. CASE SetLocals(n, k, [at[n][k] EXCEPT !.pc = "list"])
  <2>1. GoodLocals([at[n][k] EXCEPT !.pc = "list"])
    BY <1>1 DEF GoodLocals, Locals, Steps
  <2> QED
    BY <1>5, <2>1, AtStep
<1>6. CASE SetLocals(n, k, [at[n][k] EXCEPT !.pc = "push", !.work = work])
  <2>1. GoodLocals([at[n][k] EXCEPT !.pc = "push", !.work = work])
    BY <1>1, <1>4 DEF GoodLocals, Locals, Steps
  <2> QED
    BY <1>6, <2>1, AtStep
<1> QED
  BY <1>5, <1>6 DEF CommitOn, work, tree

LEMMA InitTyped == Init => TypeInv
<1> SUFFICES ASSUME Init PROVE TypeInv
  OBVIOUS
<1>1. AutoInit \in Seq(Commit) /\ AutoInit # <<>>
  BY DEF AutoInit, Commit, Shas
<1>2. GhOK
  <2> SUFFICES ASSUME NEW r \in Repos PROVE gh[r] \in Repository /\ GoodRepository(gh[r])
    BY DEF GhOK, Init
  <2>1. gh[r] \in [exists : BOOLEAN, base : {AutoInit}, branch : {None},
                   pulls : {<<>>}, topics : {FALSE}]
    BY DEF Init
  <2>2. /\ gh[r].base = AutoInit /\ gh[r].branch = None /\ gh[r].pulls = <<>>
    BY <2>1
  <2>3. gh[r] = [exists |-> gh[r].exists, base |-> AutoInit, branch |-> None,
                 pulls |-> <<>>, topics |-> FALSE] /\ gh[r].exists \in BOOLEAN
    BY <2>1
  <2>4. <<>> \in Seq(Pull)
    OBVIOUS
  <2>5. gh[r] \in Repository
    <3>1. AutoInit \in Seq(Commit) /\ None \in Seq(Commit) \cup {None}
      BY <1>1
    <3>2. \A e \in BOOLEAN : [exists |-> e, base |-> AutoInit, branch |-> None,
                              pulls |-> <<>>, topics |-> FALSE] \in Repository
      BY <3>1, <2>4 DEF Repository
    <3> QED
      BY <2>3, <3>2
  <2>6. OpenIn(gh[r]) = {}
    BY <2>2 DEF OpenIn
  <2>7. None # <<>>
    <3>1. <<>> \in Seq(Commit)
      OBVIOUS
    <3> QED
      BY <3>1, NoBranchAssumption
  <2> QED
    BY <1>1, <2>2, <2>5, <2>6, <2>7 DEF GoodRepository, OneOpenPull
<1>3. AtOK
  BY IdleIsGood DEF AtOK, Init, GoodLocals
<1>4. ControlOK
  BY BootstrapBounds DEF ControlOK, Init, Shas
<1> QED
  BY <1>2, <1>3, <1>4 DEF TypeInv

\* A repository whose branch is set to a history and whose open pull requests
\* stay as they are.
LEMMA BranchIsGood ==
    ASSUME NEW s, GoodRepository(s), NEW work \in Seq(Commit), work # <<>>
    PROVE  GoodRepository([s EXCEPT !.branch = work])
<1>1. [s EXCEPT !.branch = work] \in Repository
  BY DEF GoodRepository, Repository
<1>2. OpenIn([s EXCEPT !.branch = work]) = OpenIn(s)
  BY DEF OpenIn, GoodRepository, Repository
<1>3. work # None
  BY NoBranchAssumption
<1> QED
  BY <1>1, <1>2, <1>3 DEF GoodRepository, OneOpenPull, Repository

LEMMA PullsAreGood ==
    ASSUME NEW s, GoodRepository(s), NEW i \in DOMAIN s.pulls, NEW p \in Pull,
           p.state = "open" => s.pulls[i].state = "open"
    PROVE  GoodRepository([s EXCEPT !.pulls = [@ EXCEPT ![i] = p]])
<1> DEFINE pulls == [s.pulls EXCEPT ![i] = p]
           t == [s EXCEPT !.pulls = pulls]
<1>1. s \in Repository /\ s.pulls \in Seq(Pull)
  BY DEF GoodRepository, Repository
<1>2. /\ pulls \in Seq(Pull) /\ DOMAIN pulls = DOMAIN s.pulls
      /\ \A j \in DOMAIN s.pulls : pulls[j] = IF j = i THEN p ELSE s.pulls[j]
  BY <1>1
<1> HIDE DEF pulls
<1>3. t \in Repository /\ t.pulls = pulls /\ t.base = s.base /\ t.branch = s.branch
  BY <1>1, <1>2 DEF Repository
<1> HIDE DEF t
<1>4. OpenIn(t) \subseteq OpenIn(s)
  BY <1>2, <1>3 DEF OpenIn
<1>5. GoodRepository(t)
  BY <1>3, <1>4 DEF GoodRepository, OneOpenPull
<1> QED
  BY <1>5 DEF t, pulls

LEMMA FlagsAreGood ==
    ASSUME NEW s, GoodRepository(s)
    PROVE  /\ GoodRepository([s EXCEPT !.exists = TRUE])
           /\ GoodRepository([s EXCEPT !.topics = TRUE])
<1>1. /\ [s EXCEPT !.exists = TRUE] \in Repository
      /\ [s EXCEPT !.topics = TRUE] \in Repository
  BY DEF GoodRepository, Repository
<1>2. /\ OpenIn([s EXCEPT !.exists = TRUE]) = OpenIn(s)
      /\ OpenIn([s EXCEPT !.topics = TRUE]) = OpenIn(s)
  BY DEF OpenIn, GoodRepository, Repository
<1> QED
  BY <1>1, <1>2 DEF GoodRepository, OneOpenPull, Repository

LEMMA NewPullIsGood ==
    ASSUME NEW s, GoodRepository(s), s.branch # None, OpenIn(s) = {}, NEW p \in Pull
    PROVE  GoodRepository([s EXCEPT !.pulls = Append(@, p)])
<1> DEFINE t == [s EXCEPT !.pulls = Append(s.pulls, p)]
<1>1. s \in Repository /\ s.pulls \in Seq(Pull)
  BY DEF GoodRepository, Repository
<1>2. Append(s.pulls, p) \in Seq(Pull)
  BY <1>1
<1>3. /\ t \in Repository /\ t.pulls = Append(s.pulls, p)
      /\ t.base = s.base /\ t.branch = s.branch
  BY <1>1, <1>2 DEF Repository
<1> HIDE DEF t
<1>4. \A j \in DOMAIN t.pulls : \/ j \in DOMAIN s.pulls /\ t.pulls[j] = s.pulls[j]
                               \/ j = Len(s.pulls) + 1
  BY <1>1, <1>3
<1>5. \A j \in OpenIn(t) : j = Len(s.pulls) + 1
  BY <1>4 DEF OpenIn
<1>6. GoodRepository(t)
  BY <1>3, <1>5 DEF GoodRepository, OneOpenPull
<1> QED
  BY <1>6 DEF t

LEMMA MergeIsGood ==
    ASSUME NEW s, GoodRepository(s), NEW i \in OpenIn(s), NEW p \in Pull,
           p.state = "merged", NEW c \in Commit
    PROVE  GoodRepository([s EXCEPT !.pulls = [@ EXCEPT ![i] = p], !.branch = None,
                                    !.base = Append(@, c)])
<1> DEFINE pulls == [s.pulls EXCEPT ![i] = p]
           base == Append(s.base, c)
           t == [s EXCEPT !.pulls = pulls, !.branch = None, !.base = base]
<1>1. s \in Repository /\ s.pulls \in Seq(Pull) /\ i \in DOMAIN s.pulls
      /\ s.base \in Seq(Commit)
  BY DEF GoodRepository, Repository, OpenIn
<1>2. /\ pulls \in Seq(Pull) /\ DOMAIN pulls = DOMAIN s.pulls
      /\ \A j \in DOMAIN s.pulls : pulls[j] = IF j = i THEN p ELSE s.pulls[j]
  BY <1>1
<1>3. base \in Seq(Commit) /\ base # <<>>
  BY <1>1
<1> HIDE DEF pulls, base
<1>4. t \in Repository /\ t.pulls = pulls /\ t.base = base /\ t.branch = None
  BY <1>1, <1>2, <1>3 DEF Repository
<1> HIDE DEF t
<1>5. OpenIn(t) = {}
  BY <1>2, <1>4 DEF OpenIn, GoodRepository, OneOpenPull
<1>6. None # <<>>
  <2>1. <<>> \in Seq(Commit)
    OBVIOUS
  <2> QED
    BY <2>1, NoBranchAssumption
<1>7. GoodRepository(t)
  BY <1>3, <1>4, <1>5, <1>6 DEF GoodRepository, OneOpenPull
<1> QED
  BY <1>7 DEF t, pulls, base

-----------------------------------------------------------------------------
(* One lemma for each group of actions.                                    *)

LEMMA BeginTyped ==
    ASSUME TypeInv, NEW n \in Runs, Begin(n) \/ Exit(n) \/ Cancel(n)
    PROVE  TypeInv'
<1>1. GhOK' /\ AtOK'
  BY DEF TypeInv, GhOK, AtOK, Begin, Exit, Cancel
<1>2. status' \in [Runs -> {"waiting", "running", "exited", "cancelled"}]
  BY DEF TypeInv, ControlOK, Begin, Exit, Cancel
<1>3. queue' \in [Runs -> Seq(DOMAIN ReposOf)]
  <2> DEFINE D == Seq(DOMAIN ReposOf)
  <2>1. Pairs \in D /\ queue \in [Runs -> D]
    BY PairsAssumption DEF TypeInv, ControlOK
  <2>2. queue' = queue \/ queue' = [queue EXCEPT ![n] = Pairs]
    BY DEF Begin, Exit, Cancel
  <2> HIDE DEF D
  <2>3. queue' \in [Runs -> D]
    BY <2>1, <2>2
  <2> QED
    BY <2>3 DEF D
<1>4. faults' \in 0..MaxFaults
  BY BootstrapBounds DEF TypeInv, ControlOK, Begin, Exit, Cancel, MayFault
<1>5. UNCHANGED <<source, touched, failed, cache, human>>
  BY DEF Begin, Exit, Cancel
<1>6. met' \in [Runs -> SUBSET Runs]
  BY DEF TypeInv, ControlOK, Begin, Exit, Cancel, UnderWay
<1>7. ControlOK'
  BY <1>2, <1>3, <1>4, <1>5, <1>6 DEF TypeInv, ControlOK
<1> QED
  BY <1>1, <1>7 DEF TypeInv

LEMMA TakePairTyped ==
    ASSUME TypeInv, NEW n \in Runs, NEW k \in Workers, TakePair(n, k)
    PROVE  TypeInv'
<1> DEFINE left == ReposOf[Head(queue[n])]
<1>1. queue[n] \in Seq(DOMAIN ReposOf) /\ queue[n] # <<>>
  BY DEF TypeInv, ControlOK, TakePair
<1>2. Head(queue[n]) \in DOMAIN ReposOf /\ Tail(queue[n]) \in Seq(DOMAIN ReposOf)
  <2>1. \A D, q : q \in Seq(D) /\ q # <<>> => Head(q) \in D /\ Tail(q) \in Seq(D)
    OBVIOUS
  <2> QED
    BY <1>1, <2>1
<1>3. left \in Seq(Repos) /\ left # <<>>
  BY <1>2, PairsAssumption
<1> HIDE DEF left
<1>4. GoodLocals([Idle EXCEPT !.pc = "ensure", !.left = left])
  BY <1>3, IdleIsGood DEF GoodLocals, Locals, Steps
<1>5. AtOK'
  BY <1>4, AtStep DEF TypeInv, TakePair, left
<1>6. GhOK' /\ ControlOK'
  BY <1>2 DEF TypeInv, GhOK, ControlOK, TakePair
<1> QED
  BY <1>5, <1>6 DEF TypeInv

\* What a worker's action leaves alone, and what it may do to the counters.
LEMMA ControlStep ==
    ASSUME ControlOK, UNCHANGED <<source, status, met, touched, queue, cache, human>>,
           failed' \in [Runs -> BOOLEAN], faults' \in 0..MaxFaults
    PROVE  ControlOK'
BY DEF ControlOK

LEMMA ReadingTyped ==
    ASSUME TypeInv, NEW n \in Runs, NEW k \in Workers,
           GetRepository(n, k) \/ AllClosed(n, k)
    PROVE  TypeInv'
<1>1. PICK pc \in {"resolve", "create", "topics", "open"} :
        Goto(n, k, pc) /\ at[n][k].pc # "idle"
  BY DEF GetRepository, AllClosed, At
<1>2. AtOK' /\ failed' = failed /\ faults' = faults
  BY <1>1, GotoStep DEF TypeInv, Steps
<1>3. gh' = gh /\ UNCHANGED <<source, status, met, touched, queue, cache, human>>
  BY DEF GetRepository, AllClosed
<1>4. GhOK' /\ ControlOK'
  BY <1>2, <1>3, ControlStep DEF TypeInv, GhOK, ControlOK
<1> QED
  BY <1>2, <1>4 DEF TypeInv

LEMMA PostRepositoryTyped ==
    ASSUME TypeInv, NEW n \in Runs, NEW k \in Workers, PostRepository(n, k)
    PROVE  TypeInv'
<1>1. at[n][k].pc # "idle" /\ UNCHANGED <<source, status, met, touched, queue, cache, human>>
  BY DEF PostRepository, At
<1>2. Repo(n, k) \in Repos /\ GoodRepository(gh[Repo(n, k)])
  BY <1>1, AtRepo DEF TypeInv, GhOK
<1>3. CASE Refused(n, k)
  <2>1. AtOK' /\ failed' \in [Runs -> BOOLEAN] /\ gh' = gh /\ faults' = faults
    BY <1>3, ThrowStep DEF Refused, TypeInv, ControlOK
  <2> QED
    BY <1>1, <2>1, ControlStep DEF TypeInv, GhOK, ControlOK
<1>4. CASE /\ gh' = [gh EXCEPT ![Repo(n, k)].exists = TRUE]
           /\ Answered(n, k, "resolve")
  <2>1. GhOK'
    BY <1>2, <1>4, FlagsAreGood, GhStep DEF TypeInv
  <2>2. AtOK' /\ failed' \in [Runs -> BOOLEAN] /\ faults' \in 0..MaxFaults
    BY <1>1, <1>4, AnsweredStep DEF TypeInv, Steps
  <2> QED
    BY <1>1, <2>1, <2>2, ControlStep DEF TypeInv
<1> QED
  BY <1>3, <1>4 DEF PostRepository

LEMMA ResolveTyped ==
    ASSUME TypeInv, NEW n \in Runs, NEW k \in Workers, Resolve(n, k)
    PROVE  TypeInv'
<1> DEFINE found == IF cache[n] = None THEN source ELSE cache[n]
<1>1. /\ at[n][k].pc # "idle" /\ gh' = gh
      /\ UNCHANGED <<source, status, met, touched, queue, human>>
  BY DEF Resolve, At
<1>2. GhOK'
  BY <1>1 DEF TypeInv, GhOK
<1>3. CASE Goto(n, k, "fetch") /\ UNCHANGED cache
  <2>1. AtOK' /\ failed' = failed /\ faults' = faults
    BY <1>1, <1>3, GotoStep DEF TypeInv, Steps
  <2> QED
    BY <1>1, <1>2, <1>3, <2>1, ControlStep DEF TypeInv, ControlOK
<1>4. CASE Throw(n, k) /\ UNCHANGED <<cache, faults>>
  <2>1. AtOK' /\ failed' \in [Runs -> BOOLEAN]
    BY <1>4, ThrowStep DEF TypeInv, ControlOK
  <2> QED
    BY <1>1, <1>2, <1>4, <2>1, ControlStep DEF TypeInv, ControlOK
<1>5. CASE /\ found # Rejected
           /\ cache' = [cache EXCEPT ![n] = found]
           /\ SetLocals(n, k, [at[n][k] EXCEPT !.pc = "fetch", !.pins = found])
           /\ UNCHANGED <<failed, faults>>
  <2>1. found \in Shas
    BY <1>5 DEF TypeInv, ControlOK
  <2> HIDE DEF found
  <2>2. GoodLocals(at[n][k]) /\ at[n][k].left # <<>>
    BY <1>1 DEF TypeInv, AtOK, GoodLocals
  <2>3. GoodLocals([at[n][k] EXCEPT !.pc = "fetch", !.pins = found])
    BY <2>1, <2>2 DEF GoodLocals, Locals, Steps
  <2>4. AtOK'
    BY <1>5, <2>3, AtStep DEF TypeInv
  <2>5. ControlOK'
    BY <1>1, <1>5, <2>1 DEF TypeInv, ControlOK
  <2> QED
    BY <1>2, <2>4, <2>5 DEF TypeInv
<1> QED
  BY <1>3, <1>4, <1>5 DEF Resolve

LEMMA FetchTyped ==
    ASSUME TypeInv, NEW n \in Runs, NEW k \in Workers,
           FetchBranch(n, k) \/ FetchFallsBack(n, k)
    PROVE  TypeInv'
<1>1. /\ at[n][k].pc # "idle" /\ gh' = gh /\ failed' = failed
      /\ UNCHANGED <<source, status, met, touched, queue, cache, human>>
  BY DEF FetchBranch, FetchFallsBack, At
<1>2. GoodRepository(gh[Repo(n, k)])
  BY <1>1, AtRepo DEF TypeInv, GhOK
<1>3. PICK tip \in Seq(Commit) : tip # <<>> /\ CommitOn(n, k, tip)
  BY <1>2 DEF FetchBranch, FetchFallsBack, GoodRepository, Repository
<1>4. AtOK'
  BY <1>1, <1>3, CommitStep DEF TypeInv
<1>5. faults' \in 0..MaxFaults
  BY BootstrapBounds DEF FetchBranch, FetchFallsBack, MayFault, TypeInv, ControlOK
<1>6. GhOK' /\ ControlOK'
  BY <1>1, <1>5, ControlStep DEF TypeInv, GhOK, ControlOK
<1> QED
  BY <1>4, <1>6 DEF TypeInv

LEMMA PushTyped ==
    ASSUME TypeInv, NEW n \in Runs, NEW k \in Workers, Push(n, k)
    PROVE  TypeInv'
<1>1. /\ at[n][k].pc = "push"
      /\ UNCHANGED <<source, status, met, touched, queue, cache, human>>
  BY DEF Push, At
<1>2. Repo(n, k) \in Repos /\ GoodRepository(gh[Repo(n, k)])
  BY <1>1, AtRepo DEF TypeInv, GhOK
<1>3. at[n][k].work \in Seq(Commit) /\ at[n][k].work # <<>>
  BY <1>1 DEF TypeInv, AtOK, GoodLocals, Locals
<1>4. CASE Refused(n, k)
  <2>1. AtOK' /\ failed' \in [Runs -> BOOLEAN] /\ gh' = gh /\ faults' = faults
    BY <1>4, ThrowStep DEF Refused, TypeInv, ControlOK
  <2> QED
    BY <1>1, <2>1, ControlStep DEF TypeInv, GhOK, ControlOK
<1>5. CASE /\ gh' = [gh EXCEPT ![Repo(n, k)].branch = at[n][k].work]
           /\ Answered(n, k, "list")
  <2>1. GhOK'
    BY <1>2, <1>3, <1>5, BranchIsGood, GhStep DEF TypeInv
  <2>2. AtOK' /\ failed' \in [Runs -> BOOLEAN] /\ faults' \in 0..MaxFaults
    BY <1>1, <1>5, AnsweredStep DEF TypeInv, Steps
  <2> QED
    BY <1>1, <2>1, <2>2, ControlStep DEF TypeInv
<1> QED
  BY <1>4, <1>5 DEF Push

LEMMA ListPullsTyped ==
    ASSUME TypeInv, NEW n \in Runs, NEW k \in Workers, ListPulls(n, k)
    PROVE  TypeInv'
<1>1. /\ at[n][k].pc # "idle" /\ gh' = gh
      /\ UNCHANGED <<source, status, met, touched, failed, queue, cache, faults, human>>
  BY DEF ListPulls, At
<1>2. GoodRepository(gh[Repo(n, k)])
  BY <1>1, AtRepo DEF TypeInv, GhOK
<1>3. OpenPulls(Repo(n, k)) \in SUBSET Nat
  BY <1>2 DEF OpenPulls, GoodRepository, Repository
<1>4. PICK toClose \in SUBSET Nat, keeper \in BOOLEAN :
        SetLocals(n, k, [at[n][k] EXCEPT !.pc = "close", !.toClose = toClose,
                                         !.keeper = keeper])
  BY <1>3 DEF ListPulls
<1>5. GoodLocals(at[n][k]) /\ at[n][k].left # <<>>
  BY <1>1 DEF TypeInv, AtOK, GoodLocals
<1>6. GoodLocals([at[n][k] EXCEPT !.pc = "close", !.toClose = toClose,
                                  !.keeper = keeper])
  BY <1>5 DEF GoodLocals, Locals, Steps
<1>7. AtOK'
  BY <1>4, <1>6, AtStep DEF TypeInv
<1>8. GhOK' /\ ControlOK'
  BY <1>1 DEF TypeInv, GhOK, ControlOK
<1> QED
  BY <1>7, <1>8 DEF TypeInv

LEMMA ClosePullTyped ==
    ASSUME TypeInv, NEW n \in Runs, NEW k \in Workers, ClosePull(n, k)
    PROVE  TypeInv'
<1> DEFINE r == Repo(n, k)
           i == Lowest(at[n][k].toClose)
           s == IF gh[r].pulls[i].state = "open" THEN "closed" ELSE gh[r].pulls[i].state
           p == [gh[r].pulls[i] EXCEPT !.state = s]
           t == [gh[r] EXCEPT !.pulls = [gh[r].pulls EXCEPT ![i] = p]]
<1>1. /\ at[n][k].pc # "idle"
      /\ UNCHANGED <<source, status, met, touched, queue, cache, human>>
      /\ gh' = [gh EXCEPT ![r] = t]
  BY DEF ClosePull, At
<1>2. r \in Repos /\ GoodRepository(gh[r])
  BY <1>1, AtRepo DEF TypeInv, GhOK
<1>3. GhOK'
  <2>1. CASE i \in DOMAIN gh[r].pulls
    <3>1. gh[r].pulls[i] \in Pull
      BY <1>2, <2>1 DEF GoodRepository, Repository
    <3>2. p \in Pull /\ p.state # "open"
      BY <3>1 DEF Pull
    <3> HIDE DEF p, r, i
    <3>3. GoodRepository(t)
      BY <1>2, <2>1, <3>2, PullsAreGood
    <3> HIDE DEF t
    <3> QED
      BY <1>1, <1>2, <3>3, GhStep DEF TypeInv
  <2>2. CASE i \notin DOMAIN gh[r].pulls
    <3> HIDE DEF p, r, i
    <3>1. gh[r].pulls \in Seq(Pull) /\ gh[r] \in Repository
      BY <1>2 DEF GoodRepository, Repository
    <3>2. [gh[r].pulls EXCEPT ![i] = p] = gh[r].pulls
      BY <2>2, <3>1
    <3>3. [gh[r] EXCEPT !.pulls = gh[r].pulls] = gh[r]
      BY <3>1 DEF Repository
    <3>4. t = gh[r]
      BY <3>2, <3>3
    <3> HIDE DEF t
    <3> QED
      BY <1>1, <1>2, <3>4, GhStep DEF TypeInv
  <2> QED
    BY <2>1, <2>2
<1> HIDE DEF p, r, i, t
<1>4. CASE /\ SetLocals(n, k, [at[n][k] EXCEPT !.toClose = @ \ {i}])
           /\ UNCHANGED <<failed, faults>>
  <2>1. GoodLocals(at[n][k])
    BY DEF TypeInv, AtOK
  <2>2. GoodLocals([at[n][k] EXCEPT !.toClose = @ \ {i}])
    BY <2>1 DEF GoodLocals, Locals
  <2>3. AtOK'
    BY <1>4, <2>2, AtStep DEF TypeInv
  <2> QED
    BY <1>1, <1>3, <1>4, <2>3, ControlStep DEF TypeInv, ControlOK
<1>5. CASE MayFault /\ faults' = faults + 1 /\ Throw(n, k)
  <2>1. AtOK' /\ failed' \in [Runs -> BOOLEAN] /\ faults' \in 0..MaxFaults
    BY <1>5, ThrowStep, BootstrapBounds DEF TypeInv, ControlOK, MayFault
  <2> QED
    BY <1>1, <1>3, <2>1, ControlStep DEF TypeInv
<1> QED
  BY <1>4, <1>5 DEF ClosePull, i

LEMMA PostPullTyped ==
    ASSUME TypeInv, NEW n \in Runs, NEW k \in Workers, PostPull(n, k)
    PROVE  TypeInv'
<1> DEFINE r == Repo(n, k)
           p == [state |-> "open", draft |-> TRUE]
<1>1. at[n][k].pc # "idle" /\ UNCHANGED <<source, status, met, touched, queue, cache, human>>
  BY DEF PostPull, At
<1>2. r \in Repos /\ GoodRepository(gh[r])
  BY <1>1, AtRepo DEF TypeInv, GhOK
<1>3. CASE Refused(n, k)
  <2>1. AtOK' /\ failed' \in [Runs -> BOOLEAN] /\ gh' = gh /\ faults' = faults
    BY <1>3, ThrowStep DEF Refused, TypeInv, ControlOK
  <2> QED
    BY <1>1, <2>1, ControlStep DEF TypeInv, GhOK, ControlOK
<1>4. CASE /\ gh[r].branch # None /\ OpenPulls(r) = {}
           /\ gh' = [gh EXCEPT ![r].pulls = Append(@, p)]
           /\ Answered(n, k, "topics")
  <2>1. p \in Pull /\ OpenIn(gh[r]) = {}
    BY <1>4 DEF Pull, OpenPulls, OpenIn
  <2>2. GhOK'
    <3> HIDE DEF p, r
    <3>1. GoodRepository([gh[r] EXCEPT !.pulls = Append(@, p)])
      BY <1>2, <1>4, <2>1, NewPullIsGood
    <3> QED
      BY <1>2, <1>4, <3>1, GhStep DEF TypeInv
  <2>3. AtOK' /\ failed' \in [Runs -> BOOLEAN] /\ faults' \in 0..MaxFaults
    BY <1>1, <1>4, AnsweredStep DEF TypeInv, Steps
  <2> QED
    BY <1>1, <2>2, <2>3, ControlStep DEF TypeInv
<1> QED
  BY <1>3, <1>4 DEF PostPull

LEMMA PutTopicsTyped ==
    ASSUME TypeInv, NEW n \in Runs, NEW k \in Workers, PutTopics(n, k)
    PROVE  TypeInv'
<1> DEFINE rest == Tail(at[n][k].left)
<1>1. /\ at[n][k].pc # "idle"
      /\ gh' = gh \/ gh' = [gh EXCEPT ![Repo(n, k)].topics = TRUE]
      /\ UNCHANGED <<source, status, met, touched, failed, queue, cache, faults, human>>
  BY DEF PutTopics, EnsureTopics, At
<1>2. /\ Repo(n, k) \in Repos /\ GoodRepository(gh[Repo(n, k)])
      /\ at[n][k].left \in Seq(Repos) /\ at[n][k].left # <<>>
  BY <1>1, AtRepo DEF TypeInv, GhOK
<1>3. GhOK'
  <2>1. CASE gh' = gh
    BY <2>1 DEF TypeInv, GhOK
  <2>2. CASE gh' = [gh EXCEPT ![Repo(n, k)].topics = TRUE]
    BY <1>2, <2>2, FlagsAreGood, GhStep DEF TypeInv
  <2> QED
    BY <1>1, <2>1, <2>2
<1>4. rest \in Seq(Repos)
  BY <1>2
<1> HIDE DEF rest
<1>5. rest # <<>> => GoodLocals([Idle EXCEPT !.pc = "ensure", !.left = rest])
  BY <1>4, IdleIsGood DEF GoodLocals, Locals, Steps
<1>6. AtOK'
  BY <1>5, IdleIsGood, AtStep DEF TypeInv, PutTopics, EnsureTopics, rest
<1> QED
  BY <1>1, <1>3, <1>6, ControlStep DEF TypeInv, ControlOK

LEMMA RequestFailsTyped ==
    ASSUME TypeInv, NEW n \in Runs, NEW k \in Workers, RequestFails(n, k)
    PROVE  TypeInv'
<1>1. gh' = gh /\ UNCHANGED <<source, status, met, touched, queue, human>>
  BY DEF RequestFails
<1>2. AtOK' /\ failed' \in [Runs -> BOOLEAN]
  BY ThrowStep DEF RequestFails, TypeInv, ControlOK
<1>3. faults' \in 0..MaxFaults
  BY BootstrapBounds DEF RequestFails, MayFault, TypeInv, ControlOK
<1>4. cache' \in [Runs -> Shas \cup {None, Rejected}]
  BY DEF RequestFails, TypeInv, ControlOK
<1> QED
  BY <1>1, <1>2, <1>3, <1>4 DEF TypeInv, GhOK, ControlOK

LEMMA EnvironmentTyped ==
    ASSUME TypeInv, Environment
    PROVE  TypeInv'
<1>1. CASE SourceMoves
  <2>1. source' \in Shas
    BY <1>1, BootstrapBounds DEF SourceMoves, TypeInv, ControlOK, Shas
  <2> QED
    BY <1>1, <2>1 DEF SourceMoves, run, TypeInv, GhOK, AtOK, ControlOK
<1>2. ASSUME NEW r \in Repos, NEW s, Human(r, s), GoodRepository(s)
      PROVE  TypeInv'
  <2>1. GhOK'
    BY <1>2, GhStep DEF Human, TypeInv
  <2>2. UNCHANGED <<source, status, met, failed, queue, cache, at, faults>>
    BY <1>2 DEF Human
  <2>3. human' \in 0..MaxHuman
    BY <1>2, BootstrapBounds DEF Human, TypeInv, ControlOK
  <2>4. touched' \in [Runs -> SUBSET Repos]
    BY <1>2 DEF Human, TypeInv, ControlOK
  <2>5. AtOK' /\ ControlOK'
    BY <2>2, <2>3, <2>4 DEF TypeInv, AtOK, ControlOK
  <2> QED
    BY <2>1, <2>5 DEF TypeInv
<1>3. ASSUME NEW r \in Repos, HumanCommit(r)
      PROVE  TypeInv'
  <2> DEFINE b == gh[r].branch
             c == [Last(b) EXCEPT !.by = "human"]
  <2>1. GoodRepository(gh[r]) /\ b \in Seq(Commit) /\ b # <<>>
    BY <1>3 DEF HumanCommit, TypeInv, GhOK, GoodRepository, Repository
  <2>2. c \in Commit
    BY <2>1, LastIsCommit DEF Commit
  <2>3. Human(r, [gh[r] EXCEPT !.branch = Append(b, c)])
    BY <1>3 DEF HumanCommit
  <2> HIDE DEF c
  <2>4. Append(b, c) \in Seq(Commit) /\ Append(b, c) # <<>>
    BY <2>1, <2>2
  <2>5. GoodRepository([gh[r] EXCEPT !.branch = Append(b, c)])
    BY <2>1, <2>4, BranchIsGood
  <2> QED
    BY <1>2, <2>3, <2>5
<1>4. ASSUME NEW r \in Repos, NEW i \in DOMAIN gh[r].pulls, MarkReady(r, i)
      PROVE  TypeInv'
  <2> DEFINE p == [gh[r].pulls[i] EXCEPT !.draft = FALSE]
             t == [gh[r] EXCEPT !.pulls = [gh[r].pulls EXCEPT ![i] = p]]
  <2>1. GoodRepository(gh[r]) /\ gh[r].pulls[i] \in Pull
    BY <1>4 DEF TypeInv, GhOK, GoodRepository, Repository
  <2>2. p \in Pull /\ p.state = gh[r].pulls[i].state
    BY <2>1 DEF Pull
  <2>3. Human(r, t)
    BY <1>4 DEF MarkReady
  <2> HIDE DEF p
  <2>4. GoodRepository(t)
    BY <2>1, <2>2, PullsAreGood
  <2> QED
    BY <1>2, <2>3, <2>4
<1>5. ASSUME NEW r \in Repos, NEW i \in DOMAIN gh[r].pulls, MergePull(r, i)
      PROVE  TypeInv'
  <2> DEFINE b == gh[r].branch
             c == [Last(b) EXCEPT !.by = "human"]
             p == [gh[r].pulls[i] EXCEPT !.state = "merged"]
             t == [gh[r] EXCEPT !.pulls = [gh[r].pulls EXCEPT ![i] = p],
                                !.branch = None, !.base = Append(gh[r].base, c)]
  <2>1. /\ GoodRepository(gh[r]) /\ gh[r].pulls[i] \in Pull
        /\ i \in OpenIn(gh[r])
    BY <1>5 DEF MergePull, OpenPulls, OpenIn, TypeInv, GhOK, GoodRepository, Repository
  <2>2. b \in Seq(Commit) /\ b # <<>>
    BY <2>1 DEF GoodRepository, OneOpenPull, Repository
  <2>3. c \in Commit
    BY <2>2, LastIsCommit DEF Commit
  <2>4. p \in Pull /\ p.state = "merged"
    BY <2>1 DEF Pull
  <2>5. Human(r, t)
    BY <1>5 DEF MergePull
  <2> HIDE DEF p, c
  <2>6. GoodRepository(t)
    BY <2>1, <2>3, <2>4, MergeIsGood
  <2> QED
    BY <1>2, <2>5, <2>6
<1> QED
  BY <1>1, <1>3, <1>4, <1>5 DEF Environment

-----------------------------------------------------------------------------

LEMMA StepTyped == TypeInv /\ [Next]_vars => TypeInv'
<1> SUFFICES ASSUME TypeInv, [Next]_vars PROVE TypeInv'
  OBVIOUS
<1>1. CASE UNCHANGED vars
  BY <1>1 DEF vars, run, TypeInv, GhOK, AtOK, ControlOK
<1>2. ASSUME NEW n \in Runs, RunStep(n) \/ Failure(n)
      PROVE  TypeInv'
  <2>1. CASE Begin(n) \/ Exit(n) \/ Cancel(n)
    BY <2>1, BeginTyped
  <2>2. ASSUME NEW k \in Workers, RequestFails(n, k) \/ FetchFallsBack(n, k)
        PROVE  TypeInv'
    BY <2>2, RequestFailsTyped, FetchTyped
  <2>3. ASSUME NEW k \in Workers, WorkerStep(n, k)
        PROVE  TypeInv'
    BY <2>3, TakePairTyped, ReadingTyped, PostRepositoryTyped, ResolveTyped,
       FetchTyped, PushTyped, ListPullsTyped, ClosePullTyped, PostPullTyped,
       PutTopicsTyped DEF WorkerStep
  <2> QED
    BY <1>2, <2>1, <2>2, <2>3 DEF RunStep, Failure
<1> QED
  BY <1>1, <1>2, EnvironmentTyped DEF Next

\* The bootstrap is type correct, for any fleet, any number of overlapping
\* invocations and workers, and any faults and steps of people; in particular
\* a pull request that people merge has a branch.
THEOREM BootstrapTyping == Spec => []TypeOK
<1>1. Spec => []TypeInv
  BY InitTyped, StepTyped, PTL DEF Spec
<1> QED
  BY <1>1, TypeInvImpliesTypeOK, PTL

-----------------------------------------------------------------------------
(* No branch is rewritten.                                                 *)

\* The branch of a repository after an update of one repository's state.
LEMMA BranchAfter ==
    ASSUME GhOK, NEW r \in Repos, NEW q \in Repos, NEW s,
           gh' = [gh EXCEPT ![q] = s]
    PROVE  gh'[r].branch = IF r = q THEN s.branch ELSE gh[r].branch
BY DEF GhOK

\* Only a push, a person's commit and a merge touch a branch.
LEMMA BranchSteps ==
    ASSUME TypeInv, [Next]_vars, NEW r \in Repos
    PROVE  \/ gh'[r].branch = gh[r].branch
           \/ gh'[r].branch = None
           \/ gh[r].branch # None /\ \E c \in Commit :
                 /\ c.by = "human" /\ TreeOf(c) = TreeOf(Last(gh[r].branch))
                 /\ gh'[r].branch = Append(gh[r].branch, c)
           \/ \E n \in Runs, k \in Workers :
                 /\ status[n] = "running" /\ at[n][k].pc = "push" /\ r = Repo(n, k)
                 /\ gh[r].branch = None \/ Extends(at[n][k].work, gh[r].branch)
                 /\ gh'[r].branch = at[n][k].work
<1> DEFINE Same == gh'[r].branch = gh[r].branch
<1>1. CASE UNCHANGED vars
  BY <1>1 DEF vars
<1>2. ASSUME NEW n \in Runs, RunStep(n) \/ Failure(n),
             \A k \in Workers : ~Push(n, k)
      PROVE  Same
  <2>1. CASE gh' = gh
    BY <2>1
  <2>2. ASSUME NEW k \in Workers, PostRepository(n, k) \/ PutTopics(n, k)
        PROVE  Same
    <3> DEFINE q == Repo(n, k)
    <3>1. q \in Repos /\ GoodRepository(gh[q])
      BY <2>2, AtRepo DEF TypeInv, GhOK, PostRepository, PutTopics, EnsureTopics, At
    <3> DEFINE s == [gh[q] EXCEPT !.exists = TRUE]
               t == [gh[q] EXCEPT !.topics = TRUE]
    <3>2. gh' = gh \/ gh' = [gh EXCEPT ![q] = s] \/ gh' = [gh EXCEPT ![q] = t]
      BY <2>2 DEF PostRepository, PutTopics, EnsureTopics, Refused
    <3>3. s.branch = gh[q].branch /\ t.branch = gh[q].branch
      BY <3>1 DEF GoodRepository, Repository
    <3> HIDE DEF q, s, t
    <3> QED
      BY <3>1, <3>2, <3>3, BranchAfter DEF TypeInv
  <2>3. ASSUME NEW k \in Workers, PostPull(n, k) \/ ClosePull(n, k)
        PROVE  Same
    <3> DEFINE q == Repo(n, k)
    <3>1. q \in Repos /\ GoodRepository(gh[q])
      BY <2>3, AtRepo DEF TypeInv, GhOK, PostPull, ClosePull, At
    <3>2. PICK pulls : gh' \in {gh, [gh EXCEPT ![q] = [gh[q] EXCEPT !.pulls = pulls]]}
      BY <2>3 DEF PostPull, ClosePull, Refused
    <3> DEFINE t == [gh[q] EXCEPT !.pulls = pulls]
    <3>3. t.branch = gh[q].branch
      BY <3>1 DEF GoodRepository, Repository
    <3>4. gh' = gh \/ gh' = [gh EXCEPT ![q] = t]
      BY <3>2
    <3> HIDE DEF q, t
    <3> QED
      BY <3>1, <3>3, <3>4, BranchAfter DEF TypeInv
  <2> QED
    BY <1>2, <2>1, <2>2, <2>3 DEF RunStep, Failure, WorkerStep, Begin, Exit, Cancel,
       RequestFails, FetchFallsBack, TakePair, GetRepository, Resolve, FetchBranch,
       ListPulls, AllClosed
<1>3. ASSUME NEW n \in Runs, NEW k \in Workers, Push(n, k)
      PROVE  \/ Same
             \/ /\ status[n] = "running" /\ at[n][k].pc = "push" /\ r = Repo(n, k)
                /\ gh[r].branch = None \/ Extends(at[n][k].work, gh[r].branch)
                /\ gh'[r].branch = at[n][k].work
  <2> DEFINE q == Repo(n, k)
             w == at[n][k].work
             t == [gh[q] EXCEPT !.branch = w]
  <2>1. q \in Repos /\ GoodRepository(gh[q]) /\ at[n][k].pc = "push" /\ status[n] = "running"
    BY <1>3, AtRepo DEF TypeInv, GhOK, Push, At
  <2>2. \/ gh' = gh
        \/ /\ gh[q].branch = None \/ Extends(w, gh[q].branch)
           /\ gh' = [gh EXCEPT ![q] = t]
    BY <1>3 DEF Push, Refused
  <2>3. t.branch = w
    BY <2>1 DEF GoodRepository, Repository
  <2> HIDE DEF q, w, t
  <2>4. Same \/ (r = q /\ gh'[r].branch = w /\ (gh[q].branch = None \/ Extends(w, gh[q].branch)))
    BY <2>1, <2>2, <2>3, BranchAfter DEF TypeInv
  <2> QED
    BY <2>1, <2>4 DEF q, w
<1>4. ASSUME Environment
      PROVE  \/ Same \/ gh'[r].branch = None
             \/ gh[r].branch # None /\ \E c \in Commit :
                   /\ c.by = "human" /\ TreeOf(c) = TreeOf(Last(gh[r].branch))
                   /\ gh'[r].branch = Append(gh[r].branch, c)
  <2>1. CASE SourceMoves
    BY <2>1 DEF SourceMoves
  <2>2. ASSUME NEW q \in Repos, HumanCommit(q)
        PROVE  \/ Same
               \/ gh[r].branch # None /\ \E c \in Commit :
                     /\ c.by = "human" /\ TreeOf(c) = TreeOf(Last(gh[r].branch))
                     /\ gh'[r].branch = Append(gh[r].branch, c)
    <3> DEFINE b == gh[q].branch
               c == [Last(b) EXCEPT !.by = "human"]
               w == Append(b, c)
               t == [gh[q] EXCEPT !.branch = w]
    <3>1. GoodRepository(gh[q]) /\ b \in Seq(Commit) /\ b # <<>> /\ b # None
      BY <2>2 DEF HumanCommit, TypeInv, GhOK, GoodRepository, Repository
    <3>2. c \in Commit /\ c.by = "human" /\ TreeOf(c) = TreeOf(Last(b))
      BY <3>1, LastIsCommit DEF Commit, TreeOf
    <3>3. gh' = [gh EXCEPT ![q] = t]
      BY <2>2 DEF HumanCommit, Human
    <3> HIDE DEF c, w
    <3>4. t.branch = w
      BY <3>1 DEF GoodRepository, Repository
    <3> HIDE DEF t
    <3>5. gh'[r].branch = IF r = q THEN w ELSE gh[r].branch
      BY <3>3, <3>4, BranchAfter DEF TypeInv
    <3> QED
      BY <3>1, <3>2, <3>5 DEF w
  <2>3. ASSUME NEW q \in Repos, NEW i \in DOMAIN gh[q].pulls, MarkReady(q, i)
        PROVE  Same
    <3>1. PICK pulls : gh' = [gh EXCEPT ![q] = [gh[q] EXCEPT !.pulls = pulls]]
      BY <2>3 DEF MarkReady, Human
    <3>2. [gh[q] EXCEPT !.pulls = pulls].branch = gh[q].branch
      BY DEF TypeInv, GhOK, Repository
    <3> QED
      BY <3>1, <3>2, BranchAfter DEF TypeInv
  <2>4. ASSUME NEW q \in Repos, NEW i \in DOMAIN gh[q].pulls, MergePull(q, i)
        PROVE  Same \/ gh'[r].branch = None
    <3>1. PICK pulls, base : gh' = [gh EXCEPT ![q] =
             [gh[q] EXCEPT !.pulls = pulls, !.branch = None, !.base = base]]
      BY <2>4 DEF MergePull, Human
    <3>2. [gh[q] EXCEPT !.pulls = pulls, !.branch = None, !.base = base].branch = None
      BY DEF TypeInv, GhOK, Repository
    <3> QED
      BY <3>1, <3>2, BranchAfter DEF TypeInv
  <2> QED
    BY <1>4, <2>1, <2>2, <2>3, <2>4 DEF Environment
<1> QED
  BY <1>1, <1>2, <1>3, <1>4 DEF Next

LEMMA AppendExtends ==
    ASSUME NEW b \in Seq(Commit), NEW c \in Commit
    PROVE  Extends(Append(b, c), b) /\ Extends(b, b)
BY DEF Extends

\* Whatever overlaps, fails or is cancelled, and whoever else commits, no step
\* rewrites a branch: pushes are not forced, so work that started from the
\* default branch after a failed fetch is refused where a branch exists.
THEOREM BranchesAreNeverRewritten == Spec => NeverRewritten
<1>1. ASSUME TypeInv, [Next]_vars, NEW r \in Repos,
             gh[r].branch # None, gh'[r].branch # None
      PROVE  Extends(gh'[r].branch, gh[r].branch)
  <2>1. gh[r].branch \in Seq(Commit)
    BY <1>1 DEF TypeInv, GhOK, Repository
  <2> QED
    BY <1>1, <2>1, BranchSteps, AppendExtends DEF Extends
<1>2. TypeInv /\ [Next]_vars =>
        [\A r \in Repos : gh[r].branch # None /\ gh'[r].branch # None =>
            Extends(gh'[r].branch, gh[r].branch)]_vars
  BY <1>1
<1> QED
  BY <1>2, InitTyped, StepTyped, PTL DEF Spec, NeverRewritten

-----------------------------------------------------------------------------
(* An invocation pins one commit of the source.                            *)

\* A commit made by an invocation carries the pin that its cache holds.
Pinned(c, held) == c.by \in Runs => held[c.by] \in Shas /\ c.pins = held[c.by]

BranchesPinned ==
    \A r \in Needs : gh[r].branch # None =>
        \A i \in DOMAIN gh[r].branch : Pinned(gh[r].branch[i], cache)

BasesAreHuman ==
    \A r \in Repos : \A i \in DOMAIN gh[r].base : gh[r].base[i].by \notin Runs

LocalsPinned(n, l) ==
    l.left # <<>> /\ Head(l.left) \in Needs =>
        /\ l.pc = "fetch" => cache[n] \in Shas /\ l.pins = cache[n]
        /\ l.pc = "push" => \A i \in DOMAIN l.work : Pinned(l.work[i], cache)

WorkPinned == \A n \in Runs, k \in Workers : LocalsPinned(n, at[n][k])

PinInv == TypeInv /\ BranchesPinned /\ BasesAreHuman /\ WorkPinned

LEMMA PinInvImpliesOnePin == PinInv => OnePinPerRun
BY NeedsAssumption DEF PinInv, BranchesPinned, Pinned, OnePinPerRun

LEMMA InitPinned == Init => PinInv
<1> SUFFICES ASSUME Init PROVE PinInv
  OBVIOUS
<1>1. \A r \in Repos : gh[r].branch = None /\ gh[r].base = AutoInit
  BY DEF Init
<1>2. BranchesPinned
  BY <1>1, NeedsAssumption DEF BranchesPinned
<1>3. BasesAreHuman
  BY <1>1, AuthorsAssumption DEF BasesAreHuman, AutoInit
<1>4. WorkPinned
  BY DEF WorkPinned, LocalsPinned, Init, Idle
<1> QED
  BY <1>2, <1>3, <1>4, InitTyped DEF PinInv

\* What the cache holds stays in it.
LEMMA CacheSteps ==
    ASSUME TypeInv, [Next]_vars, NEW n \in Runs, cache[n] # None
    PROVE  cache'[n] = cache[n]
<1>1. CASE UNCHANGED vars
  BY <1>1 DEF vars, run
<1>2. ASSUME NEW m \in Runs, NEW k \in Workers, Resolve(m, k) \/ RequestFails(m, k)
      PROVE  cache'[n] = cache[n]
  <2>1. \/ cache' = cache
        \/ cache' = [cache EXCEPT ![m] = IF cache[m] = None THEN source ELSE cache[m]]
        \/ cache[m] = None /\ cache' = [cache EXCEPT ![m] = Rejected]
    BY <1>2 DEF Resolve, RequestFails
  <2> QED
    BY <2>1 DEF TypeInv, ControlOK
<1>3. ASSUME NEW m \in Runs, NEW k \in Workers, WorkerStep(m, k) \/ FetchFallsBack(m, k)
      PROVE  cache'[n] = cache[n]
  BY <1>2, <1>3 DEF WorkerStep, FetchFallsBack, TakePair, GetRepository,
     PostRepository, FetchBranch, Push, ListPulls, AllClosed, ClosePull, PostPull,
     PutTopics, EnsureTopics
<1>4. ASSUME NEW m \in Runs, Begin(m) \/ Exit(m) \/ Cancel(m)
      PROVE  cache'[n] = cache[n]
  BY <1>4 DEF Begin, Exit, Cancel
<1>5. CASE Environment
  BY <1>5 DEF Environment, SourceMoves, HumanCommit, MarkReady, MergePull, Human, run
<1>6. CASE \E m \in Runs : RunStep(m) \/ Failure(m)
  BY <1>2, <1>3, <1>4, <1>6 DEF RunStep, Failure
<1> QED
  BY <1>1, <1>5, <1>6 DEF Next

LEMMA PinnedIsStable ==
    ASSUME TypeInv, [Next]_vars, NEW c, Pinned(c, cache)
    PROVE  Pinned(c, cache')
BY CacheSteps, BootstrapBounds DEF Pinned, Shas

LEMMA BranchesPinnedStep ==
    ASSUME PinInv, [Next]_vars
    PROVE  BranchesPinned'
<1> SUFFICES ASSUME NEW r \in Needs, gh'[r].branch # None,
                    NEW i \in DOMAIN gh'[r].branch
             PROVE  Pinned(gh'[r].branch[i], cache')
  BY DEF BranchesPinned
<1>1. r \in Repos /\ TypeInv
  BY NeedsAssumption DEF PinInv
<1>2. CASE gh'[r].branch = gh[r].branch
  BY <1>1, <1>2, PinnedIsStable DEF PinInv, BranchesPinned
<1>3. ASSUME gh[r].branch # None, NEW c \in Commit, c.by = "human",
             gh'[r].branch = Append(gh[r].branch, c)
      PROVE  Pinned(gh'[r].branch[i], cache')
  <2> DEFINE b == gh[r].branch
  <2>1. b \in Seq(Commit)
    BY <1>1, <1>3 DEF TypeInv, GhOK, Repository
  <2>2. gh'[r].branch[i] = c \/ (i \in DOMAIN b /\ gh'[r].branch[i] = b[i])
    BY <1>3, <2>1
  <2>3. Pinned(c, cache)
    BY <1>3, AuthorsAssumption DEF Pinned
  <2>4. Pinned(gh'[r].branch[i], cache)
    BY <1>3, <2>2, <2>3 DEF PinInv, BranchesPinned
  <2> QED
    BY <1>1, <2>4, PinnedIsStable
<1>4. ASSUME NEW n \in Runs, NEW k \in Workers, at[n][k].pc = "push",
             r = Repo(n, k), gh'[r].branch = at[n][k].work
      PROVE  Pinned(gh'[r].branch[i], cache')
  <2>1. at[n][k].left # <<>>
    BY <1>1, <1>4, AtRepo DEF TypeInv
  <2>2. Pinned(gh'[r].branch[i], cache)
    BY <1>4, <2>1 DEF PinInv, WorkPinned, LocalsPinned, Repo
  <2> QED
    BY <1>1, <2>2, PinnedIsStable
<1> QED
  BY <1>1, <1>2, <1>3, <1>4, BranchSteps

\* Only a merge touches the default branch.
LEMMA BaseSteps ==
    ASSUME TypeInv, [Next]_vars, NEW r \in Repos
    PROVE  \/ gh'[r].base = gh[r].base
           \/ \E c \in Commit : c.by = "human" /\ gh'[r].base = Append(gh[r].base, c)
<1> DEFINE Same == gh'[r].base = gh[r].base
<1>1. ASSUME NEW q \in Repos, NEW s, s.base = gh[q].base, gh' = [gh EXCEPT ![q] = s]
      PROVE  Same
  BY <1>1 DEF TypeInv, GhOK
<1>2. CASE gh' = gh
  BY <1>2
<1>3. ASSUME NEW n \in Runs, NEW k \in Workers,
             \/ PostRepository(n, k) \/ PutTopics(n, k) \/ PostPull(n, k)
             \/ ClosePull(n, k) \/ Push(n, k)
      PROVE  Same
  <2> DEFINE q == Repo(n, k)
  <2>1. q \in Repos /\ gh[q] \in Repository
    BY <1>3, AtRepo DEF TypeInv, GhOK, PostRepository, PutTopics, EnsureTopics, PostPull, ClosePull,
       Push, At
  <2>2. PICK pulls, branch :
          gh' \in {gh, [gh EXCEPT ![q] = [gh[q] EXCEPT !.exists = TRUE]],
                   [gh EXCEPT ![q] = [gh[q] EXCEPT !.topics = TRUE]],
                   [gh EXCEPT ![q] = [gh[q] EXCEPT !.pulls = pulls]],
                   [gh EXCEPT ![q] = [gh[q] EXCEPT !.branch = branch]]}
    BY <1>3 DEF PostRepository, PutTopics, EnsureTopics, PostPull, ClosePull, Push, Refused
  <2>3. PICK s : s.base = gh[q].base /\ gh' \in {gh, [gh EXCEPT ![q] = s]}
    BY <2>1, <2>2 DEF Repository
  <2> HIDE DEF q
  <2> QED
    BY <1>1, <2>1, <2>3
<1>4. ASSUME NEW q \in Repos, HumanCommit(q)
      PROVE  Same
  <2>1. PICK branch : gh' = [gh EXCEPT ![q] = [gh[q] EXCEPT !.branch = branch]]
    BY <1>4 DEF HumanCommit, Human
  <2> DEFINE t == [gh[q] EXCEPT !.branch = branch]
  <2>2. t.base = gh[q].base /\ gh' = [gh EXCEPT ![q] = t]
    BY <2>1 DEF TypeInv, GhOK, Repository
  <2> HIDE DEF t
  <2> QED
    BY <1>1, <2>2
<1>5. ASSUME NEW q \in Repos, NEW i \in DOMAIN gh[q].pulls, MarkReady(q, i)
      PROVE  Same
  <2>1. PICK pulls : gh' = [gh EXCEPT ![q] = [gh[q] EXCEPT !.pulls = pulls]]
    BY <1>5 DEF MarkReady, Human
  <2> DEFINE t == [gh[q] EXCEPT !.pulls = pulls]
  <2>2. t.base = gh[q].base /\ gh' = [gh EXCEPT ![q] = t]
    BY <2>1 DEF TypeInv, GhOK, Repository
  <2> HIDE DEF t
  <2> QED
    BY <1>1, <2>2
<1>6. ASSUME NEW q \in Repos, NEW i \in DOMAIN gh[q].pulls, MergePull(q, i)
      PROVE  \/ Same
             \/ \E c \in Commit : c.by = "human" /\ gh'[r].base = Append(gh[r].base, c)
  <2> DEFINE b == gh[q].branch
             c == [Last(b) EXCEPT !.by = "human"]
             base == Append(gh[q].base, c)
  <2>1. GoodRepository(gh[q]) /\ i \in OpenIn(gh[q])
    BY <1>6 DEF MergePull, OpenPulls, OpenIn, TypeInv, GhOK
  <2>2. b \in Seq(Commit) /\ b # <<>>
    BY <2>1 DEF GoodRepository, OneOpenPull, Repository
  <2>3. c \in Commit /\ c.by = "human"
    BY <2>2, LastIsCommit DEF Commit
  <2>4. PICK pulls : gh' = [gh EXCEPT ![q] =
          [gh[q] EXCEPT !.pulls = pulls, !.branch = None, !.base = base]]
    BY <1>6 DEF MergePull, Human
  <2> DEFINE t == [gh[q] EXCEPT !.pulls = pulls, !.branch = None, !.base = base]
  <2> HIDE DEF c, base
  <2>5. t.base = base /\ gh' = [gh EXCEPT ![q] = t]
    BY <2>1, <2>4 DEF GoodRepository, Repository
  <2> HIDE DEF t
  <2>6. gh'[r].base = IF r = q THEN base ELSE gh[r].base
    BY <2>5 DEF TypeInv, GhOK
  <2> QED
    BY <2>3, <2>6 DEF base
<1>7. CASE Environment
  BY <1>2, <1>4, <1>5, <1>6, <1>7 DEF Environment, SourceMoves
<1>8. ASSUME NEW n \in Runs, RunStep(n) \/ Failure(n)
      PROVE  Same
  BY <1>2, <1>3, <1>8 DEF RunStep, Failure, WorkerStep, Begin, Exit, Cancel,
     RequestFails, FetchFallsBack, TakePair, GetRepository, Resolve, FetchBranch,
     ListPulls, AllClosed
<1> QED
  BY <1>2, <1>7, <1>8 DEF Next, vars

LEMMA BasesAreHumanStep ==
    ASSUME PinInv, [Next]_vars
    PROVE  BasesAreHuman'
<1> SUFFICES ASSUME NEW r \in Repos, NEW i \in DOMAIN gh'[r].base
             PROVE  gh'[r].base[i].by \notin Runs
  BY DEF BasesAreHuman
<1>1. r \in Repos /\ gh[r].base \in Seq(Commit) /\ TypeInv
  BY NeedsAssumption DEF PinInv, TypeInv, GhOK, Repository
<1>2. CASE gh'[r].base = gh[r].base
  BY <1>2 DEF PinInv, BasesAreHuman
<1>3. ASSUME NEW c \in Commit, c.by = "human", gh'[r].base = Append(gh[r].base, c)
      PROVE  gh'[r].base[i].by \notin Runs
  <2>1. gh'[r].base[i] = c \/ (i \in DOMAIN gh[r].base /\ gh'[r].base[i] = gh[r].base[i])
    BY <1>1, <1>3
  <2> QED
    BY <1>3, <2>1, AuthorsAssumption DEF PinInv, BasesAreHuman
<1> QED
  BY <1>1, <1>2, <1>3, BaseSteps

\* A worker that stands elsewhere holds nothing that is to be pushed.
LEMMA ElsewherePinned ==
    ASSUME NEW n \in Runs, NEW k \in Workers, at'[n][k].pc \notin {"fetch", "push"}
    PROVE  LocalsPinned(n, at[n][k])'
BY DEF LocalsPinned

\* Other workers keep their locals, and what they hold stays pinned.
LEMMA UntouchedPinned ==
    ASSUME PinInv, [Next]_vars, NEW n \in Runs, NEW k \in Workers,
           at'[n][k] = at[n][k]
    PROVE  LocalsPinned(n, at[n][k])'
<1> DEFINE l == at[n][k]
<1>1. LocalsPinned(n, l) /\ TypeInv
  BY DEF PinInv, WorkPinned
<1> SUFFICES ASSUME l.left # <<>>, Head(l.left) \in Needs
             PROVE  /\ l.pc = "fetch" => cache'[n] \in Shas /\ l.pins = cache'[n]
                    /\ l.pc = "push" => \A i \in DOMAIN l.work : Pinned(l.work[i], cache')
  BY DEF LocalsPinned
<1>2. l.pc = "fetch" => cache'[n] \in Shas /\ l.pins = cache'[n]
  BY <1>1, CacheSteps, BootstrapBounds DEF LocalsPinned, Shas
<1>3. l.pc = "push" => \A i \in DOMAIN l.work : Pinned(l.work[i], cache')
  BY <1>1, PinnedIsStable DEF LocalsPinned
<1> QED
  BY <1>2, <1>3

\* The commit of a worker pins what its cache holds.
LEMMA CommitPinned ==
    ASSUME PinInv, NEW n \in Runs, NEW k \in Workers,
           FetchBranch(n, k) \/ FetchFallsBack(n, k)
    PROVE  LocalsPinned(n, at[n][k])'
<1> DEFINE r == Repo(n, k)
           l == at[n][k]
<1>1. TypeInv /\ l.pc = "fetch" /\ cache' = cache /\ l \in Locals /\ l.left # <<>>
  BY DEF PinInv, TypeInv, AtOK, GoodLocals, FetchBranch, FetchFallsBack, At
<1>2. r \in Repos /\ GoodRepository(gh[r])
  BY <1>1, AtRepo DEF TypeInv, GhOK
<1>3. PICK tip \in Seq(Commit) :
        /\ tip # <<>> /\ CommitOn(n, k, tip)
        /\ tip = gh[r].base \/ (tip = gh[r].branch /\ gh[r].branch # None)
  BY <1>2 DEF FetchBranch, FetchFallsBack, GoodRepository, Repository
<1> DEFINE tree == Generated(r, l.pins, Last(tip))
           c == CommitOf(n, tree)
           work == Append(tip, c)
<1>4. /\ l.pins \in Shas
      /\ at \in [Runs -> [Workers -> Locals]]
  BY <1>1 DEF TypeInv, AtOK, Locals
<1>5. CASE SetLocals(n, k, [l EXCEPT !.pc = "list"])
  <2>1. at'[n][k].pc = "list"
    BY <1>1, <1>4, <1>5 DEF SetLocals, Locals
  <2> QED
    BY <2>1, ElsewherePinned
<1>6. CASE SetLocals(n, k, [l EXCEPT !.pc = "push", !.work = work])
  <2> HIDE DEF work
  <2>1. at'[n][k].pc = "push" /\ at'[n][k].work = work /\ at'[n][k].left = l.left
    BY <1>1, <1>4, <1>6 DEF SetLocals, Locals
  <2>2. ASSUME r \in Needs, NEW i \in DOMAIN work
        PROVE  Pinned(work[i], cache)
    <3>1. cache[n] \in Shas /\ l.pins = cache[n]
      BY <1>1, <2>2 DEF PinInv, WorkPinned, LocalsPinned, Repo
    <3>2. c.by = n /\ c.pins = cache[n] /\ c \in Commit
      <4>1. tree \in Tree /\ tree.pins = l.pins
        BY <1>2, <1>3, <1>4, <2>2, LastIsCommit, GeneratedIsTree DEF Generated
      <4> QED
        BY <3>1, <4>1 DEF CommitOf, Tree, Commit
    <3> HIDE DEF c
    <3>3. Pinned(c, cache)
      BY <3>1, <3>2 DEF Pinned
    <3>4. \A j \in DOMAIN tip : Pinned(tip[j], cache)
      BY <1>2, <1>3, <2>2 DEF PinInv, BranchesPinned, BasesAreHuman, Pinned
    <3>5. work[i] = c \/ (i \in DOMAIN tip /\ work[i] = tip[i])
      BY <1>3, <3>2, <2>2 DEF work
    <3> QED
      BY <3>3, <3>4, <3>5
  <2> QED
    BY <1>1, <2>1, <2>2 DEF LocalsPinned, Repo
<1> QED
  BY <1>3, <1>5, <1>6 DEF CommitOn

LEMMA ResolvePinned ==
    ASSUME PinInv, NEW n \in Runs, NEW k \in Workers, Resolve(n, k)
    PROVE  LocalsPinned(n, at[n][k])'
<1> DEFINE l == at[n][k]
           found == IF cache[n] = None THEN source ELSE cache[n]
<1>1. /\ TypeInv /\ l \in Locals /\ at \in [Runs -> [Workers -> Locals]]
      /\ cache \in [Runs -> Shas \cup {None, Rejected}] /\ source \in Shas
  BY DEF PinInv, TypeInv, AtOK, ControlOK, GoodLocals
<1>2. CASE Goto(n, k, "fetch") /\ Repo(n, k) \notin Needs
  <2>1. at'[n][k].left = l.left
    BY <1>1, <1>2 DEF Goto, SetLocals, Locals
  <2> QED
    BY <1>2, <2>1 DEF LocalsPinned, Repo
<1>3. CASE Throw(n, k)
  <2>1. at'[n][k].pc = "idle"
    BY <1>1, <1>3 DEF Throw, SetLocals, Idle
  <2> QED
    BY <2>1, ElsewherePinned
<1>4. CASE /\ found # Rejected
           /\ cache' = [cache EXCEPT ![n] = found]
           /\ SetLocals(n, k, [l EXCEPT !.pc = "fetch", !.pins = found])
  <2>1. found \in Shas
    BY <1>1, <1>4
  <2> HIDE DEF found
  <2>2. /\ at'[n][k].pc = "fetch" /\ at'[n][k].pins = found
        /\ cache'[n] = found
    BY <1>1, <1>4 DEF SetLocals, Locals
  <2> QED
    BY <2>1, <2>2 DEF LocalsPinned
<1> QED
  BY <1>2, <1>3, <1>4 DEF Resolve

\* What each step does to the locals of a worker.
LEMMA LocalsSteps ==
    ASSUME TypeInv, [Next]_vars, NEW n \in Runs, NEW k \in Workers
    PROVE  \/ at'[n][k] = at[n][k]
           \/ at'[n][k].pc \notin {"fetch", "push"}
           \/ FetchBranch(n, k) \/ FetchFallsBack(n, k) \/ Resolve(n, k)
<1> DEFINE Conclusion ==
             \/ at'[n][k] = at[n][k]
             \/ at'[n][k].pc \notin {"fetch", "push"}
             \/ FetchBranch(n, k) \/ FetchFallsBack(n, k) \/ Resolve(n, k)
<1>1. at \in [Runs -> [Workers -> Locals]]
  BY DEF TypeInv, AtOK
<1>2. ASSUME at' = at
      PROVE  Conclusion
  BY <1>2
<1>3. ASSUME NEW m \in Runs, NEW j \in Workers, NEW l, SetLocals(m, j, l),
             m = n /\ j = k => l.pc \notin {"fetch", "push"}
      PROVE  Conclusion
  <2>1. at'[n][k] = IF m = n /\ j = k THEN l ELSE at[n][k]
    BY <1>1, <1>3 DEF SetLocals
  <2> QED
    BY <1>3, <2>1
<1>4. ASSUME NEW m \in Runs, NEW j \in Workers, NEW pc \in Steps \ {"fetch", "push"},
             Goto(m, j, pc)
      PROVE  Conclusion
  <2> DEFINE l == [at[m][j] EXCEPT !.pc = pc]
  <2>1. l.pc = pc
    BY <1>1 DEF Locals
  <2>2. SetLocals(m, j, l)
    BY <1>4 DEF Goto
  <2> HIDE DEF l
  <2> QED
    BY <1>3, <1>4, <2>1, <2>2
<1>5. ASSUME NEW m \in Runs, NEW j \in Workers, Throw(m, j)
      PROVE  Conclusion
  BY <1>3, <1>5 DEF Throw, Idle
<1>6. ASSUME NEW m \in Runs, NEW j \in Workers,
             NEW pc \in Steps \ {"fetch", "push"}, Answered(m, j, pc)
      PROVE  Conclusion
  BY <1>4, <1>5, <1>6 DEF Answered
<1>7. ASSUME NEW m \in Runs, NEW j \in Workers,
             FetchBranch(m, j) \/ FetchFallsBack(m, j) \/ Resolve(m, j)
      PROVE  Conclusion
  <2>1. CASE m = n /\ j = k
    BY <1>7, <2>1
  <2>2. CASE ~(m = n /\ j = k)
    <3>1. PICK l : SetLocals(m, j, l)
      BY <1>7 DEF FetchBranch, FetchFallsBack, Resolve, CommitOn, Goto, Throw
    <3> QED
      BY <1>3, <2>2, <3>1
  <2> QED
    BY <2>1, <2>2
<1>8. ASSUME NEW m \in Runs, NEW j \in Workers, TakePair(m, j) \/ PutTopics(m, j)
      PROVE  Conclusion
  <2>1. PICK left : \/ SetLocals(m, j, Idle)
                    \/ SetLocals(m, j, [Idle EXCEPT !.pc = "ensure", !.left = left])
    BY <1>8 DEF TakePair, PutTopics, EnsureTopics
  <2> DEFINE l == [Idle EXCEPT !.pc = "ensure", !.left = left]
  <2>2. Idle.pc = "idle" /\ l.pc = "ensure"
    BY DEF Idle
  <2>3. SetLocals(m, j, Idle) \/ SetLocals(m, j, l)
    BY <2>1
  <2> HIDE DEF l
  <2> QED
    BY <1>3, <2>2, <2>3
<1>9. ASSUME NEW m \in Runs, NEW j \in Workers, ListPulls(m, j)
      PROVE  Conclusion
  <2>1. PICK toClose, keeper :
          SetLocals(m, j, [at[m][j] EXCEPT !.pc = "close", !.toClose = toClose,
                                           !.keeper = keeper])
    BY <1>9 DEF ListPulls
  <2> DEFINE l == [at[m][j] EXCEPT !.pc = "close", !.toClose = toClose,
                                   !.keeper = keeper]
  <2>2. l.pc = "close"
    BY <1>1 DEF Locals
  <2>3. SetLocals(m, j, l)
    BY <2>1
  <2> HIDE DEF l
  <2> QED
    BY <1>3, <2>2, <2>3
<1>10. ASSUME NEW m \in Runs, NEW j \in Workers, ClosePull(m, j)
       PROVE  Conclusion
  <2>1. CASE Throw(m, j)
    BY <1>5, <2>1
  <2>2. CASE ~Throw(m, j)
    <3>1. PICK toClose : SetLocals(m, j, [at[m][j] EXCEPT !.toClose = toClose])
      BY <1>10, <2>2 DEF ClosePull
    <3> DEFINE l == [at[m][j] EXCEPT !.toClose = toClose]
    <3>2. l.pc = "close"
      BY <1>1, <1>10 DEF Locals, ClosePull, At
    <3>3. SetLocals(m, j, l)
      BY <3>1
    <3> HIDE DEF l
    <3> QED
      BY <1>3, <3>2, <3>3
  <2> QED
    BY <2>1, <2>2
<1> HIDE DEF Conclusion
<1>11. ASSUME NEW m \in Runs, NEW j \in Workers,
              \/ GetRepository(m, j) \/ PostRepository(m, j) \/ Push(m, j)
              \/ AllClosed(m, j) \/ PostPull(m, j) \/ RequestFails(m, j)
       PROVE  Conclusion
  <2>1. \/ Throw(m, j)
        \/ \E pc \in Steps \ {"fetch", "push"} : Goto(m, j, pc) \/ Answered(m, j, pc)
    BY <1>11 DEF GetRepository, PostRepository, Push, AllClosed, PostPull,
       RequestFails, Refused, Steps
  <2> QED
    BY <1>4, <1>5, <1>6, <2>1
<1>12. ASSUME NEW m \in Runs, RunStep(m) \/ Failure(m)
       PROVE  Conclusion
  <2>1. CASE Begin(m) \/ Exit(m) \/ Cancel(m)
    BY <1>2, <2>1 DEF Begin, Exit, Cancel
  <2>2. ASSUME NEW j \in Workers,
               WorkerStep(m, j) \/ RequestFails(m, j) \/ FetchFallsBack(m, j)
        PROVE  Conclusion
    BY <1>7, <1>8, <1>9, <1>10, <1>11, <2>2 DEF WorkerStep
  <2> QED
    BY <1>12, <2>1, <2>2 DEF RunStep, Failure
<1>13. CASE Environment \/ UNCHANGED vars
  BY <1>2, <1>13 DEF Environment, SourceMoves, HumanCommit, MarkReady, MergePull,
     Human, run, vars
<1> QED
  BY <1>12, <1>13 DEF Next, Conclusion

LEMMA PinnedStep == PinInv /\ [Next]_vars => PinInv'
<1> SUFFICES ASSUME PinInv, [Next]_vars PROVE PinInv'
  OBVIOUS
<1>1. TypeInv /\ TypeInv'
  BY StepTyped DEF PinInv
<1>2. WorkPinned'
  <2> SUFFICES ASSUME NEW n \in Runs, NEW k \in Workers
               PROVE  LocalsPinned(n, at[n][k])'
    BY DEF WorkPinned
  <2> QED
    BY <1>1, LocalsSteps, UntouchedPinned, ElsewherePinned, CommitPinned, ResolvePinned
<1> QED
  BY <1>1, <1>2, BranchesPinnedStep, BasesAreHumanStep DEF PinInv

\* All commits that one invocation pushes to repositories with sources pin the
\* same source commit, for any number of workers, organizations and overlapping
\* invocations, and however the source moves meanwhile.
THEOREM PinsAgree == Spec => []OnePinPerRun
<1>1. Spec => []PinInv
  BY InitPinned, PinnedStep, PTL DEF Spec
<1> QED
  BY <1>1, PinInvImpliesOnePin, PTL

-----------------------------------------------------------------------------
(* What each step does to the invocations and to the pull requests.        *)

\* The locals that a worker's action sets are its own.
LEMMA OnlyOwnLocals ==
    ASSUME NEW n \in Runs, NEW k \in Workers, TypeInv,
           WorkerStep(n, k) \/ RequestFails(n, k) \/ FetchFallsBack(n, k),
           NEW m \in Runs, NEW j \in Workers, ~(m = n /\ j = k)
    PROVE  at'[m][j] = at[m][j]
<1>1. \E l : SetLocals(n, k, l)
  <2>1. CASE Throw(n, k)
    BY <2>1 DEF Throw
  <2>2. ASSUME NEW pc, Goto(n, k, pc) \/ Answered(n, k, pc)
        PROVE  \E l : SetLocals(n, k, l)
    BY <2>2 DEF Goto, Answered, Throw
  <2>3. CASE TakePair(n, k) \/ PutTopics(n, k) \/ ListPulls(n, k)
    BY <2>3 DEF TakePair, PutTopics, EnsureTopics, ListPulls
  <2>4. CASE FetchBranch(n, k) \/ FetchFallsBack(n, k) \/ Resolve(n, k)
    BY <2>2, <2>4 DEF FetchBranch, FetchFallsBack, CommitOn, Resolve, Throw
  <2>5. CASE ClosePull(n, k)
    BY <2>5 DEF ClosePull, Throw
  <2>6. CASE \/ RequestFails(n, k) \/ GetRepository(n, k) \/ PostRepository(n, k)
             \/ Push(n, k) \/ AllClosed(n, k) \/ PostPull(n, k)
    BY <2>1, <2>2, <2>6 DEF RequestFails, GetRepository, PostRepository, Push,
       AllClosed, PostPull, Refused
  <2> QED
    BY <2>3, <2>4, <2>5, <2>6 DEF WorkerStep
<1> QED
  BY <1>1 DEF SetLocals, TypeInv, AtOK

\* What each step does to the status of an invocation.
LEMMA StatusSteps ==
    ASSUME TypeInv, [Next]_vars, NEW n \in Runs
    PROVE  \/ status'[n] = status[n]
           \/ status'[n] \in {"exited", "cancelled"}
           \/ Begin(n) /\ status[n] = "waiting" /\ status'[n] = "running"
              /\ cache' = cache /\ gh' = gh /\ at' = at /\ source' = source
              /\ \A m \in Runs \ {n} : status'[m] = status[m]
<1>1. ASSUME NEW m \in Runs, NEW k \in Workers,
             WorkerStep(m, k) \/ RequestFails(m, k) \/ FetchFallsBack(m, k)
      PROVE  status' = status
  BY <1>1 DEF WorkerStep, RequestFails, FetchFallsBack, TakePair, GetRepository,
     PostRepository, Resolve, FetchBranch, Push, ListPulls, AllClosed, ClosePull,
     PostPull, PutTopics, EnsureTopics
<1>2. CASE Environment \/ UNCHANGED vars
  BY <1>2 DEF Environment, SourceMoves, HumanCommit, MarkReady, MergePull, Human, run, vars
<1>3. ASSUME NEW m \in Runs, Begin(m) \/ Exit(m) \/ Cancel(m)
      PROVE  \/ status'[n] = status[n]
             \/ status'[n] \in {"exited", "cancelled"}
             \/ Begin(n) /\ status[n] = "waiting" /\ status'[n] = "running"
                /\ cache' = cache /\ gh' = gh /\ at' = at /\ source' = source
                /\ \A j \in Runs \ {n} : status'[j] = status[j]
  BY <1>3 DEF Begin, Exit, Cancel, TypeInv, ControlOK
<1> QED
  BY <1>1, <1>2, <1>3 DEF Next, RunStep, Failure

\* An invocation that is not under way keeps its locals.
LEMMA StillLocals ==
    ASSUME TypeInv, [Next]_vars, NEW n \in Runs, NEW k \in Workers, status[n] # "running"
    PROVE  at'[n][k] = at[n][k]
<1>1. ASSUME NEW m \in Runs, NEW j \in Workers,
             WorkerStep(m, j) \/ RequestFails(m, j) \/ FetchFallsBack(m, j)
      PROVE  at'[n][k] = at[n][k]
  <2>1. status[m] = "running"
    BY <1>1 DEF WorkerStep, RequestFails, FetchFallsBack, TakePair, GetRepository,
       PostRepository, Resolve, FetchBranch, Push, ListPulls, AllClosed, ClosePull,
       PostPull, PutTopics, EnsureTopics, At
  <2> QED
    BY <1>1, <2>1, OnlyOwnLocals
<1>2. ASSUME NEW m \in Runs, Begin(m) \/ Exit(m) \/ Cancel(m)
      PROVE  at' = at
  BY <1>2 DEF Begin, Exit, Cancel
<1>3. CASE Environment \/ UNCHANGED vars
  BY <1>3 DEF Environment, SourceMoves, HumanCommit, MarkReady, MergePull, Human, run, vars
<1> QED
  BY <1>1, <1>2, <1>3 DEF Next, RunStep, Failure

\* An error that was counted is not forgotten.
LEMMA FailuresStay ==
    ASSUME TypeInv, [Next]_vars, NEW m \in Runs, failed[m]
    PROVE  failed'[m]
<1>1. ASSUME NEW n \in Runs, NEW k \in Workers, Throw(n, k)
      PROVE  failed'[m]
  BY <1>1 DEF Throw, TypeInv, ControlOK
<1>2. ASSUME NEW n \in Runs, NEW k \in Workers,
             WorkerStep(n, k) \/ RequestFails(n, k) \/ FetchFallsBack(n, k),
             ~Throw(n, k)
      PROVE  failed' = failed
  BY <1>2 DEF WorkerStep, RequestFails, FetchFallsBack, TakePair, GetRepository,
     PostRepository, Resolve, FetchBranch, Push, ListPulls, AllClosed, ClosePull,
     PostPull, PutTopics, EnsureTopics, Answered, Refused, Goto
<1> QED
  BY <1>1, <1>2 DEF Next, RunStep, Failure, Begin, Exit, Cancel, Environment,
     SourceMoves, HumanCommit, MarkReady, MergePull, Human, vars, run

LEMMA Arrives ==
    ASSUME TypeInv, NEW n \in Runs, NEW k \in Workers, NEW l, SetLocals(n, k, l)
    PROVE  at'[n][k] = l
BY DEF TypeInv, AtOK, SetLocals

\* What a worker that has fetched goes on with.
LEMMA Fetched ==
    ASSUME TypeInv, NEW n \in Runs, NEW k \in Workers,
           FetchBranch(n, k) \/ FetchFallsBack(n, k)
    PROVE  \/ at'[n][k].pc = "list"
           \/ \E tip \in Seq(Commit), tree \in Tree :
                 /\ tip # <<>>
                 /\ tip = gh[Repo(n, k)].base \/ (tip = gh[Repo(n, k)].branch /\ tip # None)
                 /\ tree = Generated(Repo(n, k), at[n][k].pins, Last(tip))
                 /\ TreeOf(Last(tip)) # tree
                 /\ at'[n][k].pc = "push" /\ at'[n][k].left = at[n][k].left
                 /\ at'[n][k].work = Append(tip, CommitOf(n, tree))
<1> DEFINE r == Repo(n, k)
           l == at[n][k]
<1>1. l.pc = "fetch" /\ l \in Locals /\ l.left # <<>> /\ l.pins \in Shas
      /\ at \in [Runs -> [Workers -> Locals]]
  BY DEF TypeInv, AtOK, GoodLocals, Locals, FetchBranch, FetchFallsBack, At
<1>2. r \in Repos /\ GoodRepository(gh[r])
  BY <1>1, AtRepo DEF TypeInv, GhOK
<1>3. PICK tip \in Seq(Commit) :
        /\ tip # <<>> /\ CommitOn(n, k, tip)
        /\ tip = gh[r].base \/ (tip = gh[r].branch /\ gh[r].branch # None)
  BY <1>2 DEF FetchBranch, FetchFallsBack, GoodRepository, Repository
<1> DEFINE tree == Generated(r, l.pins, Last(tip))
           work == Append(tip, CommitOf(n, tree))
<1>4. tree \in Tree
  BY <1>1, <1>2, <1>3, LastIsCommit, GeneratedIsTree
<1>5. \/ SetLocals(n, k, [l EXCEPT !.pc = "list"])
      \/ TreeOf(Last(tip)) # tree /\ SetLocals(n, k, [l EXCEPT !.pc = "push", !.work = work])
  BY <1>3 DEF CommitOn
<1> DEFINE list == [l EXCEPT !.pc = "list"]
           push == [l EXCEPT !.pc = "push", !.work = work]
<1>6. /\ list.pc = "list"
      /\ push.pc = "push" /\ push.left = l.left /\ push.work = work
  BY <1>1 DEF Locals
<1> HIDE DEF work, tree, r, list, push
<1>7. at'[n][k] = list \/ (TreeOf(Last(tip)) # tree /\ at'[n][k] = push)
  BY <1>5, Arrives DEF list, push
<1> QED
  BY <1>3, <1>4, <1>6, <1>7 DEF work, tree, r

\* A lookup of the source leaves nothing to be pushed.
LEMMA ResolveGoesOn ==
    ASSUME TypeInv, NEW n \in Runs, NEW k \in Workers, Resolve(n, k)
    PROVE  at'[n][k].pc \in {"fetch", "idle"}
<1>1. at[n][k] \in Locals /\ at \in [Runs -> [Workers -> Locals]]
  BY DEF TypeInv, AtOK
<1>2. PICK pins : \/ SetLocals(n, k, [at[n][k] EXCEPT !.pc = "fetch", !.pins = pins])
                  \/ SetLocals(n, k, [at[n][k] EXCEPT !.pc = "fetch"])
                  \/ SetLocals(n, k, Idle)
  BY DEF Resolve, Goto, Throw
<1> DEFINE l == [at[n][k] EXCEPT !.pc = "fetch", !.pins = pins]
           m == [at[n][k] EXCEPT !.pc = "fetch"]
<1>3. l.pc = "fetch" /\ m.pc = "fetch" /\ Idle.pc = "idle"
  BY <1>1 DEF Locals, Idle
<1> HIDE DEF l, m
<1>4. at'[n][k] \in {l, m, Idle}
  BY <1>2, Arrives DEF l, m
<1> QED
  BY <1>3, <1>4

\* What a worker is about to push it had then, or has just made.
LEMMA PushSteps ==
    ASSUME TypeInv, [Next]_vars, NEW n \in Runs, NEW k \in Workers, at'[n][k].pc = "push"
    PROVE  \/ at'[n][k] = at[n][k]
           \/ FetchBranch(n, k) \/ FetchFallsBack(n, k)
BY LocalsSteps, ResolveGoesOn

\* Only a listing brings a worker to closing pull requests.
LEMMA CloseSteps ==
    ASSUME TypeInv, [Next]_vars, NEW n \in Runs, NEW k \in Workers, at'[n][k].pc = "close"
    PROVE  at'[n][k] = at[n][k] \/ ListPulls(n, k) \/ ClosePull(n, k)
<1>1. at[n][k] \in Locals
  BY DEF TypeInv, AtOK
<1>2. ASSUME NEW pc \in Steps \ {"close"}, Goto(n, k, pc)
      PROVE  FALSE
  <2> DEFINE l == [at[n][k] EXCEPT !.pc = pc]
  <2>1. l.pc = pc
    BY <1>1 DEF Locals
  <2>2. SetLocals(n, k, l)
    BY <1>2 DEF Goto
  <2> HIDE DEF l
  <2> QED
    BY <1>2, <2>1, <2>2, Arrives
<1>3. ~Throw(n, k)
  <2>1. Idle.pc = "idle"
    BY DEF Idle
  <2> QED
    BY <2>1, Arrives DEF Throw
<1>4. ~\E pc \in Steps \ {"close"} : Goto(n, k, pc) \/ Answered(n, k, pc)
  BY <1>2, <1>3 DEF Answered
<1>5. ~( \/ GetRepository(n, k) \/ PostRepository(n, k) \/ Push(n, k) \/ AllClosed(n, k)
         \/ PostPull(n, k) \/ RequestFails(n, k))
  BY <1>3, <1>4 DEF GetRepository, PostRepository, Push, AllClosed, PostPull,
     RequestFails, Refused, Steps
<1>6. ~(TakePair(n, k) \/ PutTopics(n, k))
  <2> SUFFICES ASSUME NEW left, \/ SetLocals(n, k, Idle)
                                \/ SetLocals(n, k, [Idle EXCEPT !.pc = "ensure", !.left = left])
               PROVE  FALSE
    BY DEF TakePair, PutTopics, EnsureTopics
  <2> DEFINE l == [Idle EXCEPT !.pc = "ensure", !.left = left]
  <2>1. Idle.pc = "idle" /\ l.pc = "ensure"
    BY DEF Idle
  <2>2. SetLocals(n, k, Idle) \/ SetLocals(n, k, l)
    OBVIOUS
  <2> HIDE DEF l
  <2> QED
    BY <2>1, <2>2, Arrives
<1>7. ~(Resolve(n, k) \/ FetchBranch(n, k) \/ FetchFallsBack(n, k))
  BY ResolveGoesOn, Fetched
<1>8. ASSUME NEW m \in Runs, NEW j \in Workers,
             WorkerStep(m, j) \/ RequestFails(m, j) \/ FetchFallsBack(m, j)
      PROVE  at'[n][k] = at[n][k] \/ ListPulls(n, k) \/ ClosePull(n, k)
  <2>1. CASE ~(m = n /\ j = k)
    BY <1>8, <2>1, OnlyOwnLocals
  <2>2. CASE m = n /\ j = k
    BY <1>5, <1>6, <1>7, <1>8, <2>2 DEF WorkerStep
  <2> QED
    BY <2>1, <2>2
<1>9. ASSUME NEW m \in Runs, Begin(m) \/ Exit(m) \/ Cancel(m)
      PROVE  at' = at
  BY <1>9 DEF Begin, Exit, Cancel
<1>10. CASE Environment \/ UNCHANGED vars
  BY <1>10 DEF Environment, SourceMoves, HumanCommit, MarkReady, MergePull, Human, run, vars
<1> QED
  BY <1>8, <1>9, <1>10 DEF Next, RunStep, Failure

\* Pull requests stay, and one that is ready for review stays ready.
Later(p, q) ==
    \A i \in DOMAIN p : i \in DOMAIN q /\ (~p[i].draft => ~q[i].draft)

LEMMA PullsAfter ==
    ASSUME GhOK, NEW r \in Repos, NEW q \in Repos, NEW s, Later(gh[q].pulls, s.pulls),
           gh' = [gh EXCEPT ![q] = s]
    PROVE  Later(gh[r].pulls, gh'[r].pulls)
BY DEF GhOK, Later

LEMMA ChangedPull ==
    ASSUME NEW pulls \in Seq(Pull), NEW i, NEW p, i \in DOMAIN pulls => (pulls[i].draft \/ ~p.draft)
    PROVE  Later(pulls, [pulls EXCEPT ![i] = p])
BY DEF Later

LEMMA PullsSteps ==
    ASSUME TypeInv, [Next]_vars, NEW r \in Repos
    PROVE  Later(gh[r].pulls, gh'[r].pulls)
<1> DEFINE Same == Later(gh[r].pulls, gh'[r].pulls)
<1>1. ASSUME gh' = gh
      PROVE  Same
  BY <1>1 DEF Later
<1>2. ASSUME NEW q \in Repos, NEW s, gh' = [gh EXCEPT ![q] = s], s.pulls = gh[q].pulls
      PROVE  Same
  BY <1>2, PullsAfter DEF TypeInv, Later
<1>3. ASSUME NEW n \in Runs, NEW k \in Workers,
             PostRepository(n, k) \/ PutTopics(n, k) \/ Push(n, k)
      PROVE  Same
  <2> DEFINE q == Repo(n, k)
  <2>1. q \in Repos /\ gh[q] \in Repository
    BY <1>3, AtRepo DEF TypeInv, GhOK, PostRepository, PutTopics, EnsureTopics, Push, At
  <2> DEFINE s == [gh[q] EXCEPT !.exists = TRUE]
             t == [gh[q] EXCEPT !.topics = TRUE]
             u == [gh[q] EXCEPT !.branch = at[n][k].work]
  <2>2. gh' = gh \/ \E x \in {s, t, u} : gh' = [gh EXCEPT ![q] = x]
    BY <1>3 DEF PostRepository, PutTopics, EnsureTopics, Push, Refused
  <2>3. s.pulls = gh[q].pulls /\ t.pulls = gh[q].pulls /\ u.pulls = gh[q].pulls
    BY <2>1 DEF Repository
  <2> HIDE DEF q, s, t, u
  <2> QED
    BY <1>1, <1>2, <2>1, <2>2, <2>3
<1>4. ASSUME NEW n \in Runs, NEW k \in Workers, PostPull(n, k)
      PROVE  Same
  <2> DEFINE q == Repo(n, k)
             p == [state |-> "open", draft |-> TRUE]
             s == [gh[q] EXCEPT !.pulls = Append(gh[q].pulls, p)]
  <2>1. q \in Repos /\ gh[q] \in Repository
    BY <1>4, AtRepo DEF TypeInv, GhOK, PostPull, At
  <2>2. gh' = gh \/ gh' = [gh EXCEPT ![q] = s]
    BY <1>4 DEF PostPull, Refused
  <2>3. s.pulls = Append(gh[q].pulls, p) /\ gh[q].pulls \in Seq(Pull)
    BY <2>1 DEF Repository
  <2>4. Later(gh[q].pulls, Append(gh[q].pulls, p))
    BY <2>3 DEF Later
  <2> HIDE DEF q, p, s
  <2> QED
    BY <1>1, <2>1, <2>2, <2>3, <2>4, PullsAfter DEF TypeInv
<1>5. ASSUME NEW n \in Runs, NEW k \in Workers, ClosePull(n, k)
      PROVE  Same
  <2> DEFINE q == Repo(n, k)
             i == Lowest(at[n][k].toClose)
             st == IF gh[q].pulls[i].state = "open" THEN "closed" ELSE gh[q].pulls[i].state
             p == [gh[q].pulls[i] EXCEPT !.state = st]
             u == [gh[q].pulls EXCEPT ![i] = p]
             s == [gh[q] EXCEPT !.pulls = u]
  <2>1. q \in Repos /\ gh[q] \in Repository
    BY <1>5, AtRepo DEF TypeInv, GhOK, ClosePull, At
  <2>2. gh' = [gh EXCEPT ![q] = s]
    BY <1>5 DEF ClosePull
  <2>3. s.pulls = u /\ gh[q].pulls \in Seq(Pull)
    BY <2>1 DEF Repository
  <2>4. i \in DOMAIN gh[q].pulls => p.draft = gh[q].pulls[i].draft
    BY <2>3 DEF Pull
  <2> HIDE DEF p, i
  <2>5. Later(gh[q].pulls, u)
    BY <2>3, <2>4, ChangedPull, Zenon DEF Pull
  <2> HIDE DEF q, s, u
  <2> QED
    BY <2>1, <2>2, <2>3, <2>5, PullsAfter DEF TypeInv
<1>6. ASSUME NEW q \in Repos, NEW i \in DOMAIN gh[q].pulls, MarkReady(q, i) \/ MergePull(q, i)
      PROVE  Same
  <2> DEFINE p == [gh[q].pulls[i] EXCEPT !.draft = FALSE]
             m == [gh[q].pulls[i] EXCEPT !.state = "merged"]
             u == [gh[q].pulls EXCEPT ![i] = p]
             v == [gh[q].pulls EXCEPT ![i] = m]
             base == Append(gh[q].base, [Last(gh[q].branch) EXCEPT !.by = "human"])
             s == [gh[q] EXCEPT !.pulls = u]
             t == [gh[q] EXCEPT !.pulls = v, !.branch = None, !.base = base]
  <2>1. gh[q] \in Repository /\ gh[q].pulls \in Seq(Pull) /\ gh[q].pulls[i] \in Pull
    BY DEF TypeInv, GhOK, Repository
  <2>2. gh' = [gh EXCEPT ![q] = s] \/ gh' = [gh EXCEPT ![q] = t]
    BY <1>6 DEF MarkReady, MergePull, Human
  <2>3. ~p.draft /\ m.draft = gh[q].pulls[i].draft
    BY <2>1 DEF Pull
  <2> HIDE DEF p, m
  <2>4. Later(gh[q].pulls, u) /\ Later(gh[q].pulls, v)
    BY <2>1, <2>3 DEF Later, Pull
  <2> HIDE DEF u, v, base
  <2>5. s.pulls = u /\ t.pulls = v
    BY <2>1 DEF Repository
  <2> HIDE DEF s, t
  <2> QED
    BY <2>2, <2>4, <2>5, PullsAfter DEF TypeInv
<1>7. ASSUME NEW q \in Repos, HumanCommit(q)
      PROVE  Same
  <2> DEFINE b == Append(gh[q].branch, [Last(gh[q].branch) EXCEPT !.by = "human"])
             s == [gh[q] EXCEPT !.branch = b]
  <2>1. gh' = [gh EXCEPT ![q] = s]
    BY <1>7 DEF HumanCommit, Human
  <2> HIDE DEF b
  <2>2. s.pulls = gh[q].pulls
    BY DEF TypeInv, GhOK, Repository
  <2> HIDE DEF s
  <2> QED
    BY <1>2, <2>1, <2>2
<1> HIDE DEF Same
<1>8. ASSUME Environment \/ UNCHANGED vars
      PROVE  Same
  BY <1>1, <1>6, <1>7, <1>8 DEF Environment, SourceMoves, vars
<1>9. ASSUME NEW n \in Runs, RunStep(n) \/ Failure(n)
      PROVE  Same
  BY <1>1, <1>3, <1>4, <1>5, <1>9 DEF RunStep, Failure, WorkerStep, Begin, Exit, Cancel,
     RequestFails, FetchFallsBack, TakePair, GetRepository, Resolve, FetchBranch,
     ListPulls, AllClosed
<1> QED
  BY <1>8, <1>9 DEF Next, Same

LEMMA LowestIsIn ==
    ASSUME NEW S \in SUBSET Nat, S # {}
    PROVE  Lowest(S) \in S
<1> DEFINE R == OpToRel(<, Nat)
<1>1. \A i, j \in Nat : i < j => <<i, j>> \in R
  BY DEF OpToRel
<1>2. IsWellFoundedOn(R, Nat)
  BY NatLessThanWellFounded
<1> HIDE DEF R
<1>3. PICK i \in S : \A j \in S : <<j, i>> \notin R
  BY <1>2, WFMin
<1>4. \A j \in S : i <= j
  <2> TAKE j \in S
  <2>1. i \in Nat /\ j \in Nat /\ ~(j < i)
    BY <1>1, <1>3
  <2> QED
    BY <2>1
<1> QED
  BY <1>4 DEF Lowest

\* A worker closes pull requests that are no drafts.
Closable(l, s) ==
    l.pc = "close" => \A i \in l.toClose : i \in DOMAIN s.pulls /\ ~s.pulls[i].draft

CloseOK == \A n \in Runs, k \in Workers : Closable(at[n][k], gh[Repo(n, k)])

LEMMA StepCloseOK ==
    ASSUME TypeInv, CloseOK, [Next]_vars
    PROVE  CloseOK'
<1> SUFFICES ASSUME NEW n \in Runs, NEW k \in Workers, at'[n][k].pc = "close",
                    NEW i \in at'[n][k].toClose
             PROVE  LET pulls == gh'[Head(at'[n][k].left)].pulls IN
                    i \in DOMAIN pulls /\ ~pulls[i].draft
  BY DEF CloseOK, Closable, Repo
<1>1. at[n][k] \in Locals
  BY DEF TypeInv, AtOK
<1> DEFINE r == Repo(n, k)
<1>2. ASSUME at[n][k].pc = "close", at'[n][k].left = at[n][k].left, i \in at[n][k].toClose
      PROVE  LET pulls == gh'[Head(at'[n][k].left)].pulls IN
             i \in DOMAIN pulls /\ ~pulls[i].draft
  <2>1. r \in Repos /\ Head(at'[n][k].left) = r
    BY <1>1, <1>2, AtRepo DEF TypeInv, Repo
  <2>2. i \in DOMAIN gh[r].pulls /\ ~gh[r].pulls[i].draft
    BY <1>2 DEF CloseOK, Closable
  <2> QED
    BY <1>1, <2>1, <2>2, PullsSteps DEF Later
<1>3. CASE at'[n][k] = at[n][k]
  BY <1>2, <1>3
<1>4. CASE ClosePull(n, k)
  <2> DEFINE l == [at[n][k] EXCEPT !.toClose = at[n][k].toClose \ {Lowest(at[n][k].toClose)}]
  <2>1. SetLocals(n, k, l) \/ SetLocals(n, k, Idle)
    BY <1>4 DEF ClosePull, Throw
  <2>2. l.left = at[n][k].left /\ l.toClose \subseteq at[n][k].toClose
    BY <1>1 DEF Locals
  <2>3. Idle.pc # "close" /\ at[n][k].pc = "close"
    BY <1>4 DEF Idle, ClosePull, At
  <2> HIDE DEF l
  <2>4. at'[n][k] = l
    BY <1>1, <2>1, <2>3, Arrives
  <2> QED
    BY <1>2, <2>2, <2>3, <2>4
<1>5. CASE ListPulls(n, k)
  <2> DEFINE drafts == Drafts(r)
             toClose == IF drafts = {} THEN OpenPulls(r) ELSE OpenPulls(r) \ {Lowest(drafts)}
             l == [at[n][k] EXCEPT !.pc = "close", !.toClose = toClose, !.keeper = drafts # {}]
  <2>1. r \in Repos /\ GoodRepository(gh[r]) /\ gh' = gh
    BY <1>1, <1>5, AtRepo DEF TypeInv, GhOK, ListPulls, At
  <2>2. SetLocals(n, k, l)
    BY <1>5 DEF ListPulls
  <2>3. l.left = at[n][k].left /\ l.toClose = toClose
    BY <1>1 DEF Locals
  <2> HIDE DEF l
  <2>4. at'[n][k].left = at[n][k].left /\ at'[n][k].toClose = toClose
    BY <1>1, <2>2, <2>3, Arrives
  <2>5. \A j \in toClose : j \in OpenPulls(r) /\ j \notin drafts
    <3>1. CASE drafts = {}
      BY <3>1
    <3>2. CASE drafts # {}
      <4>1. \A j \in OpenPulls(r) : j = Lowest(drafts)
        <5>1. drafts \subseteq OpenPulls(r) /\ OpenPulls(r) \subseteq Nat
          BY <2>1 DEF Drafts, OpenPulls, GoodRepository, Repository
        <5>2. Lowest(drafts) \in OpenPulls(r)
          BY <3>2, <5>1, LowestIsIn
        <5>3. OpenPulls(r) = OpenIn(gh[r])
          BY DEF OpenPulls, OpenIn
        <5> QED
          BY <2>1, <5>2, <5>3 DEF GoodRepository, OneOpenPull
      <4> QED
        BY <3>2, <4>1
    <3> QED
      BY <3>1, <3>2
  <2> HIDE DEF toClose, drafts, r
  <2>6. i \in OpenPulls(r) /\ i \notin Drafts(r)
    BY <2>4, <2>5 DEF drafts
  <2>7. i \in DOMAIN gh[r].pulls /\ ~gh[r].pulls[i].draft
    BY <2>6 DEF OpenPulls, Drafts
  <2>8. Head(at'[n][k].left) = r
    BY <2>4 DEF r, Repo
  <2> QED
    BY <2>1, <2>7, <2>8
<1> QED
  BY <1>1, <1>3, <1>4, <1>5, CloseSteps

LEMMA LastOfAppend ==
    ASSUME NEW s \in Seq(Commit), NEW c \in Commit
    PROVE  /\ Last(Append(s, c)) = c /\ Append(s, c) \in Seq(Commit)
           /\ Len(Append(s, c)) = Len(s) + 1
BY DEF Last

LEMMA CommitOfTree ==
    ASSUME NEW n \in Runs, NEW tree \in Tree
    PROVE  CommitOf(n, tree) \in Commit /\ CommitOf(n, tree).by = n /\ TreeOf(CommitOf(n, tree)) = tree
BY DEF Tree, CommitOf, Commit, TreeOf

In(x, s) == \E i \in DOMAIN s : s[i] = x

LEMMA InTail ==
    ASSUME NEW S, NEW q \in Seq(S), q # <<>>, NEW x, In(x, q)
    PROVE  x = Head(q) \/ In(x, Tail(q))
<1>1. PICK i \in DOMAIN q : q[i] = x
  BY DEF In
<1>2. CASE i = 1
  BY <1>1, <1>2
<1>3. CASE i # 1
  <2>1. i - 1 \in DOMAIN Tail(q) /\ Tail(q)[i - 1] = q[i]
    BY <1>3
  <2> QED
    BY <1>1, <2>1 DEF In
<1> QED
  BY <1>2, <1>3

LEMMA NoneIsNoSha == None \notin Shas
BY BootstrapBounds DEF Shas

-----------------------------------------------------------------------------
(* The exit status: an invocation that counted no error has left every     *)
(* selected repository created, seeded and proposed.                       *)
(*                                                                         *)
(* The argument: what a repository has gained is lost again only to people *)
(* (Kept), since a worker closes no draft (CloseOK); a worker only reaches *)
(* a call when what the calls before it promise is there, or people acted  *)
(* on the repository (LocalsSound); and a repository that is not           *)
(* bootstrapped is still to be handled, or an error was counted, or people *)
(* acted on it since the invocation began (Covered).                       *)

Proposed(s) == \E i \in DOMAIN s.pulls : s.pulls[i].state = "open" /\ s.pulls[i].draft

Seeded(s) == s.branch # None => Last(s.branch).pins # None

Grows(s, t) ==
    /\ s.exists => t.exists
    /\ s.topics => t.topics
    /\ Proposed(s) => Proposed(t)

\* What holds of the repository s at hand where the worker's locals are l.
LocalsClean(l, s) ==
    /\ l.pc \notin {"idle", "ensure", "create"} => s.exists
    /\ l.pc = "topics" \/ (l.pc = "close" /\ l.keeper) => Proposed(s)

LocalsSound(n, k) ==
    Repo(n, k) \in touched[n] \/ LocalsClean(at[n][k], gh[Repo(n, k)])

Pending(n, r) ==
    \/ \E i \in DOMAIN queue[n] : In(r, ReposOf[queue[n][i]])
    \/ \E k \in Workers : In(r, at[n][k].left)

DoneIn(n, s) == s.exists /\ Proposed(s) /\ (n \notin SkipTopics => s.topics)

Covered(n) ==
    status[n] \in {"running", "exited"} /\ ~failed[n] =>
        \A r \in Repos \ touched[n] : DoneIn(n, gh[r]) \/ Pending(n, r)

Finished(n) ==
    status[n] = "exited" => queue[n] = <<>> /\ \A k \in Workers : at[n][k].pc = "idle"

AllSeeded == \A r \in Repos : Seeded(gh[r])

WorksSeeded ==
    \A n \in Runs, k \in Workers : at[n][k].pc = "push" => Last(at[n][k].work).pins # None

AllLocalsSound == \A n \in Runs, k \in Workers : LocalsSound(n, k)

IdleHasNothing ==
    \A n \in Runs, k \in Workers : at[n][k].pc = "idle" => at[n][k].left = <<>>

WaitingIsIdle ==
    \A n \in Runs, k \in Workers : status[n] = "waiting" => at[n][k].pc = "idle"

CleanInv ==
    /\ TypeInv /\ CloseOK /\ AllSeeded /\ WorksSeeded
    /\ IdleHasNothing /\ WaitingIsIdle /\ AllLocalsSound

\* The inductive invariant.
ExitInv == CleanInv /\ \A n \in Runs : Finished(n) /\ Covered(n)

\* A repository that exists and is proposed is bootstrapped: its open pull
\* request has a branch, and every branch is seeded.
LEMMA DoneIsBootstrapped ==
    ASSUME TypeInv, AllSeeded, NEW n \in Runs, NEW r \in Repos, DoneIn(n, gh[r])
    PROVE  Bootstrapped(r) /\ (n \notin SkipTopics => gh[r].topics)
<1>1. PICK i \in DOMAIN gh[r].pulls : gh[r].pulls[i].state = "open" /\ gh[r].pulls[i].draft
  BY DEF DoneIn, Proposed
<1>2. i \in OpenIn(gh[r]) /\ i \in Drafts(r)
  BY <1>1 DEF OpenIn, Drafts, OpenPulls
<1>3. gh[r].branch # None
  BY <1>2 DEF TypeInv, GhOK, GoodRepository, OneOpenPull
<1> QED
  BY <1>2, <1>3 DEF DoneIn, Bootstrapped, AllSeeded, Seeded

LEMMA ExitInvImpliesCleanExit == ExitInv => CleanExitBootstraps
<1> SUFFICES ASSUME ExitInv, NEW n \in Runs, status[n] = "exited", ~failed[n],
                    NEW r \in Repos \ touched[n]
             PROVE  Bootstrapped(r) /\ (n \notin SkipTopics => gh[r].topics)
  BY DEF CleanExitBootstraps
<1>1. queue[n] = <<>> /\ \A k \in Workers : at[n][k].left = <<>>
  BY DEF ExitInv, CleanInv, Finished, IdleHasNothing
<1>2. DoneIn(n, gh[r])
  BY <1>1 DEF ExitInv, Covered, Pending, In
<1> QED
  BY <1>2, DoneIsBootstrapped DEF ExitInv, CleanInv

LEMMA InitExits == Init => ExitInv
<1> SUFFICES ASSUME Init PROVE ExitInv
  OBVIOUS
<1>1. AllSeeded
  <2> SUFFICES ASSUME NEW r \in Repos PROVE Seeded(gh[r])
    BY DEF AllSeeded
  <2>1. gh[r].branch = None
    BY DEF Init
  <2> QED
    BY <2>1 DEF Seeded
<1>2. \A n \in Runs, k \in Workers : at[n][k] = Idle
  BY DEF Init
<1>3. AllLocalsSound /\ IdleHasNothing /\ WorksSeeded /\ CloseOK /\ WaitingIsIdle
  BY <1>2 DEF AllLocalsSound, LocalsSound, IdleHasNothing, WorksSeeded, CloseOK, Closable,
     WaitingIsIdle, LocalsClean, Idle
<1>4. \A n \in Runs : Finished(n) /\ Covered(n)
  BY DEF Finished, Covered, Init
<1> QED
  BY <1>1, <1>3, <1>4, InitTyped DEF ExitInv, CleanInv

-----------------------------------------------------------------------------
(* What the steps do to a repository.                                      *)

LEMMA StepSeeded ==
    ASSUME TypeInv, AllSeeded, WorksSeeded, [Next]_vars
    PROVE  AllSeeded'
<1> SUFFICES ASSUME NEW r \in Repos, gh'[r].branch # None
             PROVE  Last(gh'[r].branch).pins # None
  BY DEF AllSeeded, Seeded
<1>1. ASSUME gh[r].branch # None, NEW c \in Commit, TreeOf(c) = TreeOf(Last(gh[r].branch)),
             gh'[r].branch = Append(gh[r].branch, c)
      PROVE  Last(gh'[r].branch).pins # None
  <2>1. Last(gh'[r].branch) = c
    BY <1>1, LastOfAppend DEF TypeInv, GhOK, Repository
  <2>2. c.pins = Last(gh[r].branch).pins
    BY <1>1 DEF TreeOf
  <2> QED
    BY <1>1, <2>1, <2>2 DEF AllSeeded, Seeded
<1>2. CASE gh'[r].branch = gh[r].branch
  BY <1>2 DEF AllSeeded, Seeded
<1> QED
  BY <1>1, <1>2, BranchSteps DEF WorksSeeded

LEMMA StepWorksSeeded ==
    ASSUME TypeInv, WorksSeeded, [Next]_vars
    PROVE  WorksSeeded'
<1> SUFFICES ASSUME NEW n \in Runs, NEW k \in Workers, at'[n][k].pc = "push"
             PROVE  Last(at'[n][k].work).pins # None
  BY DEF WorksSeeded
<1>1. CASE at'[n][k] = at[n][k]
  BY <1>1 DEF WorksSeeded
<1>2. CASE FetchBranch(n, k) \/ FetchFallsBack(n, k)
  <2>1. PICK tip \in Seq(Commit), tree \in Tree :
          /\ tree = Generated(Repo(n, k), at[n][k].pins, Last(tip))
          /\ at'[n][k].work = Append(tip, CommitOf(n, tree))
    BY <1>2, Fetched
  <2>2. at[n][k].pins \in Shas /\ 0 \in Shas
    BY BootstrapBounds DEF TypeInv, AtOK, Locals, Shas
  <2>3. tree.pins \in Shas
    BY <2>1, <2>2 DEF Generated
  <2>4. Last(at'[n][k].work) = CommitOf(n, tree)
    BY <2>1, CommitOfTree, LastOfAppend
  <2> QED
    BY <2>3, <2>4, NoneIsNoSha DEF CommitOf
<1> QED
  BY <1>1, <1>2, PushSteps

LEMMA GrowsAlone ==
    ASSUME GhOK, NEW q \in Repos, NEW s, Grows(gh[q], s), gh' = [gh EXCEPT ![q] = s],
           NEW r \in Repos
    PROVE  Grows(gh[r], gh'[r])
<1>1. gh'[r] = IF r = q THEN s ELSE gh[r]
  BY DEF GhOK
<1> QED
  BY <1>1 DEF Grows

LEMMA GrowsSame ==
    ASSUME gh' = gh, NEW r \in Repos
    PROVE  Grows(gh[r], gh'[r])
BY DEF Grows

\* A closed pull request was no draft.
LEMMA CloseGrows ==
    ASSUME TypeInv, CloseOK, NEW n \in Runs, NEW k \in Workers, ClosePull(n, k),
           NEW r \in Repos
    PROVE  Grows(gh[r], gh'[r])
<1> DEFINE q == Repo(n, k)
           i == Lowest(at[n][k].toClose)
           st == IF gh[q].pulls[i].state = "open" THEN "closed" ELSE gh[q].pulls[i].state
           p == [gh[q].pulls[i] EXCEPT !.state = st]
           u == [gh[q].pulls EXCEPT ![i] = p]
           s == [gh[q] EXCEPT !.pulls = u]
<1>1. q \in Repos /\ at[n][k].pc = "close" /\ gh[q] \in Repository
  BY AtRepo DEF TypeInv, GhOK, ClosePull, At
<1>2. gh' = [gh EXCEPT ![q] = s]
  BY DEF ClosePull
<1>3. i \in DOMAIN gh[q].pulls /\ ~gh[q].pulls[i].draft
  <2>1. i \in at[n][k].toClose
    BY LowestIsIn DEF ClosePull, TypeInv, AtOK, Locals
  <2> QED
    BY <1>1, <2>1 DEF CloseOK, Closable
<1>4. gh[q].pulls \in Seq(Pull)
  BY <1>1 DEF Repository
<1> HIDE DEF p, i
<1>5. Proposed(gh[q]) => \E j \in DOMAIN u : u[j].state = "open" /\ u[j].draft
  <2> SUFFICES ASSUME NEW j \in DOMAIN gh[q].pulls,
                      gh[q].pulls[j].state = "open", gh[q].pulls[j].draft
               PROVE  j \in DOMAIN u /\ u[j] = gh[q].pulls[j]
    BY DEF Proposed
  <2> QED
    BY <1>3, <1>4
<1> HIDE DEF u
<1>6. s.pulls = u /\ s.exists = gh[q].exists /\ s.topics = gh[q].topics
  BY <1>1 DEF Repository
<1> HIDE DEF s
<1>7. Grows(gh[q], s)
  BY <1>5, <1>6 DEF Grows, Proposed
<1> HIDE DEF q
<1> QED
  BY <1>1, <1>2, <1>7, GrowsAlone DEF TypeInv

\* No worker takes anything away from a repository.
LEMMA WorkerGrows ==
    ASSUME TypeInv, CloseOK, NEW n \in Runs, NEW k \in Workers, NEW r \in Repos,
           WorkerStep(n, k) \/ RequestFails(n, k) \/ FetchFallsBack(n, k)
    PROVE  Grows(gh[r], gh'[r])
<1> DEFINE q == Repo(n, k)
           g == gh[q]
<1>1. CASE gh' = gh
  BY <1>1, GrowsSame
<1>2. CASE PostRepository(n, k) \/ PutTopics(n, k) \/ Push(n, k)
  <2> DEFINE s == [g EXCEPT !.exists = TRUE]
             t == [g EXCEPT !.topics = TRUE]
             u == [g EXCEPT !.branch = at[n][k].work]
  <2>1. q \in Repos /\ g \in Repository
    BY <1>2, AtRepo DEF TypeInv, GhOK, PostRepository, PutTopics, EnsureTopics, Push, At
  <2>2. \/ gh' = gh \/ gh' = [gh EXCEPT ![q] = s] \/ gh' = [gh EXCEPT ![q] = t]
        \/ gh' = [gh EXCEPT ![q] = u]
    BY <1>2 DEF PostRepository, PutTopics, EnsureTopics, Push, Refused
  <2>3. Grows(g, s) /\ Grows(g, t) /\ Grows(g, u)
    BY <2>1 DEF Grows, Proposed, Repository
  <2> HIDE DEF q, s, t, u
  <2> QED
    BY <1>1, <2>1, <2>2, <2>3, GrowsAlone DEF TypeInv
<1>3. CASE PostPull(n, k)
  <2> DEFINE p == [state |-> "open", draft |-> TRUE]
             pulls == Append(g.pulls, p)
             t == [g EXCEPT !.pulls = pulls]
  <2>1. q \in Repos /\ g \in Repository /\ g.pulls \in Seq(Pull)
    BY <1>3, AtRepo DEF TypeInv, GhOK, PostPull, At, Repository
  <2>2. gh' = gh \/ gh' = [gh EXCEPT ![q] = t]
    BY <1>3 DEF PostPull, Refused
  <2>3. p \in Pull
    BY DEF Pull
  <2> HIDE DEF p
  <2>4. \A i \in DOMAIN g.pulls : i \in DOMAIN pulls /\ pulls[i] = g.pulls[i]
    BY <2>1, <2>3
  <2> HIDE DEF pulls
  <2>5. t.pulls = pulls /\ t.exists = g.exists /\ t.topics = g.topics
    BY <2>1 DEF Repository
  <2> HIDE DEF t
  <2>6. Grows(g, t)
    BY <2>4, <2>5 DEF Grows, Proposed
  <2> HIDE DEF q
  <2> QED
    BY <1>1, <2>1, <2>2, <2>6, GrowsAlone DEF TypeInv
<1> QED
  BY <1>1, <1>2, <1>3, CloseGrows DEF WorkerStep, RequestFails, FetchFallsBack,
     TakePair, GetRepository, Resolve, FetchBranch, ListPulls, AllClosed

\* A repository keeps what it has, or people acted on it and every invocation
\* that has begun excepts it.
Kept(r) ==
    \/ Grows(gh[r], gh'[r])
    \/ \A n \in Runs : status[n] # "waiting" => r \in touched'[n]

LEMMA StepKeeps ==
    ASSUME TypeInv, CloseOK, [Next]_vars, NEW r \in Repos
    PROVE  Kept(r)
<1>1. ASSUME gh' = gh
      PROVE  Kept(r)
  BY <1>1, GrowsSame DEF Kept
<1>2. ASSUME NEW n \in Runs, RunStep(n) \/ Failure(n)
      PROVE  Kept(r)
  BY <1>1, <1>2, WorkerGrows DEF RunStep, Failure, Begin, Exit, Cancel, Kept
<1>3. ASSUME NEW q \in Repos, NEW s, Human(q, s)
      PROVE  Kept(r)
  <2>1. CASE r = q
    BY <1>3, <2>1 DEF Human, Kept
  <2>2. CASE r # q
    <3>1. gh'[r] = gh[r]
      BY <1>3, <2>2 DEF Human, TypeInv, GhOK
    <3> QED
      BY <3>1 DEF Kept, Grows
  <2> QED
    BY <2>1, <2>2
<1>4. ASSUME Environment
      PROVE  Kept(r)
  BY <1>1, <1>3, <1>4 DEF Environment, SourceMoves, HumanCommit, MarkReady, MergePull
<1> QED
  BY <1>1, <1>2, <1>4 DEF Next, vars

-----------------------------------------------------------------------------
(* What the steps do to the workers' locals.                               *)

\* A worker that another one's step, or a step of people, leaves where it is.
LEMMA OthersSound ==
    ASSUME CleanInv, \A r \in Repos : Kept(r), NEW n \in Runs, NEW k \in Workers,
           touched[n] \subseteq touched'[n], at'[n][k] = at[n][k]
    PROVE  LocalsSound(n, k)'
<1>1. CASE at[n][k].pc = "idle"
  BY <1>1 DEF LocalsSound, LocalsClean
<1>2. CASE at[n][k].pc # "idle"
  <2> DEFINE q == Repo(n, k)
  <2>1. q \in Repos /\ status[n] # "waiting"
    BY <1>2, AtRepo DEF CleanInv, TypeInv, WaitingIsIdle
  <2>2. LocalsSound(n, k) /\ Repo(n, k)' = q
    BY DEF CleanInv, AllLocalsSound, Repo
  <2>3. q \in touched'[n] \/ LocalsClean(at'[n][k], gh'[q])
    BY <2>1, <2>2 DEF LocalsSound, Kept, Grows, LocalsClean
  <2> QED
    BY <2>2, <2>3 DEF LocalsSound
<1> QED
  BY <1>1, <1>2

Moved(n, k) ==
    /\ LocalsSound(n, k)'
    /\ at'[n][k].pc = "idle" => at'[n][k].left = <<>>

\* The repository at hand while a worker is at one of the calls.
LEMMA AtHand ==
    ASSUME CleanInv, NEW n \in Runs, NEW k \in Workers, at[n][k].pc # "idle"
    PROVE  /\ Repo(n, k) \in Repos /\ gh \in [Repos -> Repository]
           /\ gh[Repo(n, k)] \in Repository /\ GoodRepository(gh[Repo(n, k)])
           /\ at[n][k] \in Locals
           /\ Repo(n, k) \notin touched[n] => LocalsClean(at[n][k], gh[Repo(n, k)])
BY AtRepo DEF CleanInv, TypeInv, GhOK, AtOK, AllLocalsSound, LocalsSound

LEMMA SetArrives ==
    ASSUME CleanInv, NEW n \in Runs, NEW k \in Workers, NEW l, SetLocals(n, k, l)
    PROVE  at'[n][k] = l
BY Arrives DEF CleanInv

LEMMA ThrowMoves ==
    ASSUME CleanInv, NEW n \in Runs, NEW k \in Workers, Throw(n, k)
    PROVE  Moved(n, k)
BY SetArrives DEF Throw, Moved, LocalsSound, LocalsClean, Idle

\* A worker that goes to another call of the same repository.
LEMMA SetMoves ==
    ASSUME CleanInv, touched' = touched, NEW n \in Runs, NEW k \in Workers,
           NEW l, SetLocals(n, k, l), l.pc # "idle", l.left = at[n][k].left,
           Repo(n, k) \notin touched[n] => LocalsClean(l, gh'[Repo(n, k)])
    PROVE  Moved(n, k)
<1>1. at'[n][k] = l
  BY SetArrives
<1>2. Repo(n, k)' = Repo(n, k)
  BY <1>1 DEF Repo
<1> QED
  BY <1>1, <1>2 DEF Moved, LocalsSound

LEMMA GotoMoves ==
    ASSUME CleanInv, touched' = touched, NEW n \in Runs, NEW k \in Workers,
           at[n][k].pc # "idle", NEW pc \in Steps \ {"idle", "push"}, Goto(n, k, pc),
           Repo(n, k) \notin touched[n] =>
              /\ pc \notin {"ensure", "create"} => gh'[Repo(n, k)].exists
              /\ pc = "topics" \/ (pc = "close" /\ at[n][k].keeper) =>
                    Proposed(gh'[Repo(n, k)])
    PROVE  Moved(n, k)
<1> DEFINE l == [at[n][k] EXCEPT !.pc = pc]
<1>1. at[n][k] \in Locals
  BY AtHand
<1>2. l.pc = pc /\ l.left = at[n][k].left /\ l.keeper = at[n][k].keeper
  BY <1>1 DEF Locals
<1>3. SetLocals(n, k, l)
  BY DEF Goto
<1> HIDE DEF l
<1>4. Repo(n, k) \notin touched[n] => LocalsClean(l, gh'[Repo(n, k)])
  BY <1>2 DEF LocalsClean
<1> QED
  BY <1>2, <1>3, <1>4, SetMoves

LEMMA AnsweredMoves ==
    ASSUME CleanInv, touched' = touched, NEW n \in Runs, NEW k \in Workers,
           at[n][k].pc # "idle", NEW pc \in {"resolve", "list", "topics"},
           Answered(n, k, pc),
           Repo(n, k) \notin touched[n] =>
              /\ gh'[Repo(n, k)].exists
              /\ pc = "topics" => Proposed(gh'[Repo(n, k)])
    PROVE  Moved(n, k)
<1>1. CASE Throw(n, k)
  BY <1>1, ThrowMoves
<1>2. CASE Goto(n, k, pc)
  BY <1>2, GotoMoves DEF Steps
<1> QED
  BY <1>1, <1>2 DEF Answered

LEMMA EnsureMoves ==
    ASSUME CleanInv, touched' = touched, NEW n \in Runs, NEW k \in Workers,
           GetRepository(n, k) \/ PostRepository(n, k)
    PROVE  Moved(n, k)
<1> DEFINE q == Repo(n, k)
<1>1. at[n][k].pc # "idle" /\ q \in Repos /\ gh[q] \in Repository /\ gh \in [Repos -> Repository]
  BY AtHand DEF GetRepository, PostRepository, At
<1>2. CASE GetRepository(n, k) /\ gh[q].exists
  BY <1>1, <1>2, GotoMoves DEF GetRepository, Steps
<1>3. CASE GetRepository(n, k) /\ ~gh[q].exists
  BY <1>1, <1>3, GotoMoves DEF GetRepository, Steps
<1>4. CASE Throw(n, k)
  BY <1>4, ThrowMoves
<1>5. CASE gh' = [gh EXCEPT ![q].exists = TRUE] /\ Answered(n, k, "resolve")
  <2>1. gh'[q].exists
    BY <1>1, <1>5 DEF Repository
  <2> QED
    BY <1>1, <1>5, <2>1, AnsweredMoves
<1> QED
  BY <1>2, <1>3, <1>4, <1>5 DEF PostRepository, Refused

LEMMA ResolveMoves ==
    ASSUME CleanInv, touched' = touched, NEW n \in Runs, NEW k \in Workers, Resolve(n, k)
    PROVE  Moved(n, k)
<1>1. /\ at[n][k].pc = "resolve" /\ at[n][k] \in Locals /\ gh' = gh
      /\ Repo(n, k) \notin touched[n] => gh[Repo(n, k)].exists
  BY AtHand DEF Resolve, At, LocalsClean
<1>2. CASE Goto(n, k, "fetch")
  BY <1>1, <1>2, GotoMoves DEF Steps
<1>3. CASE Throw(n, k)
  BY <1>3, ThrowMoves
<1>4. CASE ~Goto(n, k, "fetch") /\ ~Throw(n, k)
  <2>1. PICK pins : SetLocals(n, k, [at[n][k] EXCEPT !.pc = "fetch", !.pins = pins])
    BY <1>4 DEF Resolve
  <2> DEFINE l == [at[n][k] EXCEPT !.pc = "fetch", !.pins = pins]
  <2>2. l.pc = "fetch" /\ l.left = at[n][k].left
    BY <1>1 DEF Locals
  <2> HIDE DEF l
  <2>3. Repo(n, k) \notin touched[n] => LocalsClean(l, gh'[Repo(n, k)])
    BY <1>1, <2>2 DEF LocalsClean
  <2> QED
    BY <2>1, <2>2, <2>3, SetMoves DEF l
<1> QED
  BY <1>2, <1>3, <1>4

LEMMA FetchMoves ==
    ASSUME CleanInv, touched' = touched, NEW n \in Runs, NEW k \in Workers,
           FetchBranch(n, k) \/ FetchFallsBack(n, k)
    PROVE  Moved(n, k)
<1>1. /\ at[n][k].pc = "fetch" /\ at[n][k] \in Locals /\ gh' = gh
      /\ Repo(n, k) \notin touched[n] => gh[Repo(n, k)].exists
  BY AtHand DEF FetchBranch, FetchFallsBack, At, LocalsClean
<1>2. PICK work : \/ SetLocals(n, k, [at[n][k] EXCEPT !.pc = "list"])
                  \/ SetLocals(n, k, [at[n][k] EXCEPT !.pc = "push", !.work = work])
  BY DEF FetchBranch, FetchFallsBack, CommitOn
<1> DEFINE l == [at[n][k] EXCEPT !.pc = "list"]
           w == [at[n][k] EXCEPT !.pc = "push", !.work = work]
<1>3. /\ l.pc = "list" /\ l.left = at[n][k].left
      /\ w.pc = "push" /\ w.left = at[n][k].left
  BY <1>1 DEF Locals
<1>4. SetLocals(n, k, l) \/ SetLocals(n, k, w)
  BY <1>2
<1> HIDE DEF l, w
<1>5. Repo(n, k) \notin touched[n] =>
        LocalsClean(l, gh'[Repo(n, k)]) /\ LocalsClean(w, gh'[Repo(n, k)])
  BY <1>1, <1>3 DEF LocalsClean
<1> QED
  BY <1>3, <1>4, <1>5, SetMoves

LEMMA PushMoves ==
    ASSUME CleanInv, touched' = touched, \A r \in Repos : Grows(gh[r], gh'[r]),
           NEW n \in Runs, NEW k \in Workers, Push(n, k)
    PROVE  Moved(n, k)
<1>1. /\ at[n][k].pc = "push" /\ Repo(n, k) \in Repos
      /\ Repo(n, k) \notin touched[n] => gh[Repo(n, k)].exists
  BY AtHand DEF Push, At, LocalsClean
<1>2. Repo(n, k) \notin touched[n] => gh'[Repo(n, k)].exists
  BY <1>1 DEF Grows
<1> QED
  BY <1>1, <1>2, ThrowMoves, AnsweredMoves DEF Push, Refused

LEMMA ListMoves ==
    ASSUME CleanInv, touched' = touched, NEW n \in Runs, NEW k \in Workers,
           ListPulls(n, k)
    PROVE  Moved(n, k)
<1> DEFINE q == Repo(n, k)
           drafts == Drafts(q)
           toClose == IF drafts = {} THEN OpenPulls(q) ELSE OpenPulls(q) \ {Lowest(drafts)}
           l == [at[n][k] EXCEPT !.pc = "close", !.toClose = toClose,
                                 !.keeper = drafts # {}]
<1>1. /\ at[n][k].pc = "list" /\ at[n][k] \in Locals /\ gh' = gh
      /\ q \notin touched[n] => gh[q].exists
  BY AtHand DEF ListPulls, At, LocalsClean
<1>2. drafts # {} => Proposed(gh[q])
  BY DEF Drafts, OpenPulls, Proposed
<1>3. SetLocals(n, k, l)
  BY DEF ListPulls
<1> HIDE DEF drafts, toClose
<1>4. l.pc = "close" /\ l.keeper = (drafts # {}) /\ l.left = at[n][k].left
  BY <1>1 DEF Locals
<1> HIDE DEF l
<1>5. q \notin touched[n] => LocalsClean(l, gh'[q])
  BY <1>1, <1>2, <1>4 DEF LocalsClean
<1> QED
  BY <1>3, <1>4, <1>5, SetMoves

LEMMA CloseMoves ==
    ASSUME CleanInv, touched' = touched, \A r \in Repos : Grows(gh[r], gh'[r]),
           NEW n \in Runs, NEW k \in Workers, ClosePull(n, k)
    PROVE  Moved(n, k)
<1> DEFINE q == Repo(n, k)
           rest == at[n][k].toClose \ {Lowest(at[n][k].toClose)}
           l == [at[n][k] EXCEPT !.toClose = rest]
<1>1. /\ at[n][k].pc = "close" /\ at[n][k] \in Locals /\ q \in Repos
      /\ q \notin touched[n] => LocalsClean(at[n][k], gh[q])
  BY AtHand DEF ClosePull, At
<1>2. SetLocals(n, k, l) \/ Throw(n, k)
  BY DEF ClosePull
<1> HIDE DEF rest
<1>3. l.pc = at[n][k].pc /\ l.keeper = at[n][k].keeper /\ l.left = at[n][k].left
  BY <1>1 DEF Locals
<1> HIDE DEF l
<1>4. q \notin touched[n] => LocalsClean(l, gh'[q])
  BY <1>1, <1>3 DEF LocalsClean, Grows
<1> QED
  BY <1>1, <1>2, <1>3, <1>4, ThrowMoves, SetMoves

LEMMA ProposeMoves ==
    ASSUME CleanInv, touched' = touched, \A r \in Repos : Grows(gh[r], gh'[r]),
           NEW n \in Runs, NEW k \in Workers, AllClosed(n, k) \/ PostPull(n, k)
    PROVE  Moved(n, k)
<1> DEFINE q == Repo(n, k)
<1>1. /\ at[n][k].pc \in {"close", "open"} /\ q \in Repos
      /\ gh[q] \in Repository /\ gh \in [Repos -> Repository]
      /\ q \notin touched[n] => LocalsClean(at[n][k], gh[q])
  BY AtHand DEF AllClosed, PostPull, At
<1>2. q \notin touched[n] =>
        gh'[q].exists /\ (at[n][k].pc = "close" /\ at[n][k].keeper => Proposed(gh'[q]))
  BY <1>1 DEF LocalsClean, Grows
<1>3. CASE AllClosed(n, k)
  <2>1. at[n][k].pc = "close"
    BY <1>3 DEF AllClosed, At
  <2>2. CASE at[n][k].keeper
    BY <1>2, <1>3, <2>1, <2>2, GotoMoves DEF AllClosed, Steps
  <2>3. CASE ~at[n][k].keeper
    BY <1>2, <1>3, <2>1, <2>3, GotoMoves DEF AllClosed, Steps
  <2> QED
    BY <2>2, <2>3
<1>4. CASE Throw(n, k)
  BY <1>4, ThrowMoves
<1>5. CASE /\ gh' = [gh EXCEPT ![q].pulls = Append(@, [state |-> "open", draft |-> TRUE])]
           /\ Answered(n, k, "topics")
  <2> DEFINE p == [state |-> "open", draft |-> TRUE]
             pulls == Append(gh[q].pulls, p)
  <2>1. p \in Pull /\ gh[q].pulls \in Seq(Pull) /\ p.state = "open" /\ p.draft
    BY <1>1 DEF Pull, Repository
  <2>2. gh' = [gh EXCEPT ![q].pulls = pulls]
    BY <1>5
  <2> HIDE DEF p
  <2>3. Len(pulls) \in DOMAIN pulls /\ pulls[Len(pulls)] = p
    BY <2>1
  <2> HIDE DEF pulls
  <2>4. gh'[q].pulls = pulls
    BY <1>1, <2>2 DEF Repository
  <2>5. Proposed(gh'[q])
    BY <2>1, <2>3, <2>4 DEF Proposed
  <2> QED
    BY <1>1, <1>2, <1>5, <2>5, AnsweredMoves
<1> QED
  BY <1>3, <1>4, <1>5 DEF PostPull, Refused

LEMMA PairMoves ==
    ASSUME CleanInv, NEW n \in Runs, NEW k \in Workers,
           TakePair(n, k) \/ PutTopics(n, k)
    PROVE  Moved(n, k)
<1>1. PICK left : \/ SetLocals(n, k, Idle)
                  \/ SetLocals(n, k, [Idle EXCEPT !.pc = "ensure", !.left = left])
  BY DEF TakePair, PutTopics, EnsureTopics
<1> DEFINE l == [Idle EXCEPT !.pc = "ensure", !.left = left]
<1>2. l.pc = "ensure" /\ Idle.pc = "idle" /\ Idle.left = <<>>
  BY DEF Idle
<1>3. SetLocals(n, k, Idle) \/ SetLocals(n, k, l)
  BY <1>1
<1> HIDE DEF l
<1>4. at'[n][k] = Idle \/ at'[n][k] = l
  BY <1>3, SetArrives
<1> QED
  BY <1>2, <1>4 DEF Moved, LocalsSound, LocalsClean

LEMMA WorkerMoves ==
    ASSUME CleanInv, touched' = touched, \A r \in Repos : Grows(gh[r], gh'[r]),
           NEW n \in Runs, NEW k \in Workers,
           WorkerStep(n, k) \/ RequestFails(n, k) \/ FetchFallsBack(n, k)
    PROVE  Moved(n, k)
<1>1. CASE RequestFails(n, k)
  BY <1>1, ThrowMoves DEF RequestFails
<1> QED
  BY <1>1, EnsureMoves, ResolveMoves, FetchMoves, PushMoves, ListMoves, CloseMoves,
     ProposeMoves, PairMoves DEF WorkerStep

-----------------------------------------------------------------------------
(* A repository is bootstrapped or still to be handled.                    *)

\* A worker's action leaves the list of its repositories alone, unless it takes
\* a pair, ends a repository or counts an error.
LEMMA LeftSteps ==
    ASSUME CleanInv, NEW n \in Runs, NEW k \in Workers, ~failed'[n],
           WorkerStep(n, k) \/ RequestFails(n, k) \/ FetchFallsBack(n, k)
    PROVE  \/ at'[n][k].left = at[n][k].left /\ queue' = queue
           \/ TakePair(n, k) \/ PutTopics(n, k)
<1>1. ~Throw(n, k)
  BY DEF Throw, CleanInv, TypeInv, ControlOK
<1>2. CASE ClosePull(n, k)
  <2> DEFINE rest == at[n][k].toClose \ {Lowest(at[n][k].toClose)}
             l == [at[n][k] EXCEPT !.toClose = rest]
  <2>1. at[n][k] \in Locals
    BY <1>2, AtHand DEF ClosePull, At
  <2>2. l.left = at[n][k].left /\ SetLocals(n, k, l)
    BY <1>1, <1>2, <2>1 DEF Locals, ClosePull
  <2> HIDE DEF l
  <2> QED
    BY <1>2, <2>2, SetArrives DEF ClosePull
<1>3. at[n][k].pc = "idle" \/ at[n][k] \in Locals
  BY AtHand
<1>4. ASSUME NEW pc, Goto(n, k, pc), at[n][k].pc # "idle"
      PROVE  at'[n][k].left = at[n][k].left
  <2> DEFINE l == [at[n][k] EXCEPT !.pc = pc]
  <2>1. l.left = at[n][k].left /\ SetLocals(n, k, l)
    BY <1>3, <1>4 DEF Goto, Locals
  <2> HIDE DEF l
  <2> QED
    BY <2>1, SetArrives
<1>5. CASE FetchBranch(n, k) \/ FetchFallsBack(n, k)
  <2>1. PICK work : \/ SetLocals(n, k, [at[n][k] EXCEPT !.pc = "list"])
                    \/ SetLocals(n, k, [at[n][k] EXCEPT !.pc = "push", !.work = work])
    BY <1>5 DEF FetchBranch, FetchFallsBack, CommitOn
  <2> DEFINE l == [at[n][k] EXCEPT !.pc = "list"]
             w == [at[n][k] EXCEPT !.pc = "push", !.work = work]
  <2>2. l.left = at[n][k].left /\ w.left = at[n][k].left
    BY <1>3, <1>5 DEF Locals, FetchBranch, FetchFallsBack, At
  <2>3. SetLocals(n, k, l) \/ SetLocals(n, k, w)
    BY <2>1
  <2> HIDE DEF l, w
  <2>4. at'[n][k].left = at[n][k].left
    BY <2>2, <2>3, SetArrives
  <2> QED
    BY <1>5, <2>4 DEF FetchBranch, FetchFallsBack
<1>6. CASE ListPulls(n, k)
  <2>1. PICK toClose, keeper :
          SetLocals(n, k, [at[n][k] EXCEPT !.pc = "close", !.toClose = toClose,
                                           !.keeper = keeper])
    BY <1>6 DEF ListPulls
  <2> DEFINE l == [at[n][k] EXCEPT !.pc = "close", !.toClose = toClose,
                                   !.keeper = keeper]
  <2>2. l.left = at[n][k].left /\ SetLocals(n, k, l)
    BY <1>3, <1>6, <2>1 DEF Locals, ListPulls, At
  <2> HIDE DEF l
  <2> QED
    BY <1>6, <2>2, SetArrives DEF ListPulls
<1>7. CASE Resolve(n, k)
  <2>1. CASE Goto(n, k, "fetch")
    BY <1>4, <1>7, <2>1 DEF Resolve, At
  <2>2. CASE ~Goto(n, k, "fetch")
    <3>1. PICK pins : SetLocals(n, k, [at[n][k] EXCEPT !.pc = "fetch", !.pins = pins])
      BY <1>1, <1>7, <2>2 DEF Resolve
    <3> DEFINE l == [at[n][k] EXCEPT !.pc = "fetch", !.pins = pins]
    <3>2. l.left = at[n][k].left /\ SetLocals(n, k, l)
      BY <1>3, <1>7, <3>1 DEF Locals, Resolve, At
    <3> HIDE DEF l
    <3> QED
      BY <1>7, <3>2, SetArrives DEF Resolve
  <2> QED
    BY <2>1, <2>2
<1>8. CASE \/ GetRepository(n, k) \/ PostRepository(n, k) \/ Push(n, k)
           \/ AllClosed(n, k) \/ PostPull(n, k)
  <2>1. \E pc \in Steps : Goto(n, k, pc)
    BY <1>1, <1>8 DEF GetRepository, PostRepository, Push, AllClosed, PostPull,
       Answered, Refused, Steps
  <2>2. at[n][k].pc # "idle" /\ queue' = queue
    BY <1>8 DEF GetRepository, PostRepository, Push, AllClosed, PostPull, At
  <2> QED
    BY <1>4, <2>1, <2>2
<1>9. ~RequestFails(n, k)
  BY <1>1 DEF RequestFails
<1> QED
  BY <1>2, <1>5, <1>6, <1>7, <1>8, <1>9 DEF WorkerStep

\* A repository that a worker's action takes off the lists of its invocation is
\* one whose topics it has dealt with.
LEMMA PendingStep ==
    ASSUME CleanInv, NEW n \in Runs, NEW k \in Workers,
           WorkerStep(n, k) \/ RequestFails(n, k) \/ FetchFallsBack(n, k),
           NEW m \in Runs, ~failed'[m], NEW r \in Repos, Pending(m, r)
    PROVE  \/ Pending(m, r)'
           \/ PutTopics(n, k) /\ r = Repo(n, k) /\ m = n
<1>1. queue' = queue \/ TakePair(n, k)
  BY DEF WorkerStep, RequestFails, FetchFallsBack, GetRepository, PostRepository,
     Resolve, FetchBranch, Push, ListPulls, AllClosed, ClosePull, PostPull,
     PutTopics, EnsureTopics
<1>2. \A j \in Workers : ~(m = n /\ j = k) => at'[m][j] = at[m][j]
  BY OnlyOwnLocals DEF CleanInv
<1>3. CASE m # n
  <2>1. queue'[m] = queue[m]
    BY <1>1, <1>3 DEF TakePair, CleanInv, TypeInv, ControlOK
  <2> QED
    BY <1>2, <1>3, <2>1 DEF Pending
<1>4. CASE m = n /\ at'[n][k].left = at[n][k].left /\ queue' = queue
  BY <1>2, <1>4 DEF Pending
<1>5. CASE m = n /\ TakePair(n, k)
  <2> DEFINE q == queue[n]
             p == Head(q)
             l == [Idle EXCEPT !.pc = "ensure", !.left = ReposOf[p]]
  <2>1. /\ q \in Seq(DOMAIN ReposOf) /\ q # <<>> /\ queue'[n] = Tail(q)
        /\ at[n][k].left = <<>>
    BY <1>5 DEF TakePair, At, CleanInv, TypeInv, ControlOK, IdleHasNothing
  <2>2. l.left = ReposOf[p] /\ SetLocals(n, k, l)
    BY <1>5 DEF TakePair, Idle
  <2> HIDE DEF l
  <2>3. at'[n][k].left = ReposOf[p]
    BY <2>2, SetArrives
  <2>4. ASSUME NEW i \in DOMAIN q, In(r, ReposOf[q[i]])
        PROVE  Pending(m, r)'
    <3>1. In(q[i], q)
      BY DEF In
    <3>2. q[i] = p \/ In(q[i], Tail(q))
      BY <2>1, <3>1, InTail
    <3>3. CASE q[i] = p
      BY <1>5, <2>3, <2>4, <3>3 DEF Pending
    <3>4. CASE In(q[i], Tail(q))
      BY <1>5, <2>1, <2>4, <3>4 DEF Pending, In
    <3> QED
      BY <3>2, <3>3, <3>4
  <2>5. ASSUME NEW j \in Workers, In(r, at[m][j].left)
        PROVE  Pending(m, r)'
    <3>1. j # k
      BY <1>5, <2>1, <2>5 DEF In
    <3> QED
      BY <1>2, <2>5, <3>1 DEF Pending
  <2> QED
    BY <1>5, <2>4, <2>5 DEF Pending
<1>6. CASE m = n /\ PutTopics(n, k)
  <2> DEFINE left == at[n][k].left
             l == [Idle EXCEPT !.pc = "ensure", !.left = Tail(left)]
  <2>1. /\ left \in Seq(Repos) /\ left # <<>> /\ Repo(n, k) = Head(left)
        /\ queue' = queue
    BY <1>6, AtRepo DEF PutTopics, EnsureTopics, At, CleanInv, TypeInv, Repo
  <2>2. l.left = Tail(left) /\ Idle.left = <<>>
    BY DEF Idle
  <2>3. \/ SetLocals(n, k, Idle) /\ Tail(left) = <<>>
        \/ SetLocals(n, k, l)
    BY <1>6 DEF PutTopics, EnsureTopics
  <2> HIDE DEF l
  <2>4. at'[n][k].left = Tail(left)
    BY <2>2, <2>3, SetArrives
  <2> HIDE DEF left
  <2>5. ASSUME NEW j \in Workers, In(r, at[m][j].left)
        PROVE  Pending(m, r)' \/ r = Repo(n, k)
    <3>1. CASE j # k
      BY <1>2, <2>5, <3>1 DEF Pending
    <3>2. CASE j = k
      BY <1>6, <2>1, <2>4, <2>5, <3>2, InTail DEF Pending, left
    <3> QED
      BY <3>1, <3>2
  <2> QED
    BY <1>6, <2>1, <2>5 DEF Pending
<1> QED
  BY <1>3, <1>4, <1>5, <1>6, LeftSteps

\* What a worker has dealt with the topics of is bootstrapped.
LEMMA TopicsEndRepository ==
    ASSUME CleanInv, NEW n \in Runs, NEW k \in Workers, PutTopics(n, k),
           Repo(n, k) \notin touched[n]
    PROVE  DoneIn(n, gh'[Repo(n, k)])
<1> DEFINE r == Repo(n, k)
<1>1. /\ r \in Repos /\ gh \in [Repos -> Repository] /\ gh[r] \in Repository
      /\ LocalsClean(at[n][k], gh[r]) /\ at[n][k].pc = "topics"
      /\ gh' = IF n \in SkipTopics THEN gh ELSE [gh EXCEPT ![r].topics = TRUE]
  BY AtHand DEF PutTopics, EnsureTopics, At
<1>2. gh[r].exists /\ Proposed(gh[r])
  BY <1>1 DEF LocalsClean
<1> HIDE DEF r
<1>3. CASE n \in SkipTopics
  BY <1>1, <1>2, <1>3 DEF DoneIn, r
<1>4. CASE n \notin SkipTopics
  <2>1. gh'[r] = [gh[r] EXCEPT !.topics = TRUE]
    BY <1>1, <1>4
  <2>2. gh'[r].topics /\ gh'[r].exists = gh[r].exists /\ gh'[r].pulls = gh[r].pulls
    BY <1>1, <2>1 DEF Repository
  <2> QED
    BY <1>2, <2>2 DEF DoneIn, Proposed, r
<1> QED
  BY <1>3, <1>4

\* All pairs are on the queue of an invocation that begins.
LEMMA BeginCovers ==
    ASSUME CleanInv, NEW n \in Runs, Begin(n), NEW r \in Repos
    PROVE  Pending(n, r)'
<1>1. PICK p \in DOMAIN ReposOf : In(r, ReposOf[p])
  BY DEF Repos, In
<1>2. PICK i \in DOMAIN Pairs : Pairs[i] = p
  BY SelectionAssumption
<1>3. queue'[n] = Pairs
  BY DEF Begin, CleanInv, TypeInv, ControlOK
<1> QED
  BY <1>1, <1>2, <1>3 DEF Pending

-----------------------------------------------------------------------------
(* The invariant.                                                          *)

\* Workers of an invocation that is under way, only, do something.
LEMMA StepWaitingIsIdle ==
    ASSUME TypeInv, WaitingIsIdle, [Next]_vars
    PROVE  WaitingIsIdle'
<1> SUFFICES ASSUME NEW n \in Runs, NEW k \in Workers, status'[n] = "waiting"
             PROVE  at'[n][k].pc = "idle"
  BY DEF WaitingIsIdle
<1>1. status[n] = "waiting"
  BY StatusSteps
<1> QED
  BY <1>1, StillLocals DEF WaitingIsIdle

\* A worker's action.
LEMMA WorkerKeepsInv ==
    ASSUME ExitInv, NEW n \in Runs, NEW k \in Workers,
           WorkerStep(n, k) \/ RequestFails(n, k) \/ FetchFallsBack(n, k), [Next]_vars
    PROVE  /\ AllLocalsSound' /\ IdleHasNothing'
           /\ \A m \in Runs : Finished(m)' /\ Covered(m)'
<1>1. status' = status /\ touched' = touched /\ status[n] = "running"
  BY DEF WorkerStep, RequestFails, FetchFallsBack, TakePair, GetRepository,
     PostRepository, Resolve, FetchBranch, Push, ListPulls, AllClosed, ClosePull,
     PostPull, PutTopics, EnsureTopics, At
<1>2. \A m \in Runs, j \in Workers : ~(m = n /\ j = k) => at'[m][j] = at[m][j]
  BY OnlyOwnLocals DEF ExitInv, CleanInv
<1>3. CleanInv /\ \A r \in Repos : Grows(gh[r], gh'[r]) /\ Kept(r)
  BY WorkerGrows DEF ExitInv, CleanInv, Kept
<1>4. Moved(n, k)
  BY <1>1, <1>3, WorkerMoves
<1>5. AllLocalsSound'
  <2> SUFFICES ASSUME NEW m \in Runs, NEW j \in Workers
               PROVE  LocalsSound(m, j)'
    BY DEF AllLocalsSound
  <2>1. CASE m = n /\ j = k
    BY <1>4, <2>1 DEF Moved
  <2>2. CASE ~(m = n /\ j = k)
    BY <1>1, <1>2, <1>3, <2>2, OthersSound
  <2> QED
    BY <2>1, <2>2
<1>6. IdleHasNothing'
  BY <1>2, <1>3, <1>4 DEF IdleHasNothing, CleanInv, Moved
<1>7. ASSUME NEW m \in Runs PROVE Finished(m)'
  <2> SUFFICES ASSUME status[m] = "exited"
               PROVE  queue'[m] = <<>> /\ \A j \in Workers : at'[m][j].pc = "idle"
    BY <1>1 DEF Finished
  <2>1. m # n
    BY <1>1
  <2>2. queue' = queue \/ TakePair(n, k)
    BY DEF WorkerStep, RequestFails, FetchFallsBack, GetRepository, PostRepository,
       Resolve, FetchBranch, Push, ListPulls, AllClosed, ClosePull, PostPull, PutTopics, EnsureTopics
  <2>3. queue'[m] = queue[m]
    BY <1>3, <2>1, <2>2 DEF TakePair, CleanInv, TypeInv, ControlOK
  <2> QED
    BY <1>2, <2>1, <2>3 DEF Finished, ExitInv
<1>8. ASSUME NEW m \in Runs PROVE Covered(m)'
  <2> SUFFICES ASSUME status[m] \in {"running", "exited"}, ~failed'[m],
                      NEW r \in Repos \ touched[m], ~Pending(m, r)'
               PROVE  DoneIn(m, gh'[r])
    BY <1>1 DEF Covered
  <2>1. ~failed[m]
    BY <1>3, FailuresStay DEF CleanInv
  <2>2. DoneIn(m, gh[r]) \/ Pending(m, r)
    BY <2>1 DEF Covered, ExitInv
  <2>3. CASE DoneIn(m, gh[r])
    BY <1>3, <2>3 DEF DoneIn, Grows
  <2>4. CASE Pending(m, r)
    <3>1. PutTopics(n, k) /\ r = Repo(n, k) /\ m = n
      BY <1>3, <2>4, PendingStep
    <3> QED
      BY <1>3, <3>1, TopicsEndRepository
  <2> QED
    BY <2>2, <2>3, <2>4
<1> QED
  BY <1>5, <1>6, <1>7, <1>8

\* The other steps: an invocation begins, exits or is cancelled, the source
\* moves, people act, or nothing happens.
LEMMA OtherStepsKeepInv ==
    ASSUME ExitInv, \A r \in Repos : Kept(r), at' = at, failed' = failed,
           \A m \in Runs : touched[m] \subseteq touched'[m],
           \/ \E n \in Runs : Begin(n) \/ Exit(n) \/ Cancel(n)
           \/ status' = status /\ queue' = queue
    PROVE  /\ AllLocalsSound' /\ IdleHasNothing'
           /\ \A m \in Runs : Finished(m)' /\ Covered(m)'
<1>1. AllLocalsSound' /\ IdleHasNothing'
  BY OthersSound DEF ExitInv, CleanInv, AllLocalsSound, IdleHasNothing
<1>2. ASSUME NEW m \in Runs PROVE Finished(m)'
  BY <1>2 DEF ExitInv, Finished, Begin, Exit, Cancel, CleanInv, TypeInv, ControlOK
<1>3. ASSUME NEW m \in Runs PROVE Covered(m)'
  <2>1. CASE Begin(m)
    BY <2>1, BeginCovers DEF Covered, ExitInv
  <2>2. CASE ~Begin(m)
    <3>1. /\ queue'[m] = queue[m]
          /\ status'[m] \in {"running", "exited"} => status[m] \in {"running", "exited"}
      BY <2>2 DEF Begin, Exit, Cancel, ExitInv, CleanInv, TypeInv, ControlOK
    <3> SUFFICES ASSUME status[m] \in {"running", "exited"}, ~failed[m],
                        NEW r \in Repos \ touched'[m], ~Pending(m, r)'
                 PROVE  DoneIn(m, gh'[r])
      BY <3>1 DEF Covered
    <3>2. ~Pending(m, r)
      BY <3>1 DEF Pending
    <3>3. DoneIn(m, gh[r])
      BY <3>2 DEF ExitInv, Covered
    <3>4. Grows(gh[r], gh'[r])
      BY DEF Kept
    <3> QED
      BY <3>3, <3>4 DEF DoneIn, Grows
  <2> QED
    BY <2>1, <2>2
<1> QED
  BY <1>1, <1>2, <1>3

LEMMA StepExits == ExitInv /\ [Next]_vars => ExitInv'
<1> SUFFICES ASSUME ExitInv, [Next]_vars PROVE ExitInv'
  OBVIOUS
<1>1. TypeInv' /\ CloseOK' /\ AllSeeded' /\ WorksSeeded' /\ WaitingIsIdle'
  BY StepTyped, StepCloseOK, StepSeeded, StepWorksSeeded, StepWaitingIsIdle
     DEF ExitInv, CleanInv
<1> DEFINE Rest == /\ AllLocalsSound' /\ IdleHasNothing'
                   /\ \A m \in Runs : Finished(m)' /\ Covered(m)'
<1>2. \A r \in Repos : Kept(r)
  BY StepKeeps DEF ExitInv, CleanInv
<1>3. ASSUME NEW n \in Runs, NEW k \in Workers,
             WorkerStep(n, k) \/ RequestFails(n, k) \/ FetchFallsBack(n, k)
      PROVE  Rest
  BY <1>3, WorkerKeepsInv
<1>4. ASSUME (\E n \in Runs : Begin(n) \/ Exit(n) \/ Cancel(n)) \/ SourceMoves \/ UNCHANGED vars
      PROVE  Rest
  <2>1. at' = at /\ failed' = failed /\ touched' = touched
    BY <1>4 DEF Begin, Exit, Cancel, SourceMoves, vars, run
  <2>2. \/ \E n \in Runs : Begin(n) \/ Exit(n) \/ Cancel(n)
        \/ status' = status /\ queue' = queue
    BY <1>4 DEF SourceMoves, vars, run
  <2> QED
    BY <1>2, <2>1, <2>2, OtherStepsKeepInv
<1>5. ASSUME NEW r \in Repos, NEW s, Human(r, s)
      PROVE  Rest
  <2>1. at' = at /\ failed' = failed /\ status' = status /\ queue' = queue
    BY <1>5 DEF Human
  <2>2. \A m \in Runs : touched[m] \subseteq touched'[m]
    BY <1>5 DEF Human
  <2> QED
    BY <1>2, <2>1, <2>2, OtherStepsKeepInv
<1> HIDE DEF Rest
<1>6. ASSUME Environment
      PROVE  Rest
  BY <1>4, <1>5, <1>6 DEF Environment, HumanCommit, MarkReady, MergePull
<1>7. Rest
  BY <1>3, <1>4, <1>6 DEF Next, RunStep, Failure
<1> QED
  BY <1>1, <1>7 DEF ExitInv, CleanInv, Rest

\* An invocation that exits 0 has left every selected repository created,
\* seeded and proposed by a draft, with its topics unless it skips them:
\* whatever was there before it and whatever people had done to it, however
\* many workers and overlapping invocations there are, and whichever of their
\* requests failed; only what people did since it began is excepted.
\* (mapConcurrent and main, bootstrap-test-org-fleet.parts/005.mjs.part.)
THEOREM CleanExitIsBootstrapped == Spec => []CleanExitBootstraps
<1>1. Spec => []ExitInv
  BY InitExits, StepExits, PTL DEF Spec
<1> QED
  BY <1>1, ExitInvImpliesCleanExit, PTL

-----------------------------------------------------------------------------
(* Invocations that do not overlap.                                        *)

\* At most one is under way, and one that has not begun has read nothing.
Alone == \A m, n \in Runs : status[m] = "running" /\ status[n] = "running" => m = n

Unstarted ==
    \A n \in Runs : status[n] = "waiting" =>
        cache[n] = None /\ \A k \in Workers : at[n][k] = Idle

\* Only an invocation under way changes its cache: to the head of the source, or
\* to a rejected lookup.
LEMMA CacheChanges ==
    ASSUME TypeInv, [Next]_vars, NEW n \in Runs
    PROVE  \/ cache'[n] = cache[n]
           \/ /\ status[n] = "running" /\ cache[n] = None
              /\ cache'[n] \in {source, Rejected} /\ source' = source
<1> DEFINE Conclusion ==
             \/ cache'[n] = cache[n]
             \/ /\ status[n] = "running" /\ cache[n] = None
                /\ cache'[n] \in {source, Rejected} /\ source' = source
<1>1. CASE UNCHANGED vars
  BY <1>1 DEF vars, run
<1>2. ASSUME NEW m \in Runs, NEW k \in Workers, Resolve(m, k) \/ RequestFails(m, k)
      PROVE  Conclusion
  <2>1. /\ status[m] = "running" /\ source' = source
        /\ \/ cache' = cache
           \/ cache' = [cache EXCEPT ![m] = IF cache[m] = None THEN source ELSE cache[m]]
           \/ cache[m] = None /\ cache' = [cache EXCEPT ![m] = Rejected]
    BY <1>2 DEF Resolve, RequestFails, At
  <2> QED
    BY <2>1 DEF TypeInv, ControlOK
<1>3. ASSUME NEW m \in Runs, NEW k \in Workers, WorkerStep(m, k) \/ FetchFallsBack(m, k)
      PROVE  Conclusion
  BY <1>2, <1>3 DEF WorkerStep, FetchFallsBack, TakePair, GetRepository,
     PostRepository, FetchBranch, Push, ListPulls, AllClosed, ClosePull, PostPull,
     PutTopics, EnsureTopics
<1>4. ASSUME NEW m \in Runs, Begin(m) \/ Exit(m) \/ Cancel(m)
      PROVE  Conclusion
  BY <1>4 DEF Begin, Exit, Cancel
<1>5. CASE Environment
  BY <1>5 DEF Environment, SourceMoves, HumanCommit, MarkReady, MergePull, Human, run
<1>6. CASE \E m \in Runs : RunStep(m) \/ Failure(m)
  BY <1>2, <1>3, <1>4, <1>6 DEF RunStep, Failure
<1> QED
  BY <1>1, <1>5, <1>6 DEF Next

LEMMA SourceSteps ==
    ASSUME TypeInv, [Next]_vars
    PROVE  source \in Nat /\ source' \in Nat /\ source <= source'
<1>1. source \in Nat /\ (source' = source \/ source' = source + 1)
  <2>1. ASSUME NEW m \in Runs, NEW k \in Workers,
               WorkerStep(m, k) \/ RequestFails(m, k) \/ FetchFallsBack(m, k)
        PROVE  source' = source
    BY <2>1 DEF WorkerStep, RequestFails, FetchFallsBack, TakePair, GetRepository,
       PostRepository, Resolve, FetchBranch, Push, ListPulls, AllClosed, ClosePull,
       PostPull, PutTopics, EnsureTopics
  <2>2. ASSUME NEW m \in Runs, Begin(m) \/ Exit(m) \/ Cancel(m)
        PROVE  source' = source
    BY <2>2 DEF Begin, Exit, Cancel
  <2>3. ASSUME Environment
        PROVE  source' = source \/ source' = source + 1
    BY <2>3 DEF Environment, SourceMoves, HumanCommit, MarkReady, MergePull, Human
  <2>4. source \in Nat
    BY BootstrapBounds DEF TypeInv, ControlOK, Shas
  <2> QED
    BY <2>1, <2>2, <2>3, <2>4 DEF Next, RunStep, Failure, vars
<1> QED
  BY <1>1

LEMMA StepAlone ==
    ASSUME TypeInv, Alone, [Next]_vars, Overlap = FALSE
    PROVE  Alone'
<1> SUFFICES ASSUME NEW m \in Runs, NEW n \in Runs, status'[m] = "running", status'[n] = "running", m # n
             PROVE  FALSE
  BY DEF Alone
<1>1. ASSUME NEW j \in Runs, Begin(j)
      PROVE  \A i \in Runs : status[i] # "running"
  BY <1>1 DEF Begin, UnderWay
<1>2. CASE Begin(m) \/ Begin(n)
  BY <1>1, <1>2 DEF Begin, TypeInv, ControlOK
<1>3. CASE ~Begin(m) /\ ~Begin(n)
  BY <1>3, StatusSteps DEF Alone
<1> QED
  BY <1>2, <1>3

LEMMA StepUnstarted ==
    ASSUME TypeInv, Unstarted, [Next]_vars
    PROVE  Unstarted'
<1> SUFFICES ASSUME NEW n \in Runs, status'[n] = "waiting"
             PROVE  cache'[n] = None /\ \A k \in Workers : at'[n][k] = Idle
  BY DEF Unstarted
<1>1. status[n] = "waiting"
  BY StatusSteps
<1> QED
  BY <1>1, CacheChanges, StillLocals DEF Unstarted

-----------------------------------------------------------------------------
(* No pin moves back.  A branch pins at most what the invocation under way *)
(* has in its cache: it was resolved after every earlier push.             *)

Below(p) ==
    /\ p <= source
    /\ \A n \in Runs : status[n] = "running" /\ cache[n] \in Shas => p <= cache[n]

PinsBelow ==
    \A r \in Needs : gh[r].branch # None =>
        Last(gh[r].branch).pins = None \/ Below(Last(gh[r].branch).pins)

CacheBelow == \A n \in Runs : cache[n] \in Shas => cache[n] <= source

OwnWork(n, l) == l.pc = "push" => Last(l.work).by = n
OwnWorks == \A n \in Runs, k \in Workers : OwnWork(n, at[n][k])

ForwardInv == PinInv /\ Alone /\ Unstarted /\ PinsBelow /\ CacheBelow /\ OwnWorks

LEMMA StepCacheBelow ==
    ASSUME TypeInv, CacheBelow, [Next]_vars
    PROVE  CacheBelow'
<1> SUFFICES ASSUME NEW n \in Runs, cache'[n] \in Shas
             PROVE  cache'[n] <= source'
  BY DEF CacheBelow
<1>1. Rejected \notin Shas /\ cache'[n] \in Nat
  BY BootstrapBounds DEF Shas
<1> QED
  BY <1>1, CacheChanges, SourceSteps DEF CacheBelow

LEMMA BelowStays ==
    ASSUME TypeInv, Unstarted, [Next]_vars, NEW p \in Shas, Below(p)
    PROVE  Below(p)'
<1>1. p \in Nat /\ p <= source'
  BY SourceSteps, BootstrapBounds DEF Below, Shas
<1>2. ASSUME NEW n \in Runs, status'[n] = "running", cache'[n] \in Shas
      PROVE  p <= cache'[n]
  <2>1. Rejected \notin Shas /\ None \notin Shas
    BY BootstrapBounds DEF Shas
  <2>2. CASE cache'[n] = cache[n]
    <3>1. status[n] # "waiting"
      BY <1>2, <2>1, <2>2 DEF Unstarted
    <3>2. status[n] = "running"
      BY <1>2, <3>1, StatusSteps
    <3> QED
      BY <1>2, <2>2, <3>2 DEF Below
  <2>3. CASE cache'[n] # cache[n]
    BY <1>2, <2>1, <2>3, CacheChanges DEF Below
  <2> QED
    BY <2>2, <2>3
<1> QED
  BY <1>1, <1>2 DEF Below

LEMMA StepOwnWorks ==
    ASSUME TypeInv, OwnWorks, [Next]_vars
    PROVE  OwnWorks'
<1> SUFFICES ASSUME NEW n \in Runs, NEW k \in Workers, at'[n][k].pc = "push"
             PROVE  Last(at'[n][k].work).by = n
  BY DEF OwnWorks, OwnWork
<1>1. CASE at'[n][k] = at[n][k]
  BY <1>1 DEF OwnWorks, OwnWork
<1>2. CASE FetchBranch(n, k) \/ FetchFallsBack(n, k)
  <2>1. PICK tip \in Seq(Commit), tree \in Tree : at'[n][k].work = Append(tip, CommitOf(n, tree))
    BY <1>2, Fetched
  <2> QED
    BY <2>1, CommitOfTree, LastOfAppend
<1> QED
  BY <1>1, <1>2, PushSteps

\* What an invocation is about to push pins what it has in its cache.
LEMMA WorkPins ==
    ASSUME PinInv, OwnWorks, NEW n \in Runs, NEW k \in Workers,
           at[n][k].pc = "push", Repo(n, k) \in Needs
    PROVE  Last(at[n][k].work).pins = cache[n] /\ cache[n] \in Shas
<1>1. /\ at[n][k].work \in Seq(Commit) /\ at[n][k].work # <<>> /\ at[n][k].left # <<>>
  BY DEF PinInv, TypeInv, AtOK, GoodLocals, Locals
<1>2. Len(at[n][k].work) \in DOMAIN at[n][k].work
  BY <1>1
<1> QED
  BY <1>1, <1>2 DEF PinInv, WorkPinned, LocalsPinned, Pinned, OwnWorks, OwnWork, Repo, Last

LEMMA StepPinsBelow ==
    ASSUME ForwardInv, [Next]_vars
    PROVE  PinsBelow'
<1> SUFFICES ASSUME NEW r \in Needs, gh'[r].branch # None, Last(gh'[r].branch).pins # None
             PROVE  \E p \in Shas : Last(gh'[r].branch).pins = p /\ Below(p)'
  BY DEF PinsBelow, Below
<1>1. TypeInv /\ Unstarted /\ r \in Repos /\ gh[r] \in Repository /\ gh[r].branch # <<>>
  BY NeedsAssumption DEF ForwardInv, PinInv, TypeInv, GhOK, GoodRepository
<1>2. ASSUME gh[r].branch # None, Last(gh'[r].branch).pins = Last(gh[r].branch).pins
      PROVE  \E p \in Shas : Last(gh'[r].branch).pins = p /\ Below(p)'
  <2>1. PICK p : p = Last(gh[r].branch).pins
    OBVIOUS
  <2>2. p \in Shas /\ Below(p)
    <3>1. Last(gh[r].branch) \in Commit
      BY <1>1, <1>2, LastIsCommit DEF Repository
    <3>2. p # None /\ p \in Shas \cup {None}
      BY <1>2, <2>1, <3>1 DEF Commit
    <3> QED
      BY <1>2, <2>1, <3>2 DEF ForwardInv, PinsBelow
  <2>3. Below(p)'
    BY <1>1, <2>2, BelowStays
  <2> QED
    BY <1>2, <2>1, <2>2, <2>3
<1>3. CASE gh'[r].branch = gh[r].branch
  BY <1>2, <1>3
<1>4. ASSUME gh[r].branch # None, NEW c \in Commit, TreeOf(c) = TreeOf(Last(gh[r].branch)),
             gh'[r].branch = Append(gh[r].branch, c)
      PROVE  \E p \in Shas : Last(gh'[r].branch).pins = p /\ Below(p)'
  <2>1. Last(gh'[r].branch) = c
    BY <1>1, <1>4, LastOfAppend DEF Repository
  <2>2. c.pins = Last(gh[r].branch).pins
    BY <1>4 DEF TreeOf
  <2> QED
    BY <1>2, <1>4, <2>1, <2>2
<1>5. ASSUME NEW n \in Runs, NEW k \in Workers, status[n] = "running", at[n][k].pc = "push",
             r = Repo(n, k), gh'[r].branch = at[n][k].work
      PROVE  \E p \in Shas : Last(gh'[r].branch).pins = p /\ Below(p)'
  <2>1. PICK p : p = cache[n]
    OBVIOUS
  <2>2. Last(gh'[r].branch).pins = p /\ p \in Shas
    BY <1>5, <2>1, WorkPins DEF ForwardInv
  <2>3. p <= p /\ p <= source
    BY <2>1, <2>2, BootstrapBounds DEF Shas, ForwardInv, CacheBelow
  <2>4. Below(p)
    BY <1>5, <2>1, <2>3 DEF Below, ForwardInv, Alone
  <2>5. Below(p)'
    BY <1>1, <2>2, <2>4, BelowStays
  <2> QED
    BY <2>2, <2>5
<1> QED
  BY <1>1, <1>3, <1>4, <1>5, BranchSteps

LEMMA StepForward ==
    ASSUME ForwardInv, [Next]_vars, Overlap = FALSE
    PROVE  ForwardInv'
<1>1. PinInv' /\ TypeInv
  BY PinnedStep DEF ForwardInv, PinInv
<1> QED
  BY <1>1, StepAlone, StepUnstarted, StepPinsBelow, StepCacheBelow, StepOwnWorks DEF ForwardInv

LEMMA InitForward == Init => ForwardInv
<1> SUFFICES ASSUME Init PROVE ForwardInv
  OBVIOUS
<1>1. None \notin Shas
  BY BootstrapBounds DEF Shas
<1>2. Alone /\ Unstarted /\ CacheBelow
  BY <1>1 DEF Init, Alone, Unstarted, CacheBelow
<1>3. PinsBelow
  BY NeedsAssumption DEF Init, PinsBelow
<1>4. OwnWorks
  BY DEF Init, OwnWorks, OwnWork, Idle
<1> QED
  BY <1>2, <1>3, <1>4, InitPinned DEF ForwardInv

\* Where invocations do not overlap, a later one never moves the pin of a
\* generated branch back to an older commit of the source, whatever fails, is
\* cancelled or is committed by people meanwhile.
THEOREM PinsNeverMoveBack ==
    ASSUME Overlap = FALSE
    PROVE  Spec => PinsMoveForward
<1>1. ASSUME ForwardInv, [Next]_vars, NEW r \in Needs,
             gh[r].branch # None, gh'[r].branch # None, Last(gh[r].branch).pins # None
      PROVE  Last(gh'[r].branch).pins >= Last(gh[r].branch).pins
  <2>1. TypeInv /\ r \in Repos /\ gh[r] \in Repository /\ gh[r].branch # <<>>
    BY <1>1, NeedsAssumption DEF ForwardInv, PinInv, TypeInv, GhOK, GoodRepository
  <2> DEFINE p == Last(gh[r].branch).pins
  <2>2. p \in Nat /\ Below(p)
    <3>1. Last(gh[r].branch) \in Commit
      BY <1>1, <2>1, LastIsCommit DEF Repository
    <3>2. p \in Shas
      BY <1>1, <3>1 DEF Commit
    <3> QED
      BY <1>1, <3>2, BootstrapBounds DEF ForwardInv, PinsBelow, Shas
  <2>3. CASE gh'[r].branch = gh[r].branch
    BY <2>2, <2>3
  <2>4. ASSUME NEW c \in Commit, TreeOf(c) = TreeOf(Last(gh[r].branch)),
               gh'[r].branch = Append(gh[r].branch, c)
        PROVE  Last(gh'[r].branch).pins = p
    <3>1. Last(gh'[r].branch) = c
      BY <1>1, <2>1, <2>4, LastOfAppend DEF Repository
    <3> QED
      BY <2>4, <3>1 DEF TreeOf
  <2>5. ASSUME NEW n \in Runs, NEW k \in Workers, status[n] = "running", at[n][k].pc = "push",
               r = Repo(n, k), gh'[r].branch = at[n][k].work
        PROVE  Last(gh'[r].branch).pins >= p
    <3>1. Last(gh'[r].branch).pins = cache[n] /\ cache[n] \in Shas
      BY <1>1, <2>5, WorkPins DEF ForwardInv
    <3>2. p <= cache[n] /\ cache[n] \in Nat
      BY <2>2, <2>5, <3>1, BootstrapBounds DEF Below, Shas
    <3> HIDE DEF p
    <3> QED
      BY <2>2, <3>1, <3>2
  <2> QED
    BY <1>1, <2>1, <2>2, <2>3, <2>4, <2>5, BranchSteps
<1>2. ForwardInv /\ [Next]_vars =>
        [\A r \in Needs : gh[r].branch # None /\ gh'[r].branch # None =>
            \/ Last(gh[r].branch).pins = None
            \/ Last(gh'[r].branch).pins >= Last(gh[r].branch).pins]_vars
  BY <1>1
<1>3. ForwardInv /\ [Next]_vars => ForwardInv'
  BY StepForward
<1> QED
  BY <1>2, <1>3, InitForward, PTL DEF Spec, PinsMoveForward

-----------------------------------------------------------------------------
(* A repository that is bootstrapped and current is left alone.  A second  *)
(* commit of an invocation on its branch would have the tree of the first. *)

\* What Generated makes of a tree it has made before: the same.
Formed(r, c) == IF r \in Needs THEN c.pins = 0 => c.gate ELSE c.pins = 0

BranchesFormed ==
    \A r \in Repos : gh[r].branch # None =>
        /\ Formed(r, Last(gh[r].branch))
        /\ \E i \in DOMAIN gh[r].branch : gh[r].branch[i].by \in Runs

\* A branch that the invocation under way has committed to pins what it found.
Settled ==
    \A r \in Needs, n \in Runs :
        /\ status[n] = "running" /\ gh[r].branch # None
        /\ \E i \in DOMAIN gh[r].branch : gh[r].branch[i].by = n
        => Last(gh[r].branch).pins = cache[n]

\* A worker pushes a commit only if it changes the tree that it found, and
\* on nothing that its own invocation has committed.
Fresh(n, l) ==
    l.pc = "push" =>
        /\ Len(l.work) >= 2
        /\ TreeOf(Last(l.work)) # TreeOf(l.work[Len(l.work) - 1])
        /\ TreeOf(Last(l.work)) =
              Generated(Head(l.left), Last(l.work).pins, l.work[Len(l.work) - 1])
        /\ \A i \in 1..(Len(l.work) - 1) : l.work[i].by # n

FreshWorks == \A n \in Runs, k \in Workers : Fresh(n, at[n][k])

\* While a worker is about to push, its branch is what it found or longer, or
\* the invocation has pushed to it, or the worker found the default branch.
Pushable(n, w, b) ==
    \/ Len(b) >= Len(w) - 1
    \/ \E i \in DOMAIN b : b[i].by = n
    \/ \A i \in 1..(Len(w) - 1) : w[i].by \notin Runs

PushOK ==
    \A n \in Runs, k \in Workers :
        status[n] = "running" /\ at[n][k].pc = "push" /\ gh[Repo(n, k)].branch # None =>
            Pushable(n, at[n][k].work, gh[Repo(n, k)].branch)

QuietInv == ForwardInv /\ BranchesFormed /\ Settled /\ FreshWorks /\ PushOK /\ CloseOK

LEMMA FreshIsFormed ==
    ASSUME TypeInv, FreshWorks, NEW n \in Runs, NEW k \in Workers, at[n][k].pc = "push"
    PROVE  Formed(Repo(n, k), Last(at[n][k].work))
BY DEF FreshWorks, Fresh, Formed, Generated, TreeOf, Repo

LEMMA StepBranchesFormed ==
    ASSUME QuietInv, [Next]_vars
    PROVE  BranchesFormed'
<1> SUFFICES ASSUME NEW r \in Repos, gh'[r].branch # None
             PROVE  /\ Formed(r, Last(gh'[r].branch))
                    /\ \E i \in DOMAIN gh'[r].branch : gh'[r].branch[i].by \in Runs
  BY DEF BranchesFormed, Formed
<1>1. TypeInv /\ gh[r] \in Repository /\ gh[r].branch # <<>>
  BY DEF QuietInv, ForwardInv, PinInv, TypeInv, GhOK, GoodRepository
<1>2. CASE gh'[r].branch = gh[r].branch
  BY <1>2 DEF QuietInv, BranchesFormed
<1>3. ASSUME gh[r].branch # None, NEW c \in Commit, TreeOf(c) = TreeOf(Last(gh[r].branch)),
             gh'[r].branch = Append(gh[r].branch, c)
      PROVE  /\ Formed(r, Last(gh'[r].branch))
             /\ \E i \in DOMAIN gh'[r].branch : gh'[r].branch[i].by \in Runs
  <2> DEFINE b == gh[r].branch
  <2>1. b \in Seq(Commit)
    BY <1>1, <1>3 DEF Repository
  <2>2. Formed(r, Last(b)) /\ \E i \in DOMAIN b : b[i].by \in Runs
    BY <1>3 DEF QuietInv, BranchesFormed
  <2>3. Last(gh'[r].branch) = c
    BY <1>3, <2>1, LastOfAppend
  <2>4. PICK i \in DOMAIN b : b[i].by \in Runs
    BY <2>2
  <2>5. i \in DOMAIN Append(b, c) /\ Append(b, c)[i] = b[i]
    BY <2>1
  <2>6. Formed(r, c)
    BY <1>3, <2>2 DEF Formed, TreeOf
  <2> QED
    BY <1>3, <2>3, <2>4, <2>5, <2>6
<1>4. ASSUME NEW n \in Runs, NEW k \in Workers, at[n][k].pc = "push",
             r = Repo(n, k), gh'[r].branch = at[n][k].work
      PROVE  /\ Formed(r, Last(gh'[r].branch))
             /\ \E i \in DOMAIN gh'[r].branch : gh'[r].branch[i].by \in Runs
  <2> DEFINE w == at[n][k].work
  <2>1. w \in Seq(Commit) /\ w # <<>>
    BY <1>1, <1>4 DEF TypeInv, AtOK, GoodLocals, Locals
  <2>2. Len(w) \in DOMAIN w
    BY <2>1
  <2>3. w[Len(w)].by = n
    BY <1>4 DEF QuietInv, ForwardInv, OwnWorks, OwnWork, Last
  <2>4. Formed(r, Last(w))
    BY <1>1, <1>4, FreshIsFormed DEF QuietInv
  <2> QED
    BY <1>4, <2>2, <2>3, <2>4
<1> QED
  BY <1>1, <1>2, <1>3, <1>4, BranchSteps

LEMMA StepSettled ==
    ASSUME QuietInv, [Next]_vars
    PROVE  Settled'
<1> SUFFICES ASSUME NEW r \in Needs, NEW n \in Runs, status'[n] = "running",
                    gh'[r].branch # None,
                    NEW i \in DOMAIN gh'[r].branch, gh'[r].branch[i].by = n
             PROVE  Last(gh'[r].branch).pins = cache'[n]
  BY DEF Settled
<1>1. TypeInv /\ Unstarted /\ r \in Repos /\ gh[r] \in Repository /\ gh[r].branch # <<>>
  BY NeedsAssumption DEF QuietInv, ForwardInv, PinInv, TypeInv, GhOK, GoodRepository
<1>2. cache[n] \in Shas => cache'[n] = cache[n]
  BY <1>1, CacheSteps, BootstrapBounds DEF Shas
<1>3. ASSUME gh[r].branch # None, NEW j \in DOMAIN gh[r].branch, gh[r].branch[j].by = n
      PROVE  cache'[n] = Last(gh[r].branch).pins
  <2>1. Pinned(gh[r].branch[j], cache)
    BY <1>3 DEF QuietInv, ForwardInv, PinInv, BranchesPinned
  <2>2. cache[n] \in Shas
    BY <1>3, <2>1 DEF Pinned
  <2>3. status[n] # "waiting"
    BY <1>1, <2>2, BootstrapBounds DEF Unstarted, Shas
  <2>4. status[n] = "running"
    BY <1>1, <2>3, StatusSteps
  <2> QED
    BY <1>2, <1>3, <2>2, <2>4 DEF QuietInv, Settled
<1>4. CASE gh'[r].branch = gh[r].branch
  BY <1>3, <1>4
<1>5. ASSUME gh[r].branch # None, NEW c \in Commit, c.by = "human",
             TreeOf(c) = TreeOf(Last(gh[r].branch)),
             gh'[r].branch = Append(gh[r].branch, c)
      PROVE  Last(gh'[r].branch).pins = cache'[n]
  <2> DEFINE b == gh[r].branch
  <2>1. b \in Seq(Commit)
    BY <1>1, <1>5 DEF Repository
  <2>2. Last(gh'[r].branch) = c
    BY <1>5, <2>1, LastOfAppend
  <2>3. i \in DOMAIN b /\ b[i].by = n
    <3>1. i = Len(b) + 1 => Append(b, c)[i] = c
      BY <2>1
    <3>2. i # Len(b) + 1
      BY <1>5, <3>1, AuthorsAssumption
    <3>3. i \in 1..(Len(b) + 1)
      BY <1>5, <2>1
    <3> QED
      BY <1>5, <2>1, <3>2, <3>3
  <2>4. c.pins = Last(b).pins
    BY <1>5 DEF TreeOf
  <2> QED
    BY <1>3, <1>5, <2>2, <2>3, <2>4
<1>6. ASSUME NEW m \in Runs, NEW k \in Workers, status[m] = "running", at[m][k].pc = "push",
             r = Repo(m, k), gh'[r].branch = at[m][k].work
      PROVE  Last(gh'[r].branch).pins = cache'[n]
  <2>1. Last(at[m][k].work).pins = cache[m] /\ cache[m] \in Shas
    BY <1>6, WorkPins DEF QuietInv, ForwardInv
  <2>2. m = n
    <3>1. Pinned(gh'[r].branch[i], cache)
      BY <1>6, <1>1 DEF QuietInv, ForwardInv, PinInv, WorkPinned, LocalsPinned, Repo,
         TypeInv, AtOK, GoodLocals
    <3>2. cache[n] \in Shas
      BY <3>1 DEF Pinned
    <3>3. status[n] # "waiting"
      BY <1>1, <3>2, BootstrapBounds DEF Unstarted, Shas
    <3>4. status[n] = "running"
      BY <1>1, <3>3, StatusSteps
    <3> QED
      BY <1>6, <3>4 DEF QuietInv, ForwardInv, Alone
  <2> QED
    BY <1>2, <1>6, <2>1, <2>2
<1> QED
  BY <1>1, <1>4, <1>5, <1>6, BranchSteps

\* A branch that the invocation has committed to is not changed by generating
\* its files again.
LEMMA NothingNew ==
    ASSUME QuietInv, NEW n \in Runs, NEW k \in Workers, status[n] = "running",
           at[n][k].pc = "fetch", gh[Repo(n, k)].branch # None,
           NEW i \in DOMAIN gh[Repo(n, k)].branch, gh[Repo(n, k)].branch[i].by = n
    PROVE  Generated(Repo(n, k), at[n][k].pins, Last(gh[Repo(n, k)].branch))
              = TreeOf(Last(gh[Repo(n, k)].branch))
<1> DEFINE r == Repo(n, k)
           c == Last(gh[r].branch)
<1>1. TypeInv /\ at[n][k].left # <<>> /\ r \in Repos /\ gh[r] \in Repository /\ gh[r].branch # <<>>
  BY AtRepo DEF QuietInv, ForwardInv, PinInv, TypeInv, GhOK, GoodRepository
<1>2. c \in Commit
  BY <1>1, LastIsCommit DEF Repository
<1>3. Formed(r, c)
  BY <1>1 DEF QuietInv, BranchesFormed
<1>4. CASE r \notin Needs
  <2>1. c.pins = 0
    BY <1>3, <1>4 DEF Formed
  <2> HIDE DEF c, r
  <2> QED
    BY <1>4, <2>1 DEF Generated, TreeOf, c, r
<1>5. CASE r \in Needs
  <2>1. c.pins = cache[n]
    BY <1>5 DEF QuietInv, Settled
  <2>2. at[n][k].pins = cache[n]
    BY <1>1, <1>5 DEF QuietInv, ForwardInv, PinInv, WorkPinned, LocalsPinned, Repo
  <2>3. c.gate \in BOOLEAN /\ (c.pins = 0 => c.gate)
    BY <1>2, <1>3, <1>5 DEF Commit, Formed
  <2> HIDE DEF c, r
  <2>4. (c.pins = 0 \/ c.gate) = c.gate
    BY <2>3
  <2> QED
    BY <1>5, <2>1, <2>2, <2>4 DEF Generated, TreeOf, c, r
<1> QED
  BY <1>4, <1>5

LEMMA StepFreshWorks ==
    ASSUME QuietInv, [Next]_vars
    PROVE  FreshWorks'
<1> SUFFICES ASSUME NEW n \in Runs, NEW k \in Workers, at'[n][k].pc = "push"
             PROVE  Fresh(n, at[n][k])'
  BY DEF FreshWorks, Fresh
<1>1. TypeInv
  BY DEF QuietInv, ForwardInv, PinInv
<1>2. CASE at'[n][k] = at[n][k]
  BY <1>2 DEF QuietInv, FreshWorks, Fresh
<1>3. CASE FetchBranch(n, k) \/ FetchFallsBack(n, k)
  <2> DEFINE r == Repo(n, k)
             pins == at[n][k].pins
  <2>1. PICK tip \in Seq(Commit), tree \in Tree :
          /\ tip # <<>>
          /\ tip = gh[r].base \/ (tip = gh[r].branch /\ tip # None)
          /\ tree = Generated(r, pins, Last(tip))
          /\ TreeOf(Last(tip)) # tree
          /\ at'[n][k].pc = "push" /\ at'[n][k].left = at[n][k].left
          /\ at'[n][k].work = Append(tip, CommitOf(n, tree))
    <3>1. at'[n][k].pc # "list"
      OBVIOUS
    <3> QED
      BY <1>1, <1>3, <3>1, Fetched
  <2> DEFINE c == CommitOf(n, tree)
             w == Append(tip, c)
  <2>2. c \in Commit /\ c.by = n /\ TreeOf(c) = tree
    BY CommitOfTree
  <2> HIDE DEF c
  <2>3. /\ Len(w) = Len(tip) + 1 /\ Len(tip) >= 1 /\ w[Len(w)] = c
        /\ \A i \in 1..Len(tip) : w[i] = tip[i]
    BY <2>1, <2>2
  <2> HIDE DEF w
  <2>4. /\ Len(w) >= 2 /\ Last(w) = c /\ w[Len(w) - 1] = Last(tip)
        /\ 1..(Len(w) - 1) = 1..Len(tip)
    <3>1. Len(w) - 1 = Len(tip) /\ Len(w) >= 2 /\ Len(tip) \in 1..Len(tip)
      BY <2>3
    <3> QED
      BY <2>3, <3>1 DEF Last
  <2>5. Generated(r, c.pins, Last(tip)) = tree
    <3>1. c.pins = tree.pins
      BY <2>2 DEF TreeOf
    <3> HIDE DEF r, pins
    <3>2. r \in Needs => tree.pins = pins
      BY <2>1 DEF Generated
    <3> QED
      BY <2>1, <3>1, <3>2 DEF Generated
  <2>6. \A i \in 1..Len(tip) : tip[i].by # n
    <3> SUFFICES ASSUME NEW i \in 1..Len(tip), tip[i].by = n
                 PROVE  FALSE
      OBVIOUS
    <3>1. i \in DOMAIN tip /\ r \in Repos /\ status[n] = "running" /\ at[n][k].pc = "fetch"
      BY <1>1, <1>3, <2>1, AtRepo DEF FetchBranch, FetchFallsBack, At, TypeInv
    <3>2. tip = gh[r].branch /\ tip # None
      BY <2>1, <3>1 DEF QuietInv, ForwardInv, PinInv, BasesAreHuman
    <3>3. Generated(r, pins, Last(tip)) = TreeOf(Last(tip))
      BY <3>1, <3>2, NothingNew
    <3> QED
      BY <2>1, <3>3
  <2>7. at'[n][k].work = w /\ Head(at'[n][k].left) = r
    BY <2>1 DEF w, c, Repo
  <2> HIDE DEF r, pins
  <2> QED
    BY <2>1, <2>2, <2>3, <2>4, <2>5, <2>6, <2>7 DEF Fresh
<1> QED
  BY <1>1, <1>2, <1>3, PushSteps

LEMMA StepPushOK ==
    ASSUME QuietInv, [Next]_vars
    PROVE  PushOK'
<1> SUFFICES ASSUME NEW n \in Runs, NEW k \in Workers, status'[n] = "running",
                    at'[n][k].pc = "push", gh'[Head(at'[n][k].left)].branch # None
             PROVE  Pushable(n, at'[n][k].work, gh'[Head(at'[n][k].left)].branch)
  BY DEF PushOK, Pushable, Repo
<1>1. TypeInv /\ Unstarted
  BY DEF QuietInv, ForwardInv, PinInv
<1>2. CASE at'[n][k] = at[n][k]
  <2> DEFINE r == Repo(n, k)
             w == at[n][k].work
  <2>1. status[n] = "running"
    <3>1. status[n] # "waiting"
      BY <1>1, <1>2 DEF Unstarted, Idle
    <3> QED
      BY <1>1, <3>1, StatusSteps
  <2>2. Head(at'[n][k].left) = r /\ at'[n][k].work = w /\ at[n][k].pc = "push"
    BY <1>2 DEF Repo
  <2>3. r \in Repos /\ gh[r] \in Repository /\ gh[r].branch # <<>>
    BY <1>1, <2>2, AtRepo DEF TypeInv, GhOK, GoodRepository
  <2>4. w \in Seq(Commit)
    BY <1>1 DEF TypeInv, AtOK, Locals
  <2>5. gh[r].branch # None => Pushable(n, w, gh[r].branch)
    BY <2>1, <2>2 DEF QuietInv, PushOK
  <2>6. CASE gh'[r].branch = gh[r].branch
    BY <2>2, <2>5, <2>6
  <2>7. ASSUME gh[r].branch # None, NEW c \in Commit, gh'[r].branch = Append(gh[r].branch, c)
        PROVE  Pushable(n, w, gh'[r].branch)
    <3> DEFINE b == gh[r].branch
    <3>1. b \in Seq(Commit)
      BY <2>3, <2>7 DEF Repository
    <3>2. /\ Len(Append(b, c)) = Len(b) + 1
          /\ \A i \in DOMAIN b : i \in DOMAIN Append(b, c) /\ Append(b, c)[i] = b[i]
      BY <3>1
    <3>3. Pushable(n, w, b)
      BY <2>5, <2>7
    <3> HIDE DEF b, w
    <3>4. Pushable(n, w, Append(b, c))
      <4>1. CASE Len(b) >= Len(w) - 1
        BY <2>4, <3>1, <3>2, <4>1 DEF Pushable
      <4>2. CASE \E i \in DOMAIN b : b[i].by = n
        BY <3>2, <4>2 DEF Pushable
      <4>3. CASE \A i \in 1..(Len(w) - 1) : w[i].by \notin Runs
        BY <4>3 DEF Pushable
      <4> QED
        BY <3>3, <4>1, <4>2, <4>3 DEF Pushable
    <3> QED
      BY <2>7, <3>4 DEF b
  <2>8. ASSUME NEW m \in Runs, NEW j \in Workers, status[m] = "running",
               at[m][j].pc = "push", gh'[r].branch = at[m][j].work
        PROVE  Pushable(n, w, gh'[r].branch)
    <3> DEFINE v == at[m][j].work
    <3>1. m = n
      BY <2>1, <2>8 DEF QuietInv, ForwardInv, Alone
    <3>2. v \in Seq(Commit) /\ v # <<>> /\ Last(v).by = n
      BY <1>1, <2>8, <3>1 DEF QuietInv, ForwardInv, OwnWorks, OwnWork, TypeInv, AtOK,
         GoodLocals, Locals
    <3>3. Len(v) \in DOMAIN v
      BY <3>2
    <3> QED
      BY <2>8, <3>2, <3>3 DEF Pushable, Last
  <2> QED
    BY <1>1, <2>2, <2>3, <2>6, <2>7, <2>8, BranchSteps
<1>3. CASE FetchBranch(n, k) \/ FetchFallsBack(n, k)
  <2> DEFINE r == Repo(n, k)
  <2>1. PICK tip \in Seq(Commit), tree \in Tree :
          /\ tip # <<>>
          /\ tip = gh[r].base \/ (tip = gh[r].branch /\ tip # None)
          /\ at'[n][k].left = at[n][k].left
          /\ at'[n][k].work = Append(tip, CommitOf(n, tree))
    <3>1. at'[n][k].pc # "list"
      OBVIOUS
    <3> QED
      BY <1>1, <1>3, <3>1, Fetched
  <2>2. Head(at'[n][k].left) = r /\ gh' = gh /\ r \in Repos
    BY <1>1, <1>3, <2>1, AtRepo DEF Repo, FetchBranch, FetchFallsBack, At, TypeInv
  <2> DEFINE c == CommitOf(n, tree)
             w == Append(tip, c)
  <2>3. c \in Commit
    BY CommitOfTree
  <2> HIDE DEF c
  <2>4. /\ Len(w) = Len(tip) + 1 /\ Len(tip) \in Nat
        /\ \A i \in 1..Len(tip) : w[i] = tip[i]
    BY <2>1, <2>3
  <2> HIDE DEF w
  <2>5. 1..(Len(w) - 1) = 1..Len(tip) /\ Len(w) - 1 = Len(tip)
    BY <2>4
  <2>6. CASE tip = gh[r].base
    <3>1. \A i \in DOMAIN tip : tip[i].by \notin Runs
      BY <2>2, <2>6 DEF QuietInv, ForwardInv, PinInv, BasesAreHuman
    <3>2. \A i \in 1..(Len(w) - 1) : w[i].by \notin Runs
      BY <2>4, <2>5, <3>1
    <3> QED
      BY <2>1, <2>2, <3>2 DEF Pushable, w, c
  <2>7. CASE tip = gh[r].branch
    <3>1. Len(gh'[r].branch) >= Len(w) - 1
      BY <2>2, <2>4, <2>5, <2>7
    <3> QED
      BY <2>1, <2>2, <3>1 DEF Pushable, w, c
  <2> QED
    BY <2>1, <2>6, <2>7
<1> QED
  BY <1>1, <1>2, <1>3, PushSteps

LEMMA StepQuiet ==
    ASSUME QuietInv, [Next]_vars, Overlap = FALSE
    PROVE  QuietInv'
<1>1. ForwardInv'
  BY StepForward DEF QuietInv
<1> QED
  BY <1>1, StepBranchesFormed, StepSettled, StepFreshWorks, StepPushOK, StepCloseOK
     DEF QuietInv, ForwardInv, PinInv

LEMMA InitQuiet == Init => QuietInv
<1> SUFFICES ASSUME Init PROVE QuietInv
  OBVIOUS
<1>1. \A n \in Runs, k \in Workers : at[n][k].pc = "idle" /\ status[n] = "waiting"
  BY DEF Init, Idle
<1>2. \A r \in Repos : gh[r].branch = None
  BY DEF Init
<1>3. BranchesFormed /\ Settled
  BY <1>1, <1>2, NeedsAssumption DEF BranchesFormed, Settled
<1>4. FreshWorks /\ PushOK /\ CloseOK
  BY <1>1 DEF FreshWorks, Fresh, PushOK, CloseOK, Closable
<1> QED
  BY <1>3, <1>4, InitForward DEF QuietInv

-----------------------------------------------------------------------------

\* A commit that a worker is about to push does not extend a branch that is
\* current.
LEMMA CurrentIsPushed ==
    ASSUME QuietInv, NEW n \in Runs, NEW k \in Workers, status[n] = "running",
           at[n][k].pc = "push", Current(Repo(n, k)),
           Extends(at[n][k].work, gh[Repo(n, k)].branch)
    PROVE  at[n][k].work = gh[Repo(n, k)].branch
<1> DEFINE r == Repo(n, k)
           w == at[n][k].work
           b == gh[r].branch
           c == Last(w)
           d == w[Len(w) - 1]
<1>1. TypeInv /\ r \in Repos /\ b \in Seq(Commit) /\ b # <<>> /\ b # None
  BY AtRepo DEF QuietInv, ForwardInv, PinInv, TypeInv, GhOK, GoodRepository, Repository,
     Current, Bootstrapped
<1>2. w \in Seq(Commit) /\ w # <<>>
  BY <1>1 DEF TypeInv, AtOK, GoodLocals, Locals
<1>3. /\ Len(w) >= 2 /\ TreeOf(c) # TreeOf(d)
      /\ TreeOf(c) = Generated(r, c.pins, d)
      /\ \A i \in 1..(Len(w) - 1) : w[i].by # n
  BY DEF QuietInv, FreshWorks, Fresh, Repo
<1>4. Pushable(n, w, b)
  BY <1>1 DEF QuietInv, PushOK
<1>5. PICK i \in DOMAIN b : b[i].by \in Runs
  BY <1>1 DEF QuietInv, BranchesFormed
<1>6. Formed(r, Last(b))
  BY <1>1 DEF QuietInv, BranchesFormed
<1>7. r \in Needs => Last(b).pins = c.pins
  <2> SUFFICES ASSUME r \in Needs PROVE Last(b).pins = c.pins
    OBVIOUS
  <2>1. c.pins = cache[n] /\ cache[n] \in Shas
    BY WorkPins DEF QuietInv, ForwardInv
  <2>2. Last(b).pins = source /\ source \in Shas /\ source # None
    BY <1>1, BootstrapBounds DEF Current, TypeInv, ControlOK, Shas
  <2>3. source <= cache[n] /\ cache[n] <= source
    BY <1>1, <2>1, <2>2 DEF QuietInv, ForwardInv, PinsBelow, Below, CacheBelow
  <2>4. source = cache[n]
    BY <2>1, <2>2, <2>3, BootstrapBounds DEF Shas
  <2> QED
    BY <2>1, <2>2, <2>4
<1>8. /\ Len(b) <= Len(w) /\ \A j \in 1..Len(b) : b[j] = w[j]
      /\ Len(b) \in Nat /\ Len(w) \in Nat /\ DOMAIN b = 1..Len(b)
  BY <1>1, <1>2 DEF Extends
<1>9. ASSUME Len(b) = Len(w)
      PROVE  w = b
  BY <1>1, <1>2, <1>8, <1>9
<1>10. Len(b) # Len(w) - 1
  <2> SUFFICES ASSUME Len(b) = Len(w) - 1 PROVE FALSE
    OBVIOUS
  <2>1. Last(b) = d /\ d \in Commit
    <3>1. Len(b) \in 1..Len(b)
      BY <1>3, <1>8
    <3> QED
      BY <1>1, <1>8, <3>1, LastIsCommit DEF Last
  <2> HIDE DEF c, d, w, b, r
  <2>2. r \in Needs => c.pins = d.pins /\ (d.pins = 0 => d.gate)
    BY <1>6, <1>7, <2>1 DEF Formed
  <2>3. r \notin Needs => d.pins = 0
    BY <1>6, <2>1 DEF Formed
  <2>4. d.gate \in BOOLEAN
    BY <2>1 DEF Commit
  <2>5. Generated(r, c.pins, d) = TreeOf(d)
    <3>1. CASE r \notin Needs
      BY <2>3, <3>1 DEF Generated, TreeOf
    <3>2. CASE r \in Needs
      <4>1. (c.pins = 0 \/ d.gate) = d.gate
        BY <2>2, <2>4, <3>2
      <4> QED
        BY <2>2, <3>2, <4>1 DEF Generated, TreeOf
    <3> QED
      BY <3>1, <3>2
  <2> QED
    BY <1>3, <2>5
<1>11. ~(Len(b) < Len(w) - 1)
  <2> SUFFICES ASSUME Len(b) < Len(w) - 1 PROVE FALSE
    OBVIOUS
  <2>1. \A j \in DOMAIN b : j \in 1..(Len(w) - 1) /\ b[j] = w[j]
    BY <1>8
  <2>2. ~(Len(b) >= Len(w) - 1)
    BY <1>8
  <2>3. ~\E j \in DOMAIN b : b[j].by = n
    BY <1>3, <2>1
  <2>4. ~\A j \in 1..(Len(w) - 1) : w[j].by \notin Runs
    BY <1>5, <2>1
  <2> QED
    BY <1>4, <2>2, <2>3, <2>4 DEF Pushable
<1>12. Len(b) = Len(w)
  <2> HIDE DEF b, w
  <2> QED
    BY <1>8, <1>10, <1>11
<1> QED
  BY <1>9, <1>12

LEMMA NothingChanges ==
    ASSUME QuietInv, [Next]_vars, NEW r \in Repos, Current(r), human' = human
    PROVE  gh'[r] = gh[r]
<1> DEFINE Same == gh'[r] = gh[r]
<1>1. TypeInv /\ gh \in [Repos -> Repository] /\ gh[r] \in Repository
  BY DEF QuietInv, ForwardInv, PinInv, TypeInv, GhOK
<1>2. ASSUME gh' = gh
      PROVE  Same
  BY <1>2
<1>3. ASSUME NEW q \in Repos, NEW s, gh' = [gh EXCEPT ![q] = s], q = r => s = gh[r]
      PROVE  Same
  BY <1>1, <1>3
<1>4. ASSUME NEW n \in Runs, NEW k \in Workers, PostRepository(n, k)
      PROVE  Same
  <2>1. Repo(n, k) \in Repos
    BY <1>1, <1>4, AtRepo DEF TypeInv, PostRepository, At
  <2>2. \/ gh' = gh
        \/ ~gh[Repo(n, k)].exists /\ \E s : gh' = [gh EXCEPT ![Repo(n, k)] = s]
    BY <1>4 DEF PostRepository, Refused
  <2> QED
    BY <1>2, <1>3, <2>1, <2>2 DEF Current, Bootstrapped
<1>5. ASSUME NEW n \in Runs, NEW k \in Workers, PutTopics(n, k)
      PROVE  Same
  <2> DEFINE q == Repo(n, k)
             s == [gh[q] EXCEPT !.topics = TRUE]
  <2>1. q \in Repos /\ ((n \in SkipTopics /\ gh' = gh)
                        \/ (n \notin SkipTopics /\ gh' = [gh EXCEPT ![q] = s]))
    BY <1>1, <1>5, AtRepo DEF TypeInv, PutTopics, EnsureTopics, At
  <2>2. gh[r].topics => [gh[r] EXCEPT !.topics = TRUE] = gh[r]
    BY <1>1 DEF Repository
  <2>3. n \notin SkipTopics /\ q = r => s = gh[r]
    BY <2>2 DEF Current
  <2> HIDE DEF q, s
  <2> QED
    BY <1>2, <1>3, <2>1, <2>3
<1>6. ASSUME NEW n \in Runs, NEW k \in Workers, PostPull(n, k)
      PROVE  Same
  <2>1. Repo(n, k) \in Repos
    BY <1>1, <1>6, AtRepo DEF TypeInv, PostPull, At
  <2>2. \/ gh' = gh
        \/ OpenPulls(Repo(n, k)) = {} /\ \E s : gh' = [gh EXCEPT ![Repo(n, k)] = s]
    BY <1>6 DEF PostPull, Refused
  <2>3. OpenPulls(r) # {}
    BY DEF Current, Bootstrapped, Drafts
  <2> QED
    BY <1>2, <1>3, <2>1, <2>2, <2>3
<1>7. ASSUME NEW n \in Runs, NEW k \in Workers, ClosePull(n, k)
      PROVE  Same
  <2> DEFINE q == Repo(n, k)
             i == Lowest(at[n][k].toClose)
             st == IF gh[q].pulls[i].state = "open" THEN "closed" ELSE gh[q].pulls[i].state
             p == [gh[q].pulls[i] EXCEPT !.state = st]
             u == [gh[q].pulls EXCEPT ![i] = p]
             s == [gh[q] EXCEPT !.pulls = u]
  <2>1. q \in Repos /\ at[n][k].pc = "close"
    BY <1>1, <1>7, AtRepo DEF TypeInv, ClosePull, At
  <2>2. gh' = [gh EXCEPT ![q] = s]
    BY <1>7 DEF ClosePull
  <2>3. ASSUME q = r
        PROVE  s = gh[r]
    <3>1. i \in at[n][k].toClose
      BY <1>1, <1>7, LowestIsIn DEF ClosePull, TypeInv, AtOK, Locals
    <3>2. i \in DOMAIN gh[r].pulls /\ ~gh[r].pulls[i].draft
      BY <2>1, <2>3, <3>1 DEF QuietInv, CloseOK, Closable
    <3>3. gh[r].pulls[i].state # "open"
      <4>1. PICK j \in OpenIn(gh[r]) : gh[r].pulls[j].draft
        BY DEF Current, Bootstrapped, Drafts, OpenPulls, OpenIn
      <4>2. \A a, e \in OpenIn(gh[r]) : a = e
        BY <1>1 DEF TypeInv, GhOK, GoodRepository, OneOpenPull
      <4> QED
        BY <3>2, <4>1, <4>2 DEF OpenIn
    <3>4. gh[r].pulls \in Seq(Pull) /\ gh[r].pulls[i] \in Pull
      BY <1>1, <3>2 DEF Repository
    <3>5. p = gh[r].pulls[i]
      BY <2>3, <3>3, <3>4 DEF Pull
    <3> HIDE DEF p, i
    <3>6. u = gh[r].pulls
      BY <2>3, <3>2, <3>4, <3>5
    <3> HIDE DEF u
    <3> QED
      BY <1>1, <2>3, <3>6 DEF Repository
  <2> HIDE DEF s, q
  <2> QED
    BY <1>3, <2>1, <2>2, <2>3
<1>8. ASSUME NEW n \in Runs, NEW k \in Workers, Push(n, k)
      PROVE  Same
  <2> DEFINE q == Repo(n, k)
             s == [gh[q] EXCEPT !.branch = at[n][k].work]
  <2>1. q \in Repos /\ at[n][k].pc = "push" /\ status[n] = "running"
    BY <1>1, <1>8, AtRepo DEF TypeInv, Push, At
  <2>2. \/ gh' = gh
        \/ /\ gh[q].branch = None \/ Extends(at[n][k].work, gh[q].branch)
           /\ gh' = [gh EXCEPT ![q] = s]
    BY <1>8 DEF Push, Refused
  <2>3. CASE gh' = gh
    BY <1>2, <2>3
  <2>4. CASE /\ gh[q].branch = None \/ Extends(at[n][k].work, gh[q].branch)
             /\ gh' = [gh EXCEPT ![q] = s]
    <3>1. ASSUME q = r
          PROVE  s = gh[r]
      <4>1. at[n][k].work = gh[r].branch
        <5>1. gh[r].branch # None
          BY DEF Current, Bootstrapped
        <5>2. Current(Repo(n, k)) /\ Extends(at[n][k].work, gh[Repo(n, k)].branch)
          BY <2>4, <3>1, <5>1
        <5> QED
          BY <2>1, <3>1, <5>2, CurrentIsPushed
      <4> QED
        BY <1>1, <3>1, <4>1 DEF Repository
    <3> HIDE DEF s, q
    <3> QED
      BY <1>3, <2>1, <2>4, <3>1
  <2> QED
    BY <2>2, <2>3, <2>4
<1> HIDE DEF Same
<1>9. ASSUME Environment \/ UNCHANGED vars
      PROVE  Same
  <2>1. human \in Nat
    BY <1>1, BootstrapBounds DEF TypeInv, ControlOK
  <2>2. human' # human + 1
    BY <2>1
  <2> QED
    BY <1>2, <1>9, <2>2 DEF Environment, SourceMoves, HumanCommit, MarkReady, MergePull,
       Human, vars
<1>10. ASSUME NEW n \in Runs, RunStep(n) \/ Failure(n)
       PROVE  Same
  BY <1>2, <1>4, <1>5, <1>6, <1>7, <1>8, <1>10 DEF RunStep, Failure, WorkerStep, Begin,
     Exit, Cancel, RequestFails, FetchFallsBack, TakePair, GetRepository, Resolve,
     FetchBranch, ListPulls, AllClosed
<1> QED
  BY <1>9, <1>10 DEF Next, Same

\* Where invocations do not overlap, a repository that is bootstrapped and
\* pins the head of its source is left alone by every step of every later
\* invocation, whatever failed or was cancelled before.
THEOREM ReRunsChangeNothing ==
    ASSUME Overlap = FALSE
    PROVE  Spec => ReRunsAreQuiet
<1>1. QuietInv /\ [Next]_vars =>
        [\A r \in Repos : Current(r) /\ human' = human => gh'[r] = gh[r]]_vars
  BY NothingChanges
<1>2. QuietInv /\ [Next]_vars => QuietInv'
  BY StepQuiet
<1> QED
  BY <1>1, <1>2, InitQuiet, PTL DEF Spec, ReRunsAreQuiet

-----------------------------------------------------------------------------
(* Invocations that may overlap.  Of two of them either the earlier one    *)
(* had ended when the later one began, and then the later one looked the   *)
(* source up later; or each has met the other.                             *)

Before(m, n) == cache[m] <= cache[n] \/ m \in met[n]

InOrder(s) ==
    \A i, j \in DOMAIN s : i < j /\ {s[i].by, s[j].by} \subseteq Runs =>
        Before(s[i].by, s[j].by)

Acquainted ==
    \A m, n \in Runs : m # n /\ {m, n} \subseteq UnderWay => m \in met[n]

LookupsOrdered ==
    \A m, n \in Runs : n \in UnderWay /\ {cache[m], cache[n]} \subseteq Shas => Before(m, n)

BranchesOrdered == \A r \in Needs : gh[r].branch # None => InOrder(gh[r].branch)

WorksOrdered ==
    \A n \in Runs, k \in Workers :
        at[n][k].pc = "push" /\ Repo(n, k) \in Needs => InOrder(at[n][k].work)

OrderInv ==
    /\ PinInv /\ Unstarted /\ CacheBelow
    /\ Acquainted /\ LookupsOrdered /\ BranchesOrdered /\ WorksOrdered

\* The pins of commits are what the caches of their authors hold.
LEMMA OrderInvImpliesInOrder == OrderInv => PinsInOrder
<1> SUFFICES ASSUME OrderInv, NEW r \in Needs, gh[r].branch # None,
                    NEW i \in DOMAIN gh[r].branch, NEW j \in DOMAIN gh[r].branch, i < j,
                    {gh[r].branch[i].by, gh[r].branch[j].by} \subseteq Runs
             PROVE  \/ gh[r].branch[i].pins <= gh[r].branch[j].pins
                    \/ gh[r].branch[i].by \in met[gh[r].branch[j].by]
  BY DEF PinsInOrder
<1>1. Before(gh[r].branch[i].by, gh[r].branch[j].by)
  BY DEF OrderInv, BranchesOrdered, InOrder
<1>2. Pinned(gh[r].branch[i], cache) /\ Pinned(gh[r].branch[j], cache)
  BY DEF OrderInv, PinInv, BranchesPinned
<1> QED
  BY <1>1, <1>2 DEF Before, Pinned

LEMMA InitOrdered == Init => OrderInv
<1> SUFFICES ASSUME Init PROVE OrderInv
  OBVIOUS
<1>1. None \notin Shas
  BY BootstrapBounds DEF Shas
<1>2. Unstarted /\ CacheBelow /\ Acquainted /\ LookupsOrdered
  BY <1>1 DEF Init, Unstarted, CacheBelow, Acquainted, LookupsOrdered, UnderWay
<1>3. BranchesOrdered
  BY NeedsAssumption DEF Init, BranchesOrdered
<1>4. WorksOrdered
  BY DEF Init, WorksOrdered, Idle
<1> QED
  BY <1>2, <1>3, <1>4, InitPinned DEF OrderInv

\* Whom an invocation has met it has met for good, and one that begins meets
\* those under way.
LEMMA MetSteps ==
    ASSUME TypeInv, [Next]_vars, NEW n \in Runs
    PROVE  /\ met[n] \subseteq met'[n]
           /\ \A m \in Runs : Begin(m) /\ m # n /\ status[n] = "running" =>
                 m \in met'[n] /\ n \in met'[m]
<1>1. ASSUME NEW m \in Runs, NEW k \in Workers,
             WorkerStep(m, k) \/ RequestFails(m, k) \/ FetchFallsBack(m, k)
      PROVE  met' = met
  BY <1>1 DEF WorkerStep, RequestFails, FetchFallsBack, TakePair, GetRepository,
     PostRepository, Resolve, FetchBranch, Push, ListPulls, AllClosed, ClosePull,
     PostPull, PutTopics, EnsureTopics
<1>2. ASSUME Environment \/ UNCHANGED vars
      PROVE  met' = met
  BY <1>2 DEF Environment, SourceMoves, HumanCommit, MarkReady, MergePull, Human, run, vars
<1>3. ASSUME NEW m \in Runs, Begin(m)
      PROVE  met[n] \subseteq met'[n]
  BY <1>3 DEF Begin, TypeInv, ControlOK
<1>4. ASSUME NEW m \in Runs, Exit(m) \/ Cancel(m)
      PROVE  met' = met
  BY <1>4 DEF Exit, Cancel
<1>5. met[n] \subseteq met'[n]
  BY <1>1, <1>2, <1>3, <1>4 DEF Next, RunStep, Failure
<1>6. ASSUME NEW m \in Runs, Begin(m), m # n, status[n] = "running"
      PROVE  m \in met'[n] /\ n \in met'[m]
  BY <1>6 DEF Begin, UnderWay
<1> QED
  BY <1>5, <1>6

LEMMA BeforeStays ==
    ASSUME TypeInv, [Next]_vars, NEW m \in Runs, NEW n \in Runs,
           {cache[m], cache[n]} \subseteq Shas, Before(m, n)
    PROVE  cache'[m] <= cache'[n] \/ m \in met'[n]
<1>1. None \notin Shas
  BY BootstrapBounds DEF Shas
<1>2. cache'[m] = cache[m] /\ cache'[n] = cache[n]
  BY <1>1, CacheSteps
<1> QED
  BY <1>2, MetSteps DEF Before

\* A history whose commits carry the pins of their authors stays in order.
LEMMA InOrderStays ==
    ASSUME TypeInv, [Next]_vars, NEW s, InOrder(s),
           \A i \in DOMAIN s : Pinned(s[i], cache)
    PROVE  \A i, j \in DOMAIN s : i < j /\ {s[i].by, s[j].by} \subseteq Runs =>
              cache'[s[i].by] <= cache'[s[j].by] \/ s[i].by \in met'[s[j].by]
<1> SUFFICES ASSUME NEW i \in DOMAIN s, NEW j \in DOMAIN s, i < j,
                    {s[i].by, s[j].by} \subseteq Runs
             PROVE  cache'[s[i].by] <= cache'[s[j].by] \/ s[i].by \in met'[s[j].by]
  OBVIOUS
<1>1. Before(s[i].by, s[j].by)
  BY DEF InOrder
<1>2. {cache[s[i].by], cache[s[j].by]} \subseteq Shas
  BY DEF Pinned
<1> QED
  BY <1>1, <1>2, BeforeStays

LEMMA StepAcquainted ==
    ASSUME TypeInv, Acquainted, [Next]_vars
    PROVE  Acquainted'
<1> SUFFICES ASSUME NEW m \in Runs, NEW n \in Runs, m # n,
                    status'[m] = "running", status'[n] = "running"
             PROVE  m \in met'[n]
  BY DEF Acquainted, UnderWay
<1>1. CASE status[m] = "running" /\ status[n] = "running"
  BY <1>1, MetSteps DEF Acquainted, UnderWay
<1>2. CASE status[m] # "running"
  <2>1. Begin(m) /\ status'[n] = status[n]
    BY <1>2, StatusSteps
  <2> QED
    BY <2>1, MetSteps
<1>3. CASE status[n] # "running"
  <2>1. Begin(n) /\ status'[m] = status[m]
    BY <1>3, StatusSteps
  <2> QED
    BY <2>1, MetSteps
<1> QED
  BY <1>1, <1>2, <1>3

LEMMA StepLookupsOrdered ==
    ASSUME OrderInv, [Next]_vars
    PROVE  LookupsOrdered'
<1> SUFFICES ASSUME NEW m \in Runs, NEW n \in Runs, status'[n] = "running",
                    cache'[m] \in Shas, cache'[n] \in Shas
             PROVE  cache'[m] <= cache'[n] \/ m \in met'[n]
  BY DEF LookupsOrdered, UnderWay, Before
<1>1. TypeInv /\ Unstarted /\ CacheBelow' /\ Acquainted /\ LookupsOrdered
  BY StepCacheBelow DEF OrderInv, PinInv
<1>2. None \notin Shas /\ Rejected \notin Shas /\ cache'[m] \in Nat
  BY BootstrapBounds DEF Shas
<1>3. CASE cache'[n] # cache[n]
  <2>1. cache'[n] = source /\ source' = source
    BY <1>1, <1>2, <1>3, CacheChanges
  <2> QED
    BY <1>1, <2>1 DEF CacheBelow
<1>4. CASE cache'[n] = cache[n]
  <2>1. status[n] = "running"
    BY <1>1, <1>2, <1>4, StatusSteps DEF Unstarted
  <2>2. CASE cache'[m] = cache[m]
    <3>1. Before(m, n)
      BY <1>1, <1>4, <2>1, <2>2 DEF LookupsOrdered, UnderWay
    <3> QED
      BY <1>1, <1>4, <2>2, <3>1, BeforeStays
  <2>3. CASE cache'[m] # cache[m]
    <3>1. status[m] = "running" /\ m # n
      BY <1>1, <1>4, <2>3, CacheChanges
    <3> QED
      BY <1>1, <2>1, <3>1, MetSteps DEF Acquainted, UnderWay
  <2> QED
    BY <2>2, <2>3
<1> QED
  BY <1>3, <1>4

\* What a worker is about to push pins the caches of its authors.
LEMMA PushedPinned ==
    ASSUME PinInv, NEW n \in Runs, NEW k \in Workers,
           at[n][k].pc = "push", Repo(n, k) \in Needs
    PROVE  \A i \in DOMAIN at[n][k].work : Pinned(at[n][k].work[i], cache)
<1>1. at[n][k].left # <<>>
  BY DEF PinInv, TypeInv, AtOK, GoodLocals
<1> QED
  BY <1>1 DEF PinInv, WorkPinned, LocalsPinned, Repo

LEMMA StepBranchesOrdered ==
    ASSUME OrderInv, [Next]_vars
    PROVE  BranchesOrdered'
<1> DEFINE StaysOrdered(s) ==
             \A i, j \in DOMAIN s : i < j /\ {s[i].by, s[j].by} \subseteq Runs =>
                cache'[s[i].by] <= cache'[s[j].by] \/ s[i].by \in met'[s[j].by]
<1> SUFFICES ASSUME NEW r \in Needs, gh'[r].branch # None
             PROVE  StaysOrdered(gh'[r].branch)
  BY DEF BranchesOrdered, InOrder, Before
<1>1. TypeInv /\ r \in Repos /\ gh[r] \in Repository
  BY NeedsAssumption DEF OrderInv, PinInv, TypeInv, GhOK
<1>2. ASSUME gh[r].branch # None
      PROVE  StaysOrdered(gh[r].branch)
  <2>1. InOrder(gh[r].branch) /\ \A i \in DOMAIN gh[r].branch : Pinned(gh[r].branch[i], cache)
    BY <1>2 DEF OrderInv, BranchesOrdered, PinInv, BranchesPinned
  <2> QED
    BY <1>1, <2>1, InOrderStays
<1>3. CASE gh'[r].branch = gh[r].branch
  BY <1>2, <1>3
<1>4. ASSUME gh[r].branch # None, NEW c \in Commit, c.by = "human",
             gh'[r].branch = Append(gh[r].branch, c)
      PROVE  StaysOrdered(gh'[r].branch)
  <2> DEFINE b == gh[r].branch
             a == Append(b, c)
  <2>1. b \in Seq(Commit) /\ StaysOrdered(b)
    BY <1>1, <1>2, <1>4 DEF Repository
  <2> HIDE DEF b
  <2>2. \A i \in DOMAIN a : a[i] = c \/ (i \in DOMAIN b /\ a[i] = b[i])
    BY <2>1
  <2>3. c.by \notin Runs
    BY <1>4, AuthorsAssumption
  <2> HIDE DEF a
  <2>4. StaysOrdered(a)
    BY <2>1, <2>2, <2>3
  <2> QED
    BY <1>4, <2>4 DEF a, b
<1>5. ASSUME NEW n \in Runs, NEW k \in Workers, at[n][k].pc = "push",
             r = Repo(n, k), gh'[r].branch = at[n][k].work
      PROVE  StaysOrdered(gh'[r].branch)
  <2>1. InOrder(at[n][k].work)
    BY <1>5 DEF OrderInv, WorksOrdered
  <2>2. \A i \in DOMAIN at[n][k].work : Pinned(at[n][k].work[i], cache)
    BY <1>5, PushedPinned DEF OrderInv
  <2> HIDE DEF StaysOrdered
  <2>3. StaysOrdered(at[n][k].work)
    BY <1>1, <2>1, <2>2, InOrderStays DEF StaysOrdered
  <2> QED
    BY <1>5, <2>3
<1> HIDE DEF StaysOrdered
<1> QED
  BY <1>1, <1>3, <1>4, <1>5, BranchSteps

\* A commit made on top of a branch is in order with what the branch holds.
LEMMA CommitInOrder ==
    ASSUME OrderInv, NEW n \in Runs, NEW k \in Workers, NEW c \in Commit, c.by = n,
           at[n][k].pc = "fetch", status[n] = "running", Repo(n, k) \in Needs,
           NEW tip \in Seq(Commit),
           tip = gh[Repo(n, k)].base \/ (tip = gh[Repo(n, k)].branch /\ tip # None)
    PROVE  InOrder(Append(tip, c))
<1> DEFINE r == Repo(n, k)
           a == Append(tip, c)
<1>1. r \in Repos /\ at[n][k].left # <<>> /\ PinInv
  BY NeedsAssumption DEF OrderInv, PinInv, TypeInv, AtOK, GoodLocals
<1>2. cache[n] \in Shas
  BY <1>1 DEF PinInv, WorkPinned, LocalsPinned, Repo
<1>3. InOrder(tip) /\ \A i \in DOMAIN tip : Pinned(tip[i], cache)
  <2>1. CASE tip = gh[r].base
    <3>1. \A i \in DOMAIN tip : tip[i].by \notin Runs
      BY <1>1, <2>1 DEF PinInv, BasesAreHuman
    <3> QED
      BY <3>1 DEF InOrder, Pinned
  <2>2. CASE tip = gh[r].branch /\ tip # None
    BY <1>1, <2>2 DEF OrderInv, BranchesOrdered, PinInv, BranchesPinned
  <2> QED
    BY <2>1, <2>2
<1>4. ASSUME NEW i \in DOMAIN tip, tip[i].by \in Runs
      PROVE  Before(tip[i].by, n)
  <2>1. cache[tip[i].by] \in Shas
    BY <1>3, <1>4 DEF Pinned
  <2> QED
    BY <1>2, <1>4, <2>1 DEF OrderInv, LookupsOrdered, UnderWay
<1>5. \A i \in DOMAIN a : \/ i = Len(tip) + 1 /\ a[i] = c
                          \/ i \in DOMAIN tip /\ a[i] = tip[i] /\ i < Len(tip) + 1
  OBVIOUS
<1>6. \A i \in DOMAIN a : i \in Nat /\ i <= Len(tip) + 1
  OBVIOUS
<1> HIDE DEF a
<1> SUFFICES ASSUME NEW i \in DOMAIN a, NEW j \in DOMAIN a, i < j,
                    a[i].by \in Runs, a[j].by \in Runs
             PROVE  Before(a[i].by, a[j].by)
  BY DEF InOrder, a
<1>7. i \in DOMAIN tip /\ a[i] = tip[i]
  BY <1>5, <1>6
<1>8. CASE a[j] = c
  BY <1>4, <1>7, <1>8
<1>9. CASE j \in DOMAIN tip /\ a[j] = tip[j]
  BY <1>3, <1>7, <1>9 DEF InOrder
<1> QED
  BY <1>5, <1>8, <1>9

LEMMA StepWorksOrdered ==
    ASSUME OrderInv, [Next]_vars
    PROVE  WorksOrdered'
<1> DEFINE StaysOrdered(s) ==
             \A i, j \in DOMAIN s : i < j /\ {s[i].by, s[j].by} \subseteq Runs =>
                cache'[s[i].by] <= cache'[s[j].by] \/ s[i].by \in met'[s[j].by]
<1> SUFFICES ASSUME NEW n \in Runs, NEW k \in Workers, at'[n][k].pc = "push",
                    Head(at'[n][k].left) \in Needs
             PROVE  StaysOrdered(at'[n][k].work)
  BY DEF WorksOrdered, InOrder, Before, Repo
<1>1. TypeInv /\ PinInv
  BY DEF OrderInv, PinInv
<1>2. CASE at'[n][k] = at[n][k]
  <2>1. InOrder(at[n][k].work)
    BY <1>2 DEF OrderInv, WorksOrdered, Repo
  <2>2. \A i \in DOMAIN at[n][k].work : Pinned(at[n][k].work[i], cache)
    BY <1>1, <1>2, PushedPinned DEF Repo
  <2> HIDE DEF StaysOrdered
  <2>3. StaysOrdered(at[n][k].work)
    BY <1>1, <2>1, <2>2, InOrderStays DEF StaysOrdered
  <2> QED
    BY <1>2, <2>3
<1>3. CASE FetchBranch(n, k) \/ FetchFallsBack(n, k)
  <2>1. /\ at[n][k].pc = "fetch" /\ status[n] = "running"
        /\ cache' = cache /\ met' = met
    BY <1>3 DEF FetchBranch, FetchFallsBack, At
  <2>2. PICK tip \in Seq(Commit), tree \in Tree :
          /\ tip = gh[Repo(n, k)].base \/ (tip = gh[Repo(n, k)].branch /\ tip # None)
          /\ at'[n][k].left = at[n][k].left
          /\ at'[n][k].work = Append(tip, CommitOf(n, tree))
    BY <1>1, <1>3, Fetched
  <2>3. Repo(n, k) \in Needs
    BY <2>2 DEF Repo
  <2>4. InOrder(Append(tip, CommitOf(n, tree)))
    BY <2>1, <2>2, <2>3, CommitOfTree, CommitInOrder
  <2> QED
    BY <2>1, <2>2, <2>4 DEF InOrder, Before
<1> HIDE DEF StaysOrdered
<1> QED
  BY <1>1, <1>2, <1>3, PushSteps

LEMMA StepOrdered == OrderInv /\ [Next]_vars => OrderInv'
<1> SUFFICES ASSUME OrderInv, [Next]_vars PROVE OrderInv'
  OBVIOUS
<1>1. PinInv' /\ TypeInv
  BY PinnedStep DEF OrderInv, PinInv
<1> QED
  BY <1>1, StepUnstarted, StepCacheBelow, StepAcquainted, StepLookupsOrdered,
     StepBranchesOrdered, StepWorksOrdered DEF OrderInv

\* Invocations that did not overlap pin in the order in which they ran,
\* whatever fails, is cancelled, committed by people or merged: on no branch
\* does the later one's commit pin an older source.
THEOREM PinsStayInOrder == Spec => []PinsInOrder
<1>1. Spec => []OrderInv
  BY InitOrdered, StepOrdered, PTL DEF Spec
<1> QED
  BY <1>1, OrderInvImpliesInOrder, PTL
=============================================================================
