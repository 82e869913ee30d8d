------------------------------ MODULE ZedMachine ------------------------------
(* The commands of the zed client (external) that act on the user's machine: a *)
(* package for every project, tasks, a first manifest, a tool environment, and *)
(* an install that finds its artifacts elsewhere while the registry is down.   *)
EXTENDS ZedExports

(* A global package has a profile of its own in the home and puts a launcher   *)
(* into the one directory for commands, unless another's is there; what the    *)
(* user has put there since stays, with a warning.                             *)
Globals == {"global", "regain", "drop", "list"}
Offered(w, names) == {<<e.pkg, e.body>> : e \in {x \in At(w, Registry) : x.pkg \in names}}
Launcher(c) == {<<n, "launcher">> : n \in c.arg}
Profile(w, c, want) == Put(Put(Put(w, Lock(c.p), want), Modules(c.p), Materialized(want, "link")),
                           Bin(c.out), Launcher(c))
GlobalInstall(w, c) ==
    LET want == Offered(w, c.arg)
        stored == Put(w, Cache(c.h), At(w, Cache(c.h)) \cup want)
    IN  IF want # {} /\ At(w, Bin(c.out)) \in {{}, Launcher(c)}
        THEN {Result(TRUE, Profile(stored, c, want), 0)}
        ELSE {Result(FALSE, v, 0) : v \in {w, stored}}
GlobalRegain(w, c) ==
    LET want == At(w, Lock(c.p)) IN
    AcceptedIf(want # {} /\ want \subseteq At(w, Cache(c.h)) \cup Offered(w, c.arg), w, Profile(w, c, want))
GlobalDrop(w, c) ==
    LET gone == Put(Put(w, Lock(c.p), {}), Modules(c.p), {}) IN
    {IF At(w, Bin(c.out)) = Launcher(c) THEN Result(TRUE, Put(gone, Bin(c.out), {}), 0)
                                        ELSE Result(TRUE, gone, 1)}
GlobalList(w, c) == AcceptedIf(TRUE, w, Put(w, Shown(c.h), At(w, Lock(c.p)) \cup At(w, Bin(c.out))))

(* A task writes what its plan says and what it makes of its sources; one with *)
(* sources is run once for each content of them.                               *)
Made(w, task) == At(w, Plan(task)) \cup At(w, Files(task))
Recipe(w, task) == {<<task, f[2]>> : f \in At(w, Files(task))}
RunTask(w, c) ==
    LET record == Recipe(w, c.p)
        fresh == record # {} /\ record \subseteq At(w, Cache("tasks")) /\ At(w, Out(c.p)) = Made(w, c.p)
    IN  {CASE c.arg # {} -> Result(FALSE, w, 0)
           [] c.arg = {} /\ fresh  -> Result(TRUE, w, Unneeded)
           [] c.arg = {} /\ ~fresh -> Result(TRUE, Put(Put(w, Out(c.p), Made(w, c.p)),
                                                       Cache("tasks"), At(w, Cache("tasks")) \cup record), Created)}
Query(w, c) == AcceptedIf(TRUE, w, Put(w, Shown(c.h), At(w, Plan("tasks")) \cup {<<c.p, "answer">>}))

(* The first source that serves the locked artifacts is used, and none after it*)
(* is asked; first lists the sources, and whose log each of them has.          *)
Asked(w, c) ==
    LET want == At(w, Lock(c.p))
        has(i) == want \subseteq At(w, Served(c.first[i]))
        hits == {i \in DOMAIN c.first : has(i)}
        last == IF hits = {} THEN Len(c.first) ELSE CHOOSE i \in hits : \A j \in hits : i <= j
    IN  1..last
Reachable(w, c) == \E i \in DOMAIN c.first : At(w, Lock(c.p)) \subseteq At(w, Served(c.first[i]))
Log(source) == IF source = "owned" THEN Route("owned") ELSE Route("cdn")
Logged(w, c, log) == {<<c.first[i], ToString(i)>> : i \in {j \in Asked(w, c) : c.first[j] # "down" /\ Log(c.first[j]) = log}}
Rerouted(w, c) ==
    LET asked == Put(Put(w, Route("owned"), At(w, Route("owned")) \cup Logged(w, c, Route("owned"))),
                     Route("cdn"), At(w, Route("cdn")) \cup Logged(w, c, Route("cdn")))
    IN  {IF Reachable(w, c)
         THEN Result(TRUE, Put(Put(asked, Modules(c.p), Materialized(At(w, Lock(c.p)), "copy")),
                               Cache(c.h), At(w, Cache(c.h)) \cup At(w, Lock(c.p))), 0)
         ELSE Result(FALSE, asked, 0)}

(* Only a person at a terminal consents, and is asked. *)
Consenting(c) == {"stdin", "stderr"} \subseteq c.arg /\ c.arg \cap {"ci", "dumb"} = {}
Initialize(w, c) ==
    {IF Consenting(c) THEN Result(TRUE, Put(Put(w, Manifest(c.p), {c.p}), Checkout(c.p), {<<"ignore", "file">>}), 1)
                      ELSE Result(FALSE, w, 0)}

(* A tool environment: one configuration of the project's own (Files), what it *)
(* asks of each tool (Plan) and what the lock says (Lock), which must be whole *)
(* and meet it.                                                                *)
Tools(w, p) == {t[1] : t \in At(w, Plan(p))}
Configured(w, p) == \E f \in {"mise.toml", "tool versions"} : At(w, Files(p)) = {f}
Meets(a, t) == \/ a[2] \in {"locked", "mirrored"} /\ t[2] # "nonsense"
               \/ a[2] = "linux only" /\ t[2] = "linux"
Verified(w, p) == /\ Configured(w, p) /\ "mise.toml" \in At(w, Files(p))
                  /\ {a[1] : a \in At(w, Lock(p))} = Tools(w, p)
                  /\ \A a \in At(w, Lock(p)), t \in At(w, Plan(p)) : a[1] = t[1] => Meets(a, t)
Environment(w, p) == {<<t, "tool">> : t \in Tools(w, p)} \cup At(w, Lock(p))

Machine == Globals \cup {"task", "query", "route", "init", "verify", "import"}
MachineOutcomes(w, c) ==
    CASE c.do = "global" -> GlobalInstall(w, c)
      [] c.do = "regain" -> GlobalRegain(w, c)
      [] c.do = "drop"   -> GlobalDrop(w, c)
      [] c.do = "list"   -> GlobalList(w, c)
      [] c.do = "task"   -> RunTask(w, c)
      [] c.do = "query"  -> Query(w, c)
      [] c.do = "route"  -> Rerouted(w, c)
      [] c.do = "init"   -> Initialize(w, c)
      [] c.do = "verify" -> AcceptedIf(Verified(w, c.p), w, Put(w, Shown(c.out), Environment(w, c.p)))
      [] c.do = "import" -> AcceptedIf(Configured(w, c.p), w, Put(w, Shown(c.out), Environment(w, c.p)))

-----------------------------------------------------------------------------
(* How these commands may break their word. *)
MachineLoses(c, ok) ==
    CASE c.do = "global"                    -> {Bin(c.out)} \cup IF ok THEN {Lock(c.p), Cache(c.h)} ELSE {}
      [] c.do = "regain"                    -> {Bin(c.out), Modules(c.p), Lock(c.p)}
      [] c.do = "drop"                      -> {Bin(c.out)}
      [] c.do \in {"list", "query"}         -> {Shown(c.h)}
      [] c.do = "task" /\ ok                -> {Out(c.p), Cache("tasks")}
      [] c.do = "route"                     -> {Modules(c.p), Route("cdn"), Lock(c.p)}
      [] c.do = "init" /\ ok                -> {Manifest(c.p)}
      [] c.do \in {"verify", "import"} /\ ok -> {Shown(c.out)}
      [] OTHER                              -> {}
MachineGains(c, ok) ==
    CASE c.do = "global"               -> {Bin(c.out), Requests} \cup IF ok THEN {} ELSE {Lock(c.p), Modules(c.p)}
      [] c.do = "drop"                 -> {Bin(c.out), Lock(c.p), Modules(c.p), Requests}
      [] c.do \in {"regain", "list"}   -> {Requests}
      [] c.do = "query"                -> {Shown(c.h)}
      [] c.do = "task"                 -> {Out(c.p), Cache("tasks")}
      [] c.do = "route"                -> {Route("cdn"), Lock(c.p)}
      [] c.do = "init"                 -> {Manifest(c.p), Checkout(c.p)}
      [] c.do \in {"verify", "import"} -> {Checkout(c.p)} \cup IF ok THEN {Shown(c.out)} ELSE {}
MachineStrays(c, l) ==
    CASE l[1] = "bin"              -> Launcher(c)
      [] l[1] = "lock" /\ c.do \in Globals    -> {<<n, "v1">> : n \in c.arg}
      [] l[1] = "modules"          -> {<<n, "v1", "link">> : n \in c.arg}
      [] l[1] = "route"            -> {<<"github", "3">>}
      [] l[1] = "manifest"         -> {c.p, "another"}
      [] l = Requests              -> {<<"written", "credentials">>}
      [] l[1] = "shown" /\ c.do = "import" -> {<<"a global tool", "tool">>}
      [] OTHER                     -> {Junk}
=============================================================================
