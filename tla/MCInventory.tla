---------------------------- MODULE MCInventory ----------------------------
(***************************************************************************)
(* The instance of Inventory that TLC checks.                              *)
(*                                                                         *)
(* MCTree: repository 1 has a workspace of two levels, whose member "pa"   *)
(* declares what the root declares and whose inner member depends on it by *)
(* path, and submodules of repository 2 and of one nobody asked for; its   *)
(* next commits declare a member they do not hold.  Repository 2 has a lock *)
(* for the same root package; at its next commit it is a workspace with a  *)
(* member of the inner member's name, and then has a lock in conflict with *)
(* itself.                                                                 *)
(***************************************************************************)
EXTENDS Inventory

MCRepos == 1..2
MCTargets == {2, 4}
MCCommits == 0..2

\* Root, Lock and Modules are files 1 to 3.
MCFiles == 1..5
A == 4
AB == 5

MCSame(x) == [m \in MCFiles |-> x]

Empty == [files |-> {}, members |-> MCSame({}), package |-> MCSame(None),
          declares |-> MCSame({}), paths |-> MCSame({}), pins |-> {}, links |-> {}]

Nest(c) ==
    [Empty EXCEPT
       !.files = IF c = 0 THEN {Root, Modules, A, AB} ELSE {Root, Modules, A},
       !.members = [@ EXCEPT ![Root] = {A}, ![A] = {AB}],
       !.package = [@ EXCEPT ![Root] = "p", ![A] = "pa", ![AB] = "pab"],
       !.declares = [@ EXCEPT ![Root] = {<<"d", "v1">>}, ![A] = {<<"d", "v1">>}],
       !.paths = [@ EXCEPT ![AB] = {A}],
       !.links = {2, 4}]

Locked(c) ==
    [Empty EXCEPT
       !.files = {Root, Lock},
       !.package = [@ EXCEPT ![Root] = "p"],
       !.declares = [@ EXCEPT ![Root] = {<<"d", "v2">>}],
       !.pins = IF c = 0 THEN {<<"d", "v2">>} ELSE {<<"d", "v1">>, <<"d", "v2">>}]

Clash ==
    [Empty EXCEPT
       !.files = {Root, A},
       !.members = [@ EXCEPT ![Root] = {A}],
       !.package = [@ EXCEPT ![Root] = "p", ![A] = "pab"],
       !.declares = [@ EXCEPT ![Root] = {<<"q", "v2">>}]]

MCTree == [r \in MCRepos |-> [c \in MCCommits |->
    IF r = 1 THEN Nest(c) ELSE IF c = 1 THEN Clash ELSE Locked(c)]]
=============================================================================
