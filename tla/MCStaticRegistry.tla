-------------------------- MODULE MCStaticRegistry --------------------------
(***************************************************************************)
(* Instances of StaticRegistry for TLC: two packages, two versions of each *)
(* and three fixture sets.  The second set replaces a blob and publishes   *)
(* another version, so that two trees disagree on artifacts and indexes;   *)
(* the third has no yanked version and is refused locally.                 *)
(***************************************************************************)
EXTENDS StaticRegistry

MCPackages == {"acme/a", "acme/b"}
MCVersions == {"1.0.0", "1.1.0"}
MCCore == [v \in MCVersions |-> IF v = "1.0.0" THEN 100 ELSE 110]
MCLex == [x \in MCPackages \cup MCVersions |->
            CASE x = "acme/a" -> 1 [] x = "acme/b" -> 2
              [] x = "1.0.0" -> 3 [] x = "1.1.0" -> 4]
MCBlobs == {"x", "y", "z"}

Of(b, y) == [blob |-> b, yanked |-> y]

Fixture(a1, a2, b1, b2) ==
    [p \in MCPackages |->
        [v \in MCVersions |->
            CASE p = "acme/a" /\ v = "1.0.0" -> a1
              [] p = "acme/a" /\ v = "1.1.0" -> a2
              [] p = "acme/b" /\ v = "1.0.0" -> b1
              [] p = "acme/b" /\ v = "1.1.0" -> b2]]

Fixture1 == Fixture(Of("x", FALSE), Of("y", TRUE), Of("z", FALSE), Absent)
Fixture2 == Fixture(Of("y", TRUE), Absent, Of("z", FALSE), Of("x", FALSE))
Unyanked == Fixture(Of("x", FALSE), Absent, Of("z", FALSE), Absent)

MCFixtures == {Fixture1, Fixture2, Unyanked}
=============================================================================
