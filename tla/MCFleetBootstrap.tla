------------------------- MODULE MCFleetBootstrap -------------------------
(* Small fleets for FleetBootstrap.                                        *)
EXTENDS FleetBootstrap, TLC

CONSTANTS dotgithub, harness, second, alpha, beta

\* One organization: its governance repository and one harness.
OneOrganization == <<alpha>>
OneOrganizationRepos == (alpha :> <<dotgithub, harness>>)

\* Two organizations with a harness each, for two workers.
TwoOrganizations == <<alpha, beta>>
TwoOrganizationsRepos == (alpha :> <<harness>>) @@ (beta :> <<second>>)

Sourced == {harness, second} \cap Repos
=============================================================================
