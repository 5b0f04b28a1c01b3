---------------------------- MODULE MCDashboard ----------------------------
(***************************************************************************)
(* Two hosts whose bandwidths overtake each other, and two filters.        *)
(***************************************************************************)
EXTENDS Dashboard

CONSTANTS a, b, web, dns

OvertakingHosts == {<<a>>, <<a, b>>, <<b, a>>}
OneHost == {<<a>>}
OneFilter == {web}
TwoFilters == {web, dns}
=============================================================================
