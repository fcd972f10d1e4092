--------------------------- MODULE MCCausalFrontier ---------------------------
(* Three factions in chunks of one, one route, and days of one second. *)
EXTENDS CausalFrontier, TLC

CONSTANTS w1, w2, j1, j2

MCInterval ==
  [region_monthly |-> 8, faction_monthly |-> 4, faction_annual |-> 4, route_daily |-> 2]

MCChunkSize ==
  [region_monthly |-> 4, faction_monthly |-> 1, faction_annual |-> 2, route_daily |-> 1]

MCKindsOf == (w1 :> {"physiology", "review"}) @@ (w2 :> {"operation", "other"})
=============================================================================
