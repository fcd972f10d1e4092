----------------------------- MODULE MCFactionWar -----------------------------
(* Two neighbours and allies b and c, whose households are tied by marriage,   *)
(* and a larger faction a a road away.                                         *)
EXTENDS FactionWar, TLC

CONSTANTS a, b, c, a1, a2, b1, c1

MCFactions  == {a, b, c}
MCMembers   == a :> {a1, a2} @@ b :> {b1} @@ c :> {c1}
MCPlace     == a :> 1 @@ b :> 2 @@ c :> 2
MCHousehold == a1 :> Nobody @@ a2 :> Nobody @@ b1 :> c @@ c1 :> Nobody
MCAllied    == {{b, c}}
MCPlans     == {<<"raid", a, b, "kidnapping">>, <<"raid", a, b, "cargo">>, <<"war", a, b, "">>,
                <<"challenge", c, b, "">>, <<"challenge", b, a, "">>, <<"recon", a, c, "">>}

=============================================================================
