----------------------------- MODULE MCHouseEconomy -----------------------------
(* Four people and two houses, the first with a player.  Three worlds: a house *)
(* of three that works and trades beside a house of one; a house of three with *)
(* work of its own that may die out and be claimed; and one day of two houses  *)
(* with weapons to issue, give, take and use.                                  *)
EXTENDS HouseEconomy

CONSTANTS h1, h2

MCBase == [h \in House |-> [i \in Item |-> IF h = h2 /\ i = "sword" THEN 1 ELSE 0]]
MCHomeSite == h1 :> "s1" @@ h2 :> "s2"
MCRegionOf == h1 :> "r1" @@ h2 :> "r2"
MCBasis == h1 :> 1 @@ h2 :> 2
MCFloor == h1 :> 0 @@ h2 :> 1
MCTrades == h1 :> {"merchant"} @@ h2 :> {"farm"}
MCPrice == "r1" :> 1 @@ "r2" :> 3
MCAidFloor == h1 :> 9 @@ h2 :> 1
MCAidNeed == h1 :> 1 @@ h2 :> 0

Of(n) == [i \in Item |-> IF i \in DOMAIN n THEN n[i] ELSE 0]
Estate(h, area, foot, building, enterprise) ==
  [owner |-> h, area |-> area, foot |-> foot, building |-> building, enterprise |-> enterprise]
World0 ==
  [goods |-> [stock |-> [h \in House |-> Of("food" :> 1)], held |-> [p \in Person |-> Of(<<>>)]],
   purse |-> [p \in Person |-> 0], policy |-> [p \in Person |-> Nobody],
   member |-> (1 :> h1 @@ 2 :> h1 @@ 3 :> h1 @@ 4 :> h2),
   silver |-> [coffer |-> h1 :> 2 @@ h2 :> 0, market |-> [r \in Region |-> 0]],
   shelf |-> [r \in Region |-> Of(<<>>)],
   site |-> "s1" :> Estate(h1, 0, 0, 2, 2) @@ "s2" :> Estate(h2, 0, 0, 2, 2),
   scale |-> h1 :> 1 @@ h2 :> 2, dead |-> {}, extinct |-> {}, day |-> 1, last |-> 1]
Work == [World0 EXCEPT !.goods.stock[h1] = Of("timber" :> 2), !.goods.stock[h2] = Of(<<>>),
                       !.site["s1"] = Estate(h1, 3, 2, 1, 0), !.scale[h1] = 0, !.last = 3, !.member[4] = h1,
                       !.extinct = {h2}]
Trade == [World0 EXCEPT !.member[2] = h2, !.shelf["r1"] = Of("timber" :> 1),
                        !.goods.stock[h2] = Of(<<>>),
                        !.silver.coffer[h1] = 2, !.silver.market["r2"] = 3, !.day = 0, !.last = 0,
                        !.dead = {2, 4}, !.extinct = {h2}]
Legacy == [World0 EXCEPT !.member[2] = h2, !.member[3] = h2,
                         !.silver.coffer = h1 :> 0 @@ h2 :> 2, !.goods.stock[h1] = Of(<<>>),
                         !.goods.stock[h2] = Of("timber" :> 1),
                         !.site["s1"].enterprise = 1,
                         !.site["s2"] = Estate(h2, 2, 1, 1, 1), !.scale[h2] = 1, !.day = 0, !.last = 2]
Arms == [World0 EXCEPT !.member[3] = h2, !.silver.coffer[h1] = 0, !.purse[1] = 1,
                       !.goods.stock = [h \in House |-> Of(<<>>)],
                       !.goods.held[3] = Of("sword" :> 1),
                       !.policy[3] = h2, !.shelf["r1"] = Of("sword" :> 1)]
MCSettings == {Work, Trade, Legacy, Arms}
================================================================================
