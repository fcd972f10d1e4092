------------------------------ MODULE HouseEconomy ------------------------------
(***************************************************************************)
(* The money and goods of the houses: the monthly review of a house        *)
(* (martial_world/autonomy_frontier.py with autonomous_factions.py,        *)
(* enterprise_operations.py and agriculture.py), aid between houses        *)
(* (faction_relations.py), merchant caravans (frontier_bridge.py,          *)
(* route_frontier.py), trade and production commands and the claim of the  *)
(* estate of an extinct house (commands/jianghu_extended.py).              *)
(*                                                                         *)
(* It composes Belongings (who holds what) and Estates (land and work).    *)
(* A review is one step: its operations are functions from the worlds they *)
(* may find to the worlds they may leave, applied in the order of the      *)
(* code.  A price is a number of coins per piece in a region; how much an  *)
(* operation earns within what the market can pay is left open, one coin   *)
(* or one piece at a time.                                                 *)
(***************************************************************************)
EXTENDS Estates

CONSTANTS
  Trades,    \* the enterprises of a house
  Food,      \* food_ration_day
  Poison,    \* what the claim of an estate leaves behind
  Price,     \* of a piece, by region
  FoodGoal,  \* rations a house wants in store: sixty days for everybody
  AidFloor,  \* what an aiding house keeps: eight months of upkeep
  AidNeed,   \* a house below it is in need: four months of upkeep
  Protected, \* the player's house, which neither gives nor gets aid, or Nobody
  Month,     \* days of a month
  Storehouse,\* pieces a house can store for each level of its building
  Settings   \* the initial worlds, each with a bound: its last day

ASSUME EconomyAssumption ==
  /\ {Food, Poison} \subseteq Item /\ Food \notin Weapon
  /\ Price \in [Region -> Nat \ {0}]
  /\ Trades \in [House -> SUBSET {"school", "rent", "labour", "criminal", "farm", "workshop",
                                  "apothecary", "merchant"}]
  /\ AidNeed \in [House -> Nat] /\ AidFloor \in [House -> Nat]
  /\ Month \in Nat \ {0} /\ Storehouse \in Nat /\ IsFiniteSet(House) /\ IsFiniteSet(Region)
  /\ \A s \in Settings :
       /\ s.goods \in [stock : [House -> [Item -> Nat]], held : [Person -> [Item -> Nat]]]
       /\ s.silver \in [coffer : [House -> Nat], market : [Region -> Nat]]
       /\ s.shelf \in [Region -> [Item -> Nat]] /\ s.purse \in [Person -> Nat]
       /\ s.member \in [Person -> House] /\ {s.day, s.last} \subseteq Nat /\ s.extinct \subseteq House
       /\ \A p \in Person : s.member[p] \in s.extinct => p \in s.dead
       /\ s.site \in [Site -> Compound]
       /\ \A c \in Site : s.site[c].foot <= s.site[c].area
       /\ \A h \in House : s.site[HomeSite[h]].owner = h

vars == <<belongings, estates>>

(*------------------------------- a review --------------------------------*)
\* What the operations of a review read and write.
World == [silver |-> silver, shelf |-> shelf, stock |-> goods.stock, outside |-> outside]

Earned(w, h, n) == [w EXCEPT !.silver.coffer[h] = @ + n, !.silver.market[RegionOf[h]] = @ - n]
Made(w, h, i, n) == [w EXCEPT !.stock[h][i] = @ + n, !.outside[i] = @ - n]
Used(w, h, i, n) == [w EXCEPT !.stock[h][i] = @ - n, !.outside[i] = @ + n]
\* execute_purchase and execute_sale: finite stock, finite cash, the price of the region.
Bought(w, h, i) == LET r == RegionOf[h] IN
  [Earned(w, h, 0 - Price[r]) EXCEPT !.shelf[r][i] = @ - 1, !.stock[h][i] = @ + 1]
Sold(w, h, i) == LET r == RegionOf[h] IN
  [Earned(w, h, Price[r]) EXCEPT !.shelf[r][i] = @ + 1, !.stock[h][i] = @ - 1]
MayBuy(w, h, i) == w.shelf[RegionOf[h]][i] > 0 /\ w.silver.coffer[h] >= Price[RegionOf[h]]
MaySell(w, h, i) == w.stock[h][i] > 0 /\ w.silver.market[RegionOf[h]] >= Price[RegionOf[h]]

\* secure_food_purchase: what the store lacks, as far as stock and silver go.
SecuredFood(S, h) ==
  {IF w.stock[h][Food] < FoodGoal /\ MayBuy(w, h, Food) THEN Bought(w, h, Food) ELSE w : w \in S}

\* sell_surplus_to_market and liquidate_inventory_to_market: one lot; food only above
\* the reserve, equipment only through a fence.
SurplusSold(S, h) ==
  LET lawful == IF "merchant" \in Trades[h] THEN {Timber, Food}
                ELSE IF "criminal" \in Trades[h] THEN Item \ {Poison}
                ELSE IF "farm" \in Trades[h] THEN {Food} ELSE {}
      lots(w) == {i \in lawful : MaySell(w, h, i) /\ (i = Food => w.stock[h][Food] > FoodGoal)}
  IN  S \cup UNION {{Sold(w, h, i) : i \in lots(w)} : w \in S}

\* Tuition and rent: what the townspeople can pay, less costs that stay in the region.
TuitionAndRent(S, h) ==
  S \cup {Earned(w, h, 1) : w \in {v \in S : /\ Trades[h] \cap {"school", "rent"} # {}
                                             /\ v.silver.market[RegionOf[h]] > 0}}

\* Brotherhood labour and criminal ventures: members who are free earn from the market.
LabourPaid(S, h) ==
  S \cup {Earned(w, h, 1) : w \in {v \in S : /\ Trades[h] \cap {"labour", "criminal"} # {}
                                             /\ Members(h) \ Unavailable # {}
                                             /\ v.silver.market[RegionOf[h]] > 0}}

\* Agriculture: wages above the reserve are paid into the region, food is grown.
Harvested(S, h) ==
  S \cup {Made(Earned(w, h, 0 - 1), h, Food, 1) :
            w \in {v \in S : "farm" \in Trades[h] /\ scale[h] > 0 /\ v.silver.coffer[h] > Floor[h]}}

\* Workshop: a free worker turns material into equipment, and may sell a piece of it.
Forged(S, h) ==
  LET able == {v \in S : /\ "workshop" \in Trades[h] /\ scale[h] > 0 /\ v.stock[h][Timber] > 0
                         /\ Members(h) \ Unavailable # {}}
      made == {Made(Used(w, h, Timber, 1), h, i, 1) : w \in able, i \in Weapon}
  IN  S \cup made
        \cup UNION {{Sold(w, h, i) : i \in {j \in Weapon : MaySell(w, h, j)}} : w \in made}

\* Apothecary: poison is kept in reserve; medicine goes to customers who pay from the
\* market's cash and use it up.
Brewed(S, h) ==
  LET able == {v \in S : "apothecary" \in Trades[h] /\ v.stock[h][Food] > 0
                         /\ Members(h) \ Unavailable # {}}
      brew == {Made(Used(w, h, Food, 1), h, Poison, 1) : w \in able}
      cured == {Used(Earned(w, h, 1), h, Food, 1) :
                  w \in {v \in able : v.silver.market[RegionOf[h]] > 0}}
  IN  S \cup brew \cup cured

Produced(S, h) == Brewed(Forged(Harvested(LabourPaid(TuitionAndRent(S, h), h), h), h), h)

(*----------------------------- the caravans ------------------------------*)
\* start_monthly_merchant_trade: a spread worth the toll, silver above the reserve, a
\* buyer with cash at the other end, people at home and rations for the road.
Spreads(w, h) ==
  LET r == RegionOf[h]
  IN  {d \in Region \ {r} : /\ Price[d] > Price[r] + 1
                            /\ w.shelf[r][Timber] > 0
                            /\ w.silver.coffer[h] - Price[r] - 1 >= Floor[h]
                            /\ w.silver.market[d] >= Price[d]}
Merchants(h) == FirstOf({p \in Members(h) \ (Unavailable \cup Players) : where[p] = HomeSite[h]}, 1)
MayTrade(w, h) ==
  /\ "merchant" \in Trades[h] /\ caravan[h] = NoCaravan
  /\ Spreads(w, h) # {} /\ Merchants(h) # {} /\ w.stock[h][Food] > 0

\* The purchase and the rations leave the house; the toll goes to the other market.
Dispatched(w, h, d) ==
  LET r == RegionOf[h]
      paid == Earned(w, h, 0 - Price[r])
  IN  [paid EXCEPT !.shelf[r][Timber] = @ - 1, !.stock[h][Food] = @ - 1,
                   !.silver.coffer[h] = @ - 1, !.silver.market[d] = @ + 1]
Journey(h, d) ==
  [crew |-> Merchants(h), item |-> Timber, qty |-> 1, food |-> 1, leg |-> "out", region |-> d]

\* Mutation: the review goes on with the treasury it read before the caravan was paid.
DispatchedStale(w, h, d) ==
  [Dispatched(w, h, d) EXCEPT !.silver.coffer[h] = w.silver.coffer[h]]

\* The review reloads the house after the caravan is dispatched, and saves it.
AfterTrade(w, h, d) == Dispatched(w, h, d)

\* friendly_aid_transfer_envelope: the first house is well above its reserve and the
\* other in need.
MayAid(h, g) ==
  /\ g # h /\ Protected \notin {g, h}
  /\ silver.coffer[h] > AidFloor[h] /\ silver.coffer[g] < AidNeed[g]

\* What the officers of a house may be asked: only what is possible as it stands.
Questions(h) ==
  {q \in {"invest", "aid"} :
     /\ q = "invest" => /\ \A n \in DOMAIN project : project[n].house # h
                        /\ \E kind \in Kind, target \in 1 .. MaxLevel : Permits(h, kind, target)
     /\ q = "aid" => \E g \in House : MayAid(h, g)}

Saved(w) ==
  /\ silver' = w.silver /\ shelf' = w.shelf /\ outside' = w.outside
  /\ goods' = [goods EXCEPT !.stock = w.stock]

\* The review of a house: food, a sale, judgments for its officers, the enterprises, and
\* last a caravan if one is worth while.
Review(h) ==
  /\ h \notin houses.extinct /\ Day % Month = 0 /\ h \notin calendar.reviewed
  /\ \E w \in Produced(SurplusSold(SecuredFood({World}, h), h), h) :
       \E asked \in SUBSET Questions(h) :
       /\ judged' = [judged EXCEPT ![h] = @ \cup asked]
       /\ \/ /\ MayTrade(w, h)
             /\ \E d \in Spreads(w, h) :
                  /\ Saved(AfterTrade(w, h, d))
                  /\ caravan' = [caravan EXCEPT ![h] = Journey(h, d)]
                  /\ where' = [p \in Person |-> IF p \in Merchants(h) THEN Road ELSE where[p]]
          \/ /\ ~MayTrade(w, h)
             /\ Saved(w)
             /\ UNCHANGED <<caravan, where>>
  /\ calendar' = [calendar EXCEPT !.reviewed = @ \cup {h}]
  /\ UNCHANGED <<title, member, purse, field, site, scale, project, wake, away, houses>>

\* execute_friendly_aid, or a deferral: at most what the other house needs, from what the
\* first has above its own reserve, looked up again when the judgment is applied.
Aid(h, g) ==
  /\ "aid" \in judged[h]
  /\ judged' = [judged EXCEPT ![h] = @ \ {"aid"}]
  /\ \/ /\ MayAid(h, g)
        /\ \E n \in 1 .. AidNeed[g] - silver.coffer[g] :
             /\ n <= silver.coffer[h]
             /\ silver' = [silver EXCEPT !.coffer[h] = @ - n, !.coffer[g] = @ + n]
     \/ UNCHANGED silver
  /\ UNCHANGED <<belongings, shelf, site, scale, project, wake, caravan, where, away, houses,
                 calendar>>

\* _close_merchant_trade on arrival: a sale if the market can pay, the proceeds straight
\* to the treasury; rations left go back, and the crew waits for rations to go home.
CaravanArrives(h, eaten) ==
  LET c == caravan[h]
      pays == silver.market[c.region] >= Price[c.region] /\ c.qty > 0
  IN  /\ c # NoCaravan /\ c.crew \ away # {} /\ c.leg = "out"
      /\ eaten \in 0 .. c.food
      /\ caravan' = [caravan EXCEPT ![h] =
           [c EXCEPT !.leg = "wait", !.qty = IF pays THEN 0 ELSE @, !.food = 0]]
      /\ goods' = [goods EXCEPT !.stock[h][Food] = @ + c.food - eaten]
      /\ outside' = [outside EXCEPT ![Food] = @ + eaten]
      /\ IF pays
         THEN /\ silver' = [silver EXCEPT !.market[c.region] = @ - Price[c.region],
                                          !.coffer[h] = @ + Price[c.region]]
              /\ shelf' = [shelf EXCEPT ![c.region][c.item] = @ + c.qty]
         ELSE UNCHANGED <<silver, shelf>>
      /\ UNCHANGED <<title, member, purse, field, site, scale, project, wake, where, away,
                     houses, judged, calendar>>

\* A return leg needs rations of its own; until the house can send them the crew waits.
CaravanSetsOut(h) ==
  LET c == caravan[h]
  IN  /\ c # NoCaravan /\ c.leg = "wait" /\ goods.stock[h][Food] > 0
      /\ caravan' = [caravan EXCEPT ![h] = [c EXCEPT !.leg = "back", !.food = 1]]
      /\ goods' = [goods EXCEPT !.stock[h][Food] = @ - 1]
      /\ UNCHANGED <<title, member, purse, field, outside, silver, shelf, site, scale, project,
                     wake, where, away, houses, judged, calendar>>

\* Home: what was not sold becomes stock of the house, and the crew is free.
CaravanHome(h, eaten) ==
  LET c == caravan[h]
  IN  /\ c # NoCaravan /\ c.crew \ away # {} /\ c.leg = "back" /\ eaten \in 0 .. c.food
      /\ goods' = [goods EXCEPT !.stock[h] =
           [i \in Item |-> @[i] + (IF i = c.item THEN c.qty ELSE 0)
                                + (IF i = Food THEN c.food - eaten ELSE 0)]]
      /\ outside' = [outside EXCEPT ![Food] = @ + eaten]
      /\ where' = [p \in Person |-> IF p \in c.crew THEN HomeSite[h] ELSE where[p]]
      /\ caravan' = [caravan EXCEPT ![h] = NoCaravan]
      /\ UNCHANGED <<title, member, purse, field, silver, shelf, site, scale, project, wake,
                     away, houses, judged, calendar>>

\* Raiders take the cargo and survivors turn back without it; or nobody is left, and
\* what was not taken is salvaged into the market where the caravan stands.
CaravanLost(h, taken, r) ==
  LET c == caravan[h]
      salvage == IF taken THEN 0 ELSE c.qty
  IN  /\ c # NoCaravan /\ c.leg = "out"
      /\ outside' = IF taken THEN [outside EXCEPT ![c.item] = @ + c.qty] ELSE outside
      /\ IF c.crew \ away # {}
         THEN /\ caravan' = [caravan EXCEPT ![h] =
                   [c EXCEPT !.leg = "wait", !.crew = @ \ away, !.qty = salvage, !.food = 0]]
              /\ goods' = [goods EXCEPT !.stock[h][Food] = @ + c.food]
              /\ UNCHANGED shelf
         ELSE /\ caravan' = [caravan EXCEPT ![h] = NoCaravan]
              /\ shelf' = [shelf EXCEPT ![r] = [i \in Item |->
                   @[i] + (IF i = c.item THEN salvage ELSE 0) + (IF i = Food THEN c.food ELSE 0)]]
              /\ UNCHANGED goods
      /\ UNCHANGED <<title, member, purse, field, silver, site, scale, project, wake, where,
                     away, houses, judged, calendar>>

(*------------------------------- commands --------------------------------*)
\* storage_capacity_check: what a house buys or makes by command must fit its storehouse
\* (dry and secure stores are one); its reviews and caravans do not ask.
Stored(w, h) == SumFunction(w.stock[h]) <= Storehouse * site[HomeSite[h]].building

\* The market command for the house, and for the actor's own purse: nobody sells what
\* is not his own.
HouseTrade(p, i) ==
  LET h == member[p]
  IN  /\ p \notin Unavailable /\ h # Nobody
      /\ \/ /\ MayBuy(World, h, i) /\ Stored(Bought(World, h, i), h)
            /\ Saved(Bought(World, h, i))
         \/ MaySell(World, h, i) /\ Saved(Sold(World, h, i))
      /\ UNCHANGED <<title, member, purse, field, site, scale, project, wake, caravan, where,
                     away, houses, judged, calendar>>

PersonalTrade(p, i, r) ==
  /\ p \notin Unavailable
  /\ \/ /\ shelf[r][i] > 0 /\ purse[p] >= Price[r]
        /\ purse' = [purse EXCEPT ![p] = @ - Price[r]]
        /\ silver' = [silver EXCEPT !.market[r] = @ + Price[r]]
        /\ shelf' = [shelf EXCEPT ![r][i] = @ - 1]
        /\ goods' = [goods EXCEPT !.held[p][i] = @ + 1]
     \/ /\ PersonallyOwned(title, goods, p, i) > 0 /\ silver.market[r] >= Price[r]
        /\ purse' = [purse EXCEPT ![p] = @ + Price[r]]
        /\ silver' = [silver EXCEPT !.market[r] = @ - Price[r]]
        /\ shelf' = [shelf EXCEPT ![r][i] = @ + 1]
        /\ goods' = [goods EXCEPT !.held[p][i] = @ - 1]
  /\ UNCHANGED <<title, member, field, outside, site, scale, project, wake, caravan, where,
                 away, houses, judged, calendar>>

\* The production command: material in, a piece out, workers free and at the facility.
Produce(p, i) ==
  LET h == member[p]
  IN  /\ p \notin Unavailable /\ h # Nobody
      /\ where[p] = HomeSite[h] /\ scale[h] > 0 /\ goods.stock[h][Timber] > 0
      /\ Stored(Made(Used(World, h, Timber, 1), h, i, 1), h)
      /\ Saved(Made(Used(World, h, Timber, 1), h, i, 1))
      /\ UNCHANGED <<title, member, purse, field, site, scale, project, wake, caravan, where,
                     away, houses, judged, calendar>>

(*--------------------------- extinction and claim -------------------------*)
\* The last members of a house die; its estate lies dormant.
HouseDies(h) ==
  /\ h \notin houses.extinct /\ h # Protected /\ field[h] = NoIssue
  /\ Members(h) \cap Players = {}
  /\ away' = away \cup Members(h)
  /\ houses' = [extinct |-> houses.extinct \cup {h}, dormant |-> houses.dormant \cup {h}]
  /\ UNCHANGED <<belongings, silver, shelf, site, scale, project, wake, caravan, where, judged,
                 calendar>>

\* estate_claim_value_blockers: journeys of the house may still bring value back.
ValueOnTheRoad(h) == caravan[h] # NoCaravan \/ field[h] # NoIssue

Claimable(p, d) ==
  LET c == member[p]
  IN  /\ p \notin away /\ c \notin houses.extinct \cup {Nobody}
      /\ d \in houses.extinct \cap houses.dormant /\ ~ValueOnTheRoad(d)
      /\ where[p] = HomeSite[d]
      /\ MayTransfer(title, goods, d, c)

Adopted(w, c) == [w EXCEPT !.house = c, !.crew = {}, !.last = Day]

\* claim_extinct_estate: silver, stores, every compound, claims and demands, and the work
\* in progress move at once; the work is restaffed from the next day on, and projects of
\* scale end with the institution.
ClaimEstate(p, d) ==
  LET c == member[p]
      theirs == {n \in DOMAIN project : project[n].house = d}
      scales == {n \in theirs : project[n].kind = "scale"}
  IN  /\ Claimable(p, d)
      /\ silver' = [silver EXCEPT !.coffer[c] = @ + silver.coffer[d], !.coffer[d] = 0]
      /\ goods' = [goods EXCEPT
           !.stock[c] = [i \in Item |-> @[i] + IF i = Poison THEN 0 ELSE goods.stock[d][i]],
           !.stock[d] = [i \in Item |-> IF i = Poison THEN @[i] ELSE 0]]
      /\ title' = TransferAuthority(title, goods, d, c)
      /\ site' = [s \in Site |-> IF site[s].owner = d THEN [site[s] EXCEPT !.owner = c] ELSE site[s]]
      /\ scale' = [scale EXCEPT ![d] = 0]
      /\ project' = [n \in DOMAIN project \ scales |->
           IF n \in theirs THEN Adopted(project[n], c) ELSE project[n]]
      /\ wake' = [n \in (DOMAIN wake \cup theirs) \ scales |->
           IF n \in theirs THEN Day + 1 ELSE wake[n]]
      /\ houses' = [houses EXCEPT !.dormant = @ \ {d}]
      /\ UNCHANGED <<member, purse, field, outside, shelf, caravan, where, away, judged, calendar>>

(*--------------------------------- others --------------------------------*)
\* Somebody is taken captive or drawn into a fight, and is free again later.
Taken(p) ==
  /\ p \notin away
  /\ away' = away \cup {p}
  /\ UNCHANGED <<belongings, silver, shelf, site, scale, project, wake, caravan, where, houses,
                 judged, calendar>>
Freed(p) ==
  /\ p \in away /\ member[p] \notin houses.extinct
  /\ away' = away \ {p}
  /\ UNCHANGED <<belongings, silver, shelf, site, scale, project, wake, caravan, where, houses,
                 judged, calendar>>

Travel(p, s) ==
  /\ p \notin Unavailable /\ s # where[p]
  /\ where' = [where EXCEPT ![p] = s]
  /\ UNCHANGED <<belongings, silver, shelf, site, scale, project, wake, caravan, away, houses,
                 judged, calendar>>

\* A day passes when nothing is due on it any more.
Tick ==
  /\ Day < calendar.last
  /\ \A n \in DOMAIN wake : wake[n] > Day
  /\ Day % Month = 0 => House \ houses.extinct \subseteq calendar.reviewed
  /\ calendar' = [calendar EXCEPT !.day = Day + 1, !.reviewed = {}]
  /\ UNCHANGED <<belongings, silver, shelf, site, scale, project, wake, caravan, where, away,
                 houses, judged>>

(*---------------------------- the specification ---------------------------*)
Init ==
  \E s \in Settings :
    /\ goods = s.goods /\ purse = s.purse /\ member = s.member
    /\ title = [policy |-> s.policy, claims |-> <<>>, demands |-> <<>>]
    /\ field = [h \in House |-> NoIssue] /\ outside = [i \in Item |-> 0]
    /\ silver = s.silver /\ shelf = s.shelf
    /\ site = s.site /\ scale = s.scale
    /\ project = <<>> /\ wake = <<>> /\ caravan = [h \in House |-> NoCaravan]
    /\ where = [p \in Person |-> HomeSite[s.member[p]]]
    /\ away = s.dead /\ houses = [extinct |-> s.extinct, dormant |-> {}]
    /\ judged = [h \in House |-> {}] /\ calendar = [day |-> s.day, reviewed |-> {}, last |-> s.last]

Next ==
  \/ BelongingsNext /\ UNCHANGED estates
  \/ EstatesNext
  \/ \E h \in House : Review(h) \/ HouseDies(h) \/ CaravanSetsOut(h)
  \/ \E h, g \in House : Aid(h, g)
  \/ \E h \in House, eaten \in 0 .. 1 : CaravanArrives(h, eaten) \/ CaravanHome(h, eaten)
  \/ \E h \in House, taken \in BOOLEAN, r \in Region : CaravanLost(h, taken, r)
  \/ \E p \in Players :
       \/ \E i \in Item : HouseTrade(p, i)
       \/ \E i \in Weapon : Produce(p, i) \/ \E r \in Region : PersonalTrade(p, i, r)
       \/ \E d \in House : ClaimEstate(p, d)
       \/ \E s \in Site : Travel(p, s)
  \/ \E p \in Restless : Taken(p) \/ Freed(p)
  \/ Tick

Spec == Init /\ [][Next]_vars

(*-------------------------------- properties -----------------------------*)
CoinsIn(S, P) == SumFunction(S.coffer) + SumFunction(S.market) + SumFunction(P)

(* No coin is made or lost: whatever houses buy, sell, build, send on the road, *)
(* give in aid, take from an extinct house or pay each other in person, with    *)
(* caravans settled in the middle of reviews.                                   *)
MoneyIsKept == [][CoinsIn(silver', purse') = CoinsIn(silver, purse)]_vars

Pieces(i) ==
  LET stocked == [h \in House |-> goods.stock[h][i]]
      carried == [p \in Person |-> goods.held[p][i]]
      traded == [r \in Region |-> shelf[r][i]]
      loaded == [h \in House |-> IF caravan[h] = NoCaravan THEN 0
                                 ELSE (IF caravan[h].item = i THEN caravan[h].qty ELSE 0)
                                      + IF i = Food THEN caravan[h].food ELSE 0]
  IN  SumFunction(stocked) + SumFunction(carried) + SumFunction(traded) + SumFunction(loaded)
        + outside[i]

(* Every piece is somewhere: in a store, on a person, in a market, on a cart,   *)
(* used up or made - through issue, return, gift, seizure, separation, trade,   *)
(* ambush and the claim of an estate.                                           *)
ItemsAreConserved == [][\A i \in Item : Pieces(i)' = Pieces(i)]_vars

EconomyTypeOK ==
  /\ goods.stock \in [House -> [Item -> Nat]] /\ goods.held \in [Person -> [Item -> Nat]]
  /\ silver \in [coffer : [House -> Nat], market : [Region -> Nat]]
  /\ shelf \in [Region -> [Item -> Nat]] /\ purse \in [Person -> Nat]
  /\ member \in [Person -> House \cup {Nobody}]
  /\ DOMAIN project \subseteq 1 .. MaxProject /\ scale \in [House -> Nat]
  /\ where \in [Person -> Site \cup {Road}] /\ away \subseteq Person
================================================================================
