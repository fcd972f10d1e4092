------------------------- MODULE EscortContractsProofs -------------------------
(***************************************************************************)
(* Two safety properties of the escort commissions, for any commissions,   *)
(* people and lengths of road: nobody is on two roads, and the index says  *)
(* "in progress" exactly of the commissions that are on a road.            *)
(*                                                                         *)
(* A party loses people in fights, to deaths elsewhere and at its goal,    *)
(* and hands its raiders from the contact to their way home; what keeps    *)
(* the seats apart is that a new member is always somebody uncommitted,    *)
(* and that a convoy's list of escorts names only people of the convoy,    *)
(* and is dropped in every party of the player's, whose fights are settled *)
(* by another handler.  A band is free again when its fight is over and the*)
(* road has not been served yet: its reservation for the way home is then  *)
(* checked, and only one fight can be waiting, the player's.               *)
(***************************************************************************)
EXTENDS EscortContracts, SumTheorems, TLAPS

ContractRecords ==
    [status : {"unoffered", "offered", "accepted", "in_progress", "popped"},
     holder : {"nobody", "house", "guild"}, principals : SUBSET House, term : Int, escrow : Int]
Movements ==
    [kind : {"none", "escort_contract", "escort_return"}, status : Statuses, resume : Statuses,
     party : SUBSET People, escorts : {Unlisted} \cup SUBSET People, clients : SUBSET Clients,
     legs : Int, goods : Int]
ContactRecords ==
    [band : SUBSET Raiders, winner : {"none", "nobody", "side_a", "side_b", "draw"}]
RaidRecords == [on : BOOLEAN, party : SUBSET Raiders, goods : Int]

\* The records the proof needs.
EscortShape ==
    /\ contract \in [Contracts -> ContractRecords]
    /\ movements \in [Contracts -> Movements]
    /\ contacts \in [Contracts -> ContactRecords]
    /\ raids \in [Contracts -> RaidRecords]

\* A party's civilians are the commission's, its list of escorts names its own people, and
\* while the player travels the list is dropped and the party is not on its way home.
RoadOK(m, clients) ==
    /\ m.party \cap Clients \subseteq clients
    /\ m.escorts # Unlisted => m.escorts \subseteq m.party
    /\ Player \in m.party => m.escorts = Unlisted /\ m.kind = "escort_contract"
    /\ m.status = "contact_pending" => m.escorts = Unlisted /\ m.kind = "escort_contract"
    /\ m.resume # "contact_pending"

\* The convoys, the raiders in a fight and the raiders on their way home share nobody.
SeatsApart ==
    /\ \A c, d \in Contracts : c # d =>
           /\ movements[c].party \cap movements[d].party = {}
           /\ Held(c) \cap Held(d) = {}
           /\ raids[c].party \cap raids[d].party = {}
    /\ \A c, d \in Contracts :
           /\ movements[c].party \cap Held(d) = {}
           /\ movements[c].party \cap raids[d].party = {}
           /\ Held(c) \cap raids[d].party = {}

\* A fight of the player's, or its outcome, that the road has still to settle.
Pending(c) == Fighting(c) \/ movements[c].status = "contact_pending"

\* The player, while alive, is with the party whose fight is pending, and there is one such
\* party at most.
FightsInv ==
    /\ \A c \in Contracts :
           /\ Player \in movements[c].party => Player \notin dead
           /\ Pending(c) => Player \in dead \cup movements[c].party
           /\ Fighting(c) => /\ movements[c].status \in {"contact_pending", "party_extinguished"}
                             /\ movements[c].escorts = Unlisted
                             /\ movements[c].kind = "escort_contract"
    /\ \A c, d \in Contracts : Pending(c) /\ Pending(d) => c = d

EscortInv ==
    /\ EscortShape /\ PerformanceHasOwner /\ SeatsApart
    /\ \A c \in Contracts : RoadOK(movements[c], ClientOf[c])

-----------------------------------------------------------------------------
(* Parties and their lists.                                                *)

\* Dropping or trimming the list of escorts leaves the party as it is.
LEMMA CompactKeeps ==
    ASSUME NEW m \in Movements
    PROVE  LET n == Compact(m)
           IN  /\ n \in Movements /\ n.kind = m.kind /\ n.status = m.status
               /\ n.resume = m.resume /\ n.party = m.party
               /\ n.escorts # Unlisted => n.escorts \subseteq n.party
               /\ m.escorts = Unlisted => n.escorts = Unlisted
<1>1. Potential(m) \subseteq m.party /\ Controllers(m) \subseteq Potential(m)
  BY DEF Potential, Controllers
<1>2. Controllers(m) \in SUBSET People
  BY <1>1 DEF Movements
<1>3. m.escorts = Unlisted => Controllers(m) = Potential(m)
  BY DEF Controllers
<1> DEFINE list == IF Controllers(m) = Potential(m) THEN Unlisted ELSE Controllers(m)
<1>4. /\ list \in {Unlisted} \cup SUBSET People
      /\ list # Unlisted => list \subseteq m.party
      /\ m.escorts = Unlisted => list = Unlisted
  BY <1>1, <1>2, <1>3
<1>5. Compact(m) = [m EXCEPT !.escorts = list]
  BY DEF Compact
<1> HIDE DEF list
<1> QED  BY <1>4, <1>5 DEF Movements

\* A compacted party is in order when the party was.
LEMMA CompactIsOK ==
    ASSUME NEW m \in Movements, NEW clients, RoadOK(m, clients)
    PROVE  RoadOK(Compact(m), clients)
BY CompactKeeps DEF RoadOK

\* The dead leave a party, and nothing else of it changes that the order depends on: a
\* party whose list was dropped keeps none, and the player's fight goes on.
LEMMA PrunedKeeps ==
    ASSUME NEW m \in Movements, NEW fallen \in SUBSET People, NEW clients,
           RoadOK(m, clients)
    PROVE  LET n == Pruned(m, fallen)
           IN  /\ n \in Movements /\ n.kind = m.kind /\ n.party \subseteq m.party
               /\ RoadOK(n, clients)
               /\ n.party = m.party \ fallen
               /\ n.status = "contact_pending" => m.status = "contact_pending"
               /\ m.escorts = Unlisted =>
                      n.escorts = Unlisted /\ n.status \in {m.status, "party_extinguished"}
<1> DEFINE list == IF m.escorts = Unlisted THEN m.escorts ELSE m.escorts \ fallen
           rest == [m EXCEPT !.party = @ \ fallen,
                             !.escorts = IF @ = Unlisted THEN @ ELSE @ \ fallen]
           ended == [rest EXCEPT !.status = "party_extinguished"]
           stuck == [rest EXCEPT !.status = "awaiting_return_logistics"]
<1>1. /\ rest \in Movements /\ rest.kind = m.kind /\ rest.status = m.status
      /\ rest.resume = m.resume /\ rest.party = m.party \ fallen /\ rest.escorts = list
  <2>1. list \in {Unlisted} \cup SUBSET People /\ m.party \ fallen \in SUBSET People
    BY DEF Movements
  <2>2. rest = [m EXCEPT !.party = m.party \ fallen, !.escorts = list]
    BY DEF Movements
  <2> HIDE DEF list, rest
  <2> QED  BY <2>1, <2>2 DEF Movements
<1>2. list # Unlisted => list \subseteq m.party \ fallen
  BY DEF RoadOK
<1>3. m.escorts = Unlisted => list = Unlisted
  OBVIOUS
<1>4. RoadOK(rest, clients)
  <2> HIDE DEF list, rest
  <2> QED  BY <1>1, <1>2, <1>3 DEF RoadOK
<1>5. /\ ended \in Movements /\ ended.kind = m.kind /\ ended.party = m.party \ fallen
      /\ RoadOK(ended, clients) /\ ended.status = "party_extinguished" /\ ended.escorts = list
  <2> HIDE DEF rest
  <2>1. "party_extinguished" \in Statuses
    BY DEF Statuses
  <2>2. /\ ended \in Movements /\ ended.kind = rest.kind /\ ended.party = rest.party
        /\ ended.escorts = rest.escorts /\ ended.resume = rest.resume
        /\ ended.status = "party_extinguished"
    BY <1>1, <2>1 DEF Movements
  <2> HIDE DEF ended
  <2> QED  BY <1>1, <1>4, <2>2 DEF RoadOK
<1>6. /\ stuck \in Movements /\ stuck.kind = m.kind /\ stuck.party = m.party \ fallen
      /\ RoadOK(stuck, clients) /\ stuck.status = "awaiting_return_logistics"
  <2> HIDE DEF rest
  <2>1. "awaiting_return_logistics" \in Statuses
    BY DEF Statuses
  <2>2. /\ stuck \in Movements /\ stuck.kind = rest.kind /\ stuck.party = rest.party
        /\ stuck.escorts = rest.escorts /\ stuck.resume = rest.resume
        /\ stuck.status = "awaiting_return_logistics"
    BY <1>1, <2>1 DEF Movements
  <2> HIDE DEF stuck
  <2> QED  BY <1>1, <1>4, <2>2 DEF RoadOK
<1>7. \/ Pruned(m, fallen) = m /\ m.party \cap fallen = {}
      \/ Pruned(m, fallen) = Compact(rest)
      \/ Pruned(m, fallen) = Compact(ended)
      \/ Pruned(m, fallen) = Compact(stuck) /\ m.escorts # Unlisted
  <2>1. m.escorts = Unlisted => Controllers(rest) = Potential(rest)
    BY <1>1 DEF Controllers
  <2> QED  BY <2>1 DEF Pruned
<1>8. rest.party = m.party \ fallen
  BY <1>1
<1>9. m.party \cap fallen = {} => m.party = m.party \ fallen
  OBVIOUS
<1> HIDE DEF rest, ended, stuck, list
<1>10. CASE Pruned(m, fallen) = m /\ m.party \cap fallen = {}
  BY <1>9, <1>10
<1>11. CASE Pruned(m, fallen) = Compact(rest)
  BY <1>1, <1>3, <1>4, <1>8, <1>11, CompactKeeps, CompactIsOK
<1>12. CASE Pruned(m, fallen) = Compact(ended)
  BY <1>3, <1>5, <1>12, CompactKeeps, CompactIsOK
<1>13. CASE Pruned(m, fallen) = Compact(stuck) /\ m.escorts # Unlisted
  BY <1>6, <1>13, CompactKeeps, CompactIsOK
<1> QED  BY <1>7, <1>10, <1>11, <1>12, <1>13

-----------------------------------------------------------------------------
(* What a step at one commission has to show.                              *)

\* Whoever is new at one commission was uncommitted, and nobody joins the others.
LEMMA SeatsMove ==
    ASSUME SeatsApart, NEW c \in Contracts,
           \A d \in Contracts : d # c =>
               /\ movements'[d].party \subseteq movements[d].party
               /\ Held(d)' \subseteq Held(d)
               /\ raids'[d].party \subseteq raids[d].party,
           \A p \in movements'[c].party \cup Held(c)' \cup raids'[c].party :
               \/ p \in movements[c].party \cup Held(c) \cup raids[c].party
               \/ \A d \in Contracts : d # c =>
                      p \notin movements[d].party \cup Held(d) \cup raids[d].party,
           movements'[c].party \cap Held(c)' = {},
           movements'[c].party \cap raids'[c].party = {},
           Held(c)' \cap raids'[c].party = {}
    PROVE  SeatsApart'
<1> DEFINE Seat(d) == movements[d].party \cup Held(d) \cup raids[d].party
           Next1(d) == movements'[d].party \cup Held(d)' \cup raids'[d].party
<1>1. \A d, e \in Contracts : d # e => Seat(d) \cap Seat(e) = {}
  BY DEF SeatsApart
<1>2. \A d \in Contracts : d # c => Next1(d) \subseteq Seat(d)
  OBVIOUS
<1>3. \A d \in Contracts : d # c => Next1(c) \cap Next1(d) = {}
  BY <1>1, <1>2
<1>4. \A d, e \in Contracts : d # e => Next1(d) \cap Next1(e) = {}
  BY <1>1, <1>2, <1>3
<1>5. \A d \in Contracts : /\ movements'[d].party \cap Held(d)' = {}
                           /\ movements'[d].party \cap raids'[d].party = {}
                           /\ Held(d)' \cap raids'[d].party = {}
  BY DEF SeatsApart
<1> QED  BY <1>4, <1>5 DEF SeatsApart

\* An index and a road that change at one commission together.
LEMMA OneCommission ==
    ASSUME EscortInv, EscortShape', SeatsApart', NEW c \in Contracts,
           \A d \in Contracts : d # c =>
               movements'[d] = movements[d] /\ contract'[d].status = contract[d].status,
           RoadOK(movements'[c], ClientOf[c]),
           contract'[c].status = "in_progress" <=> movements'[c].kind = "escort_contract"
    PROVE  EscortInv'
<1>1. \A d \in Contracts : RoadOK(movements'[d], ClientOf[d])
  BY DEF EscortInv
<1>2. PerformanceHasOwner'
  BY DEF EscortInv, PerformanceHasOwner
<1> QED  BY <1>1, <1>2 DEF EscortInv

\* Nothing but its contact says who is held for a fight.
LEMMA HeldKept ==
    ASSUME NEW c \in Contracts, contacts'[c] = contacts[c] PROVE Held(c)' = Held(c)
BY DEF Held, Fighting

\* The uncommitted sit nowhere.
LEMMA UsableIsFree ==
    ASSUME NEW group, NEW p \in Usable(group), NEW c \in Contracts
    PROVE  p \notin movements[c].party \cup Held(c) \cup raids[c].party
BY DEF Usable, Committed, Booked

-----------------------------------------------------------------------------
\* The contracts begin with their invariant.
LEMMA InitialEscort == Init => EscortInv
<1> SUFFICES ASSUME Init PROVE EscortInv
  OBVIOUS
<1>1. EscortShape
  <2>1. Unoffered \in ContractRecords
    BY DEF Unoffered, Popped, ContractRecords
  <2>2. NoMovement \in Movements
    BY DEF NoMovement, Movements, Statuses
  <2>3. NoContact \in ContactRecords /\ NoRaid \in RaidRecords
    BY DEF NoContact, ContactRecords, NoRaid, RaidRecords
  <2> QED  BY <2>1, <2>2, <2>3 DEF Init, EscortShape
<1>2. PerformanceHasOwner
  BY DEF Init, PerformanceHasOwner, Unoffered, Popped, NoMovement
<1>3. SeatsApart
  BY DEF Init, SeatsApart, NoMovement, NoContact, NoRaid, Held
<1>4. \A c \in Contracts : RoadOK(movements[c], ClientOf[c])
  BY DEF Init, RoadOK, NoMovement
<1> QED  BY <1>1, <1>2, <1>3, <1>4 DEF EscortInv

\* Before departure a commission is only a row of the index.
LEMMA IndexOnly ==
    ASSUME EscortInv, UNCHANGED <<movements, contacts, raids>>,
           contract' \in [Contracts -> ContractRecords],
           \A c \in Contracts :
               contract'[c].status = "in_progress" <=> contract[c].status = "in_progress"
    PROVE  EscortInv'
BY DEF EscortInv, EscortShape, PerformanceHasOwner, SeatsApart, Held, Fighting

\* Offering a contract keeps the escorts' invariant.
LEMMA OfferStep == ASSUME EscortInv, NEW c \in Contracts, Offer(c) PROVE EscortInv'
<1>1. contract' = [contract EXCEPT ![c] =
           [Popped EXCEPT !.status = "offered", !.term = Term, !.escrow = Reward]]
      /\ contract[c].status = "unoffered" /\ UNCHANGED <<movements, contacts, raids>>
  BY DEF Offer
<1>2. contract \in [Contracts -> ContractRecords]
  BY DEF EscortInv, EscortShape
<1> DEFINE row == [Popped EXCEPT !.status = "offered", !.term = Term, !.escrow = Reward]
<1>3. row \in ContractRecords /\ row.status = "offered"
  <2>1. Term \in Int /\ Reward \in Int
    BY EscortAssumption
  <2>2. Popped \in ContractRecords
    BY DEF Popped, ContractRecords
  <2> QED  BY <2>1, <2>2 DEF ContractRecords
<1> HIDE DEF row
<1>4. contract' = [contract EXCEPT ![c] = row]
  BY <1>1 DEF row
<1>5. contract' \in [Contracts -> ContractRecords]
  BY <1>2, <1>3, <1>4
<1>6. \A d \in Contracts :
          contract'[d].status = "in_progress" <=> contract[d].status = "in_progress"
  BY <1>1, <1>2, <1>3, <1>4
<1> QED  BY <1>1, <1>5, <1>6, IndexOnly

\* Accepting a contract keeps the escorts' invariant.
LEMMA AcceptStep == ASSUME EscortInv, NEW c \in Contracts, Accept(c) PROVE EscortInv'
<1>1. PICK refs \in SUBSET Usable(House) :
         contract' = [contract EXCEPT ![c].status = "accepted", ![c].holder = "house",
                                      ![c].principals = refs]
  BY DEF Accept
<1>2. refs \in SUBSET House /\ contract[c].status = "offered"
      /\ UNCHANGED <<movements, contacts, raids>> /\ contract \in [Contracts -> ContractRecords]
  BY DEF Accept, Usable, EscortInv, EscortShape
<1> DEFINE row == [contract[c] EXCEPT !.status = "accepted", !.holder = "house",
                                      !.principals = refs]
<1>3. row \in ContractRecords /\ row.status = "accepted"
  BY <1>2 DEF ContractRecords
<1>4. contract' = [contract EXCEPT ![c] = row]
  BY <1>1, <1>2
<1> HIDE DEF row
<1>5. contract' \in [Contracts -> ContractRecords]
  BY <1>2, <1>3, <1>4
<1>6. \A d \in Contracts :
          contract'[d].status = "in_progress" <=> contract[d].status = "in_progress"
  BY <1>2, <1>3, <1>4
<1> QED  BY <1>2, <1>5, <1>6, IndexOnly

\* The sweep removes only what nobody has started.
LEMMA NextDayStep == EscortInv /\ NextDay => EscortInv'
<1> SUFFICES ASSUME EscortInv, NextDay PROVE EscortInv'
  OBVIOUS
<1> DEFINE swept == {c \in Contracts : FrontierDue /\ Lapsed(c)}
<1>1. /\ UNCHANGED <<movements, contacts, raids>>
      /\ contract' = [c \in Contracts |->
           IF c \in swept THEN Popped
           ELSE IF Open(c) /\ contract[c].term > 0 THEN [contract[c] EXCEPT !.term = @ - 1]
           ELSE contract[c]]
  BY DEF NextDay
<1>2. contract \in [Contracts -> ContractRecords]
  BY DEF EscortInv, EscortShape
<1>3. \A c \in swept : contract[c].status # "in_progress"
  BY DEF Lapsed, Open
<1>4. Popped \in ContractRecords /\ Popped.status = "popped"
  BY DEF Popped, ContractRecords
<1>5. \A c \in Contracts :
         LET row == [contract[c] EXCEPT !.term = @ - 1]
         IN  row \in ContractRecords /\ row.status = contract[c].status
  BY <1>2 DEF ContractRecords
<1> HIDE DEF swept
<1>6. contract' \in [Contracts -> ContractRecords]
  BY <1>1, <1>2, <1>4, <1>5
<1>7. \A c \in Contracts :
          contract'[c].status = "in_progress" <=> contract[c].status = "in_progress"
  BY <1>1, <1>3, <1>4, <1>5
<1> QED  BY <1>1, <1>6, <1>7, IndexOnly

-----------------------------------------------------------------------------
(* Departure.                                                              *)

Convoy(c, party) == Compact(
    [NoMovement EXCEPT !.kind = "escort_contract", !.status = "active",
                       !.party = party \cup ClientOf[c], !.escorts = party,
                       !.clients = ClientOf[c], !.legs = Legs, !.goods = Goods[c]])

\* A convoy of uncommitted people and the commission's civilians is in order.
LEMMA ConvoyIsOK ==
    ASSUME NEW c \in Contracts, NEW party \in SUBSET (House \cup Guildsmen)
    PROVE  LET n == Convoy(c, party)
           IN  /\ n \in Movements /\ n.kind = "escort_contract" /\ n.status = "active"
               /\ n.party = party \cup ClientOf[c] /\ RoadOK(n, ClientOf[c])
<1> DEFINE m == [NoMovement EXCEPT !.kind = "escort_contract", !.status = "active",
                       !.party = party \cup ClientOf[c], !.escorts = party,
                       !.clients = ClientOf[c], !.legs = Legs, !.goods = Goods[c]]
<1>1. /\ Legs \in Int /\ Goods[c] \in Int /\ ClientOf[c] \in SUBSET Clients
      /\ party \cup ClientOf[c] \in SUBSET People /\ party \in SUBSET People
      /\ party \cap Clients = {} /\ Player \notin ClientOf[c]
  BY EscortAssumption DEF People, House
<1>2. NoMovement \in Movements
  BY DEF NoMovement, Movements, Statuses
<1>3. "active" \in Statuses
  BY DEF Statuses
<1>4. /\ m \in Movements /\ m.kind = "escort_contract" /\ m.status = "active"
      /\ m.party = party \cup ClientOf[c] /\ m.escorts = party /\ m.clients = ClientOf[c]
      /\ m.resume = "none"
  BY <1>1, <1>2, <1>3 DEF Movements, NoMovement
<1> HIDE DEF m
<1>5. Controllers(m) = Potential(m)
  <2>1. party # Unlisted
    BY <1>1, EscortAssumption
  <2> QED  BY <1>4, <2>1 DEF Controllers, Potential
<1>6. Compact(m).escorts = Unlisted
  BY <1>4, <1>5 DEF Compact, Movements
<1>7. Compact(m) = Convoy(c, party)
  BY DEF Convoy, m
<1>8. /\ Compact(m) \in Movements /\ Compact(m).kind = m.kind /\ Compact(m).status = m.status
      /\ Compact(m).resume = m.resume /\ Compact(m).party = m.party
  BY <1>4, CompactKeeps
<1>9. RoadOK(Compact(m), ClientOf[c])
  BY <1>1, <1>4, <1>6, <1>8 DEF RoadOK
<1> QED  BY <1>4, <1>7, <1>8, <1>9

\* A convoy of people who are on no other road departs, and the escorts' invariant stays.
LEMMA Departure ==
    ASSUME EscortInv, NEW c \in Contracts, NEW party \in SUBSET (House \cup Guildsmen),
           \A p \in party : \A d \in Contracts :
               p \notin movements[d].party \cup Held(d) \cup raids[d].party,
           UNCHANGED <<contacts, raids>>,
           movements' \in [Contracts -> Movements], contract' \in [Contracts -> ContractRecords],
           movements'[c] = Convoy(c, party), contract'[c].status = "in_progress",
           \A d \in Contracts : d # c =>
               movements'[d] = movements[d] /\ contract'[d].status = contract[d].status
    PROVE  EscortInv'
<1>1. /\ Convoy(c, party) \in Movements /\ Convoy(c, party).kind = "escort_contract"
      /\ Convoy(c, party).party = party \cup ClientOf[c]
      /\ RoadOK(Convoy(c, party), ClientOf[c])
  BY ConvoyIsOK
<1>2. EscortShape'
  BY DEF EscortInv, EscortShape
<1>3. \A d \in Contracts : /\ Held(d) \subseteq Raiders /\ raids[d].party \subseteq Raiders
                           /\ Held(d)' = Held(d)
  BY HeldKept DEF EscortInv, EscortShape, ContactRecords, RaidRecords, Held
<1>4. \A d \in Contracts : d # c => movements[d].party \cap ClientOf[c] = {}
  <2> SUFFICES ASSUME NEW d \in Contracts, d # c, NEW p \in movements[d].party \cap ClientOf[c]
               PROVE  FALSE
    OBVIOUS
  <2>1. p \in Clients /\ p \notin ClientOf[d]
    BY EscortAssumption
  <2> QED  BY <2>1 DEF EscortInv, RoadOK
<1>5. ClientOf[c] \cap Raiders = {}
  BY EscortAssumption
<1>6. SeatsApart'
  <2>1. SeatsApart
    BY DEF EscortInv
  <2>2. movements'[c].party = party \cup ClientOf[c]
    BY <1>1
  <2>3. \A p \in party \cup ClientOf[c] : \A d \in Contracts : d # c =>
            p \notin movements[d].party \cup Held(d) \cup raids[d].party
    BY <1>3, <1>4, <1>5
  <2>4. /\ (party \cup ClientOf[c]) \cap Held(c) = {}
        /\ (party \cup ClientOf[c]) \cap raids[c].party = {}
        /\ Held(c) \cap raids[c].party = {}
    BY <1>3, <1>5, <2>1 DEF SeatsApart
  <2> QED  BY <1>3, <2>1, <2>2, <2>3, <2>4, SeatsMove
<1> QED  BY <1>1, <1>2, <1>6, OneCommission

\* What Depart writes, whoever holds the commission.
LEMMA DepartWrites ==
    ASSUME EscortInv, NEW c \in Contracts, NEW holder \in {"house", "guild"}, NEW party,
           Depart(c, holder, party)
    PROVE  /\ UNCHANGED <<contacts, raids>>
           /\ movements' = [movements EXCEPT ![c] = Convoy(c, party)]
           /\ contract' \in [Contracts -> ContractRecords]
           /\ contract'[c].status = "in_progress"
           /\ \A d \in Contracts : d # c => contract'[d].status = contract[d].status
<1>1. contract \in [Contracts -> ContractRecords]
  BY DEF EscortInv, EscortShape
<1> DEFINE row == [contract[c] EXCEPT !.status = "in_progress", !.holder = holder,
                                      !.principals = {}]
<1>2. row \in ContractRecords /\ row.status = "in_progress"
  BY <1>1 DEF ContractRecords
<1>3. contract' = [contract EXCEPT ![c] = row]
  BY <1>1 DEF Depart
<1> HIDE DEF row
<1>4. contract' \in [Contracts -> ContractRecords] /\ contract'[c].status = "in_progress"
      /\ \A d \in Contracts : d # c => contract'[d].status = contract[d].status
  BY <1>1, <1>2, <1>3
<1>5. UNCHANGED <<contacts, raids>> /\ movements' = [movements EXCEPT ![c] = Convoy(c, party)]
  BY DEF Depart, Convoy
<1> QED  BY <1>4, <1>5

\* The player house starting its contract keeps the escorts' invariant.
LEMMA StartStep == ASSUME EscortInv, NEW c \in Contracts, Start(c) PROVE EscortInv'
<1>1. PICK roster \in SUBSET (Usable(House) \ away) : Depart(c, "house", roster)
  BY DEF Start
<1>2. roster \in SUBSET (House \cup Guildsmen)
      /\ \A p \in roster : \A d \in Contracts :
             p \notin movements[d].party \cup Held(d) \cup raids[d].party
  <2>1. \A p \in roster : p \in Usable(House)
    OBVIOUS
  <2>2. Usable(House) \subseteq House
    BY DEF Usable
  <2> QED  BY <2>1, <2>2, UsableIsFree
<1>3. /\ UNCHANGED <<contacts, raids>>
      /\ movements' = [movements EXCEPT ![c] = Convoy(c, roster)]
      /\ contract' \in [Contracts -> ContractRecords] /\ contract'[c].status = "in_progress"
      /\ \A d \in Contracts : d # c => contract'[d].status = contract[d].status
  BY <1>1, DepartWrites
<1>4. /\ movements \in [Contracts -> Movements] /\ Convoy(c, roster) \in Movements
  BY <1>2, ConvoyIsOK DEF EscortInv, EscortShape
<1>5. /\ movements' \in [Contracts -> Movements] /\ movements'[c] = Convoy(c, roster)
      /\ \A d \in Contracts : d # c => movements'[d] = movements[d]
  BY <1>3, <1>4
<1> QED  BY <1>2, <1>3, <1>5, Departure

\* Another house taking up a contract and setting out keeps the escorts' invariant.
LEMMA NpcAcceptStartStep ==
    ASSUME EscortInv, NEW c \in Contracts, NpcAcceptStart(c) PROVE EscortInv'
<1>1. PICK crew \in SUBSET (Usable(Guildsmen) \ away) : Depart(c, "guild", crew)
  BY DEF NpcAcceptStart
<1>2. crew \in SUBSET (House \cup Guildsmen)
      /\ \A p \in crew : \A d \in Contracts :
             p \notin movements[d].party \cup Held(d) \cup raids[d].party
  <2>1. \A p \in crew : p \in Usable(Guildsmen)
    OBVIOUS
  <2>2. Usable(Guildsmen) \subseteq Guildsmen
    BY DEF Usable
  <2> QED  BY <2>1, <2>2, UsableIsFree
<1>3. /\ UNCHANGED <<contacts, raids>>
      /\ movements' = [movements EXCEPT ![c] = Convoy(c, crew)]
      /\ contract' \in [Contracts -> ContractRecords] /\ contract'[c].status = "in_progress"
      /\ \A d \in Contracts : d # c => contract'[d].status = contract[d].status
  BY <1>1, DepartWrites
<1>4. /\ movements \in [Contracts -> Movements] /\ Convoy(c, crew) \in Movements
  BY <1>2, ConvoyIsOK DEF EscortInv, EscortShape
<1>5. /\ movements' \in [Contracts -> Movements] /\ movements'[c] = Convoy(c, crew)
      /\ \A d \in Contracts : d # c => movements'[d] = movements[d]
  BY <1>3, <1>4
<1> QED  BY <1>2, <1>3, <1>5, Departure

-----------------------------------------------------------------------------
(* On the road.                                                            *)

\* A party that changes on its road, alone or with its index, its contact and its raiders.
LEMMA RoadStep ==
    ASSUME EscortInv, NEW c \in Contracts,
           movements' \in [Contracts -> Movements], contract' \in [Contracts -> ContractRecords],
           contacts' \in [Contracts -> ContactRecords], raids' \in [Contracts -> RaidRecords],
           \A d \in Contracts : d # c =>
               /\ movements'[d] = movements[d] /\ contract'[d].status = contract[d].status
               /\ contacts'[d] = contacts[d] /\ raids'[d] = raids[d],
           RoadOK(movements'[c], ClientOf[c]),
           movements'[c].party \subseteq movements[c].party,
           contract'[c].status = "in_progress" <=> movements'[c].kind = "escort_contract",
           \A p \in Held(c)' \cup raids'[c].party :
               \/ p \in Held(c) \cup raids[c].party
               \/ \A d \in Contracts :
                      p \notin movements[d].party \cup Held(d) \cup raids[d].party,
           Held(c)' \cap raids'[c].party = {}
    PROVE  EscortInv'
<1>1. EscortShape' /\ SeatsApart
  BY DEF EscortInv, EscortShape
<1>2. SeatsApart'
  <2>1. \A p \in Held(c)' \cup raids'[c].party : p \notin movements[c].party
    BY <1>1 DEF SeatsApart
  <2>2. /\ movements'[c].party \cap Held(c)' = {}
        /\ movements'[c].party \cap raids'[c].party = {}
    BY <2>1
  <2>3. \A d \in Contracts : d # c =>
               /\ movements'[d].party \subseteq movements[d].party
               /\ Held(d)' \subseteq Held(d)
               /\ raids'[d].party \subseteq raids[d].party
    BY HeldKept
  <2>4. \A p \in movements'[c].party \cup Held(c)' \cup raids'[c].party :
               \/ p \in movements[c].party \cup Held(c) \cup raids[c].party
               \/ \A d \in Contracts : d # c =>
                      p \notin movements[d].party \cup Held(d) \cup raids[d].party
    OBVIOUS
  <2> QED  BY <1>1, <2>2, <2>3, <2>4, SeatsMove
<1> QED  BY <1>1, <1>2, OneCommission

\* A party that rests on its way, and the party that starts for home.
Stopped(m) == Compact([m EXCEPT !.status = "resting", !.resume = "active", !.legs = @ - 1])

\* A movement that is stopped is still a sound one, with the same party.
LEMMA StoppedIsOK ==
    ASSUME NEW m \in Movements, NEW clients, RoadOK(m, clients)
    PROVE  /\ Stopped(m) \in Movements /\ Stopped(m).kind = m.kind
           /\ Stopped(m).party = m.party /\ RoadOK(Stopped(m), clients)
           /\ Stopped(m).status = "resting"
<1> DEFINE n == [m EXCEPT !.status = "resting", !.resume = "active", !.legs = @ - 1]
<1>1. /\ n \in Movements /\ n.kind = m.kind /\ n.party = m.party /\ n.escorts = m.escorts
      /\ n.status = "resting" /\ n.resume = "active"
  <2>1. "resting" \in Statuses /\ "active" \in Statuses /\ m.legs - 1 \in Int
    BY DEF Movements, Statuses
  <2> QED  BY <2>1 DEF Movements
<1>2. Stopped(m) = Compact(n)
  BY DEF Stopped
<1> HIDE DEF n
<1>3. RoadOK(n, clients)
  BY <1>1 DEF RoadOK
<1> QED  BY <1>1, <1>2, <1>3, CompactKeeps, CompactIsOK

\* The movement home of those who are left is sound, and takes nobody new along.
LEMMA ReturnIsOK ==
    ASSUME NEW m \in Movements, NEW clients, RoadOK(m, clients), EscortRefs(m) # {},
           NEW back \in ReturnMovement(m)
    PROVE  /\ back \in Movements /\ back.kind = "escort_return"
           /\ back.party \subseteq m.party /\ RoadOK(back, clients)
<1>1. PICK resume \in {"returning", "awaiting_return_logistics"} :
         back = Compact([NoMovement EXCEPT !.kind = "escort_return", !.status = "resting",
                                !.resume = resume, !.party = EscortRefs(m),
                                !.escorts = EscortRefs(m), !.legs = Legs])
  BY DEF ReturnMovement
<1> DEFINE n == [NoMovement EXCEPT !.kind = "escort_return", !.status = "resting",
                                !.resume = resume, !.party = EscortRefs(m),
                                !.escorts = EscortRefs(m), !.legs = Legs]
<1>2. /\ EscortRefs(m) \in SUBSET People /\ EscortRefs(m) \subseteq m.party
      /\ Player \notin EscortRefs(m)
  BY DEF EscortRefs, RoadOK, Movements
<1>3. NoMovement \in Movements /\ Legs \in Int
  BY EscortAssumption DEF NoMovement, Movements, Statuses
<1>4. /\ n \in Movements /\ n.kind = "escort_return" /\ n.party = EscortRefs(m)
      /\ n.escorts = EscortRefs(m) /\ n.status = "resting" /\ n.resume = resume
  BY <1>2, <1>3 DEF Movements, Statuses
<1>5. back = Compact(n)
  BY <1>1
<1> HIDE DEF n
<1>6. RoadOK(n, clients)
  BY <1>2, <1>4 DEF RoadOK
<1> QED  BY <1>2, <1>4, <1>5, <1>6, CompactKeeps, CompactIsOK

\* A road without a movement is sound.
LEMMA EmptyRoadIsOK ==
    /\ NoMovement \in Movements /\ NoMovement.kind = "none" /\ NoMovement.party = {}
    /\ \A clients : RoadOK(NoMovement, clients)
BY DEF NoMovement, Movements, Statuses, RoadOK

\* Closing a commission, or a return, at the end of a road or of a fight.
LEMMA Closed ==
    ASSUME EscortInv, NEW c \in Contracts, NEW m \in Movements, RoadOK(m, ClientOf[c]),
           NEW success, NEW control, NEW seized, CloseEscort(c, m, success, control, seized)
    PROVE  /\ \E n \in Movements :
                  /\ movements' = [movements EXCEPT ![c] = n]
                  /\ n.kind # "escort_contract" /\ n.party \subseteq m.party
                  /\ RoadOK(n, ClientOf[c])
           /\ IF m.kind = "escort_contract"
              THEN /\ contract' = [contract EXCEPT ![c] = Popped]
                   /\ contacts' = [contacts EXCEPT ![c] = NoContact]
              ELSE /\ contract' = contract
                   /\ contacts' = [contacts EXCEPT ![c].winner = "none"]
<1>1. CASE m.kind = "escort_contract"
  <2>1. /\ Delivered(c, m) \/ Failed(c, m, control, seized)
        /\ contacts' = [contacts EXCEPT ![c] = NoContact]
    BY <1>1 DEF CloseEscort, CloseContract
  <2>2. CASE Failed(c, m, control, seized)
    <3>1. movements' = [movements EXCEPT ![c] = NoMovement]
          /\ contract' = [contract EXCEPT ![c] = Popped]
      BY <2>2 DEF Failed, Pop, OffRoad
    <3> QED  BY <1>1, <2>1, <3>1, EmptyRoadIsOK
  <2>3. CASE Delivered(c, m)
    <3>1. /\ contract' = [contract EXCEPT ![c] = Popped]
          /\ IF EscortRefs(m) # {}
             THEN \E back \in ReturnMovement(m) : movements' = [movements EXCEPT ![c] = back]
             ELSE movements' = [movements EXCEPT ![c] = NoMovement]
      BY <2>3 DEF Delivered, Pop, OffRoad
    <3>2. CASE EscortRefs(m) # {}
      <4>1. PICK back \in ReturnMovement(m) : movements' = [movements EXCEPT ![c] = back]
        BY <3>1, <3>2
      <4>2. /\ back \in Movements /\ back.kind = "escort_return"
            /\ back.party \subseteq m.party /\ RoadOK(back, ClientOf[c])
        BY <3>2, ReturnIsOK
      <4> QED  BY <1>1, <2>1, <3>1, <4>1, <4>2
    <3>3. CASE EscortRefs(m) = {}
      BY <1>1, <2>1, <3>1, <3>3, EmptyRoadIsOK
    <3> QED  BY <3>2, <3>3
  <2> QED  BY <2>1, <2>2, <2>3
<1>2. CASE m.kind # "escort_contract"
  <2>1. /\ \/ movements' = [movements EXCEPT ![c] = NoMovement]
           \/ movements' = [movements EXCEPT ![c] = Compact(m)]
        /\ contacts' = [contacts EXCEPT ![c].winner = "none"] /\ contract' = contract
    BY <1>2 DEF CloseEscort, CloseReturn, OffRoad
  <2>2. /\ Compact(m) \in Movements /\ Compact(m).kind # "escort_contract"
        /\ Compact(m).party \subseteq m.party /\ RoadOK(Compact(m), ClientOf[c])
    BY <1>2, CompactKeeps, CompactIsOK
  <2> QED  BY <1>2, <2>1, <2>2, EmptyRoadIsOK
<1> QED  BY <1>1, <1>2

\* What a party becomes that is closed, stops over, or goes on.
LEMMA RoadOutcome ==
    ASSUME EscortInv, NEW c \in Contracts, NEW m \in Movements, RoadOK(m, ClientOf[c]),
           m.kind = movements[c].kind, m.party \subseteq movements[c].party, NEW n \in Movements,
           n.party \subseteq m.party, RoadOK(n, ClientOf[c]),
           movements' = [movements EXCEPT ![c] = n],
           raids' \in [Contracts -> RaidRecords],
           \A d \in Contracts : d # c => raids'[d] = raids[d],
           \/ /\ n.kind = m.kind /\ UNCHANGED <<contract, contacts>>
           \/ /\ m.kind = "escort_contract" /\ n.kind # "escort_contract"
              /\ contract' = [contract EXCEPT ![c] = Popped]
              /\ contacts' = [contacts EXCEPT ![c] = NoContact]
           \/ /\ m.kind # "escort_contract" /\ n.kind # "escort_contract"
              /\ contract' = contract /\ contacts' = [contacts EXCEPT ![c].winner = "none"],
           \A p \in raids'[c].party :
               \/ p \in Held(c) \cup raids[c].party
               \/ \A d \in Contracts :
                      p \notin movements[d].party \cup Held(d) \cup raids[d].party,
           Held(c)' \cap raids'[c].party = {}
    PROVE  EscortInv'
<1>1. /\ contract \in [Contracts -> ContractRecords] /\ movements \in [Contracts -> Movements]
      /\ contacts \in [Contracts -> ContactRecords]
  BY DEF EscortInv, EscortShape
<1>2. Popped \in ContractRecords /\ Popped.status = "popped"
      /\ NoContact \in ContactRecords /\ NoContact.band = {}
  BY DEF Popped, ContractRecords, NoContact, ContactRecords
<1>3. /\ movements' \in [Contracts -> Movements] /\ movements'[c] = n
      /\ \A d \in Contracts : d # c => movements'[d] = movements[d]
  BY <1>1
<1>4. /\ contract' \in [Contracts -> ContractRecords]
      /\ \A d \in Contracts : d # c => contract'[d].status = contract[d].status
  BY <1>1, <1>2
<1>5. /\ contacts' \in [Contracts -> ContactRecords] /\ Held(c)' \subseteq Held(c)
      /\ \A d \in Contracts : d # c => contacts'[d] = contacts[d]
  <2>1. CASE contacts' = [contacts EXCEPT ![c].winner = "none"]
    <3> DEFINE quiet == [contacts[c] EXCEPT !.winner = "none"]
    <3>1. quiet \in ContactRecords /\ quiet.winner = "none"
      BY <1>1 DEF ContactRecords
    <3>2. contacts' = [contacts EXCEPT ![c] = quiet]
      BY <1>1, <2>1
    <3> HIDE DEF quiet
    <3>3. contacts'[c].winner = "none"
      BY <1>1, <3>1, <3>2
    <3> QED  BY <1>1, <3>1, <3>2, <3>3 DEF Held, Fighting
  <2>2. CASE contacts' = [contacts EXCEPT ![c] = NoContact]
    BY <1>1, <1>2, <2>2 DEF Held
  <2>3. CASE contacts' = contacts
    BY <1>1, <2>3, HeldKept
  <2> QED  BY <1>1, <2>1, <2>2, <2>3
<1>6. contract'[c].status = "in_progress" <=> movements'[c].kind = "escort_contract"
  BY <1>1, <1>2, <1>3 DEF EscortInv, PerformanceHasOwner
<1>7. RoadOK(movements'[c], ClientOf[c]) /\ movements'[c].party \subseteq movements[c].party
  BY <1>3
<1>8. \A p \in Held(c)' \cup raids'[c].party :
               \/ p \in Held(c) \cup raids[c].party
               \/ \A d \in Contracts :
                      p \notin movements[d].party \cup Held(d) \cup raids[d].party
  BY <1>5
<1> QED  BY <1>3, <1>4, <1>5, <1>6, <1>7, <1>8, RoadStep

-----------------------------------------------------------------------------
(* The service of a road, one lemma per handler.                           *)

\* What the invariant says of the road, the raid and the contact of one contract.
LEMMA ThisRoad ==
    ASSUME EscortInv, NEW c \in Contracts
    PROVE  /\ movements[c] \in Movements /\ RoadOK(movements[c], ClientOf[c])
           /\ raids \in [Contracts -> RaidRecords] /\ contacts \in [Contracts -> ContactRecords]
           /\ Held(c) \cap raids[c].party = {} /\ Held(c) \subseteq contacts[c].band
           /\ contacts[c].band \subseteq Raiders
BY DEF EscortInv, EscortShape, SeatsApart, ContactRecords, Held

\* A closing, with whatever raiders take the road home from it.
LEMMA ClosedStep ==
    ASSUME EscortInv, NEW c \in Contracts, NEW m \in Movements, RoadOK(m, ClientOf[c]),
           m.kind = movements[c].kind, m.party \subseteq movements[c].party,
           NEW success, NEW control, NEW seized, CloseEscort(c, m, success, control, seized),
           raids' \in [Contracts -> RaidRecords],
           \A d \in Contracts : d # c => raids'[d] = raids[d],
           \A p \in raids'[c].party :
               \/ p \in Held(c) \cup raids[c].party
               \/ \A d \in Contracts :
                      p \notin movements[d].party \cup Held(d) \cup raids[d].party,
           m.kind = "escort_contract" \/ Held(c) \cap raids'[c].party = {}
    PROVE  EscortInv'
<1>1. PICK n \in Movements :
            /\ movements' = [movements EXCEPT ![c] = n]
            /\ n.kind # "escort_contract" /\ n.party \subseteq m.party
            /\ RoadOK(n, ClientOf[c])
  BY Closed
<1>2. IF m.kind = "escort_contract"
      THEN /\ contract' = [contract EXCEPT ![c] = Popped]
           /\ contacts' = [contacts EXCEPT ![c] = NoContact]
      ELSE contract' = contract /\ contacts' = [contacts EXCEPT ![c].winner = "none"]
  BY Closed
<1>3. contacts \in [Contracts -> ContactRecords]
  BY ThisRoad
<1>4. Held(c)' \cap raids'[c].party = {}
  <2>1. CASE m.kind = "escort_contract"
    BY <1>2, <1>3, <2>1 DEF NoContact, Held
  <2>2. CASE m.kind # "escort_contract"
    <3>1. contacts'[c].winner = "none"
      BY <1>2, <1>3, <2>2 DEF ContactRecords
    <3> QED  BY <3>1 DEF Held, Fighting
  <2> QED  BY <2>1, <2>2
<1> QED  BY <1>1, <1>2, <1>4, RoadOutcome

\* The end of a road, reached at once or after a fight that was won.
LEMMA EndOfRoadStep ==
    ASSUME EscortInv, NEW c \in Contracts, NEW m \in Movements, RoadOK(m, ClientOf[c]),
           m.kind = movements[c].kind, m.party \subseteq movements[c].party, EndOfRoad(c, m),
           raids' \in [Contracts -> RaidRecords],
           \A d \in Contracts : d # c => raids'[d] = raids[d],
           \A p \in raids'[c].party :
               \/ p \in Held(c) \cup raids[c].party
               \/ \A d \in Contracts :
                      p \notin movements[d].party \cup Held(d) \cup raids[d].party,
           Held(c) \cap raids'[c].party = {}
    PROVE  EscortInv'
<1>1. CASE StopOver(c, m)
  <2>1. movements' = [movements EXCEPT ![c] = Stopped(m)] /\ UNCHANGED <<contract, contacts>>
    BY <1>1 DEF StopOver, Stopped
  <2>2. PICK n : n = Stopped(m)
    OBVIOUS
  <2>3. n \in Movements /\ n.kind = m.kind /\ n.party \subseteq m.party /\ RoadOK(n, ClientOf[c])
    BY <2>2, StoppedIsOK
  <2>4. movements' = [movements EXCEPT ![c] = n]
    BY <2>1, <2>2
  <2>5. Held(c)' \cap raids'[c].party = {}
    BY <2>1, HeldKept
  <2> QED  BY <2>1, <2>3, <2>4, <2>5, RoadOutcome
<1>2. CASE CloseEscort(c, m, TRUE, FALSE, FALSE)
  BY <1>2, ClosedStep
<1> QED  BY <1>1, <1>2 DEF EndOfRoad

\* An arrival keeps the escorts' invariant.
LEMMA ArriveStep == ASSUME EscortInv, NEW c \in Contracts, Arrive(c) PROVE EscortInv'
<1>1. PICK m : m = movements[c]
  OBVIOUS
<1>2. EndOfRoad(c, m) /\ raids' = raids
  BY <1>1 DEF Arrive
<1>3. /\ m \in Movements /\ RoadOK(m, ClientOf[c])
      /\ raids \in [Contracts -> RaidRecords] /\ Held(c) \cap raids[c].party = {}
  BY <1>1, ThisRoad
<1> QED  BY <1>1, <1>2, <1>3, EndOfRoadStep

\* A status changes; the party, its list and the index do not.
LEMMA StatusStep ==
    ASSUME EscortInv, NEW c \in Contracts, UNCHANGED <<contract, contacts, raids>>,
           NEW n \in Movements, movements' = [movements EXCEPT ![c] = n],
           n.kind = movements[c].kind, n.party \subseteq movements[c].party,
           RoadOK(n, ClientOf[c])
    PROVE  EscortInv'
<1>1. PICK m : m = movements[c]
  OBVIOUS
<1>2. /\ m \in Movements /\ RoadOK(m, ClientOf[c])
      /\ raids' \in [Contracts -> RaidRecords] /\ Held(c)' \cap raids'[c].party = {}
      /\ \A p \in raids'[c].party : p \in Held(c) \cup raids[c].party
      /\ \A d \in Contracts : d # c => raids'[d] = raids[d]
  BY <1>1, ThisRoad, HeldKept
<1>3. m.kind = movements[c].kind /\ m.party \subseteq movements[c].party
      /\ n.kind = m.kind /\ n.party \subseteq m.party
  BY <1>1
<1> QED  BY <1>2, <1>3, RoadOutcome

\* The end of the rest at the destination keeps the escorts' invariant.
LEMMA RestEndsStep == ASSUME EscortInv, NEW c \in Contracts, RestEnds(c) PROVE EscortInv'
<1> DEFINE m == movements[c]
           n == [m EXCEPT !.status = m.resume, !.resume = "none"]
<1>1. m \in Movements /\ RoadOK(m, ClientOf[c]) /\ movements \in [Contracts -> Movements]
  BY ThisRoad DEF EscortInv, EscortShape
<1>2. /\ n \in Movements /\ n.kind = m.kind /\ n.party = m.party /\ n.escorts = m.escorts
      /\ n.status = m.resume /\ n.resume = "none"
  BY <1>1 DEF Movements, Statuses
<1>3. movements' = [movements EXCEPT ![c] = n] /\ UNCHANGED <<contract, contacts, raids>>
  BY <1>1 DEF RestEnds
<1> HIDE DEF n
<1>4. RoadOK(n, ClientOf[c])
  BY <1>1, <1>2 DEF RoadOK
<1>5. PICK k : k = n
  OBVIOUS
<1>6. /\ movements' = [movements EXCEPT ![c] = k] /\ k \in Movements /\ RoadOK(k, ClientOf[c])
      /\ k.kind = movements[c].kind /\ k.party \subseteq movements[c].party
  BY <1>2, <1>3, <1>4, <1>5
<1> QED  BY <1>3, <1>6, StatusStep

\* Trying the way home again keeps the escorts' invariant.
LEMMA RetryReturnStep == ASSUME EscortInv, NEW c \in Contracts, RetryReturn(c) PROVE EscortInv'
<1> DEFINE m == movements[c]
           n == [m EXCEPT !.status = "returning"]
<1>1. m \in Movements /\ RoadOK(m, ClientOf[c]) /\ movements \in [Contracts -> Movements]
  BY ThisRoad DEF EscortInv, EscortShape
<1>2. /\ n \in Movements /\ n.kind = m.kind /\ n.party = m.party /\ n.escorts = m.escorts
      /\ n.status = "returning" /\ n.resume = m.resume
  BY <1>1 DEF Movements, Statuses
<1>3. movements' = [movements EXCEPT ![c] = Compact(n)] /\ UNCHANGED <<contract, contacts, raids>>
  BY <1>1 DEF RetryReturn
<1> HIDE DEF n
<1>4. RoadOK(n, ClientOf[c])
  BY <1>1, <1>2 DEF RoadOK
<1>5. PICK k : k = Compact(n)
  OBVIOUS
<1>6. /\ movements' = [movements EXCEPT ![c] = k] /\ k \in Movements /\ RoadOK(k, ClientOf[c])
      /\ k.kind = movements[c].kind /\ k.party \subseteq movements[c].party
  BY <1>2, <1>3, <1>4, <1>5, CompactKeeps, CompactIsOK
<1> QED  BY <1>3, <1>6, StatusStep

\* A contact that waits for the player keeps the escorts' invariant.
LEMMA PlayerContactStep ==
    ASSUME EscortInv, NEW c \in Contracts, PlayerContact(c) PROVE EscortInv'
<1> DEFINE m == movements[c]
           n == [m EXCEPT !.status = "contact_pending"]
<1>1. /\ m \in Movements /\ RoadOK(m, ClientOf[c]) /\ movements \in [Contracts -> Movements]
      /\ contacts \in [Contracts -> ContactRecords] /\ raids \in [Contracts -> RaidRecords]
      /\ contract \in [Contracts -> ContractRecords] /\ Player \in m.party
  BY ThisRoad DEF EscortInv, EscortShape, PlayerContact
<1>2. /\ n \in Movements /\ n.kind = m.kind /\ n.party = m.party /\ n.escorts = m.escorts
      /\ n.status = "contact_pending" /\ n.resume = m.resume
  BY <1>1 DEF Movements, Statuses
<1>3. movements' = [movements EXCEPT ![c] = n] /\ UNCHANGED <<contract, raids>>
  BY <1>1 DEF PlayerContact
<1> HIDE DEF n
<1>4. RoadOK(n, ClientOf[c])
  BY <1>1, <1>2 DEF RoadOK
<1>5. PICK band \in FreeBand : contacts' = [contacts EXCEPT ![c] = [band |-> band, winner |-> "nobody"]]
  BY DEF PlayerContact
<1>6. /\ band \in SUBSET Raiders
      /\ \A p \in band : \A d \in Contracts :
             p \notin movements[d].party \cup Held(d) \cup raids[d].party
  <2>1. band \subseteq Usable(Raiders)
    BY DEF FreeBand
  <2>2. Usable(Raiders) \subseteq Raiders
    BY DEF Usable
  <2> QED  BY <2>1, <2>2, UsableIsFree
<1>7. /\ contacts' \in [Contracts -> ContactRecords] /\ Held(c)' = band
      /\ \A d \in Contracts : d # c => contacts'[d] = contacts[d]
  <2>1. [band |-> band, winner |-> "nobody"] \in ContactRecords
    BY <1>6 DEF ContactRecords
  <2> QED  BY <1>1, <1>5, <2>1 DEF Held, Fighting
<1>8. /\ movements' \in [Contracts -> Movements] /\ movements'[c] = n
      /\ \A d \in Contracts : d # c => movements'[d] = movements[d]
  BY <1>1, <1>2, <1>3
<1>9. contract'[c].status = "in_progress" <=> movements'[c].kind = "escort_contract"
  BY <1>2, <1>3, <1>8 DEF EscortInv, PerformanceHasOwner
<1>10. /\ movements'[c].party \subseteq movements[c].party /\ RoadOK(movements'[c], ClientOf[c])
       /\ Held(c)' \cap raids'[c].party = {}
  BY <1>2, <1>3, <1>4, <1>6, <1>7, <1>8
<1>11. \A p \in Held(c)' \cup raids'[c].party :
               \/ p \in Held(c) \cup raids[c].party
               \/ \A d \in Contracts :
                      p \notin movements[d].party \cup Held(d) \cup raids[d].party
  BY <1>3, <1>6, <1>7
<1> QED  BY <1>1, <1>3, <1>7, <1>8, <1>9, <1>10, <1>11, RoadStep

\* Nobody is left of a party; a commission is closed, a return is forgotten.
LEMMA ExtinguishedStep ==
    ASSUME EscortInv, NEW c \in Contracts, Extinguished(c) PROVE EscortInv'
<1>1. PICK m : m = movements[c]
  OBVIOUS
<1>2. /\ m \in Movements /\ RoadOK(m, ClientOf[c])
      /\ raids \in [Contracts -> RaidRecords] /\ raids' = raids
      /\ Held(c) \cap raids[c].party = {}
  BY <1>1, ThisRoad DEF Extinguished
<1>3. IF m.kind = "escort_contract" THEN CloseEscort(c, m, FALSE, FALSE, FALSE)
      ELSE OffRoad(c) /\ UNCHANGED <<contract, contacts>>
  BY <1>1 DEF Extinguished
<1>4. CASE m.kind = "escort_contract"
  BY <1>1, <1>2, <1>3, <1>4, ClosedStep
<1>5. CASE m.kind # "escort_contract"
  <2>1. movements' = [movements EXCEPT ![c] = NoMovement]
    BY <1>3, <1>5 DEF OffRoad
  <2>2. /\ movements \in [Contracts -> Movements] /\ contract \in [Contracts -> ContractRecords]
        /\ contacts \in [Contracts -> ContactRecords] /\ PerformanceHasOwner
    BY DEF EscortInv, EscortShape
  <2>3. /\ movements' \in [Contracts -> Movements] /\ movements'[c] = NoMovement
        /\ \A d \in Contracts : d # c => movements'[d] = movements[d]
    BY <2>1, <2>2, EmptyRoadIsOK
  <2>4. contract'[c].status = "in_progress" <=> movements'[c].kind = "escort_contract"
    BY <1>1, <1>3, <1>5, <2>2, <2>3, EmptyRoadIsOK DEF PerformanceHasOwner
  <2>5. UNCHANGED <<contract, contacts, raids>>
    BY <1>2, <1>3, <1>5
  <2>6. RoadOK(movements'[c], ClientOf[c]) /\ movements'[c].party \subseteq movements[c].party
    BY <2>3, EmptyRoadIsOK
  <2>7. Held(c)' = Held(c)
    BY <2>5, HeldKept
  <2> QED  BY <1>2, <2>2, <2>3, <2>4, <2>5, <2>6, <2>7, RoadStep
<1> QED  BY <1>4, <1>5

\* What StartReturn writes.
LEMMA ReturnStarts ==
    ASSUME EscortInv, NEW c \in Contracts, NEW band \in SUBSET Raiders, NEW goods \in Int,
           StartReturn(c, band, goods)
    PROVE  /\ raids' \in [Contracts -> RaidRecords]
           /\ \A d \in Contracts : d # c => raids'[d] = raids[d]
           /\ \/ raids'[c].party = raids[c].party
              \/ raids'[c].party = band /\ Returns(band)
<1>1. raids \in [Contracts -> RaidRecords]
  BY DEF EscortInv, EscortShape
<1>2. \/ raids' = raids
      \/ /\ raids' = [raids EXCEPT ![c] = [on |-> TRUE, party |-> band, goods |-> goods]]
         /\ Returns(band)
  BY DEF StartReturn
<1> DEFINE row == [on |-> TRUE, party |-> band, goods |-> goods]
<1>3. row \in RaidRecords /\ row.party = band
  BY DEF RaidRecords
<1>4. \/ raids' = raids
      \/ raids' = [raids EXCEPT ![c] = row] /\ Returns(band)
  BY <1>2
<1> HIDE DEF row
<1> QED  BY <1>1, <1>3, <1>4

\* The fallen leave the convoy and the band; the raiders who can walk were uncommitted.
LEMMA InterceptionStep ==
    ASSUME EscortInv, NEW c \in Contracts, Interception(c) PROVE EscortInv'
<1>1. PICK m : m = movements[c]
  OBVIOUS
<1>2. PICK band \in FreeBand, lost \in BOOLEAN : \E fallen \in SUBSET (m.party \cup band) :
         /\ Cardinality(dead \cup fallen) <= MaxDeaths
         /\ LET hurt == m.party \cap fallen
                after == IF hurt = {} THEN m
                         ELSE [m EXCEPT !.party = @ \ hurt, !.escorts = Fighters(m) \ hurt]
                control == lost \/ Fighters(after) = {}
            IN  AfterFight(c, after, band \ fallen, control,
                           control \/ m.clients \cap fallen # {})
         /\ dead' = dead \cup fallen
  BY <1>1 DEF Interception
<1>3. PICK fallen \in SUBSET (m.party \cup band) :
         LET hurt == m.party \cap fallen
             after == IF hurt = {} THEN m
                      ELSE [m EXCEPT !.party = @ \ hurt, !.escorts = Fighters(m) \ hurt]
             control == lost \/ Fighters(after) = {}
         IN  AfterFight(c, after, band \ fallen, control,
                        control \/ m.clients \cap fallen # {})
  BY <1>2
<1> DEFINE hurt == m.party \cap fallen
           survivors == [m EXCEPT !.party = @ \ hurt, !.escorts = Fighters(m) \ hurt]
           rest == IF hurt = {} THEN m ELSE survivors
<1>4. PICK after, control : /\ after = rest
                            /\ control \in BOOLEAN
                            /\ AfterFight(c, after, band \ fallen, control,
                                          control \/ m.clients \cap fallen # {})
  BY <1>3
<1>5. /\ m \in Movements /\ RoadOK(m, ClientOf[c]) /\ Player \notin m.party
      /\ m.status # "contact_pending"
  BY <1>1, ThisRoad DEF Interception, OnRoadStatus
<1>6. /\ after \in Movements /\ RoadOK(after, ClientOf[c]) /\ after.kind = m.kind
      /\ after.party \subseteq m.party
  <2>1. Fighters(m) \subseteq m.party
    BY <1>5 DEF Fighters, RoadOK
  <2>2. /\ survivors \in Movements /\ survivors.kind = m.kind /\ survivors.status = m.status
        /\ survivors.resume = m.resume /\ survivors.party = m.party \ hurt
        /\ survivors.escorts = Fighters(m) \ hurt
    <3>1. m.party \ hurt \in SUBSET People /\ Fighters(m) \ hurt \in SUBSET People
      BY <1>5, <2>1 DEF Movements
    <3> HIDE DEF hurt
    <3> QED  BY <1>5, <3>1 DEF Movements
  <2> HIDE DEF survivors, hurt
  <2>3. RoadOK(survivors, ClientOf[c])
    BY <1>5, <2>1, <2>2 DEF RoadOK
  <2> QED  BY <1>4, <1>5, <2>2, <2>3
<1>7. /\ band \subseteq Raiders
      /\ \A p \in band : \A d \in Contracts :
             p \notin movements[d].party \cup Held(d) \cup raids[d].party
  <2>1. band \subseteq Usable(Raiders)
    BY DEF FreeBand
  <2>2. Usable(Raiders) \subseteq Raiders
    BY DEF Usable
  <2> QED  BY <2>1, <2>2, UsableIsFree
<1>8. (IF control THEN after.goods ELSE 0) \in Int
  BY <1>6 DEF Movements
<1>9. /\ raids' \in [Contracts -> RaidRecords]
      /\ \A d \in Contracts : d # c => raids'[d] = raids[d]
      /\ raids'[c].party = band \ fallen \/ raids'[c].party = raids[c].party
  <2>1. StartReturn(c, band \ fallen, IF control THEN after.goods ELSE 0)
    BY <1>4 DEF AfterFight
  <2>2. band \ fallen \in SUBSET Raiders
    BY <1>7
  <2> QED  BY <1>8, <2>1, <2>2, ReturnStarts
<1>10. /\ \A p \in raids'[c].party :
              \/ p \in Held(c) \cup raids[c].party
              \/ \A d \in Contracts :
                     p \notin movements[d].party \cup Held(d) \cup raids[d].party
       /\ Held(c) \cap raids'[c].party = {}
  BY <1>7, <1>9, ThisRoad
<1>11. after.kind = movements[c].kind /\ after.party \subseteq movements[c].party
  BY <1>1, <1>6
<1>12. \/ CloseEscort(c, after, FALSE, control, control /\ Returns(band \ fallen))
       \/ EndOfRoad(c, after)
       \/ movements' = [movements EXCEPT ![c] = Compact(after)] /\ UNCHANGED <<contract, contacts>>
  BY <1>4 DEF AfterFight
<1>13. CASE CloseEscort(c, after, FALSE, control, control /\ Returns(band \ fallen))
  <2>1. PICK seized : seized = (control /\ Returns(band \ fallen))
    OBVIOUS
  <2>2. CloseEscort(c, after, FALSE, control, seized)
    BY <1>13, <2>1
  <2> QED  BY <1>6, <1>9, <1>10, <1>11, <2>2, ClosedStep
<1>14. CASE EndOfRoad(c, after)
  BY <1>6, <1>9, <1>10, <1>11, <1>14, EndOfRoadStep
<1>15. CASE movements' = [movements EXCEPT ![c] = Compact(after)] /\ UNCHANGED <<contract, contacts>>
  <2>1. PICK n : n = Compact(after)
    OBVIOUS
  <2>2. /\ n \in Movements /\ n.kind = after.kind /\ n.party \subseteq after.party
        /\ RoadOK(n, ClientOf[c]) /\ movements' = [movements EXCEPT ![c] = n]
    BY <1>6, <1>15, <2>1, CompactKeeps, CompactIsOK
  <2>3. Held(c)' \cap raids'[c].party = {}
    BY <1>10, <1>15, HeldKept
  <2> QED  BY <1>6, <1>9, <1>10, <1>11, <1>15, <2>2, <2>3, RoadOutcome
<1> QED  BY <1>12, <1>13, <1>14, <1>15

\* A fight of the player's is settled: the player travels with commissions only, so the
\* band that now walks home leaves the contact.
LEMMA CloseContactStep ==
    ASSUME EscortInv, FightsInv, NEW c \in Contracts, CloseContact(c) PROVE EscortInv'
<1>1. PICK m, winner, control, band :
         /\ m = movements[c] /\ winner = contacts[c].winner
         /\ control = (winner = "side_b") /\ band = contacts[c].band \ dead
  OBVIOUS
<1>2. PICK success, seized :
         /\ StartReturn(c, band, IF control THEN m.goods ELSE 0)
         /\ CloseEscort(c, m, success, control, seized)
  BY <1>1 DEF CloseContact
<1>3. /\ m \in Movements /\ RoadOK(m, ClientOf[c]) /\ m.status = "contact_pending"
      /\ band \in SUBSET Raiders /\ ~Fighting(c)
  BY <1>1, ThisRoad DEF CloseContact, Fighting
<1>4. m.kind = "escort_contract"
  BY <1>3 DEF RoadOK
<1>5. (IF control THEN m.goods ELSE 0) \in Int
  BY <1>3 DEF Movements
<1>6. /\ raids' \in [Contracts -> RaidRecords]
      /\ \A d \in Contracts : d # c => raids'[d] = raids[d]
      /\ \/ raids'[c].party = raids[c].party
         \/ raids'[c].party = band /\ Returns(band)
  BY <1>2, <1>3, <1>5, ReturnStarts
<1>7. \A d \in Contracts : Held(d) = {}
  BY <1>1, <1>3 DEF FightsInv, Pending, Held
<1>8. \A p \in raids'[c].party :
          \/ p \in Held(c) \cup raids[c].party
          \/ \A d \in Contracts : p \notin movements[d].party \cup Held(d) \cup raids[d].party
  BY <1>6, <1>7 DEF Returns, Booked
<1>9. m.kind = movements[c].kind /\ m.party \subseteq movements[c].party
  BY <1>1
<1> QED  BY <1>2, <1>3, <1>4, <1>6, <1>8, <1>9, ClosedStep

\* The end of a raid party's way home keeps the escorts' invariant.
LEMMA RaidEndsStep == ASSUME EscortInv, NEW c \in Contracts, RaidEnds(c) PROVE EscortInv'
<1>1. /\ raids' = [raids EXCEPT ![c] = NoRaid] /\ UNCHANGED <<contract, movements, contacts>>
  BY DEF RaidEnds
<1>2. raids \in [Contracts -> RaidRecords]
  BY DEF EscortInv, EscortShape
<1>3. NoRaid \in RaidRecords /\ NoRaid.party = {}
  BY DEF NoRaid, RaidRecords
<1>4. /\ raids' \in [Contracts -> RaidRecords]
      /\ \A d \in Contracts : raids'[d].party \subseteq raids[d].party
  BY <1>1, <1>2, <1>3
<1>5. SeatsApart'
  <2>1. \A d \in Contracts : Held(d)' = Held(d)
    BY <1>1, HeldKept
  <2> QED  BY <1>1, <1>4, <2>1 DEF EscortInv, SeatsApart
<1> QED  BY <1>1, <1>4, <1>5 DEF EscortInv, EscortShape, PerformanceHasOwner

-----------------------------------------------------------------------------
(* Deaths.                                                                 *)

\* Closing the dead everywhere leaves every seat with fewer, and no other order broken.
LEMMA BuryKeeps ==
    ASSUME EscortInv, NEW fallen \in SUBSET People, Bury(fallen),
           contacts' \in [Contracts -> ContactRecords],
           \A c \in Contracts : Held(c)' \subseteq Held(c)
    PROVE  EscortInv'
<1>1. /\ movements \in [Contracts -> Movements] /\ contract \in [Contracts -> ContractRecords]
      /\ raids \in [Contracts -> RaidRecords]
      /\ \A c \in Contracts : RoadOK(movements[c], ClientOf[c])
  BY DEF EscortInv, EscortShape
<1>2. \A c \in Contracts :
         /\ Pruned(movements[c], fallen) \in Movements
         /\ Pruned(movements[c], fallen).kind = movements[c].kind
         /\ Pruned(movements[c], fallen).party \subseteq movements[c].party
         /\ RoadOK(Pruned(movements[c], fallen), ClientOf[c])
  BY <1>1, PrunedKeeps
<1>3. /\ movements' \in [Contracts -> Movements]
      /\ \A c \in Contracts : /\ movements'[c].kind = movements[c].kind
                              /\ movements'[c].party \subseteq movements[c].party
                              /\ RoadOK(movements'[c], ClientOf[c])
  BY <1>1, <1>2 DEF Bury
<1>4. /\ raids' \in [Contracts -> RaidRecords]
      /\ \A c \in Contracts : raids'[c].party \subseteq raids[c].party
  <2>1. \A c \in Contracts :
           LET row == [raids[c] EXCEPT !.party = @ \ fallen]
           IN  row \in RaidRecords /\ row.party \subseteq raids[c].party
    BY <1>1 DEF RaidRecords
  <2> QED  BY <2>1 DEF Bury
<1>5. /\ contract' \in [Contracts -> ContractRecords]
      /\ \A c \in Contracts :
             contract'[c].status = "in_progress" <=> contract[c].status = "in_progress"
  <2>1. \A c \in Contracts :
           LET row == [contract[c] EXCEPT !.principals = @ \ fallen]
           IN  row \in ContractRecords /\ row.status = contract[c].status
    BY <1>1 DEF ContractRecords
  <2>2. Popped \in ContractRecords /\ Popped.status = "popped"
    BY DEF Popped, ContractRecords
  <2>3. \A c \in Contracts : Impossible(c, fallen) => contract[c].status # "in_progress"
    BY DEF Impossible, Open
  <2> QED  BY <2>1, <2>2, <2>3 DEF Bury
<1>6. SeatsApart'
  BY <1>3, <1>4 DEF EscortInv, SeatsApart
<1>7. PerformanceHasOwner'
  BY <1>3, <1>5 DEF EscortInv, PerformanceHasOwner
<1> QED  BY <1>3, <1>4, <1>5, <1>6, <1>7 DEF EscortInv, EscortShape

\* The outcome of a contact's fight: it holds nobody any more.
LEMMA CombatResolvedWrites ==
    ASSUME EscortInv, NEW c \in Contracts, CombatResolved(c)
    PROVE  /\ \E fallen \in SUBSET People : Bury(fallen)
           /\ contacts' \in [Contracts -> ContactRecords] /\ ~Fighting(c)'
           /\ \A d \in Contracts : d # c => contacts'[d] = contacts[d]
<1>1. PICK winner \in {"side_a", "side_b", "draw"},
           fallen \in SUBSET (movements[c].party \cup contacts[c].band) :
         /\ Bury(fallen)
         /\ contacts' = [contacts EXCEPT ![c] = [band |-> @.band \ fallen, winner |-> winner]]
  BY DEF CombatResolved
<1>2. /\ contacts \in [Contracts -> ContactRecords] /\ contacts[c].band \subseteq Raiders
      /\ movements[c].party \subseteq People
  BY ThisRoad DEF Movements
<1>3. fallen \in SUBSET People
  BY <1>2 DEF People
<1> DEFINE row == [band |-> contacts[c].band \ fallen, winner |-> winner]
<1>4. row \in ContactRecords /\ row.winner # "nobody"
  BY <1>2 DEF ContactRecords
<1>5. contacts' = [contacts EXCEPT ![c] = row]
  BY <1>1
<1> HIDE DEF row
<1>6. /\ contacts' \in [Contracts -> ContactRecords] /\ contacts'[c].winner # "nobody"
      /\ \A d \in Contracts : d # c => contacts'[d] = contacts[d]
  BY <1>2, <1>4, <1>5
<1> QED  BY <1>1, <1>3, <1>6 DEF Fighting

\* The outcome of a contact's fight keeps the escorts' invariant.
LEMMA CombatResolvedStep ==
    ASSUME EscortInv, NEW c \in Contracts, CombatResolved(c) PROVE EscortInv'
<1>1. \A d \in Contracts : Held(d)' \subseteq Held(d)
  <2>1. Held(c)' = {}
    BY CombatResolvedWrites DEF Held
  <2>2. \A d \in Contracts : d # c => Held(d)' = Held(d)
    BY CombatResolvedWrites, HeldKept
  <2> QED  BY <2>1, <2>2
<1> QED  BY <1>1, CombatResolvedWrites, BuryKeeps

\* What a death anywhere does to the contacts.
LEMMA DieWrites ==
    ASSUME EscortInv, NEW p \in People, Die(p)
    PROVE  /\ \E fallen \in SUBSET People : Bury(fallen)
           /\ contacts' \in [Contracts -> ContactRecords]
           /\ \A c \in Contracts : Held(c)' \subseteq Held(c) /\ Fighting(c)' = Fighting(c)
<1>1. /\ Bury({p}) /\ {p} \in SUBSET People
      /\ contacts' = [c \in Contracts |-> [contacts[c] EXCEPT !.band = @ \ {p}]]
  BY DEF Die
<1>2. contacts \in [Contracts -> ContactRecords]
  BY DEF EscortInv, EscortShape
<1>3. \A c \in Contracts :
         LET row == [contacts[c] EXCEPT !.band = @ \ {p}]
         IN  /\ row \in ContactRecords /\ row.band \subseteq contacts[c].band
             /\ row.winner = contacts[c].winner
  BY <1>2 DEF ContactRecords
<1>4. /\ contacts' \in [Contracts -> ContactRecords]
      /\ \A c \in Contracts : /\ contacts'[c].band \subseteq contacts[c].band
                              /\ contacts'[c].winner = contacts[c].winner
  BY <1>1, <1>3
<1> QED  BY <1>1, <1>4 DEF Held, Fighting

\* A death anywhere keeps the escorts' invariant.
LEMMA DieStep == ASSUME EscortInv, NEW p \in People, Die(p) PROVE EscortInv'
BY DieWrites, BuryKeeps

-----------------------------------------------------------------------------
(* The player's fights.                                                    *)

\* One party moves, and nothing of its is pending afterwards.
LEMMA FightsKept ==
    ASSUME FightsInv, NEW c \in Contracts, ~Pending(c)',
           \A d \in Contracts : d # c =>
               movements'[d] = movements[d] /\ contacts'[d] = contacts[d],
           Player \in dead' <=> Player \in dead,
           Player \in movements'[c].party => Player \notin dead
    PROVE  FightsInv'
BY DEF FightsInv, Pending, Fighting

\* Nothing moves that the fights depend on.
LEMMA FightsIdle ==
    ASSUME FightsInv, UNCHANGED <<movements, contacts, dead>> PROVE FightsInv'
BY DEF FightsInv, Pending, Fighting

\* A closing settles what was pending.
LEMMA ClosedFights ==
    ASSUME EscortInv, FightsInv, NEW c \in Contracts, NEW m \in Movements,
           RoadOK(m, ClientOf[c]), m.party \subseteq movements[c].party,
           NEW success, NEW control, NEW seized, CloseEscort(c, m, success, control, seized),
           Player \in dead' <=> Player \in dead
    PROVE  FightsInv'
<1>1. PICK n \in Movements :
            /\ movements' = [movements EXCEPT ![c] = n]
            /\ n.kind # "escort_contract" /\ n.party \subseteq m.party
            /\ RoadOK(n, ClientOf[c])
  BY Closed
<1>2. \/ contacts' = [contacts EXCEPT ![c] = NoContact]
      \/ contacts' = [contacts EXCEPT ![c].winner = "none"]
  BY Closed
<1>3. /\ contacts \in [Contracts -> ContactRecords] /\ movements \in [Contracts -> Movements]
  BY DEF EscortInv, EscortShape
<1>4. /\ contacts'[c].winner = "none"
      /\ \A d \in Contracts : d # c => contacts'[d] = contacts[d]
  BY <1>2, <1>3 DEF NoContact, ContactRecords
<1>5. /\ movements'[c] = n /\ \A d \in Contracts : d # c => movements'[d] = movements[d]
  BY <1>1, <1>3
<1>6. n.status # "contact_pending"
  BY <1>1 DEF RoadOK
<1>7. ~Pending(c)'
  BY <1>4, <1>5, <1>6 DEF Pending, Fighting
<1>8. Player \in movements'[c].party => Player \notin dead
  BY <1>1, <1>5 DEF FightsInv
<1> QED  BY <1>4, <1>5, <1>7, <1>8, FightsKept

\* A party on its way that stops, arrives or goes on has no fight pending.
LEMMA OnwardFights ==
    ASSUME EscortInv, FightsInv, NEW c \in Contracts, NEW n \in Movements,
           movements' = [movements EXCEPT ![c] = n], contacts' = contacts,
           n.status # "contact_pending", n.party \subseteq movements[c].party,
           movements[c].status \notin {"contact_pending", "party_extinguished"},
           Player \in dead' <=> Player \in dead
    PROVE  FightsInv'
<1>1. movements'[c] = n /\ \A d \in Contracts : d # c => movements'[d] = movements[d]
  BY DEF EscortInv, EscortShape
<1>2. ~Fighting(c)
  BY DEF FightsInv
<1>3. ~Pending(c)'
  BY <1>1, <1>2 DEF Pending, Fighting
<1>4. Player \in movements'[c].party => Player \notin dead
  BY <1>1 DEF FightsInv
<1> QED  BY <1>1, <1>3, <1>4, FightsKept

\* The end of a road, for a party that was on its way.
LEMMA EndOfRoadFights ==
    ASSUME EscortInv, FightsInv, NEW c \in Contracts, NEW m \in Movements,
           RoadOK(m, ClientOf[c]), m.party \subseteq movements[c].party,
           OnRoadStatus(movements[c]), EndOfRoad(c, m), Player \in dead' <=> Player \in dead
    PROVE  FightsInv'
<1>1. CASE StopOver(c, m)
  <2>1. PICK n : n = Stopped(m)
    OBVIOUS
  <2>2. movements' = [movements EXCEPT ![c] = n] /\ contacts' = contacts
    BY <1>1, <2>1 DEF StopOver, Stopped
  <2>3. n \in Movements /\ n.status # "contact_pending" /\ n.party \subseteq movements[c].party
    BY <2>1, StoppedIsOK
  <2>4. movements[c].status \notin {"contact_pending", "party_extinguished"}
    BY DEF OnRoadStatus
  <2> QED  BY <2>2, <2>3, <2>4, OnwardFights
<1>2. CASE CloseEscort(c, m, TRUE, FALSE, FALSE)
  BY <1>2, ClosedFights
<1> QED  BY <1>1, <1>2 DEF EndOfRoad

\* The handlers of one road that is served.
LEMMA ServiceFights ==
    ASSUME EscortInv, FightsInv, NEW c \in Contracts, RouteService(c) PROVE FightsInv'
<1>1. /\ movements \in [Contracts -> Movements] /\ movements[c] \in Movements
      /\ RoadOK(movements[c], ClientOf[c])
  BY DEF EscortInv, EscortShape
<1>2. CASE Arrive(c)
  BY <1>1, <1>2, EndOfRoadFights DEF Arrive
<1>3. CASE RestEnds(c)
  <2>1. PICK n : n = [movements[c] EXCEPT !.status = movements[c].resume, !.resume = "none"]
    OBVIOUS
  <2>2. /\ n \in Movements /\ n.party = movements[c].party
        /\ n.status = movements[c].resume
    BY <1>1, <2>1 DEF Movements, Statuses
  <2>3. /\ movements' = [movements EXCEPT ![c] = n] /\ contacts' = contacts /\ dead' = dead
        /\ movements[c].status \notin {"contact_pending", "party_extinguished"}
    BY <1>1, <1>3, <2>1 DEF RestEnds
  <2>4. n.status # "contact_pending"
    BY <1>1, <2>2 DEF RoadOK
  <2> QED  BY <2>2, <2>3, <2>4, OnwardFights
<1>4. CASE RetryReturn(c)
  <2>1. PICK k : k = [movements[c] EXCEPT !.status = "returning"]
    OBVIOUS
  <2>2. k \in Movements /\ k.party = movements[c].party /\ k.status = "returning"
    BY <1>1, <2>1 DEF Movements, Statuses
  <2>3. PICK n : n = Compact(k)
    OBVIOUS
  <2>4. n \in Movements /\ n.party = movements[c].party /\ n.status = "returning"
    BY <2>2, <2>3, CompactKeeps
  <2>5. /\ movements' = [movements EXCEPT ![c] = n] /\ contacts' = contacts /\ dead' = dead
        /\ movements[c].status \notin {"contact_pending", "party_extinguished"}
    BY <1>1, <1>4, <2>1, <2>3 DEF RetryReturn
  <2> QED  BY <2>4, <2>5, OnwardFights
<1>5. CASE Extinguished(c)
  <2>1. dead' = dead
    BY <1>5 DEF Extinguished
  <2>2. CASE movements[c].kind = "escort_contract"
    BY <1>1, <1>5, <2>1, <2>2, ClosedFights DEF Extinguished
  <2>3. CASE movements[c].kind # "escort_contract"
    <3>1. movements' = [movements EXCEPT ![c] = NoMovement] /\ contacts' = contacts
      BY <1>5, <2>3 DEF Extinguished, OffRoad
    <3>2. /\ movements'[c] = NoMovement
          /\ \A d \in Contracts : d # c => movements'[d] = movements[d]
      BY <1>1, <3>1
    <3>3. ~Fighting(c)
      BY <2>3 DEF FightsInv
    <3>4. ~Pending(c)'
      BY <3>1, <3>2, <3>3 DEF Pending, Fighting, NoMovement
    <3>5. Player \notin movements'[c].party
      BY <3>2 DEF NoMovement
    <3> QED  BY <2>1, <3>1, <3>2, <3>4, <3>5, FightsKept
  <2> QED  BY <2>2, <2>3
<1>6. CASE RaidEnds(c)
  BY <1>6, FightsIdle DEF RaidEnds
<1> QED  BY <1>2, <1>3, <1>4, <1>5, <1>6 DEF RouteService

\* A convoy departs on a road that had none, with the living.
LEMMA DepartFights ==
    ASSUME EscortInv, FightsInv, NEW c \in Contracts, NEW holder \in {"house", "guild"},
           NEW party \in SUBSET (House \cup Guildsmen), Player \notin dead \cap party,
           contract[c].status # "in_progress", Depart(c, holder, party)
    PROVE  FightsInv'
<1>1. /\ movements' = [movements EXCEPT ![c] = Convoy(c, party)] /\ contacts' = contacts
      /\ dead' = dead
  BY DepartWrites DEF Depart
<1>2. /\ movements'[c] = Convoy(c, party)
      /\ \A d \in Contracts : d # c => movements'[d] = movements[d]
  BY <1>1 DEF EscortInv, EscortShape
<1>3. Convoy(c, party).party = party \cup ClientOf[c] /\ Convoy(c, party).status = "active"
  BY ConvoyIsOK
<1>4. Player \notin ClientOf[c]
  BY EscortAssumption DEF House
<1>5. ~Fighting(c)
  BY DEF FightsInv, EscortInv, PerformanceHasOwner
<1>6. ~Pending(c)'
  BY <1>1, <1>2, <1>3, <1>5 DEF Pending, Fighting
<1> QED  BY <1>1, <1>2, <1>3, <1>4, <1>6, FightsKept

\* A fight without the player.
LEMMA InterceptionFights ==
    ASSUME EscortInv, FightsInv, NEW c \in Contracts, Interception(c) PROVE FightsInv'
<1>1. PICK m : m = movements[c]
  OBVIOUS
<1>2. PICK band \in FreeBand, lost \in BOOLEAN : \E fallen \in SUBSET (m.party \cup band) :
         /\ Cardinality(dead \cup fallen) <= MaxDeaths
         /\ LET hurt == m.party \cap fallen
                after == IF hurt = {} THEN m
                         ELSE [m EXCEPT !.party = @ \ hurt, !.escorts = Fighters(m) \ hurt]
                control == lost \/ Fighters(after) = {}
            IN  AfterFight(c, after, band \ fallen, control,
                           control \/ m.clients \cap fallen # {})
         /\ dead' = dead \cup fallen
  BY <1>1 DEF Interception
<1>3. PICK fallen \in SUBSET (m.party \cup band) :
         /\ LET hurt == m.party \cap fallen
                after == IF hurt = {} THEN m
                         ELSE [m EXCEPT !.party = @ \ hurt, !.escorts = Fighters(m) \ hurt]
                control == lost \/ Fighters(after) = {}
            IN  AfterFight(c, after, band \ fallen, control,
                           control \/ m.clients \cap fallen # {})
         /\ dead' = dead \cup fallen
  BY <1>2
<1> DEFINE hurt == m.party \cap fallen
           survivors == [m EXCEPT !.party = @ \ hurt, !.escorts = Fighters(m) \ hurt]
           rest == IF hurt = {} THEN m ELSE survivors
<1>4. PICK after, control : /\ after = rest
                            /\ AfterFight(c, after, band \ fallen, control,
                                          control \/ m.clients \cap fallen # {})
  BY <1>3
<1>5. /\ m \in Movements /\ RoadOK(m, ClientOf[c]) /\ Player \notin m.party
      /\ OnRoadStatus(m)
  BY <1>1, ThisRoad DEF Interception
<1>6. /\ after \in Movements /\ RoadOK(after, ClientOf[c]) /\ after.status = m.status
      /\ after.party \subseteq m.party
  <2>1. Fighters(m) \subseteq m.party
    BY <1>5 DEF Fighters, RoadOK
  <2>2. /\ survivors \in Movements /\ survivors.kind = m.kind /\ survivors.status = m.status
        /\ survivors.resume = m.resume /\ survivors.party = m.party \ hurt
        /\ survivors.escorts = Fighters(m) \ hurt
    <3>1. m.party \ hurt \in SUBSET People /\ Fighters(m) \ hurt \in SUBSET People
      BY <1>5, <2>1 DEF Movements
    <3> HIDE DEF hurt
    <3> QED  BY <1>5, <3>1 DEF Movements
  <2> HIDE DEF survivors, hurt
  <2>3. RoadOK(survivors, ClientOf[c])
    BY <1>5, <2>1, <2>2 DEF RoadOK, OnRoadStatus
  <2> QED  BY <1>4, <1>5, <2>2, <2>3
<1>7. Player \in dead' <=> Player \in dead
  <2>1. band \subseteq Raiders
    BY DEF FreeBand, Usable
  <2>2. Player \notin Raiders
    BY EscortAssumption DEF House
  <2> QED  BY <1>3, <1>5, <2>1, <2>2
<1>8. \/ CloseEscort(c, after, FALSE, control, control /\ Returns(band \ fallen))
      \/ EndOfRoad(c, after)
      \/ movements' = [movements EXCEPT ![c] = Compact(after)] /\ contacts' = contacts
  BY <1>4 DEF AfterFight
<1>9. CASE CloseEscort(c, after, FALSE, control, control /\ Returns(band \ fallen))
  <2>1. PICK seized : seized = (control /\ Returns(band \ fallen))
    OBVIOUS
  <2>2. CloseEscort(c, after, FALSE, control, seized)
    BY <1>9, <2>1
  <2> QED  BY <1>1, <1>6, <1>7, <2>2, ClosedFights
<1>10. CASE EndOfRoad(c, after)
  BY <1>1, <1>5, <1>6, <1>7, <1>10, EndOfRoadFights
<1>11. CASE movements' = [movements EXCEPT ![c] = Compact(after)] /\ contacts' = contacts
  <2>1. PICK n : n = Compact(after)
    OBVIOUS
  <2>2. /\ n \in Movements /\ n.party \subseteq movements[c].party
        /\ n.status # "contact_pending" /\ movements' = [movements EXCEPT ![c] = n]
    BY <1>1, <1>5, <1>6, <1>11, <2>1, CompactKeeps DEF OnRoadStatus
  <2>3. movements[c].status \notin {"contact_pending", "party_extinguished"}
    BY <1>1, <1>5 DEF OnRoadStatus
  <2> QED  BY <1>7, <1>11, <2>2, <2>3, OnwardFights
<1> QED  BY <1>8, <1>9, <1>10, <1>11

\* The living player meets raiders in one party, and no other party's fight is pending.
LEMMA PlayerContactFights ==
    ASSUME EscortInv, FightsInv, NEW c \in Contracts, PlayerContact(c) PROVE FightsInv'
<1> DEFINE n == [movements[c] EXCEPT !.status = "contact_pending"]
<1>1. /\ movements[c] \in Movements /\ RoadOK(movements[c], ClientOf[c])
      /\ movements \in [Contracts -> Movements] /\ contacts \in [Contracts -> ContactRecords]
      /\ Player \in movements[c].party /\ SeatsApart /\ dead' = dead
  BY ThisRoad DEF EscortInv, EscortShape, PlayerContact
<1>2. /\ n.kind = movements[c].kind /\ n.party = movements[c].party
      /\ n.escorts = movements[c].escorts /\ n.status = "contact_pending"
  BY <1>1 DEF Movements
<1>3. movements' = [movements EXCEPT ![c] = n]
  BY <1>1 DEF PlayerContact
<1> HIDE DEF n
<1>4. /\ movements'[c] = n /\ \A d \in Contracts : d # c => movements'[d] = movements[d]
      /\ \A d \in Contracts : d # c => contacts'[d] = contacts[d]
  BY <1>1, <1>3 DEF PlayerContact
<1>5. \A d \in Contracts : d # c => ~Pending(d)
  BY <1>1 DEF FightsInv, SeatsApart
<1>6. \A d \in Contracts : d # c => ~Pending(d)' /\ ~Fighting(d)'
  BY <1>4, <1>5 DEF Pending, Fighting
<1>7. \A d \in Contracts : Player \in movements'[d].party => Player \notin dead'
  BY <1>1, <1>2, <1>4 DEF FightsInv
<1>8. movements'[c].escorts = Unlisted /\ movements'[c].kind = "escort_contract"
  BY <1>1, <1>2, <1>4 DEF RoadOK
<1> QED  BY <1>1, <1>2, <1>4, <1>6, <1>7, <1>8 DEF FightsInv

\* The dead leave every party; a pending fight stays where it is, or is over.
LEMMA BuryFights ==
    ASSUME EscortInv, FightsInv, NEW fallen \in SUBSET People, Bury(fallen),
           \A c \in Contracts : Fighting(c)' => Fighting(c)
    PROVE  FightsInv'
<1>1. \A c \in Contracts : movements[c] \in Movements /\ RoadOK(movements[c], ClientOf[c])
  BY DEF EscortInv, EscortShape
<1>2. \A c \in Contracts :
         /\ movements'[c].kind = movements[c].kind
         /\ movements'[c].party = movements[c].party \ fallen
         /\ movements'[c].status = "contact_pending" => movements[c].status = "contact_pending"
         /\ movements[c].escorts = Unlisted =>
                /\ movements'[c].escorts = Unlisted
                /\ movements'[c].status \in {movements[c].status, "party_extinguished"}
  BY <1>1, PrunedKeeps DEF Bury
<1>3. dead' = dead \cup fallen
  BY DEF Bury
<1>4. \A c \in Contracts : Pending(c)' => Pending(c)
  BY <1>2 DEF Pending
<1>5. \A c \in Contracts :
         /\ Player \in movements'[c].party => Player \notin dead'
         /\ Pending(c)' => Player \in dead' \cup movements'[c].party
         /\ Fighting(c)' => /\ movements'[c].status \in {"contact_pending", "party_extinguished"}
                            /\ movements'[c].escorts = Unlisted
                            /\ movements'[c].kind = "escort_contract"
  BY <1>2, <1>3, <1>4 DEF FightsInv
<1>6. \A c, d \in Contracts : Pending(c)' /\ Pending(d)' => c = d
  BY <1>4 DEF FightsInv
<1> QED  BY <1>5, <1>6 DEF FightsInv

\* Every step keeps what is known of the player's fights.
LEMMA FightsStep == EscortInv /\ FightsInv /\ Next => FightsInv'
<1> SUFFICES ASSUME EscortInv, FightsInv, Next PROVE FightsInv'
  OBVIOUS
<1>1. CASE NextDay
  BY <1>1, FightsIdle DEF NextDay
<1>2. CASE \E c \in Contracts : Offer(c) \/ Accept(c)
  BY <1>2, FightsIdle DEF Offer, Accept
<1>3. CASE \E c \in Contracts : Start(c)
  <2>1. PICK c \in Contracts : Start(c)
    BY <1>3
  <2>2. PICK roster \in SUBSET (Usable(House) \ away) : Depart(c, "house", roster)
    BY <2>1 DEF Start
  <2>3. /\ roster \in SUBSET (House \cup Guildsmen) /\ Player \notin dead \cap roster
        /\ contract[c].status # "in_progress"
    BY <2>1 DEF Usable, Start
  <2> QED  BY <2>2, <2>3, DepartFights
<1>4. CASE \E c \in Contracts : NpcAcceptStart(c)
  <2>1. PICK c \in Contracts : NpcAcceptStart(c)
    BY <1>4
  <2>2. PICK crew \in SUBSET (Usable(Guildsmen) \ away) : Depart(c, "guild", crew)
    BY <2>1 DEF NpcAcceptStart
  <2>3. /\ crew \in SUBSET (House \cup Guildsmen) /\ Player \notin dead \cap crew
        /\ contract[c].status # "in_progress"
    BY <2>1 DEF Usable, NpcAcceptStart
  <2> QED  BY <2>2, <2>3, DepartFights
<1>5. CASE \E c \in Contracts : RouteService(c)
  BY <1>5, ServiceFights
<1>6. CASE \E c \in Contracts : Interception(c) \/ PlayerContact(c)
  BY <1>6, InterceptionFights, PlayerContactFights
<1>7. CASE \E c \in Contracts : CombatResolved(c)
  <2>1. PICK c \in Contracts : CombatResolved(c)
    BY <1>7
  <2>2. \A d \in Contracts : Fighting(d)' => Fighting(d)
    BY <2>1, CombatResolvedWrites DEF Fighting
  <2> QED  BY <2>1, <2>2, CombatResolvedWrites, BuryFights
<1>8. CASE \E c \in Contracts : CloseContact(c)
  <2>1. PICK c \in Contracts : CloseContact(c)
    BY <1>8
  <2>2. PICK m : m = movements[c]
    OBVIOUS
  <2>3. PICK success, control, seized : CloseEscort(c, m, success, control, seized)
    BY <2>1, <2>2 DEF CloseContact
  <2>4. m \in Movements /\ RoadOK(m, ClientOf[c]) /\ dead' = dead
    BY <2>1, <2>2, ThisRoad DEF CloseContact
  <2> QED  BY <2>2, <2>3, <2>4, ClosedFights
<1>9. CASE \E p \in People : Die(p)
  BY <1>9, DieWrites, BuryFights
<1> QED  BY <1>1, <1>2, <1>3, <1>4, <1>5, <1>6, <1>7, <1>8, <1>9 DEF Next

-----------------------------------------------------------------------------
\* Convoys, contacts and raiders keep their people apart, and the index agrees with the
\* roads, for any commissions, groups and lengths of road.
THEOREM EscortInvariance == Spec => [](EscortInv /\ FightsInv)
<1>1. EscortInv /\ FightsInv /\ [Next]_vars => EscortInv' /\ FightsInv'
  <2> SUFFICES ASSUME EscortInv, FightsInv, [Next]_vars PROVE EscortInv' /\ FightsInv'
    OBVIOUS
  <2>1. CASE UNCHANGED vars
    <3>1. UNCHANGED <<contract, movements, contacts, raids, dead>>
      BY <2>1 DEF vars
    <3> QED  BY <3>1, FightsIdle
             DEF EscortInv, EscortShape, PerformanceHasOwner, SeatsApart, Held, Fighting
  <2>2. CASE Next
    BY <2>2, FightsStep, <2>2, NextDayStep, OfferStep, AcceptStep, StartStep, NpcAcceptStartStep, ArriveStep,
       RestEndsStep, RetryReturnStep, ExtinguishedStep, RaidEndsStep, InterceptionStep,
       PlayerContactStep, CombatResolvedStep, CloseContactStep, DieStep DEF Next, RouteService
  <2> QED  BY <2>1, <2>2
<1>2. Init => FightsInv
  BY DEF Init, FightsInv, Pending, Fighting, NoMovement, NoContact
<1> QED  BY <1>1, <1>2, InitialEscort, PTL DEF Spec

\* The index says "in progress" exactly of the commissions a convoy is on the road for
\* (jianghu_contracts.py:176-480, route_frontier.py's _close_escort): a death, a fight or
\* a deadline never leaves one without the other.
THEOREM PerformanceIsOwned == Spec => []PerformanceHasOwner
<1>1. EscortInv => PerformanceHasOwner
  BY DEF EscortInv
<1> QED  BY <1>1, EscortInvariance, PTL

\* Nobody is in two convoys, two bands or both (occupancy.py refuses the whole state
\* otherwise, and with it every later command).
THEOREM NobodyTravelsTwice == Spec => []NobodyOnTwoRoads
<1>1. EscortInv => NobodyOnTwoRoads
  <2> SUFFICES ASSUME SeatsApart PROVE NobodyOnTwoRoads
    BY DEF EscortInv
  <2> DEFINE seats == {<<c, "escort">> : c \in Contracts} \cup {<<c, "contact">> : c \in Contracts}
                         \cup {<<c, "raid">> : c \in Contracts}
             seated(s) == CASE s[2] = "escort" -> movements[s[1]].party
                            [] s[2] = "contact" -> Held(s[1])
                            [] s[2] = "raid" -> raids[s[1]].party
  <2>1. \A s \in seats : \E c \in Contracts :
            \/ s = <<c, "escort">> /\ seated(s) = movements[c].party
            \/ s = <<c, "contact">> /\ seated(s) = Held(c)
            \/ s = <<c, "raid">> /\ seated(s) = raids[c].party
    OBVIOUS
  <2>2. \A s, t \in seats : s # t => seated(s) \cap seated(t) = {}
    <3> SUFFICES ASSUME NEW s \in seats, NEW t \in seats, s # t
                 PROVE  seated(s) \cap seated(t) = {}
      OBVIOUS
    <3> HIDE DEF seats, seated
    <3>1. PICK c \in Contracts :
            \/ s = <<c, "escort">> /\ seated(s) = movements[c].party
            \/ s = <<c, "contact">> /\ seated(s) = Held(c)
            \/ s = <<c, "raid">> /\ seated(s) = raids[c].party
      BY <2>1
    <3>2. PICK d \in Contracts :
            \/ t = <<d, "escort">> /\ seated(t) = movements[d].party
            \/ t = <<d, "contact">> /\ seated(t) = Held(d)
            \/ t = <<d, "raid">> /\ seated(t) = raids[d].party
      BY <2>1
    <3> QED  BY <3>1, <3>2 DEF SeatsApart
  <2> QED  BY <2>2 DEF NobodyOnTwoRoads
<1> QED  BY <1>1, EscortInvariance, PTL

-----------------------------------------------------------------------------
(* Silver and goods.                                                       *)

Purses == {"source", "destination", "house", "guild"}
Stores == {"source", "destination", "camp"}

\* What one commission holds is settled with it: a row that left the index holds no
\* escrow, a row in progress has a holder to pay, only a convoy on its way out and
\* raiders on their way home carry goods, and a convoy that waits for the player's
\* fight has no raiders on their way home, whose goods the new raiders would replace.
RowOK(row, m, raid) ==
    /\ row.status \in {"unoffered", "popped"} => row.escrow = 0
    /\ row.status = "in_progress" => row.holder # "nobody"
    /\ m.kind # "escort_contract" => m.goods = 0
    /\ ~raid.on => raid.goods = 0
    /\ m.status = "contact_pending" => ~raid.on

Accounts ==
    /\ cash \in [Purses -> Int] /\ stock \in [Stores -> Int]
    /\ \A c \in Contracts : RowOK(contract[c], movements[c], raids[c])

AccountInv == EscortInv /\ Accounts /\ CashIsConserved /\ GoodsAreConserved

\* The purses, the stores and the contracts are finitely many.
LEMMA FinitePlaces == IsFiniteSet(Purses) /\ IsFiniteSet(Stores) /\ IsFiniteSet(Contracts)
<1>1. \A x, y : IsFiniteSet({x} \cup {y})
  BY FS_Singleton, FS_Union
<1>2. \A x, y, z : IsFiniteSet(({x} \cup {y}) \cup {z})
  BY <1>1, FS_Singleton, FS_Union
<1>3. \A w, x, y, z : IsFiniteSet((({w} \cup {x}) \cup {y}) \cup {z})
  BY <1>2, FS_Singleton, FS_Union
<1>4. /\ Purses = (({"source"} \cup {"destination"}) \cup {"house"}) \cup {"guild"}
      /\ Stores = ({"source"} \cup {"destination"}) \cup {"camp"}
  BY DEF Purses, Stores
<1>5. PICK p, s : p = Purses /\ s = Stores
  OBVIOUS
<1>6. IsFiniteSet(p) /\ IsFiniteSet(s)
  BY <1>2, <1>3, <1>4, <1>5
<1> QED  BY <1>5, <1>6, EscortAssumption

\* What the open commissions hold, as functions to sum over.
Escrows == [c \in Contracts |-> contract[c].escrow]
Lots == [c \in Contracts |-> movements[c].goods + raids[c].goods]

\* The escrows and the lots of the contracts are whole numbers.
LEMMA HoldingsType ==
    ASSUME EscortInv
    PROVE  Escrows \in [Contracts -> Int] /\ Lots \in [Contracts -> Int]
BY DEF EscortInv, EscortShape, ContractRecords, Movements, RaidRecords, Escrows, Lots

\* The accounts are even at first.
LEMMA InitialAccounts == Init => AccountInv
<1> SUFFICES ASSUME Init PROVE AccountInv
  OBVIOUS
<1>1. EscortInv
  BY InitialEscort
<1>2. /\ cash \in [Purses -> Int] /\ cash["source"] = InitialCash
      /\ \A x \in Purses \ {"source"} : cash[x] = 0
  <2>1. InitialCash \in Int
    BY EscortAssumption
  <2> QED  BY <2>1 DEF Init, Purses
<1>3. /\ stock \in [Stores -> Int] /\ stock["source"] = InitialStock
      /\ \A x \in Stores \ {"source"} : stock[x] = 0
  <2>1. InitialStock \in Int
    BY EscortAssumption
  <2> QED  BY <2>1 DEF Init, Stores
<1>4. \A c \in Contracts : /\ contract[c].escrow = 0 /\ movements[c].goods = 0
                           /\ raids[c].goods = 0 /\ RowOK(contract[c], movements[c], raids[c])
  BY DEF Init, Unoffered, Popped, NoMovement, NoRaid, RowOK
<1>5. SumFunction(cash) = InitialCash /\ SumFunction(stock) = InitialStock
  <2>1. "source" \in Purses /\ "source" \in Stores
    BY DEF Purses, Stores
  <2>2. SumFunction(cash) = cash["source"]
    BY <1>2, <2>1, FinitePlaces, SumSingle
  <2>3. SumFunction(stock) = stock["source"]
    BY <1>3, <2>1, FinitePlaces, SumSingle
  <2> QED  BY <1>2, <1>3, <2>2, <2>3
<1>6. SumFunction(Escrows) = 0 /\ SumFunction(Lots) = 0
  <2>1. \A f \in [Contracts -> Int] : (\A c \in Contracts : f[c] = 0) => SumFunction(f) = 0
    <3> SUFFICES ASSUME NEW f \in [Contracts -> Int], \A c \in Contracts : f[c] = 0
                 PROVE  SumFunction(f) = 0
      OBVIOUS
    <3>1. {} \subseteq Contracts /\ \A c \in Contracts : f[c] = IF c \in {} THEN 1 ELSE 0
      OBVIOUS
    <3> QED  BY <3>1, FinitePlaces, SumCounts, FS_EmptySet
  <2>2. /\ \A c \in Contracts : Escrows[c] = 0
        /\ \A c \in Contracts : Lots[c] = 0
    BY <1>4 DEF Escrows, Lots
  <2> QED  BY <1>1, <2>1, <2>2, HoldingsType
<1>7. CashIsConserved /\ GoodsAreConserved
  <2>1. InitialCash \in Int /\ InitialStock \in Int
    BY EscortAssumption
  <2> QED  BY <1>5, <1>6, <2>1 DEF CashIsConserved, GoodsAreConserved, Escrows, Lots
<1> QED  BY <1>1, <1>2, <1>3, <1>4, <1>7 DEF AccountInv, Accounts

\* A step that changes one commission, and moves what it gains or loses.
LEMMA OneAccount ==
    ASSUME AccountInv, EscortInv', NEW c \in Contracts,
           cash' \in [Purses -> Int], stock' \in [Stores -> Int],
           \A d \in Contracts : d # c => /\ contract'[d] = contract[d]
                                         /\ movements'[d] = movements[d] /\ raids'[d] = raids[d],
           RowOK(contract'[c], movements'[c], raids'[c]),
           SumFunction(cash') + contract'[c].escrow = SumFunction(cash) + contract[c].escrow,
           SumFunction(stock') + (movements'[c].goods + raids'[c].goods) =
               SumFunction(stock) + (movements[c].goods + raids[c].goods)
    PROVE  AccountInv'
<1>1. /\ Escrows \in [Contracts -> Int] /\ Lots \in [Contracts -> Int]
      /\ Escrows' \in [Contracts -> Int] /\ Lots' \in [Contracts -> Int]
  <2>1. EscortInv
    BY DEF AccountInv
  <2>2. Escrows \in [Contracts -> Int] /\ Lots \in [Contracts -> Int]
    BY <2>1, HoldingsType
  <2>3. Escrows' \in [Contracts -> Int] /\ Lots' \in [Contracts -> Int]
    BY DEF EscortInv, EscortShape, ContractRecords, Movements, RaidRecords, Escrows, Lots
  <2> QED  BY <2>2, <2>3
<1>2. /\ Escrows[c] = contract[c].escrow /\ Escrows'[c] = contract'[c].escrow
      /\ Lots[c] = movements[c].goods + raids[c].goods
      /\ Lots'[c] = movements'[c].goods + raids'[c].goods
      /\ \A d \in Contracts \ {c} : Escrows'[d] = Escrows[d]
      /\ \A d \in Contracts \ {c} : Lots'[d] = Lots[d]
  BY DEF Escrows, Lots
<1>3. /\ SumFunction(Escrows') = SumFunction(Escrows) - Escrows[c] + Escrows'[c]
      /\ SumFunction(Lots') = SumFunction(Lots) - Lots[c] + Lots'[c]
  <2>1. PICK f, g : f = Escrows /\ g = Escrows'
    OBVIOUS
  <2>2. PICK u, v : u = Lots /\ v = Lots'
    OBVIOUS
  <2>3. SumFunction(g) = SumFunction(f) - f[c] + g[c]
    BY <1>1, <1>2, <2>1, FinitePlaces, SumUpdate
  <2>4. SumFunction(v) = SumFunction(u) - u[c] + v[c]
    BY <1>1, <1>2, <2>2, FinitePlaces, SumUpdate
  <2> QED  BY <2>1, <2>2, <2>3, <2>4
<1>4. /\ SumFunction(cash) \in Int /\ SumFunction(stock) \in Int
      /\ SumFunction(cash') \in Int /\ SumFunction(stock') \in Int
      /\ SumFunction(Escrows) \in Int /\ SumFunction(Lots) \in Int
  BY <1>1, FinitePlaces, SumType DEF AccountInv, Accounts
<1>5. /\ SumFunction(cash) + SumFunction(Escrows) = InitialCash
      /\ SumFunction(stock) + SumFunction(Lots) = InitialStock
  BY DEF AccountInv, CashIsConserved, GoodsAreConserved, Escrows, Lots
<1>6. /\ Escrows[c] \in Int /\ Escrows'[c] \in Int /\ Lots[c] \in Int /\ Lots'[c] \in Int
  BY <1>1
<1>7. /\ SumFunction(cash') + Escrows'[c] = SumFunction(cash) + Escrows[c]
      /\ SumFunction(stock') + Lots'[c] = SumFunction(stock) + Lots[c]
  BY <1>2
<1>8. SumFunction(Escrows') \in Int /\ SumFunction(Lots') \in Int
  BY <1>1, FinitePlaces, SumType
<1>9. /\ SumFunction(cash') + SumFunction(Escrows') = InitialCash
      /\ SumFunction(stock') + SumFunction(Lots') = InitialStock
  <2>1. \A s, t, e, f, x, y, k \in Int :
           f = e - x + y /\ s + e = k /\ t + y = s + x => t + f = k
    OBVIOUS
  <2>2. InitialCash \in Int /\ InitialStock \in Int
    BY EscortAssumption
  <2>3. PICK s, t, e, f, x, y :
           /\ s = SumFunction(cash) /\ t = SumFunction(cash') /\ e = SumFunction(Escrows)
           /\ f = SumFunction(Escrows') /\ x = Escrows[c] /\ y = Escrows'[c]
    OBVIOUS
  <2>4. t + f = InitialCash
    <3>1. s \in Int /\ t \in Int /\ e \in Int /\ f \in Int /\ x \in Int /\ y \in Int
      BY <1>4, <1>6, <1>8, <2>3
    <3>2. f = e - x + y /\ s + e = InitialCash /\ t + y = s + x
      BY <1>3, <1>5, <1>7, <2>3
    <3> QED  BY <2>1, <2>2, <3>1, <3>2
  <2>5. PICK p, q, g, h, v, w :
           /\ p = SumFunction(stock) /\ q = SumFunction(stock') /\ g = SumFunction(Lots)
           /\ h = SumFunction(Lots') /\ v = Lots[c] /\ w = Lots'[c]
    OBVIOUS
  <2>6. q + h = InitialStock
    <3>1. p \in Int /\ q \in Int /\ g \in Int /\ h \in Int /\ v \in Int /\ w \in Int
      BY <1>4, <1>6, <1>8, <2>5
    <3>2. h = g - v + w /\ p + g = InitialStock /\ q + w = p + v
      BY <1>3, <1>5, <1>7, <2>5
    <3> QED  BY <2>1, <2>2, <3>1, <3>2
  <2> QED  BY <2>3, <2>4, <2>5, <2>6
<1>10. CashIsConserved' /\ GoodsAreConserved'
  BY <1>9 DEF CashIsConserved, GoodsAreConserved, Escrows, Lots
<1>11. Accounts'
  BY DEF AccountInv, Accounts
<1> QED  BY <1>10, <1>11 DEF AccountInv

\* The facts of one commission's accounts.
LEMMA ThisAccount ==
    ASSUME AccountInv, NEW c \in Contracts
    PROVE  /\ EscortInv /\ cash \in [Purses -> Int] /\ stock \in [Stores -> Int]
           /\ RowOK(contract[c], movements[c], raids[c])
           /\ contract \in [Contracts -> ContractRecords] /\ movements \in [Contracts -> Movements]
           /\ raids \in [Contracts -> RaidRecords]
           /\ contract[c].escrow \in Int /\ movements[c].goods \in Int /\ raids[c].goods \in Int
           /\ SumFunction(cash) \in Int /\ SumFunction(stock) \in Int
<1>1. /\ EscortInv /\ cash \in [Purses -> Int] /\ stock \in [Stores -> Int]
      /\ RowOK(contract[c], movements[c], raids[c])
  BY DEF AccountInv, Accounts
<1>2. /\ contract \in [Contracts -> ContractRecords] /\ movements \in [Contracts -> Movements]
      /\ raids \in [Contracts -> RaidRecords]
  BY <1>1 DEF EscortInv, EscortShape
<1>3. contract[c].escrow \in Int /\ movements[c].goods \in Int /\ raids[c].goods \in Int
  BY <1>2 DEF ContractRecords, Movements, RaidRecords
<1>4. SumFunction(cash) \in Int /\ SumFunction(stock) \in Int
  BY <1>1, FinitePlaces, SumType
<1> QED  BY <1>1, <1>2, <1>3, <1>4

\* Where silver and goods of a contract can be, and that its amounts are whole numbers.
LEMMA Places ==
    /\ "source" \in Purses /\ "destination" \in Purses /\ "house" \in Purses /\ "guild" \in Purses
    /\ "source" \in Stores /\ "destination" \in Stores /\ "camp" \in Stores
    /\ Reward \in Int /\ Toll \in Int /\ Lodging \in Int
    /\ \A c \in Contracts : Goods[c] \in Int
  BY EscortAssumption DEF Purses, Stores

\* One purse, one store, or two purses change.
LEMMA CashAtOne ==
    ASSUME cash \in [Purses -> Int], cash' \in [Purses -> Int], NEW x \in Purses,
           \A y \in Purses \ {x} : cash'[y] = cash[y]
    PROVE  SumFunction(cash') = SumFunction(cash) - cash[x] + cash'[x]
<1>1. PICK f, g : f = cash /\ g = cash'
  OBVIOUS
<1>2. SumFunction(g) = SumFunction(f) - f[x] + g[x]
  BY <1>1, FinitePlaces, SumUpdate
<1> QED  BY <1>1, <1>2

\* A change of one store changes the sum of the stores by as much.
LEMMA StockAtOne ==
    ASSUME stock \in [Stores -> Int], stock' \in [Stores -> Int], NEW x \in Stores,
           \A y \in Stores \ {x} : stock'[y] = stock[y]
    PROVE  SumFunction(stock') = SumFunction(stock) - stock[x] + stock'[x]
<1>1. PICK f, g : f = stock /\ g = stock'
  OBVIOUS
<1>2. SumFunction(g) = SumFunction(f) - f[x] + g[x]
  BY <1>1, FinitePlaces, SumUpdate
<1> QED  BY <1>1, <1>2

\* A change of two purses changes the sum of the purses by both.
LEMMA CashAtTwo ==
    ASSUME cash \in [Purses -> Int], cash' \in [Purses -> Int], NEW x \in Purses, NEW z \in Purses,
           x # z, \A y \in Purses \ {x, z} : cash'[y] = cash[y]
    PROVE  SumFunction(cash') = SumFunction(cash) - cash[x] + cash'[x] - cash[z] + cash'[z]
<1>1. PICK f, g : f = cash /\ g = cash'
  OBVIOUS
<1>2. SumFunction(g) = SumFunction(f) - f[x] + g[x] - f[z] + g[z]
  BY <1>1, FinitePlaces, SumTransfer
<1> QED  BY <1>1, <1>2

\* The reward leaves the market's purse for the escrow.
LEMMA OfferAccounts ==
    ASSUME AccountInv, EscortInv', NEW c \in Contracts, Offer(c) PROVE AccountInv'
<1>0. /\ EscortInv /\ cash \in [Purses -> Int] /\ stock \in [Stores -> Int]
      /\ RowOK(contract[c], movements[c], raids[c])
      /\ contract \in [Contracts -> ContractRecords]
      /\ contract[c].escrow \in Int /\ SumFunction(cash) \in Int /\ SumFunction(stock) \in Int
      /\ movements[c].goods \in Int /\ raids[c].goods \in Int
  BY ThisAccount
<1> DEFINE row == [Popped EXCEPT !.status = "offered", !.term = Term, !.escrow = Reward]
<1>1. /\ contract[c].status = "unoffered" /\ contract' = [contract EXCEPT ![c] = row]
      /\ cash' = [cash EXCEPT !["source"] = @ - Reward] /\ UNCHANGED <<movements, raids, stock>>
  BY DEF Offer
<1>2. row.status = "offered" /\ row.escrow = Reward
  BY DEF Popped
<1> HIDE DEF row
<1>3. contract'[c] = row /\ \A d \in Contracts : d # c => contract'[d] = contract[d]
  BY <1>0, <1>1
<1>4. RowOK(contract'[c], movements'[c], raids'[c]) /\ contract[c].escrow = 0
  BY <1>0, <1>1, <1>2, <1>3 DEF RowOK
<1>5. cash' \in [Purses -> Int] /\ SumFunction(cash') = SumFunction(cash) + (-Reward)
  <2>1. /\ cash' \in [Purses -> Int] /\ cash'["source"] = cash["source"] - Reward
        /\ \A x \in Purses \ {"source"} : cash'[x] = cash[x]
    BY <1>0, <1>1, Places
  <2>2. SumFunction(cash') = SumFunction(cash) - cash["source"] + cash'["source"]
    BY <1>0, <2>1, Places, CashAtOne
  <2> QED  BY <1>0, <2>1, <2>2, Places
<1>6. SumFunction(cash') + contract'[c].escrow = SumFunction(cash) + contract[c].escrow
  BY <1>0, <1>2, <1>3, <1>4, <1>5, Places
<1>7. /\ stock' \in [Stores -> Int]
      /\ \A d \in Contracts : d # c => /\ contract'[d] = contract[d]
                                       /\ movements'[d] = movements[d] /\ raids'[d] = raids[d]
      /\ SumFunction(stock') + (movements'[c].goods + raids'[c].goods) =
               SumFunction(stock) + (movements[c].goods + raids[c].goods)
  BY <1>0, <1>1, <1>3
<1> QED  BY <1>4, <1>5, <1>6, <1>7, OneAccount

\* Accepting a contract keeps the accounts even.
LEMMA AcceptAccounts ==
    ASSUME AccountInv, EscortInv', NEW c \in Contracts, Accept(c) PROVE AccountInv'
<1>0. /\ EscortInv /\ cash \in [Purses -> Int] /\ stock \in [Stores -> Int]
      /\ RowOK(contract[c], movements[c], raids[c])
      /\ contract \in [Contracts -> ContractRecords]
  BY ThisAccount
<1>1. PICK refs \in SUBSET Usable(House) :
         contract' = [contract EXCEPT ![c].status = "accepted", ![c].holder = "house",
                                      ![c].principals = refs]
  BY DEF Accept
<1> DEFINE row == [contract[c] EXCEPT !.status = "accepted", !.holder = "house",
                                      !.principals = refs]
<1>2. row.status = "accepted" /\ row.escrow = contract[c].escrow
  BY <1>0 DEF ContractRecords
<1>3. contract' = [contract EXCEPT ![c] = row]
  BY <1>0, <1>1
<1> HIDE DEF row
<1>4. /\ contract'[c] = row /\ UNCHANGED <<cash, stock, movements, raids>>
      /\ \A d \in Contracts : d # c => contract'[d] = contract[d]
  BY <1>0, <1>3 DEF Accept
<1>5. RowOK(contract'[c], movements'[c], raids'[c])
  BY <1>0, <1>2, <1>4 DEF RowOK
<1>6. /\ cash' \in [Purses -> Int] /\ stock' \in [Stores -> Int]
      /\ SumFunction(cash') + contract'[c].escrow = SumFunction(cash) + contract[c].escrow
      /\ SumFunction(stock') + (movements'[c].goods + raids'[c].goods) =
               SumFunction(stock) + (movements[c].goods + raids[c].goods)
      /\ \A d \in Contracts : d # c => /\ contract'[d] = contract[d]
                                       /\ movements'[d] = movements[d] /\ raids'[d] = raids[d]
  BY <1>0, <1>2, <1>4
<1> QED  BY <1>5, <1>6, OneAccount

\* The sweep gives back the escrow of every offer that lapsed, however many there are.
LEMMA NextDayAccounts ==
    ASSUME AccountInv, EscortInv', NextDay PROVE AccountInv'
<1> DEFINE swept == {c \in Contracts : FrontierDue /\ Lapsed(c)}
           refund == [c \in swept |-> contract[c].escrow]
           given == [c \in Contracts |-> IF c \in swept THEN contract[c].escrow ELSE 0]
<1>0. /\ EscortInv /\ Accounts /\ CashIsConserved /\ GoodsAreConserved
      /\ contract \in [Contracts -> ContractRecords]
  BY DEF AccountInv, EscortInv, EscortShape
<1>1. /\ UNCHANGED <<movements, raids, stock>>
      /\ contract' = [c \in Contracts |->
           IF c \in swept THEN Popped
           ELSE IF Open(c) /\ contract[c].term > 0 THEN [contract[c] EXCEPT !.term = @ - 1]
           ELSE contract[c]]
      /\ cash' = [cash EXCEPT !["source"] = @ + SumFunction(refund)]
  BY DEF NextDay
<1>2. /\ Popped.escrow = 0 /\ Popped.status = "popped"
      /\ \A c \in Contracts :
           LET row == [contract[c] EXCEPT !.term = @ - 1]
           IN  /\ row.escrow = contract[c].escrow /\ row.status = contract[c].status
               /\ row.holder = contract[c].holder
  BY <1>0 DEF Popped, ContractRecords
<1>3. /\ Escrows \in [Contracts -> Int] /\ swept \subseteq Contracts
      /\ given \in [Contracts -> Int] /\ refund \in [swept -> Int]
      /\ \A c \in swept : refund[c] = given[c]
      /\ \A c \in Contracts \ swept : given[c] = 0
  BY <1>0 DEF ContractRecords, Escrows
<1>4. \A c \in Contracts : /\ contract'[c].escrow = IF c \in swept THEN 0 ELSE contract[c].escrow
                           /\ contract'[c].status \in {contract[c].status, "popped"}
                           /\ contract'[c].status = "popped" =>
                                  contract'[c].escrow = 0 \/ contract[c].status = "popped"
                           /\ contract'[c].status # "popped" =>
                                  contract'[c].holder = contract[c].holder
  BY <1>1, <1>2
<1>5. /\ \A c \in Contracts : Escrows[c] = Escrows'[c] + given[c]
      /\ Escrows' \in [Contracts -> Int]
  BY <1>0, <1>3, <1>4 DEF Escrows, ContractRecords
<1> HIDE DEF swept, refund, given
<1>6. SumFunction(refund) = SumFunction(given)
  BY <1>3, FinitePlaces, SumWithin
<1>7. SumFunction(Escrows) = SumFunction(Escrows') + SumFunction(given)
  <2>1. PICK f, g : f = Escrows /\ g = Escrows'
    OBVIOUS
  <2>2. /\ f \in [Contracts -> Int] /\ g \in [Contracts -> Int]
        /\ \A c \in Contracts : f[c] = g[c] + given[c]
    BY <1>3, <1>5, <2>1
  <2>3. SumFunction(f) = SumFunction(g) + SumFunction(given)
    <3>1. \A a, b, h \in [Contracts -> Int] :
             (\A c \in Contracts : h[c] = a[c] + b[c]) =>
                 SumFunction(h) = SumFunction(a) + SumFunction(b)
      BY FinitePlaces, SumOfTwo
    <3> QED  BY <1>3, <2>2, <3>1
  <2> QED  BY <2>1, <2>3
<1>8. /\ SumFunction(given) \in Int /\ SumFunction(Escrows) \in Int
      /\ SumFunction(Escrows') \in Int /\ SumFunction(cash) \in Int
  BY <1>0, <1>3, <1>5, FinitePlaces, SumType DEF Accounts
<1>9. cash' \in [Purses -> Int] /\ SumFunction(cash') = SumFunction(cash) + SumFunction(given)
  <2>1. PICK q : q = SumFunction(given)
    OBVIOUS
  <2>2. /\ cash' = [cash EXCEPT !["source"] = @ + q] /\ q \in Int
        /\ cash \in [Purses -> Int] /\ cash["source"] \in Int
    BY <1>0, <1>1, <1>6, <1>8, <2>1, Places DEF Accounts
  <2>3. /\ cash' \in [Purses -> Int] /\ cash'["source"] = cash["source"] + q
        /\ \A x \in Purses \ {"source"} : cash'[x] = cash[x]
    BY <2>2, Places
  <2>4. SumFunction(cash') = SumFunction(cash) - cash["source"] + cash'["source"]
    BY <2>2, <2>3, Places, CashAtOne
  <2> QED  BY <1>8, <2>1, <2>2, <2>3, <2>4
<1>10. SumFunction(cash') + SumFunction(Escrows') = SumFunction(cash) + SumFunction(Escrows)
  BY <1>7, <1>8, <1>9
<1>11. CashIsConserved' /\ GoodsAreConserved'
  BY <1>0, <1>1, <1>10 DEF CashIsConserved, GoodsAreConserved, Escrows
<1>12. Accounts'
  BY <1>0, <1>1, <1>4, <1>9 DEF Accounts, RowOK
<1> QED  BY <1>11, <1>12 DEF AccountInv

\* What a lot is after the moves of a party: it stays with the party.
LEMMA CompactGoods ==
    ASSUME NEW m \in Movements
    PROVE  Compact(m).goods = m.goods /\ Compact(m).kind = m.kind /\ Compact(m).status = m.status
<1> DEFINE list == IF Controllers(m) = Potential(m) THEN Unlisted ELSE Controllers(m)
<1>1. Compact(m) = [m EXCEPT !.escorts = list]
  BY DEF Compact
<1> HIDE DEF list
<1> QED  BY <1>1 DEF Movements

\* A convoy sets out active, with all of its contract's goods.
LEMMA ConvoyGoods ==
    ASSUME NEW c \in Contracts, NEW party \in SUBSET (House \cup Guildsmen)
    PROVE  /\ Convoy(c, party).goods = Goods[c] /\ Convoy(c, party).status = "active"
           /\ Convoy(c, party).kind = "escort_contract"
<1> DEFINE m == [NoMovement EXCEPT !.kind = "escort_contract", !.status = "active",
                       !.party = party \cup ClientOf[c], !.escorts = party,
                       !.clients = ClientOf[c], !.legs = Legs, !.goods = Goods[c]]
<1>1. /\ Legs \in Int /\ Goods[c] \in Int /\ ClientOf[c] \in SUBSET Clients
      /\ party \cup ClientOf[c] \in SUBSET People /\ party \in SUBSET People
  BY EscortAssumption DEF People, House
<1>2. NoMovement \in Movements /\ "active" \in Statuses
  BY DEF NoMovement, Movements, Statuses
<1>3. m \in Movements /\ m.goods = Goods[c] /\ m.status = "active" /\ m.kind = "escort_contract"
  BY <1>1, <1>2 DEF Movements, NoMovement
<1>4. Compact(m) = Convoy(c, party)
  BY DEF Convoy
<1> HIDE DEF m
<1> QED  BY <1>3, <1>4, CompactGoods

\* The goods leave the market's store with the convoy.
LEMMA DepartAccounts ==
    ASSUME AccountInv, NEW c \in Contracts, NEW holder \in {"house", "guild"},
           NEW party \in SUBSET (House \cup Guildsmen), Depart(c, holder, party),
           contract[c].status \in {"offered", "accepted"}
    PROVE  /\ stock' \in [Stores -> Int]
           /\ \A d \in Contracts : d # c => /\ contract'[d] = contract[d]
                                            /\ movements'[d] = movements[d] /\ raids'[d] = raids[d]
           /\ RowOK(contract'[c], movements'[c], raids'[c])
           /\ contract'[c].escrow = contract[c].escrow
           /\ SumFunction(stock') + (movements'[c].goods + raids'[c].goods) =
                  SumFunction(stock) + (movements[c].goods + raids[c].goods)
<1>0. /\ EscortInv /\ cash \in [Purses -> Int] /\ stock \in [Stores -> Int]
      /\ RowOK(contract[c], movements[c], raids[c])
      /\ contract \in [Contracts -> ContractRecords] /\ movements \in [Contracts -> Movements]
      /\ contract[c].escrow \in Int /\ SumFunction(cash) \in Int /\ SumFunction(stock) \in Int
      /\ movements[c].goods \in Int /\ raids[c].goods \in Int
  BY ThisAccount
<1> DEFINE row == [contract[c] EXCEPT !.status = "in_progress", !.holder = holder,
                                      !.principals = {}]
<1>1. row.status = "in_progress" /\ row.escrow = contract[c].escrow /\ row.holder = holder
  BY <1>0 DEF ContractRecords
<1>2. contract' = [contract EXCEPT ![c] = row]
  BY <1>0 DEF Depart
<1> HIDE DEF row
<1>3. /\ UNCHANGED raids /\ movements' = [movements EXCEPT ![c] = Convoy(c, party)]
      /\ stock' = [stock EXCEPT !["source"] = @ - Goods[c]]
  BY DEF Depart, Convoy
<1>4. /\ contract'[c] = row /\ movements'[c] = Convoy(c, party) /\ raids' = raids
      /\ \A d \in Contracts : d # c => /\ contract'[d] = contract[d]
                                       /\ movements'[d] = movements[d] /\ raids'[d] = raids[d]
  BY <1>0, <1>2, <1>3
<1>5. /\ Convoy(c, party).goods = Goods[c] /\ Convoy(c, party).status = "active"
      /\ Convoy(c, party).kind = "escort_contract"
  BY ConvoyGoods
<1>6. RowOK(contract'[c], movements'[c], raids'[c])
  BY <1>0, <1>1, <1>4, <1>5 DEF RowOK
<1>7. movements[c].goods = 0
  BY <1>0 DEF EscortInv, PerformanceHasOwner, RowOK
<1>8. /\ stock' \in [Stores -> Int] /\ stock'["source"] = stock["source"] - Goods[c]
      /\ \A x \in Stores \ {"source"} : stock'[x] = stock[x]
  BY <1>0, <1>3, Places
<1>9. SumFunction(stock') = SumFunction(stock) - stock["source"] + stock'["source"]
  BY <1>0, <1>8, Places, StockAtOne
<1>10. SumFunction(stock') = SumFunction(stock) - Goods[c]
  BY <1>0, <1>8, <1>9, Places
<1>11. SumFunction(stock') + (movements'[c].goods + raids'[c].goods) =
                  SumFunction(stock) + (movements[c].goods + raids[c].goods)
  BY <1>0, <1>4, <1>5, <1>7, <1>10, Places
<1> QED  BY <1>1, <1>4, <1>6, <1>8, <1>11

\* The player house's departure keeps the accounts even.
LEMMA StartAccounts ==
    ASSUME AccountInv, EscortInv', NEW c \in Contracts, Start(c) PROVE AccountInv'
<1>1. PICK roster \in SUBSET (Usable(House) \ away) : Depart(c, "house", roster)
  BY DEF Start
<1>2. roster \in SUBSET (House \cup Guildsmen) /\ cash' = cash
      /\ contract[c].status \in {"offered", "accepted"}
  BY DEF Start, Usable
<1>3. /\ stock' \in [Stores -> Int]
      /\ \A d \in Contracts : d # c => /\ contract'[d] = contract[d]
                                       /\ movements'[d] = movements[d] /\ raids'[d] = raids[d]
      /\ RowOK(contract'[c], movements'[c], raids'[c])
      /\ contract'[c].escrow = contract[c].escrow
      /\ SumFunction(stock') + (movements'[c].goods + raids'[c].goods) =
                  SumFunction(stock) + (movements[c].goods + raids[c].goods)
  BY <1>1, <1>2, DepartAccounts
<1>4. /\ cash' \in [Purses -> Int]
      /\ SumFunction(cash') + contract'[c].escrow = SumFunction(cash) + contract[c].escrow
  BY <1>2, <1>3, ThisAccount
<1> QED  BY <1>3, <1>4, OneAccount

\* Another house's departure keeps the accounts even.
LEMMA NpcAcceptStartAccounts ==
    ASSUME AccountInv, EscortInv', NEW c \in Contracts, NpcAcceptStart(c) PROVE AccountInv'
<1>1. PICK crew \in SUBSET (Usable(Guildsmen) \ away) : Depart(c, "guild", crew)
  BY DEF NpcAcceptStart
<1>2. crew \in SUBSET (House \cup Guildsmen) /\ contract[c].status \in {"offered", "accepted"}
      /\ cash' = [cash EXCEPT !["source"] = @ - Toll, !["destination"] = @ + Toll]
  BY DEF NpcAcceptStart, Usable
<1>3. /\ stock' \in [Stores -> Int]
      /\ \A d \in Contracts : d # c => /\ contract'[d] = contract[d]
                                       /\ movements'[d] = movements[d] /\ raids'[d] = raids[d]
      /\ RowOK(contract'[c], movements'[c], raids'[c])
      /\ contract'[c].escrow = contract[c].escrow
      /\ SumFunction(stock') + (movements'[c].goods + raids'[c].goods) =
                  SumFunction(stock) + (movements[c].goods + raids[c].goods)
  BY <1>1, <1>2, DepartAccounts
<1>4. cash \in [Purses -> Int] /\ SumFunction(cash) \in Int
  BY ThisAccount
<1>5. /\ cash' \in [Purses -> Int]
      /\ cash'["source"] = cash["source"] - Toll /\ cash'["destination"] = cash["destination"] + Toll
      /\ \A x \in Purses \ {"source", "destination"} : cash'[x] = cash[x]
  BY <1>2, <1>4, Places
<1>6. SumFunction(cash') = SumFunction(cash) - cash["source"] + cash'["source"]
                               - cash["destination"] + cash'["destination"]
  BY <1>4, <1>5, Places, CashAtTwo
<1>7. SumFunction(cash') = SumFunction(cash)
  BY <1>4, <1>5, <1>6, Places
<1>8. SumFunction(cash') + contract'[c].escrow = SumFunction(cash) + contract[c].escrow
  BY <1>3, <1>7
<1> QED  BY <1>3, <1>5, <1>8, OneAccount

-----------------------------------------------------------------------------
\* A party that moves on, with the index and every purse as they are.
LEMMA MovesOn ==
    ASSUME AccountInv, EscortInv', NEW c \in Contracts, NEW n \in Movements,
           movements' = [movements EXCEPT ![c] = n],
           n.goods = movements[c].goods, n.kind = movements[c].kind,
           n.status # "contact_pending" \/ ~raids[c].on,
           UNCHANGED <<contract, raids, cash, stock>>
    PROVE  AccountInv'
<1>0. /\ cash \in [Purses -> Int] /\ stock \in [Stores -> Int]
      /\ RowOK(contract[c], movements[c], raids[c]) /\ movements \in [Contracts -> Movements]
  BY ThisAccount
<1>1. movements'[c] = n /\ \A d \in Contracts : d # c => movements'[d] = movements[d]
  BY <1>0
<1>2. RowOK(contract'[c], movements'[c], raids'[c])
  BY <1>0, <1>1 DEF RowOK
<1>3. /\ cash' \in [Purses -> Int] /\ stock' \in [Stores -> Int]
      /\ \A d \in Contracts : d # c => /\ contract'[d] = contract[d]
                                       /\ movements'[d] = movements[d] /\ raids'[d] = raids[d]
      /\ SumFunction(cash') + contract'[c].escrow = SumFunction(cash) + contract[c].escrow
      /\ SumFunction(stock') + (movements'[c].goods + raids'[c].goods) =
               SumFunction(stock) + (movements[c].goods + raids[c].goods)
  BY <1>0, <1>1
<1> QED  BY <1>2, <1>3, OneAccount

\* The end of the rest keeps the accounts even.
LEMMA RestEndsAccounts ==
    ASSUME AccountInv, EscortInv', NEW c \in Contracts, RestEnds(c) PROVE AccountInv'
<1>0. /\ EscortInv /\ movements \in [Contracts -> Movements]
  BY ThisAccount
<1> DEFINE n == [movements[c] EXCEPT !.status = movements[c].resume, !.resume = "none"]
<1>1. movements' = [movements EXCEPT ![c] = n] /\ UNCHANGED <<contract, raids, cash, stock>>
  BY <1>0 DEF RestEnds
<1>2. /\ n \in Movements /\ n.goods = movements[c].goods /\ n.kind = movements[c].kind
      /\ n.status = movements[c].resume
  <2>1. "none" \in Statuses
    BY DEF Statuses
  <2> QED  BY <1>0, <2>1 DEF Movements
<1>3. movements[c].resume # "contact_pending"
  BY <1>0 DEF EscortInv, RoadOK
<1> HIDE DEF n
<1> QED  BY <1>1, <1>2, <1>3, MovesOn

\* Trying the way home again keeps the accounts even.
LEMMA RetryReturnAccounts ==
    ASSUME AccountInv, EscortInv', NEW c \in Contracts, RetryReturn(c) PROVE AccountInv'
<1>0. /\ EscortInv /\ movements \in [Contracts -> Movements]
  BY ThisAccount
<1> DEFINE m == [movements[c] EXCEPT !.status = "returning"]
<1>1. /\ m \in Movements /\ m.goods = movements[c].goods /\ m.kind = movements[c].kind
      /\ m.status = "returning"
  <2>1. "returning" \in Statuses
    BY DEF Statuses
  <2> QED  BY <1>0, <2>1 DEF Movements
<1>2. movements' = [movements EXCEPT ![c] = Compact(m)] /\ UNCHANGED <<contract, raids, cash, stock>>
  BY <1>0 DEF RetryReturn
<1> HIDE DEF m
<1>3. PICK n : n = Compact(m)
  OBVIOUS
<1>4. /\ n \in Movements /\ n.goods = m.goods /\ n.kind = m.kind /\ n.status = m.status
  BY <1>1, <1>3, CompactKeeps, CompactGoods
<1> QED  BY <1>1, <1>2, <1>3, <1>4, MovesOn

\* A contact that waits for the player keeps the accounts even.
LEMMA PlayerContactAccounts ==
    ASSUME AccountInv, EscortInv', NEW c \in Contracts, PlayerContact(c) PROVE AccountInv'
<1>0. /\ EscortInv /\ movements \in [Contracts -> Movements]
  BY ThisAccount
<1> DEFINE n == [movements[c] EXCEPT !.status = "contact_pending"]
<1>1. /\ n \in Movements /\ n.goods = movements[c].goods /\ n.kind = movements[c].kind
  <2>1. "contact_pending" \in Statuses
    BY DEF Statuses
  <2> QED  BY <1>0, <2>1 DEF Movements
<1>2. /\ movements' = [movements EXCEPT ![c] = n] /\ UNCHANGED <<contract, raids, cash, stock>>
      /\ ~raids[c].on
  BY <1>0 DEF PlayerContact
<1> HIDE DEF n
<1> QED  BY <1>1, <1>2, MovesOn

-----------------------------------------------------------------------------
(* The end of a road or of a fight.                                        *)

\* The holder is paid from the escrow, and may pay an inn; the market gets its goods.
LEMMA DeliveredAccounts ==
    ASSUME AccountInv, EscortInv', NEW c \in Contracts, NEW m \in Movements, Delivered(c, m),
           m.kind = "escort_contract", m.kind = movements[c].kind, m.goods = movements[c].goods,
           \A d \in Contracts : d # c => raids'[d] = raids[d],
           raids'[c].goods = raids[c].goods, ~raids'[c].on => raids'[c].goods = 0
    PROVE  AccountInv'
<1>0. /\ EscortInv /\ cash \in [Purses -> Int] /\ stock \in [Stores -> Int]
      /\ RowOK(contract[c], movements[c], raids[c])
      /\ contract \in [Contracts -> ContractRecords] /\ movements \in [Contracts -> Movements]
      /\ contract[c].escrow \in Int /\ SumFunction(cash) \in Int /\ SumFunction(stock) \in Int
      /\ movements[c].goods \in Int /\ raids[c].goods \in Int
  BY ThisAccount
<1>1. PICK holder, q : holder = contract[c].holder /\ q = contract[c].escrow
  OBVIOUS
<1>2. holder \in {"house", "guild"} /\ q \in Int
  <2>1. contract[c].status = "in_progress"
    BY <1>0 DEF EscortInv, PerformanceHasOwner
  <2>2. contract[c].holder \in {"nobody", "house", "guild"}
    BY <1>0 DEF ContractRecords
  <2> QED  BY <1>0, <1>1, <2>1, <2>2 DEF RowOK
<1> DEFINE paid == [cash EXCEPT ![holder] = @ + q]
<1>3. /\ contract' = [contract EXCEPT ![c] = Popped]
      /\ stock' = [stock EXCEPT !["destination"] = @ + m.goods]
      /\ \/ /\ \E back \in ReturnMovement(m) : movements' = [movements EXCEPT ![c] = back]
            /\ \E bill \in {0, Lodging} :
                  cash' = [paid EXCEPT ![holder] = @ - bill, !["destination"] = @ + bill]
         \/ movements' = [movements EXCEPT ![c] = NoMovement] /\ cash' = paid
  BY <1>1 DEF Delivered, Pop, OffRoad
<1>4. Popped.status = "popped" /\ Popped.escrow = 0
  BY DEF Popped
<1>5. /\ contract'[c] = Popped /\ \A d \in Contracts : d # c => contract'[d] = contract[d]
  BY <1>0, <1>3
<1>6. /\ movements'[c].kind # "escort_contract" /\ movements'[c].goods = 0
      /\ movements'[c].status # "contact_pending"
      /\ \A d \in Contracts : d # c => movements'[d] = movements[d]
  <2>1. CASE movements' = [movements EXCEPT ![c] = NoMovement]
    BY <1>0, <2>1 DEF NoMovement
  <2>2. CASE \E back \in ReturnMovement(m) : movements' = [movements EXCEPT ![c] = back]
    <3>1. PICK back \in ReturnMovement(m) : movements' = [movements EXCEPT ![c] = back]
      BY <2>2
    <3>2. PICK resume \in {"returning", "awaiting_return_logistics"} :
             back = Compact([NoMovement EXCEPT !.kind = "escort_return", !.status = "resting",
                                !.resume = resume, !.party = EscortRefs(m),
                                !.escorts = EscortRefs(m), !.legs = Legs])
      BY <3>1 DEF ReturnMovement
    <3> DEFINE n == [NoMovement EXCEPT !.kind = "escort_return", !.status = "resting",
                                !.resume = resume, !.party = EscortRefs(m),
                                !.escorts = EscortRefs(m), !.legs = Legs]
    <3>3. EscortRefs(m) \in SUBSET People
      BY DEF EscortRefs, Movements
    <3>4. NoMovement \in Movements /\ Legs \in Int
      BY EscortAssumption DEF NoMovement, Movements, Statuses
    <3>5. n \in Movements /\ n.kind = "escort_return" /\ n.goods = 0 /\ n.status = "resting"
      BY <3>3, <3>4 DEF Movements, Statuses, NoMovement
    <3>6. back = Compact(n)
      BY <3>2
    <3> HIDE DEF n
    <3>7. back.kind = "escort_return" /\ back.goods = 0 /\ back.status = "resting"
      BY <3>5, <3>6, CompactGoods
    <3> QED  BY <1>0, <3>1, <3>7
  <2> QED  BY <1>3, <2>1, <2>2
<1>7. RowOK(contract'[c], movements'[c], raids'[c])
  BY <1>4, <1>5, <1>6 DEF RowOK
<1>8. /\ paid \in [Purses -> Int] /\ paid[holder] = cash[holder] + q
      /\ paid["destination"] = cash["destination"]
      /\ \A x \in Purses \ {holder} : paid[x] = cash[x]
      /\ holder \in Purses /\ holder # "destination"
  BY <1>0, <1>2 DEF Purses
<1>9. \E bill \in Int :
         /\ cash' \in [Purses -> Int] /\ cash'[holder] = cash[holder] + q - bill
         /\ cash'["destination"] = cash["destination"] + bill
         /\ \A x \in Purses \ {holder, "destination"} : cash'[x] = cash[x]
  <2> HIDE DEF paid
  <2>1. CASE cash' = paid
    <3>1. cash[holder] + q = cash[holder] + q - 0
           /\ cash["destination"] = cash["destination"] + 0 /\ 0 \in Int
      BY <1>0, <1>2, <1>8, Places
    <3> QED  BY <1>8, <2>1, <3>1
  <2>2. CASE \E bill \in {0, Lodging} :
                  cash' = [paid EXCEPT ![holder] = @ - bill, !["destination"] = @ + bill]
    <3>1. PICK bill \in {0, Lodging} :
             cash' = [paid EXCEPT ![holder] = @ - bill, !["destination"] = @ + bill]
      BY <2>2
    <3>2. bill \in Int
      BY Places
    <3>3. /\ cash' \in [Purses -> Int] /\ cash'[holder] = paid[holder] - bill
          /\ cash'["destination"] = paid["destination"] + bill
          /\ \A x \in Purses \ {holder, "destination"} : cash'[x] = paid[x]
      BY <1>8, <3>1, <3>2, Places
    <3>4. /\ cash'[holder] = cash[holder] + q - bill
          /\ cash'["destination"] = cash["destination"] + bill
          /\ \A x \in Purses \ {holder, "destination"} : cash'[x] = cash[x]
      <4>1. cash'[holder] = cash[holder] + q - bill
        BY <1>0, <1>2, <1>8, <3>2, <3>3
      <4>2. cash'["destination"] = cash["destination"] + bill
        BY <1>8, <3>3
      <4>3. \A x \in Purses \ {holder, "destination"} : cash'[x] = cash[x]
        BY <1>8, <3>3
      <4> QED  BY <4>1, <4>2, <4>3
    <3> QED  BY <3>2, <3>3, <3>4
  <2> QED  BY <1>3, <2>1, <2>2
<1> HIDE DEF paid
<1>10. PICK bill \in Int :
         /\ cash' \in [Purses -> Int] /\ cash'[holder] = cash[holder] + q - bill
         /\ cash'["destination"] = cash["destination"] + bill
         /\ \A x \in Purses \ {holder, "destination"} : cash'[x] = cash[x]
  BY <1>9
<1>11. SumFunction(cash') = SumFunction(cash) - cash[holder] + cash'[holder]
                               - cash["destination"] + cash'["destination"]
  BY <1>0, <1>8, <1>10, Places, CashAtTwo
<1>12. SumFunction(cash') + contract'[c].escrow = SumFunction(cash) + contract[c].escrow
  BY <1>0, <1>1, <1>2, <1>4, <1>5, <1>8, <1>10, <1>11, Places
<1>13. /\ stock' \in [Stores -> Int] /\ stock'["destination"] = stock["destination"] + m.goods
       /\ \A x \in Stores \ {"destination"} : stock'[x] = stock[x]
  BY <1>0, <1>3, Places
<1>14. SumFunction(stock') = SumFunction(stock) - stock["destination"] + stock'["destination"]
  BY <1>0, <1>13, Places, StockAtOne
<1>15. SumFunction(stock') + (movements'[c].goods + raids'[c].goods) =
               SumFunction(stock) + (movements[c].goods + raids[c].goods)
  BY <1>0, <1>6, <1>13, <1>14, Places
<1> QED  BY <1>5, <1>6, <1>7, <1>10, <1>12, <1>13, <1>15, OneAccount

\* The market is refunded; the goods are salvaged unless the raiders' way home owns them.
LEMMA FailedAccounts ==
    ASSUME AccountInv, EscortInv', NEW c \in Contracts, NEW m \in Movements,
           NEW control, NEW seized, Failed(c, m, control, seized),
           m.kind = movements[c].kind, m.goods = movements[c].goods,
           \A d \in Contracts : d # c => raids'[d] = raids[d],
           seized => raids'[c].goods = raids[c].goods + m.goods,
           ~seized => raids'[c].goods = raids[c].goods, ~raids'[c].on => raids'[c].goods = 0
    PROVE  AccountInv'
<1>0. /\ EscortInv /\ cash \in [Purses -> Int] /\ stock \in [Stores -> Int]
      /\ RowOK(contract[c], movements[c], raids[c])
      /\ contract \in [Contracts -> ContractRecords] /\ movements \in [Contracts -> Movements]
      /\ contract[c].escrow \in Int /\ SumFunction(cash) \in Int /\ SumFunction(stock) \in Int
      /\ movements[c].goods \in Int /\ raids[c].goods \in Int
  BY ThisAccount
<1>1. PICK place \in {"camp", "source"} :
         stock' = IF seized THEN stock ELSE [stock EXCEPT ![place] = @ + m.goods]
  BY DEF Failed
<1>2. /\ contract' = [contract EXCEPT ![c] = Popped]
      /\ movements' = [movements EXCEPT ![c] = NoMovement]
      /\ cash' = [cash EXCEPT !["source"] = @ + contract[c].escrow]
  BY DEF Failed, Pop, OffRoad
<1>3. /\ contract'[c] = Popped /\ movements'[c] = NoMovement
      /\ \A d \in Contracts : d # c => contract'[d] = contract[d] /\ movements'[d] = movements[d]
  BY <1>0, <1>2
<1>4. /\ Popped.status = "popped" /\ Popped.escrow = 0 /\ NoMovement.goods = 0
      /\ RowOK(contract'[c], movements'[c], raids'[c])
  BY <1>3 DEF Popped, NoMovement, RowOK
<1>5. /\ cash' \in [Purses -> Int] /\ cash'["source"] = cash["source"] + contract[c].escrow
      /\ \A x \in Purses \ {"source"} : cash'[x] = cash[x]
  BY <1>0, <1>2, Places
<1>6. SumFunction(cash') = SumFunction(cash) - cash["source"] + cash'["source"]
  BY <1>0, <1>5, Places, CashAtOne
<1>7. SumFunction(cash') + contract'[c].escrow = SumFunction(cash) + contract[c].escrow
  BY <1>0, <1>3, <1>4, <1>5, <1>6, Places
<1>8. /\ stock' \in [Stores -> Int]
      /\ SumFunction(stock') + (movements'[c].goods + raids'[c].goods) =
               SumFunction(stock) + (movements[c].goods + raids[c].goods)
  <2>1. CASE seized
    BY <1>0, <1>1, <1>3, <1>4, <2>1
  <2>2. CASE ~seized
    <3>1. place \in Stores
      BY Places
    <3>2. /\ stock' \in [Stores -> Int] /\ stock'[place] = stock[place] + m.goods
          /\ \A x \in Stores \ {place} : stock'[x] = stock[x]
      BY <1>0, <1>1, <2>2, <3>1
    <3>3. SumFunction(stock') = SumFunction(stock) - stock[place] + stock'[place]
      BY <1>0, <3>1, <3>2, StockAtOne
    <3> QED  BY <1>0, <1>3, <1>4, <2>2, <3>1, <3>2, <3>3
  <2> QED  BY <2>1, <2>2
<1> QED  BY <1>3, <1>4, <1>5, <1>7, <1>8, OneAccount

\* A return carries nothing: it goes home, or stays on its road.
LEMMA ReturnClosesAccounts ==
    ASSUME AccountInv, EscortInv', NEW c \in Contracts, NEW m \in Movements, NEW success,
           CloseReturn(c, m, success), RoadOK(m, ClientOf[c]),
           m.kind # "escort_contract", m.kind = movements[c].kind, m.goods = movements[c].goods,
           \A d \in Contracts : d # c => raids'[d] = raids[d],
           raids'[c].goods = raids[c].goods, ~raids'[c].on => raids'[c].goods = 0
    PROVE  AccountInv'
<1>0. /\ cash \in [Purses -> Int] /\ stock \in [Stores -> Int]
      /\ RowOK(contract[c], movements[c], raids[c]) /\ movements \in [Contracts -> Movements]
  BY ThisAccount
<1>1. PICK n : /\ n = NoMovement \/ n = Compact(m)
               /\ movements' = [movements EXCEPT ![c] = n]
  BY DEF CloseReturn, OffRoad
<1>2. UNCHANGED <<contract, cash, stock>>
  BY DEF CloseReturn
<1>3. n.kind # "escort_contract" /\ n.goods = 0 /\ n.status # "contact_pending"
  <2>1. m.goods = 0 /\ m.status # "contact_pending"
    BY <1>0 DEF RowOK, RoadOK
  <2>2. Compact(m).goods = m.goods /\ Compact(m).kind = m.kind /\ Compact(m).status = m.status
    BY CompactGoods
  <2> QED  BY <1>1, <2>1, <2>2 DEF NoMovement
<1>4. movements'[c] = n /\ \A d \in Contracts : d # c => movements'[d] = movements[d]
  BY <1>0, <1>1
<1>5. RowOK(contract'[c], movements'[c], raids'[c]) /\ movements[c].goods = 0
  BY <1>0, <1>2, <1>3, <1>4 DEF RowOK
<1>6. /\ cash' \in [Purses -> Int] /\ stock' \in [Stores -> Int]
      /\ \A d \in Contracts : d # c => /\ contract'[d] = contract[d]
                                       /\ movements'[d] = movements[d] /\ raids'[d] = raids[d]
      /\ SumFunction(cash') + contract'[c].escrow = SumFunction(cash) + contract[c].escrow
      /\ SumFunction(stock') + (movements'[c].goods + raids'[c].goods) =
               SumFunction(stock) + (movements[c].goods + raids[c].goods)
  BY <1>0, <1>2, <1>3, <1>4, <1>5
<1> QED  BY <1>5, <1>6, OneAccount

\* Either way of closing, with what the raiders took from the party.
LEMMA ClosedAccounts ==
    ASSUME AccountInv, EscortInv', NEW c \in Contracts, NEW m \in Movements,
           NEW success, NEW control, NEW seized,
           CloseEscort(c, m, success, control, seized), RoadOK(m, ClientOf[c]),
           m.kind = movements[c].kind, m.goods = movements[c].goods,
           \A d \in Contracts : d # c => raids'[d] = raids[d], ~raids'[c].on => raids'[c].goods = 0,
           success \/ ~seized => raids'[c].goods = raids[c].goods,
           ~success /\ seized => raids'[c].goods = raids[c].goods + m.goods
    PROVE  AccountInv'
<1>1. CASE m.kind = "escort_contract" /\ success
  <2>1. Delivered(c, m)
    BY <1>1 DEF CloseEscort, CloseContract
  <2> QED  BY <1>1, <2>1, DeliveredAccounts
<1>2. CASE m.kind = "escort_contract" /\ ~success
  <2>1. Failed(c, m, control, seized)
    BY <1>2 DEF CloseEscort, CloseContract
  <2> QED  BY <1>2, <2>1, FailedAccounts
<1>3. CASE m.kind # "escort_contract"
  <2>1. CloseReturn(c, m, success)
    BY <1>3 DEF CloseEscort
  <2>2. m.goods = 0 /\ raids[c].goods \in Int
    BY <1>3, ThisAccount DEF RowOK
  <2>3. raids'[c].goods = raids[c].goods
    BY <2>2
  <2> QED  BY <1>3, <2>1, <2>3, ReturnClosesAccounts
<1> QED  BY <1>1, <1>2, <1>3

\* The rest at the end of a road is paid to the market there.
LEMMA StopOverAccounts ==
    ASSUME AccountInv, EscortInv', NEW c \in Contracts, NEW m \in Movements, StopOver(c, m),
           m.kind = movements[c].kind, m.goods = movements[c].goods,
           \A d \in Contracts : d # c => raids'[d] = raids[d],
           raids'[c].goods = raids[c].goods, ~raids'[c].on => raids'[c].goods = 0
    PROVE  AccountInv'
<1>0. /\ cash \in [Purses -> Int] /\ stock \in [Stores -> Int]
      /\ RowOK(contract[c], movements[c], raids[c]) /\ movements \in [Contracts -> Movements]
      /\ SumFunction(cash) \in Int
  BY ThisAccount
<1>1. PICK payer \in {"house", "guild"}, bill \in {0, Lodging} :
         cash' = [cash EXCEPT ![payer] = @ - bill, !["destination"] = @ + bill]
  BY DEF StopOver
<1>2. movements' = [movements EXCEPT ![c] = Stopped(m)] /\ UNCHANGED <<contract, stock>>
  BY DEF StopOver, Stopped
<1>3. Stopped(m).kind = m.kind /\ Stopped(m).goods = m.goods /\ Stopped(m).status = "resting"
  <2> DEFINE n == [m EXCEPT !.status = "resting", !.resume = "active", !.legs = @ - 1]
  <2>1. n \in Movements /\ n.kind = m.kind /\ n.goods = m.goods /\ n.status = "resting"
    <3>1. "resting" \in Statuses /\ "active" \in Statuses /\ m.legs - 1 \in Int
      BY DEF Movements, Statuses
    <3> QED  BY <3>1 DEF Movements
  <2>2. Stopped(m) = Compact(n)
    BY DEF Stopped
  <2> HIDE DEF n
  <2> QED  BY <2>1, <2>2, CompactGoods
<1>4. movements'[c] = Stopped(m) /\ \A d \in Contracts : d # c => movements'[d] = movements[d]
  BY <1>0, <1>2
<1>5. RowOK(contract'[c], movements'[c], raids'[c])
  BY <1>0, <1>2, <1>3, <1>4 DEF RowOK
<1>6. /\ cash' \in [Purses -> Int] /\ payer \in Purses /\ payer # "destination"
      /\ cash'[payer] = cash[payer] - bill
      /\ cash'["destination"] = cash["destination"] + bill
      /\ \A x \in Purses \ {payer, "destination"} : cash'[x] = cash[x]
      /\ bill \in Int /\ cash[payer] \in Int /\ cash["destination"] \in Int
  <2>1. bill \in Int /\ payer \in Purses /\ payer # "destination"
    BY Places
  <2> QED  BY <1>0, <1>1, <2>1, Places
<1>7. SumFunction(cash') = SumFunction(cash) - cash[payer] + cash'[payer]
                               - cash["destination"] + cash'["destination"]
  BY <1>0, <1>6, Places, CashAtTwo
<1>8. SumFunction(cash') = SumFunction(cash)
  BY <1>0, <1>6, <1>7
<1>9. /\ stock' \in [Stores -> Int]
      /\ \A d \in Contracts : d # c => /\ contract'[d] = contract[d]
                                       /\ movements'[d] = movements[d] /\ raids'[d] = raids[d]
      /\ SumFunction(cash') + contract'[c].escrow = SumFunction(cash) + contract[c].escrow
      /\ SumFunction(stock') + (movements'[c].goods + raids'[c].goods) =
               SumFunction(stock) + (movements[c].goods + raids[c].goods)
  BY <1>0, <1>2, <1>3, <1>4, <1>8
<1> QED  BY <1>5, <1>6, <1>9, OneAccount

\* What happens at the end of a road keeps the accounts even.
LEMMA EndOfRoadAccounts ==
    ASSUME AccountInv, EscortInv', NEW c \in Contracts, NEW m \in Movements, EndOfRoad(c, m),
           RoadOK(m, ClientOf[c]), m.kind = movements[c].kind, m.goods = movements[c].goods,
           \A d \in Contracts : d # c => raids'[d] = raids[d],
           raids'[c].goods = raids[c].goods, ~raids'[c].on => raids'[c].goods = 0
    PROVE  AccountInv'
<1>1. PICK yes, no : yes = TRUE /\ no = FALSE
  OBVIOUS
<1>2. StopOver(c, m) \/ CloseEscort(c, m, yes, no, no)
  BY <1>1 DEF EndOfRoad
<1>3. CASE CloseEscort(c, m, yes, no, no)
  BY <1>1, <1>3, ClosedAccounts
<1> QED  BY <1>2, <1>3, StopOverAccounts

\* An arrival keeps the accounts even.
LEMMA ArriveAccounts ==
    ASSUME AccountInv, EscortInv', NEW c \in Contracts, Arrive(c) PROVE AccountInv'
<1>1. PICK m : m = movements[c]
  OBVIOUS
<1>2. EndOfRoad(c, m) /\ raids' = raids
  BY <1>1 DEF Arrive
<1>3. /\ m \in Movements /\ RoadOK(m, ClientOf[c])
      /\ RowOK(contract[c], movements[c], raids[c])
  BY <1>1, ThisAccount, ThisRoad
<1> QED  BY <1>1, <1>2, <1>3, EndOfRoadAccounts DEF RowOK

\* A party that is wiped out keeps the accounts even.
LEMMA ExtinguishedAccounts ==
    ASSUME AccountInv, EscortInv', NEW c \in Contracts, Extinguished(c) PROVE AccountInv'
<1>1. PICK m, no : m = movements[c] /\ no = FALSE
  OBVIOUS
<1>2. /\ m \in Movements /\ RoadOK(m, ClientOf[c]) /\ EscortInv
      /\ RowOK(contract[c], movements[c], raids[c]) /\ raids' = raids
      /\ raids \in [Contracts -> RaidRecords] /\ movements \in [Contracts -> Movements]
      /\ cash \in [Purses -> Int] /\ stock \in [Stores -> Int]
  BY <1>1, ThisAccount, ThisRoad DEF Extinguished
<1>3. CASE m.kind = "escort_contract"
  <2>1. CloseEscort(c, m, no, no, no)
    BY <1>1, <1>3 DEF Extinguished
  <2> QED  BY <1>1, <1>2, <2>1, ClosedAccounts DEF RowOK
<1>4. CASE m.kind # "escort_contract"
  <2>1. movements' = [movements EXCEPT ![c] = NoMovement] /\ UNCHANGED <<contract, cash, stock>>
    BY <1>1, <1>4 DEF Extinguished, OffRoad
  <2>2. /\ movements'[c] = NoMovement
        /\ \A d \in Contracts : d # c => movements'[d] = movements[d]
    BY <1>2, <2>1
  <2>3. movements[c].goods = 0 /\ NoMovement.goods = 0
        /\ RowOK(contract'[c], movements'[c], raids'[c])
    BY <1>1, <1>2, <1>4, <2>1, <2>2 DEF RowOK, NoMovement
  <2>4. /\ cash' \in [Purses -> Int] /\ stock' \in [Stores -> Int]
        /\ \A d \in Contracts : d # c => /\ contract'[d] = contract[d]
                                         /\ movements'[d] = movements[d] /\ raids'[d] = raids[d]
        /\ SumFunction(cash') + contract'[c].escrow = SumFunction(cash) + contract[c].escrow
        /\ SumFunction(stock') + (movements'[c].goods + raids'[c].goods) =
               SumFunction(stock) + (movements[c].goods + raids[c].goods)
    BY <1>2, <2>1, <2>2, <2>3
  <2> QED  BY <2>3, <2>4, OneAccount
<1> QED  BY <1>3, <1>4

\* What the raiders' way home takes with it: nothing was on that way.
LEMMA ReturnTakes ==
    ASSUME AccountInv, NEW c \in Contracts, NEW band, NEW goods \in Int, ~raids[c].on,
           StartReturn(c, band, goods)
    PROVE  /\ \A d \in Contracts : d # c => raids'[d] = raids[d]
           /\ ~raids'[c].on => raids'[c].goods = 0
           /\ raids[c].goods = 0
           /\ raids'[c].goods = IF Returns(band) THEN goods ELSE 0
<1>1. /\ raids \in [Contracts -> RaidRecords] /\ RowOK(contract[c], movements[c], raids[c])
  BY ThisAccount
<1> DEFINE row == [on |-> TRUE, party |-> band, goods |-> goods]
<1>2. raids' = IF Returns(band) THEN [raids EXCEPT ![c] = row] ELSE raids
  BY DEF StartReturn
<1>3. row.on = TRUE /\ row.goods = goods
  OBVIOUS
<1> HIDE DEF row
<1>4. raids'[c] = (IF Returns(band) THEN row ELSE raids[c])
      /\ \A d \in Contracts : d # c => raids'[d] = raids[d]
  BY <1>1, <1>2
<1> QED  BY <1>1, <1>3, <1>4 DEF RowOK

\* An interception keeps the accounts even.
LEMMA InterceptionAccounts ==
    ASSUME AccountInv, EscortInv', NEW c \in Contracts, Interception(c) PROVE AccountInv'
<1>1. PICK m : m = movements[c]
  OBVIOUS
<1>2. PICK band \in FreeBand, lost \in BOOLEAN : \E fallen \in SUBSET (m.party \cup band) :
         /\ Cardinality(dead \cup fallen) <= MaxDeaths
         /\ LET hurt == m.party \cap fallen
                after == IF hurt = {} THEN m
                         ELSE [m EXCEPT !.party = @ \ hurt, !.escorts = Fighters(m) \ hurt]
                control == lost \/ Fighters(after) = {}
            IN  AfterFight(c, after, band \ fallen, control,
                           control \/ m.clients \cap fallen # {})
         /\ dead' = dead \cup fallen
  BY <1>1 DEF Interception
<1>3. PICK fallen \in SUBSET (m.party \cup band) :
         LET hurt == m.party \cap fallen
             after == IF hurt = {} THEN m
                      ELSE [m EXCEPT !.party = @ \ hurt, !.escorts = Fighters(m) \ hurt]
             control == lost \/ Fighters(after) = {}
         IN  AfterFight(c, after, band \ fallen, control,
                        control \/ m.clients \cap fallen # {})
  BY <1>2
<1> DEFINE hurt == m.party \cap fallen
           survivors == [m EXCEPT !.party = @ \ hurt, !.escorts = Fighters(m) \ hurt]
           rest == IF hurt = {} THEN m ELSE survivors
<1>4. PICK after, control, walkers, failed :
         /\ after = rest /\ control \in BOOLEAN /\ walkers = band \ fallen
         /\ failed = (control \/ m.clients \cap fallen # {})
         /\ AfterFight(c, after, walkers, control, failed)
  BY <1>3
<1>5. /\ m \in Movements /\ RoadOK(m, ClientOf[c]) /\ ~raids[c].on
      /\ m.status # "contact_pending" /\ EscortInv
  <2>1. EscortInv
    BY ThisAccount
  <2> QED  BY <1>1, <2>1, ThisRoad DEF Interception, OnRoadStatus
<1>6. /\ after \in Movements /\ RoadOK(after, ClientOf[c]) /\ after.kind = m.kind
      /\ after.goods = m.goods /\ after.status = m.status
  <2>1. Fighters(m) \subseteq m.party
    BY <1>5 DEF Fighters, RoadOK
  <2>2. /\ survivors \in Movements /\ survivors.kind = m.kind /\ survivors.status = m.status
        /\ survivors.resume = m.resume /\ survivors.party = m.party \ hurt
        /\ survivors.escorts = Fighters(m) \ hurt /\ survivors.goods = m.goods
    <3>1. m.party \ hurt \in SUBSET People /\ Fighters(m) \ hurt \in SUBSET People
      BY <1>5, <2>1 DEF Movements
    <3> HIDE DEF hurt
    <3> QED  BY <1>5, <3>1 DEF Movements
  <2>3. Player \notin m.party
    BY <1>1 DEF Interception
  <2> HIDE DEF survivors, hurt
  <2>4. RoadOK(survivors, ClientOf[c])
    BY <1>5, <2>1, <2>2, <2>3 DEF RoadOK
  <2> QED  BY <1>4, <1>5, <2>2, <2>4
<1> HIDE DEF hurt, survivors, rest
<1>7. PICK loot : loot = IF control THEN after.goods ELSE 0
  OBVIOUS
<1>8. loot \in Int
  BY <1>6, <1>7 DEF Movements
<1>9. StartReturn(c, walkers, loot)
  BY <1>4, <1>7 DEF AfterFight
<1>10. /\ \A d \in Contracts : d # c => raids'[d] = raids[d]
       /\ ~raids'[c].on => raids'[c].goods = 0
       /\ raids[c].goods = 0
       /\ raids'[c].goods = IF Returns(walkers) THEN loot ELSE 0
  BY <1>5, <1>8, <1>9, ReturnTakes
<1>11. after.kind = movements[c].kind /\ after.goods = movements[c].goods /\ after.goods \in Int
  BY <1>1, <1>6 DEF Movements
<1>12. CASE failed
  <2>1. PICK no, seized : no = FALSE /\ seized = (control /\ Returns(walkers))
    OBVIOUS
  <2>2. CloseEscort(c, after, no, control, seized)
    BY <1>4, <1>12, <2>1 DEF AfterFight
  <2>3. /\ no \/ ~seized => raids'[c].goods = raids[c].goods
        /\ ~no /\ seized => raids'[c].goods = raids[c].goods + after.goods
    <3>1. seized => Returns(walkers) /\ loot = after.goods
      BY <1>7, <2>1
    <3>2. ~seized => ~Returns(walkers) \/ loot = 0
      BY <1>4, <1>7, <2>1
    <3>3. no = FALSE /\ raids[c].goods + after.goods = after.goods
      BY <1>10, <1>11, <2>1
    <3> HIDE <2>1
    <3> QED  BY <1>10, <3>1, <3>2, <3>3
  <2> QED  BY <1>6, <1>10, <1>11, <2>2, <2>3, ClosedAccounts
<1>13. CASE ~failed
  <2>1. raids'[c].goods = raids[c].goods
    BY <1>4, <1>7, <1>10, <1>13
  <2>2. CASE EndOfRoad(c, after)
    BY <1>6, <1>10, <1>11, <2>1, <2>2, EndOfRoadAccounts
  <2>3. CASE /\ movements' = [movements EXCEPT ![c] = Compact(after)]
             /\ UNCHANGED <<contract, contacts, cash, stock, dossier, away>>
    <3>1. /\ Compact(after).goods = after.goods /\ Compact(after).kind = after.kind
          /\ Compact(after).status = after.status
      BY <1>6, CompactGoods
    <3>2. /\ cash \in [Purses -> Int] /\ stock \in [Stores -> Int]
          /\ RowOK(contract[c], movements[c], raids[c]) /\ movements \in [Contracts -> Movements]
      BY ThisAccount
    <3>3. /\ movements'[c] = Compact(after)
          /\ \A d \in Contracts : d # c => movements'[d] = movements[d]
      BY <2>3, <3>2
    <3>4. RowOK(contract'[c], movements'[c], raids'[c])
      BY <1>5, <1>6, <1>10, <1>11, <2>3, <3>1, <3>2, <3>3 DEF RowOK
    <3>5. /\ cash' \in [Purses -> Int] /\ stock' \in [Stores -> Int]
          /\ \A d \in Contracts : d # c => /\ contract'[d] = contract[d]
                                           /\ movements'[d] = movements[d] /\ raids'[d] = raids[d]
          /\ SumFunction(cash') + contract'[c].escrow = SumFunction(cash) + contract[c].escrow
          /\ SumFunction(stock') + (movements'[c].goods + raids'[c].goods) =
               SumFunction(stock) + (movements[c].goods + raids[c].goods)
      BY <1>10, <1>11, <2>1, <2>3, <3>1, <3>2, <3>3
    <3> QED  BY <3>4, <3>5, OneAccount
  <2> QED  BY <1>4, <1>13, <2>2, <2>3 DEF AfterFight
<1> QED  BY <1>12, <1>13

\* A fight of the player's is won, and then nothing was taken, or lost.
LEMMA CloseContactAccounts ==
    ASSUME AccountInv, EscortInv', NEW c \in Contracts, CloseContact(c) PROVE AccountInv'
<1>1. PICK m, winner, control, band, success, seized, loot :
         /\ m = movements[c] /\ winner = contacts[c].winner /\ control = (winner = "side_b")
         /\ band = contacts[c].band \ dead
         /\ success = (winner = "side_a" /\ m.clients \cap dead = {})
         /\ seized = (control /\ Returns(band)) /\ loot = IF control THEN m.goods ELSE 0
  OBVIOUS
<1>2. StartReturn(c, band, loot) /\ CloseEscort(c, m, success, control, seized)
  BY <1>1 DEF CloseContact
<1>3. /\ m \in Movements /\ RoadOK(m, ClientOf[c]) /\ m.status = "contact_pending"
      /\ RowOK(contract[c], movements[c], raids[c])
  <2>1. EscortInv /\ RowOK(contract[c], movements[c], raids[c])
    BY ThisAccount
  <2> QED  BY <1>1, <2>1, ThisRoad DEF CloseContact
<1>4. loot \in Int /\ m.goods \in Int /\ ~raids[c].on
  BY <1>1, <1>3 DEF Movements, RowOK
<1>5. /\ \A d \in Contracts : d # c => raids'[d] = raids[d]
      /\ ~raids'[c].on => raids'[c].goods = 0
      /\ raids[c].goods = 0
      /\ raids'[c].goods = IF Returns(band) THEN loot ELSE 0
  BY <1>2, <1>4, ReturnTakes
<1>6. /\ success \/ ~seized => raids'[c].goods = raids[c].goods
      /\ ~success /\ seized => raids'[c].goods = raids[c].goods + m.goods
  <2>1. /\ seized => Returns(band) /\ loot = m.goods
        /\ success \/ ~seized => ~Returns(band) \/ loot = 0
    BY <1>1
  <2>2. raids[c].goods + m.goods = m.goods
    BY <1>4, <1>5
  <2> QED  BY <1>5, <2>1, <2>2
<1>7. m.kind = movements[c].kind /\ m.goods = movements[c].goods
  BY <1>1
<1> QED  BY <1>2, <1>3, <1>5, <1>6, <1>7, ClosedAccounts

\* The raiders' goods come to their camp, or to a market when nobody is left.
LEMMA RaidEndsAccounts ==
    ASSUME AccountInv, EscortInv', NEW c \in Contracts, RaidEnds(c) PROVE AccountInv'
<1>0. /\ cash \in [Purses -> Int] /\ stock \in [Stores -> Int] /\ SumFunction(stock) \in Int
      /\ RowOK(contract[c], movements[c], raids[c]) /\ raids \in [Contracts -> RaidRecords]
      /\ movements[c].goods \in Int /\ raids[c].goods \in Int
  BY ThisAccount
<1>1. PICK place \in Stores : stock' = [stock EXCEPT ![place] = @ + raids[c].goods]
  BY Places DEF RaidEnds
<1>2. raids' = [raids EXCEPT ![c] = NoRaid] /\ UNCHANGED <<contract, movements, cash>>
  BY DEF RaidEnds
<1>3. raids'[c] = NoRaid /\ \A d \in Contracts : d # c => raids'[d] = raids[d]
  BY <1>0, <1>2
<1>4. RowOK(contract'[c], movements'[c], raids'[c]) /\ NoRaid.goods = 0
  BY <1>0, <1>2, <1>3 DEF RowOK, NoRaid
<1>5. /\ stock' \in [Stores -> Int] /\ stock'[place] = stock[place] + raids[c].goods
      /\ \A x \in Stores \ {place} : stock'[x] = stock[x]
  BY <1>0, <1>1
<1>6. SumFunction(stock') = SumFunction(stock) - stock[place] + stock'[place]
  BY <1>0, <1>5, StockAtOne
<1>7. /\ cash' \in [Purses -> Int]
      /\ \A d \in Contracts : d # c => /\ contract'[d] = contract[d]
                                       /\ movements'[d] = movements[d] /\ raids'[d] = raids[d]
      /\ SumFunction(cash') + contract'[c].escrow = SumFunction(cash) + contract[c].escrow
  BY <1>0, <1>2, <1>3
<1>8. SumFunction(stock') + (movements'[c].goods + raids'[c].goods) =
               SumFunction(stock) + (movements[c].goods + raids[c].goods)
  BY <1>0, <1>2, <1>3, <1>4, <1>5, <1>6
<1> QED  BY <1>4, <1>5, <1>7, <1>8, OneAccount

-----------------------------------------------------------------------------
\* The dead leave the records, and nothing they carried leaves with them.
LEMMA PrunedGoods ==
    ASSUME NEW m \in Movements, NEW fallen \in SUBSET People
    PROVE  LET n == Pruned(m, fallen)
           IN  /\ n.goods = m.goods /\ n.kind = m.kind
               /\ n.status = "contact_pending" => m.status = "contact_pending"
<1> DEFINE list == IF m.escorts = Unlisted THEN m.escorts ELSE m.escorts \ fallen
           rest == [m EXCEPT !.party = @ \ fallen,
                             !.escorts = IF @ = Unlisted THEN @ ELSE @ \ fallen]
           ended == [rest EXCEPT !.status = "party_extinguished"]
           stuck == [rest EXCEPT !.status = "awaiting_return_logistics"]
<1>1. /\ rest \in Movements /\ rest.kind = m.kind /\ rest.status = m.status
      /\ rest.goods = m.goods
  <2>1. list \in {Unlisted} \cup SUBSET People /\ m.party \ fallen \in SUBSET People
    BY DEF Movements
  <2>2. rest = [m EXCEPT !.party = m.party \ fallen, !.escorts = list]
    BY DEF Movements
  <2> HIDE DEF list, rest
  <2> QED  BY <2>1, <2>2 DEF Movements
<1>2. /\ ended \in Movements /\ ended.kind = m.kind /\ ended.goods = m.goods
      /\ ended.status = "party_extinguished"
  <2> HIDE DEF rest
  <2>1. "party_extinguished" \in Statuses
    BY DEF Statuses
  <2> QED  BY <1>1, <2>1 DEF Movements
<1>3. /\ stuck \in Movements /\ stuck.kind = m.kind /\ stuck.goods = m.goods
      /\ stuck.status = "awaiting_return_logistics"
  <2> HIDE DEF rest
  <2>1. "awaiting_return_logistics" \in Statuses
    BY DEF Statuses
  <2> QED  BY <1>1, <2>1 DEF Movements
<1>4. Pruned(m, fallen) \in {m, Compact(rest), Compact(ended), Compact(stuck)}
  BY DEF Pruned
<1> HIDE DEF rest, ended, stuck
<1> QED  BY <1>1, <1>2, <1>3, <1>4, CompactGoods

\* Deaths keep the accounts even: a commission that nobody is left for is refunded.
LEMMA BuryAccounts ==
    ASSUME AccountInv, EscortInv', NEW fallen \in SUBSET People, Bury(fallen), UNCHANGED stock
    PROVE  AccountInv'
<1> DEFINE closed == {c \in Contracts : Impossible(c, fallen)}
           refund == [c \in closed |-> contract[c].escrow]
           given == [c \in Contracts |-> IF c \in closed THEN contract[c].escrow ELSE 0]
<1>1. /\ EscortInv /\ Accounts /\ CashIsConserved /\ GoodsAreConserved
      /\ movements \in [Contracts -> Movements] /\ contract \in [Contracts -> ContractRecords]
      /\ raids \in [Contracts -> RaidRecords]
  BY DEF AccountInv, EscortInv, EscortShape
<1>2. \A c \in Contracts :
         /\ movements'[c].goods = movements[c].goods /\ movements'[c].kind = movements[c].kind
         /\ movements'[c].status = "contact_pending" => movements[c].status = "contact_pending"
  BY <1>1, PrunedGoods DEF Bury
<1>3. \A c \in Contracts : raids'[c].goods = raids[c].goods /\ raids'[c].on = raids[c].on
  <2>1. \A c \in Contracts :
           LET row == [raids[c] EXCEPT !.party = @ \ fallen]
           IN  row.goods = raids[c].goods /\ row.on = raids[c].on
    BY <1>1 DEF RaidRecords
  <2> QED  BY <2>1 DEF Bury
<1>4. /\ contract' = [c \in Contracts |->
           IF c \in closed THEN Popped ELSE [contract[c] EXCEPT !.principals = @ \ fallen]]
      /\ cash' = [cash EXCEPT !["source"] = @ + SumFunction(refund)]
  BY DEF Bury
<1>5. /\ Popped.escrow = 0 /\ Popped.status = "popped"
      /\ \A c \in Contracts :
           LET row == [contract[c] EXCEPT !.principals = @ \ fallen]
           IN  /\ row.escrow = contract[c].escrow /\ row.status = contract[c].status
               /\ row.holder = contract[c].holder
  BY <1>1 DEF Popped, ContractRecords
<1>6. /\ Escrows \in [Contracts -> Int] /\ closed \subseteq Contracts
      /\ given \in [Contracts -> Int] /\ refund \in [closed -> Int]
      /\ \A c \in closed : refund[c] = given[c]
      /\ \A c \in Contracts \ closed : given[c] = 0
  BY <1>1 DEF ContractRecords, Escrows
<1>7. \A c \in Contracts : /\ contract'[c].escrow = IF c \in closed THEN 0 ELSE contract[c].escrow
                           /\ contract'[c].status \in {contract[c].status, "popped"}
                           /\ contract'[c].status = "popped" =>
                                  contract'[c].escrow = 0 \/ contract[c].status = "popped"
                           /\ contract'[c].status # "popped" =>
                                  contract'[c].holder = contract[c].holder
  BY <1>4, <1>5
<1>8. /\ \A c \in Contracts : Escrows[c] = Escrows'[c] + given[c]
      /\ Escrows' \in [Contracts -> Int]
  BY <1>1, <1>6, <1>7 DEF Escrows, ContractRecords
<1> HIDE DEF closed, refund, given
<1>9. SumFunction(refund) = SumFunction(given)
  BY <1>6, FinitePlaces, SumWithin
<1>10. SumFunction(Escrows) = SumFunction(Escrows') + SumFunction(given)
  <2>1. PICK f, g : f = Escrows /\ g = Escrows'
    OBVIOUS
  <2>2. /\ f \in [Contracts -> Int] /\ g \in [Contracts -> Int]
        /\ \A c \in Contracts : f[c] = g[c] + given[c]
    BY <1>6, <1>8, <2>1
  <2>3. SumFunction(f) = SumFunction(g) + SumFunction(given)
    <3>1. \A a, b, h \in [Contracts -> Int] :
             (\A c \in Contracts : h[c] = a[c] + b[c]) =>
                 SumFunction(h) = SumFunction(a) + SumFunction(b)
      BY FinitePlaces, SumOfTwo
    <3> QED  BY <1>6, <2>2, <3>1
  <2> QED  BY <2>1, <2>3
<1>11. /\ SumFunction(given) \in Int /\ SumFunction(Escrows) \in Int
       /\ SumFunction(Escrows') \in Int /\ SumFunction(cash) \in Int
  BY <1>1, <1>6, <1>8, FinitePlaces, SumType DEF Accounts
<1>12. cash' \in [Purses -> Int] /\ SumFunction(cash') = SumFunction(cash) + SumFunction(given)
  <2>1. PICK q : q = SumFunction(given)
    OBVIOUS
  <2>2. /\ cash' = [cash EXCEPT !["source"] = @ + q] /\ q \in Int
        /\ cash \in [Purses -> Int] /\ cash["source"] \in Int
    BY <1>1, <1>4, <1>9, <1>11, <2>1, Places DEF Accounts
  <2>3. /\ cash' \in [Purses -> Int] /\ cash'["source"] = cash["source"] + q
        /\ \A x \in Purses \ {"source"} : cash'[x] = cash[x]
    BY <2>2, Places
  <2>4. SumFunction(cash') = SumFunction(cash) - cash["source"] + cash'["source"]
    BY <2>2, <2>3, Places, CashAtOne
  <2> QED  BY <1>11, <2>1, <2>2, <2>3, <2>4
<1>13. SumFunction(cash') + SumFunction(Escrows') = SumFunction(cash) + SumFunction(Escrows)
  BY <1>10, <1>11, <1>12
<1>14. Lots' = Lots
  BY <1>2, <1>3 DEF Lots
<1>15. CashIsConserved' /\ GoodsAreConserved'
  BY <1>1, <1>13, <1>14 DEF CashIsConserved, GoodsAreConserved, Escrows, Lots
<1>16. \A c \in Contracts : RowOK(contract'[c], movements'[c], raids'[c])
  BY <1>1, <1>2, <1>3, <1>7 DEF Accounts, RowOK
<1>17. Accounts'
  BY <1>1, <1>12, <1>16 DEF Accounts
<1> QED  BY <1>15, <1>17 DEF AccountInv

\* The outcome of a contact's fight keeps the accounts even.
LEMMA CombatResolvedAccounts ==
    ASSUME AccountInv, EscortInv', NEW c \in Contracts, CombatResolved(c) PROVE AccountInv'
<1>1. PICK fallen \in SUBSET (movements[c].party \cup contacts[c].band) : Bury(fallen)
  BY DEF CombatResolved
<1>2. EscortInv
  BY DEF AccountInv
<1>3. contacts[c].band \subseteq Raiders /\ movements[c].party \subseteq People
  BY <1>2, ThisRoad DEF Movements
<1>4. fallen \in SUBSET People /\ UNCHANGED stock
  BY <1>3 DEF People, CombatResolved
<1> QED  BY <1>1, <1>4, BuryAccounts

\* A death anywhere keeps the accounts even.
LEMMA DieAccounts ==
    ASSUME AccountInv, EscortInv', NEW p \in People, Die(p) PROVE AccountInv'
<1>1. PICK fallen : fallen = {p}
  OBVIOUS
<1>2. fallen \in SUBSET People /\ Bury(fallen) /\ UNCHANGED stock
  BY <1>1 DEF Die
<1> QED  BY <1>2, BuryAccounts

-----------------------------------------------------------------------------
\* The accounts of every commission stay in order, through every order of steps.
THEOREM AccountsInvariance == Spec => []AccountInv
<1>1. AccountInv /\ EscortInv' /\ [Next]_vars => AccountInv'
  <2> SUFFICES ASSUME AccountInv, EscortInv', [Next]_vars PROVE AccountInv'
    OBVIOUS
  <2>1. CASE UNCHANGED vars
    BY <2>1 DEF vars, AccountInv, Accounts, CashIsConserved, GoodsAreConserved, RowOK
  <2>2. CASE Next
    BY <2>2, NextDayAccounts, OfferAccounts, AcceptAccounts, StartAccounts,
       NpcAcceptStartAccounts, ArriveAccounts, RestEndsAccounts, RetryReturnAccounts,
       ExtinguishedAccounts, RaidEndsAccounts, InterceptionAccounts, PlayerContactAccounts,
       CombatResolvedAccounts, CloseContactAccounts, DieAccounts DEF Next, RouteService
  <2> QED  BY <2>1, <2>2
<1> QED  BY <1>1, InitialAccounts, EscortInvariance, PTL DEF Spec

\* Silver is conserved (jianghu_contracts.py's escrow, route_frontier.py's _close_escort
\* and the sweep of contract_lifecycle.py): whatever the purses and the open commissions
\* hold together is what the world began with.
THEOREM SilverIsConserved == Spec => []CashIsConserved
<1>1. AccountInv => CashIsConserved
  BY DEF AccountInv
<1> QED  BY <1>1, AccountsInvariance, PTL

\* Every lot is in exactly one place, through fights, seizures, deaths and salvage
\* (route_frontier.py's interceptions, contacts and raiders' returns).
THEOREM LotsAreConserved == Spec => []GoodsAreConserved
<1>1. AccountInv => GoodsAreConserved
  BY DEF AccountInv
<1> QED  BY <1>1, AccountsInvariance, PTL
=============================================================================
