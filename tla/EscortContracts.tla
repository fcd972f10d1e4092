---------------------------- MODULE EscortContracts ----------------------------
(***************************************************************************)
(* Funded escort commissions, from the market that escrows the reward to   *)
(* the road that carries the goods: offers and their deadline, acceptance  *)
(* and departure of a player's House, the guild that takes a shipment on   *)
(* its own, rests, fights, seizures, deaths, delivery and the way home.    *)
(*                                                                         *)
(* Three owners hold one fact each: the contract index holds the cash, wakes,    *)
(* the route movement holds bodies and cargo, the institutional dossier    *)
(* holds what the House believes.  The properties are about the three      *)
(* agreeing whatever the order of deaths, fights and deadlines.            *)
(*                                                                         *)
(* A kidnapped client, a second force that attacks raiders on their way    *)
(* home, and a traveller who is alive but unfit are not modelled.  In the  *)
(* code raiders first mobilize a pursuit, which holds them until it meets  *)
(* the convoy; here they are taken at the meeting, so a pursuit that finds *)
(* nobody, and a return refused to raiders it holds, are left out.         *)
(***************************************************************************)
EXTENDS Integers, FiniteSets, FiniteSetsExt

CONSTANTS
    Contracts,      \* the commissions the market may fund
    Goods,          \* Goods[c]: the lot a commission carries
    ClientOf,       \* ClientOf[c]: the civilians it protects
    Player, Retainers, Guildsmen, Raiders, Clients,
    Unlisted,       \* a movement without the key "escort_refs"
    Reward, Toll, Lodging,
    Term,           \* days an offer stays open
    Legs,           \* roads between the two markets
    MaxDeaths,      \* bound: how many people may die
    InitialCash, InitialStock

House  == Retainers \cup {Player}
People == House \cup Guildsmen \cup Raiders \cup Clients

ASSUME EscortAssumption ==
    /\ IsFiniteSet(Contracts)
    /\ Goods \in [Contracts -> Nat] /\ ClientOf \in [Contracts -> SUBSET Clients]
    /\ {Reward, Toll, Lodging, MaxDeaths, InitialCash, InitialStock} \subseteq Nat
    /\ Term \in Nat \ {0} /\ Legs \in Nat \ {0}
    /\ Clients \cap (House \cup Guildsmen \cup Raiders) = {}
    \* everybody belongs to one faction
    /\ House \cap (Guildsmen \cup Raiders) = {}
    \* the civilians of a convoy are named when it departs (jianghu_contracts.py:240-258)
    /\ \A c, d \in Contracts : c # d => ClientOf[c] \cap ClientOf[d] = {}
    /\ \A refs \in SUBSET People : Unlisted # refs

VARIABLES
    contract,   \* the index: status, holder, days left, escrow; principals are who
                \* accepted, until departure, when the movement names the party
    movements,  \* the escort party on the road for each commission
    contacts,   \* raiders in a fight the player must settle, and who won it
    raids,      \* the raiders of a finished fight, on their way to the camp
    cash, stock,
    wakes,      \* commissions with a contract_expiry_due wake
    dossier,    \* phase of the House's record of each commission
    dead,
    away        \* people whose location is not the place the road starts at

vars == <<contract, movements, contacts, raids, cash, stock, wakes, dossier, dead, away>>

Popped    == [status |-> "popped", holder |-> "nobody", principals |-> {}, term |-> 0, escrow |-> 0]
Unoffered == [Popped EXCEPT !.status = "unoffered"]
NoMovement == [kind |-> "none", status |-> "none", resume |-> "none", party |-> {},
               escorts |-> Unlisted, clients |-> {}, legs |-> 0, goods |-> 0]
NoContact == [band |-> {}, winner |-> "none"]
NoRaid    == [on |-> FALSE, party |-> {}, goods |-> 0]

Open(c) == contract[c].status \in {"offered", "accepted"}

-----------------------------------------------------------------------------
(* Who controls a party, and who is busy.                                  *)

Potential(m)   == m.party \ m.clients
Controllers(m) == IF m.escorts = Unlisted THEN Potential(m)
                  ELSE m.escorts \cap Potential(m)

\* The list is dropped whenever it can be derived.
Compact(m) ==
    [m EXCEPT !.escorts = IF Controllers(m) = Potential(m) THEN Unlisted
                          ELSE Controllers(m)]

\* movement.get("escort_refs", participants), and movement.get("escort_refs", [])
Fighters(m)   == IF m.escorts = Unlisted THEN m.party ELSE m.escorts
EscortRefs(m) == IF m.escorts = Unlisted THEN {} ELSE m.escorts

OnRoad(c)  == movements[c].kind # "none"
\* What the movements say of people, which is what a reservation is checked against.
Booked(p) == \E c \in Contracts : p \in movements[c].party \cup raids[c].party

\* The player's fight holds its raiders while it lasts, and no longer: once it is won or
\* lost they are free, although the road has not yet been told the outcome.
Fighting(c)  == contacts[c].winner = "nobody"
Held(c)      == IF Fighting(c) THEN contacts[c].band ELSE {}
Committed(p) == Booked(p) \/ \E c \in Contracts : p \in Held(c)
Usable(group) == {p \in group \ dead : ~Committed(p)}

-----------------------------------------------------------------------------
Init ==
    /\ contract = [c \in Contracts |-> Unoffered]
    /\ movements = [c \in Contracts |-> NoMovement]
    /\ contacts = [c \in Contracts |-> NoContact]
    /\ raids = [c \in Contracts |-> NoRaid]
    /\ cash = [source |-> InitialCash, destination |-> 0, house |-> 0, guild |-> 0]
    /\ stock = [source |-> InitialStock, destination |-> 0, camp |-> 0]
    /\ wakes = {} /\ dossier = [c \in Contracts |-> "none"]
    /\ dead = {} /\ away = {}

-----------------------------------------------------------------------------
(* The commission before departure.                                        *)

Offer(c) ==
    /\ contract[c].status = "unoffered" /\ cash.source >= Reward
    /\ contract' = [contract EXCEPT ![c] =
           [Popped EXCEPT !.status = "offered", !.term = Term, !.escrow = Reward]]
    /\ cash' = [cash EXCEPT !.source = @ - Reward]
    /\ wakes' = wakes \cup {c}
    /\ UNCHANGED <<movements, contacts, raids, stock, dossier, dead, away>>

Accept(c) ==
    /\ contract[c].status = "offered" /\ contract[c].term > 0
    /\ \E refs \in SUBSET Usable(House) :
           /\ Player \in refs
           /\ contract' = [contract EXCEPT ![c].status = "accepted", ![c].holder = "house",
                                           ![c].principals = refs]
    /\ dossier' = [dossier EXCEPT ![c] = "accepted"]
    /\ UNCHANGED <<movements, contacts, raids, cash, wakes, stock, dead, away>>

PruneExpiryWakes(index) == {c \in wakes : index[c].status \in {"offered", "accepted"}}

Depart(c, holder, party) ==
    /\ stock.source >= Goods[c]
    /\ movements' = [movements EXCEPT ![c] = Compact(
           [NoMovement EXCEPT !.kind = "escort_contract", !.status = "active",
                              !.party = party \cup ClientOf[c], !.escorts = party,
                              !.clients = ClientOf[c], !.legs = Legs, !.goods = Goods[c]])]
    /\ stock' = [stock EXCEPT !.source = @ - Goods[c]]
    /\ contract' = [contract EXCEPT ![c].status = "in_progress", ![c].holder = holder,
                                    ![c].principals = {}]
    /\ wakes' = PruneExpiryWakes(contract')
    /\ UNCHANGED <<contacts, raids, dead, away>>

Start(c) ==
    /\ contract[c].status = "accepted" /\ contract[c].term > 0
    /\ \E roster \in SUBSET (Usable(House) \ away) :
           /\ contract[c].principals \subseteq roster /\ Player \in roster
           /\ Depart(c, "house", roster)
    /\ dossier' = [dossier EXCEPT ![c] = "in_field"]
    /\ UNCHANGED cash

\* The guild takes shipments only; the market it leaves pays the toll.
NpcAcceptStart(c) ==
    /\ contract[c].status = "offered" /\ contract[c].term > 0
    /\ ClientOf[c] = {} /\ Goods[c] > 0 /\ cash.source >= Toll
    /\ \E crew \in SUBSET (Usable(Guildsmen) \ away) : crew # {} /\ Depart(c, "guild", crew)
    /\ cash' = [cash EXCEPT !.source = @ - Toll, !.destination = @ + Toll]
    /\ UNCHANGED dossier

\* The sweep runs in every shared frontier; without a due wake or a party in
\* service no frontier is scheduled for that day.
Lapsed(c) == Open(c) /\ contract[c].term <= 1
FrontierDue == (\E c \in wakes : Lapsed(c)) \/ (\E c \in Contracts : OnRoad(c) \/ raids[c].on)

NextDay ==
    LET swept == {c \in Contracts : FrontierDue /\ Lapsed(c)} IN
    /\ \E c \in Contracts : Open(c)
    /\ contract' = [c \in Contracts |->
           IF c \in swept THEN Popped
           ELSE IF Open(c) /\ contract[c].term > 0 THEN [contract[c] EXCEPT !.term = @ - 1]
           ELSE contract[c]]
    /\ cash' = [cash EXCEPT !.source = @ + SumFunction([c \in swept |-> contract[c].escrow])]
    /\ wakes' = IF FrontierDue THEN PruneExpiryWakes(contract') ELSE wakes
    /\ dossier' = [c \in Contracts |->
           IF c \in swept /\ dossier[c] # "none" THEN "closed" ELSE dossier[c]]
    /\ UNCHANGED <<movements, contacts, raids, stock, dead, away>>

-----------------------------------------------------------------------------
(* Closing: _close_escort for the two kinds of escort movement.            *)

Pop(c) == contract' = [contract EXCEPT ![c] = Popped]
OffRoad(c) == movements' = [movements EXCEPT ![c] = NoMovement]
DossierIs(c, phase) ==
    dossier' = [dossier EXCEPT ![c] = IF @ = "none" THEN @ ELSE phase]

\* Rest at the destination, at an inn when there is one and it can be paid.
ReturnMovement(m) ==
    {Compact([NoMovement EXCEPT !.kind = "escort_return", !.status = "resting",
                                !.resume = resume, !.party = EscortRefs(m),
                                !.escorts = EscortRefs(m), !.legs = Legs]) :
        resume \in {"returning", "awaiting_return_logistics"}}

Delivered(c, m) ==
    LET holder == contract[c].holder
        paid   == [cash EXCEPT ![holder] = @ + contract[c].escrow]
    IN  /\ Pop(c) /\ DossierIs(c, "returning")
        /\ stock' = [stock EXCEPT !.destination = @ + m.goods]
        /\ away' = away \cup m.party
        /\ IF EscortRefs(m) # {}
           THEN /\ \E back \in ReturnMovement(m) :
                       movements' = [movements EXCEPT ![c] = back]
                /\ \E bill \in {0, Lodging} :
                       /\ bill <= paid[holder]
                       /\ cash' = [paid EXCEPT ![holder] = @ - bill, !.destination = @ + bill]
           ELSE OffRoad(c) /\ cash' = paid

\* Mutation: a failed commission closes without giving the escrow back.
FailedUnrefunded(c, m, control, seized) ==
    LET place == IF control THEN "camp" ELSE "source" IN
    /\ Pop(c) /\ OffRoad(c)
    /\ stock' = IF seized THEN stock ELSE [stock EXCEPT ![place] = @ + m.goods]
    /\ UNCHANGED <<cash, dossier, away>>

\* Mutation: the cargo is credited although the raiders' return already owns it.
FailedTwiceOwned(c, m, control, seized) ==
    LET place == IF control THEN "camp" ELSE "source" IN
    /\ Pop(c) /\ OffRoad(c)
    /\ cash' = [cash EXCEPT !.source = @ + contract[c].escrow]
    /\ stock' = [stock EXCEPT ![place] = @ + m.goods]
    /\ UNCHANGED <<dossier, away>>

\* "control": attackers hold the road.  "seized": their return owns the cargo.
Failed(c, m, control, seized) ==
    LET place == IF control THEN "camp" ELSE "source" IN
    /\ Pop(c) /\ OffRoad(c)
    /\ cash' = [cash EXCEPT !.source = @ + contract[c].escrow]
    /\ stock' = IF seized THEN stock ELSE [stock EXCEPT ![place] = @ + m.goods]
    /\ UNCHANGED <<dossier, away>>

CloseContract(c, m, success, control, seized) ==
    /\ IF success THEN Delivered(c, m) ELSE Failed(c, m, control, seized)
    /\ contacts' = [contacts EXCEPT ![c] = NoContact]

\* The contact of a lost return stays behind; the combat it names is gone.
CloseReturn(c, m, success) ==
    /\ IF success
       THEN OffRoad(c) /\ away' = away \ m.party /\ DossierIs(c, "closed")
       ELSE /\ movements' = [movements EXCEPT ![c] = Compact(m)]
            /\ UNCHANGED <<away, dossier>>
    /\ contacts' = [contacts EXCEPT ![c].winner = "none"]
    /\ UNCHANGED <<contract, cash, stock>>

CloseEscort(c, m, success, control, seized) ==
    IF m.kind = "escort_contract" THEN CloseContract(c, m, success, control, seized)
    ELSE CloseReturn(c, m, success)

-----------------------------------------------------------------------------
(* The daily service of one party on the road.                             *)

StopOver(c, m) ==
    /\ movements' = [movements EXCEPT ![c] = Compact(
           [m EXCEPT !.status = "resting", !.resume = "active", !.legs = @ - 1])]
    /\ away' = away \cup m.party
    /\ \E payer \in {"house", "guild"}, bill \in {0, Lodging} :
           /\ m.party \cap House # {} <=> payer = "house"
           /\ bill <= cash[payer]
           /\ cash' = [cash EXCEPT ![payer] = @ - bill, !.destination = @ + bill]
    /\ UNCHANGED <<contract, contacts, stock, dossier>>

EndOfRoad(c, m) ==
    IF m.legs > 1 /\ m.party # {} THEN StopOver(c, m)
    ELSE CloseEscort(c, m, TRUE, FALSE, FALSE)

OnRoadStatus(m) == m.status \in {"active", "returning"}

Arrive(c) ==
    /\ OnRoadStatus(movements[c])
    /\ EndOfRoad(c, movements[c])
    /\ UNCHANGED <<raids, wakes, dead>>

RestEnds(c) ==
    /\ movements[c].status = "resting"
    /\ movements' = [movements EXCEPT ![c].status = movements[c].resume, ![c].resume = "none"]
    /\ UNCHANGED <<contract, contacts, raids, cash, wakes, stock, dossier, dead, away>>

RetryReturn(c) ==
    /\ movements[c].status = "awaiting_return_logistics"
    /\ Controllers(movements[c]) # {}
    /\ movements' = [movements EXCEPT ![c] = Compact([@ EXCEPT !.status = "returning"])]
    /\ UNCHANGED <<contract, contacts, raids, cash, wakes, stock, dossier, dead, away>>

\* Mutation: a party of the dead is taken off the road and its commission is not closed.
ExtinguishedUnclosed(c) ==
    /\ movements[c].status = "party_extinguished"
    /\ OffRoad(c)
    /\ UNCHANGED <<contract, contacts, raids, cash, wakes, stock, dossier, dead, away>>

\* Mutation: only a party with somebody left in it is settled.
ExtinguishedInhabited(c) ==
    LET m == movements[c] IN
    /\ m.status = "party_extinguished" /\ m.party # {}
    /\ IF m.kind = "escort_contract" THEN CloseEscort(c, m, FALSE, FALSE, FALSE)
       ELSE OffRoad(c) /\ UNCHANGED <<contract, contacts, cash, stock, dossier, away>>
    /\ UNCHANGED <<raids, wakes, dead>>

Extinguished(c) ==
    LET m == movements[c] IN
    /\ m.status = "party_extinguished"
    /\ IF m.kind = "escort_contract" THEN CloseEscort(c, m, FALSE, FALSE, FALSE)
       ELSE OffRoad(c) /\ UNCHANGED <<contract, contacts, cash, stock, dossier, away>>
    /\ UNCHANGED <<raids, wakes, dead>>

-----------------------------------------------------------------------------
(* Fights.  Raiders who can still walk take the road home, with the cargo  *)
(* when they hold the road.  Bound: one band at a time for each road.      *)

FreeBand == {band \in SUBSET Usable(Raiders) : band # {}}

\* Mutation: the raiders go home whatever they have begun since their fight.
ReturnUnchecked(band) == band # {}

\* All of them are reserved for the way home, or none: one who has joined another band
\* since the fight ended leaves all of them without a return.
Returns(band) == band # {} /\ \A p \in band : ~Booked(p)

StartReturn(c, band, goods) ==
    raids' = IF Returns(band)
             THEN [raids EXCEPT ![c] = [on |-> TRUE, party |-> band, goods |-> goods]]
             ELSE raids

AfterFight(c, m, band, control, failed) ==
    /\ StartReturn(c, band, IF control THEN m.goods ELSE 0)
    /\ IF failed THEN CloseEscort(c, m, FALSE, control, control /\ Returns(band))
       ELSE \/ EndOfRoad(c, m)
            \/ /\ movements' = [movements EXCEPT ![c] = Compact(m)]
               /\ UNCHANGED <<contract, contacts, cash, stock, dossier, away>>

\* A fight without the player: four exchanges, settled in the same service.
Interception(c) ==
    LET m == movements[c] IN
    /\ OnRoadStatus(m) /\ m.party # {} /\ Player \notin m.party /\ ~raids[c].on
    /\ \E band \in FreeBand, lost \in BOOLEAN : \E fallen \in SUBSET (m.party \cup band) :
           /\ Cardinality(dead \cup fallen) <= MaxDeaths
           /\ LET hurt == m.party \cap fallen
                  after == IF hurt = {} THEN m
                           ELSE [m EXCEPT !.party = @ \ hurt,
                                          !.escorts = Fighters(m) \ hurt]
                  control == lost \/ Fighters(after) = {}
              IN  AfterFight(c, after, band \ fallen, control,
                             control \/ m.clients \cap fallen # {})
           /\ dead' = dead \cup fallen
    /\ UNCHANGED wakes

\* With the player in the party the fight waits for the player.
PlayerContact(c) ==
    /\ OnRoadStatus(movements[c]) /\ Player \in movements[c].party /\ ~raids[c].on
    /\ \E band \in FreeBand :
           contacts' = [contacts EXCEPT ![c] = [band |-> band, winner |-> "nobody"]]
    /\ movements' = [movements EXCEPT ![c].status = "contact_pending"]
    /\ UNCHANGED <<contract, raids, cash, wakes, stock, dossier, dead, away>>

\* prune_dead_from_durable_activities on one escort movement.
Pruned(m, fallen) ==
    LET rest == [m EXCEPT !.party = @ \ fallen,
                          !.escorts = IF @ = Unlisted THEN @ ELSE @ \ fallen]
        lost == Controllers(m) # {} /\ Controllers(rest) = {}
    IN  CASE m.party \cap fallen = {} -> m
          [] rest.party = {} \/ (lost /\ Potential(rest) = {}) ->
                 Compact([rest EXCEPT !.status = "party_extinguished"])
          [] rest.party # {} /\ lost /\ Potential(rest) # {} ->
                 Compact([rest EXCEPT !.status = "awaiting_return_logistics"])
          [] OTHER -> Compact(rest)

\* Its client is dead, or nobody is left of those who accepted it: a commission is
\* closed before departure.
Impossible(c, fallen) ==
    \/ Open(c) /\ ClientOf[c] \cap fallen # {}
    \/ /\ contract[c].status = "accepted" /\ contract[c].principals # {}
       /\ contract[c].principals \subseteq fallen

Bury(fallen) ==
    LET closed == {c \in Contracts : Impossible(c, fallen)} IN
    /\ dead' = dead \cup fallen
    /\ movements' = [c \in Contracts |-> Pruned(movements[c], fallen)]
    /\ raids' = [c \in Contracts |-> [raids[c] EXCEPT !.party = @ \ fallen]]
    /\ contract' = [c \in Contracts |->
           IF c \in closed THEN Popped ELSE [contract[c] EXCEPT !.principals = @ \ fallen]]
    /\ cash' = [cash EXCEPT !.source = @ + SumFunction([c \in closed |-> contract[c].escrow])]
    /\ wakes' = wakes \ closed

\* The player's exact combat ends; its dead are closed at once.
CombatResolved(c) ==
    /\ Fighting(c)
    /\ \E winner \in {"side_a", "side_b", "draw"} :
       \E fallen \in SUBSET (movements[c].party \cup contacts[c].band) :
           /\ Cardinality(dead \cup fallen) <= MaxDeaths
           /\ Bury(fallen)
           /\ contacts' = [contacts EXCEPT ![c] = [band |-> @.band \ fallen, winner |-> winner]]
    /\ UNCHANGED <<stock, dossier, away>>

CloseContact(c) ==
    LET m == movements[c]
        winner == contacts[c].winner
        control == winner = "side_b"
        band == contacts[c].band \ dead
    IN  /\ m.status = "contact_pending" /\ winner \notin {"none", "nobody"}
        /\ StartReturn(c, band, IF control THEN m.goods ELSE 0)
        /\ CloseEscort(c, m, winner = "side_a" /\ m.clients \cap dead = {},
                       control, control /\ Returns(band))
        /\ UNCHANGED <<wakes, dead>>

\* The raiders reach their camp, or nobody is left and the market finds the cargo.
RaidEnds(c) ==
    /\ raids[c].on
    /\ \E place \in IF raids[c].party = {} THEN {"source", "destination"} ELSE {"camp"} :
           stock' = [stock EXCEPT ![place] = @ + raids[c].goods]
    /\ raids' = [raids EXCEPT ![c] = NoRaid]
    /\ UNCHANGED <<contract, movements, contacts, cash, wakes, dossier, dead, away>>

\* A death away from the fights above: a wound, an illness, old age.  A client is
\* followed from the offer to the delivery.
Die(p) ==
    /\ p \notin dead /\ Cardinality(dead) < MaxDeaths
    /\ p \in Clients => \E c \in Contracts : p \in ClientOf[c] /\ (Open(c) \/ OnRoad(c))
    /\ Bury({p})
    /\ contacts' = [c \in Contracts |-> [contacts[c] EXCEPT !.band = @ \ {p}]]
    /\ UNCHANGED <<stock, dossier, away>>

-----------------------------------------------------------------------------
RouteService(c) ==
    Arrive(c) \/ RestEnds(c) \/ RetryReturn(c) \/ Extinguished(c) \/ RaidEnds(c)

Next ==
    \/ NextDay
    \/ \E c \in Contracts :
           \/ Offer(c) \/ Accept(c) \/ Start(c) \/ NpcAcceptStart(c)
           \/ RouteService(c) \/ Interception(c)
           \/ PlayerContact(c) \/ CombatResolved(c) \/ CloseContact(c)
    \/ \E p \in People : Die(p)

\* Days pass and roads are served every day.  Nothing is assumed of the player,
\* of the raiders, or of a return that lacks provisions.
Fairness ==
    /\ WF_vars(NextDay)
    /\ \A c \in Contracts :
           /\ WF_vars(Arrive(c)) /\ WF_vars(RestEnds(c))
           /\ WF_vars(Extinguished(c)) /\ WF_vars(RaidEnds(c))

Spec == Init /\ [][Next]_vars /\ Fairness

-----------------------------------------------------------------------------
(* Properties                                                              *)

Statuses == {"none", "active", "returning", "resting", "awaiting_return_logistics",
             "contact_pending", "party_extinguished"}

\* The shape of every record; no purse and no stock is overdrawn.
EscortTypeOK ==
    /\ contract \in [Contracts -> [status : {"unoffered", "offered", "accepted", "in_progress",
                                              "popped"},
                                   holder : {"nobody", "house", "guild"},
                                   principals : SUBSET House, term : 0 .. Term, escrow : Nat]]
    /\ movements \in [Contracts -> [kind : {"none", "escort_contract", "escort_return"},
                                    status : Statuses, resume : Statuses,
                                    party : SUBSET People, escorts : {Unlisted} \cup SUBSET People,
                                    clients : SUBSET Clients, legs : 0 .. Legs, goods : Nat]]
    /\ contacts \in [Contracts -> [band : SUBSET Raiders,
                                   winner : {"none", "nobody", "side_a", "side_b", "draw"}]]
    /\ raids \in [Contracts -> [on : BOOLEAN, party : SUBSET Raiders, goods : Nat]]
    /\ cash \in [{"source", "destination", "house", "guild"} -> Nat]
    /\ stock \in [{"source", "destination", "camp"} -> Nat]
    /\ wakes \subseteq Contracts
    /\ dossier \in [Contracts -> {"none", "accepted", "in_field", "returning", "closed"}]
    /\ dead \subseteq People /\ away \subseteq People

\* Escrow, reward, refund, toll and lodging only move silver: what the purses
\* and the open commissions hold is always what the world began with.
CashIsConserved ==
    SumFunction(cash) + SumFunction([c \in Contracts |-> contract[c].escrow]) = InitialCash

\* A lot is in a market, in a camp, with the convoy, or with the raiders who
\* took it, and in one of these places only, through fights, deaths and salvage.
GoodsAreConserved ==
    SumFunction(stock) + SumFunction([c \in Contracts |-> movements[c].goods + raids[c].goods])
        = InitialStock

\* The index says a commission is being performed exactly while an escort party
\* is on the road for it: neither is ever left without the other.
PerformanceHasOwner ==
    \A c \in Contracts :
        contract[c].status = "in_progress" <=> movements[c].kind = "escort_contract"

\* An offer that can still be taken or started has not passed its deadline: the
\* sweep has already refunded it, though it runs only when a frontier is due.
OpenOffersHaveTime == \A c \in Contracts : Open(c) => contract[c].term > 0

\* Nobody travels with two parties, goes home with two bands, or fights for the player's
\* attackers and does either, though a band is free between its fight and the service
\* that learns of it.  The occupancy derived from these owners refuses the state otherwise.
NobodyOnTwoRoads ==
    LET seats == {<<c, "escort">> : c \in Contracts} \cup {<<c, "contact">> : c \in Contracts}
                     \cup {<<c, "raid">> : c \in Contracts}
        seated(s) == CASE s[2] = "escort" -> movements[s[1]].party
                       [] s[2] = "contact" -> Held(s[1])
                       [] s[2] = "raid" -> raids[s[1]].party
    IN  \A s, t \in seats : s # t => seated(s) \cap seated(t) = {}

\* A performance ends in one of two ways: the goods reach the destination and the
\* market is not refunded, or the market is refunded and they do not.
SettlementMatchesDelivery ==
    [][\A c \in Contracts :
           contract[c].status = "in_progress" /\ contract'[c].status = "popped" =>
               (cash'.source >= cash.source + Reward) # (stock'.destination > stock.destination)]_vars

\* Every funded offer is taken up or refunded; it cannot stay in the index.
OffersEnd == \A c \in Contracts : contract[c].status = "offered" ~> contract[c].status # "offered"

\* A commission the guild performs ends, however often it is attacked and
\* whoever dies: the party arrives, is robbed, or is settled when nobody is left.
GuildContractsEnd ==
    \A c \in Contracts :
        (contract[c].status = "in_progress" /\ contract[c].holder = "guild")
            ~> contract[c].status = "popped"

\* Raiders, and what they took, do not stay on the road for ever.
RaidersGetHome == \A c \in Contracts : raids[c].on ~> ~raids[c].on

\* The comment above the delivery: the client obligation ends there, but the
\* surviving escorts stay committed through rest and the return leg.
ReturningHasAJourney ==
    \A c \in Contracts : dossier[c] = "returning" => movements[c].kind = "escort_return"
=============================================================================
