----------------------------- MODULE Tournaments -----------------------------
(***************************************************************************)
(* One championship from the opening of its registration to the way home   *)
(* of those who travelled to it: the sponsors' choices, journeys with       *)
(* money reserved for the host city, the draw, sessions of fights, the      *)
(* player's own matches, and the prize.                                     *)
(*                                                                          *)
(* Two writers share the tournament: time (calendar and one-off events) and *)
(* the player's commands.  A time command whose settlement raises is        *)
(* refused as a whole: nothing changes and the clock cannot pass the event  *)
(* (stuck).  Commands that a derived double booking makes raise are not     *)
(* modelled as steps: nothing works any more (DoubleBooked).                *)
(*                                                                          *)
(* Left out: reputation, relations, delegation presence and its receptions, *)
(* equipment, the top-three policy (between champion and broad), and the    *)
(* session number inside a day (the next session is today or tomorrow).     *)
(***************************************************************************)
EXTENDS Integers, Sequences, FiniteSets, FiniteSetsExt, SequencesExt, Functions

CONSTANTS
    Player, Hosts,      \* the sponsor that lives in the host city; Player is one of Hosts
    Guests,             \* the sponsor that has to travel
    Seeding,            \* all of them, best public score first
    Fee, Board, Seat, Toll, Gate,   \* silver per entrant, person or public day
    Weights,            \* weight of each of the four places
    CloseDay, ConvergenceDay, CompetitionDay, TripDays,
    SessionMatches,     \* matches of one timed session
    Funds,              \* silver of each sponsor and market at the start
    MaxMishaps,         \* bound: setbacks of journeys, errands and deaths off the ring
    Bye                 \* also: nobody

People   == Hosts \cup Guests
Sponsors == {"host", "guest"}

ASSUME TournamentAssumption ==
    /\ IsFiniteSet(Hosts) /\ IsFiniteSet(Guests) /\ Hosts \cap Guests = {} /\ Player \in Hosts
    /\ (Sponsors \cup {Bye}) \cap People = {}
    /\ Seeding \in Seq(People) /\ \A p \in People : \E i \in DOMAIN Seeding : Seeding[i] = p
    /\ Weights \in [1..4 -> Nat \ {0}]
    /\ {Fee, Board, Seat, Toll, Gate, CloseDay, ConvergenceDay, CompetitionDay, TripDays,
        SessionMatches, Funds, MaxMishaps} \subseteq Nat

Ops      == People \cup Sponsors    \* a trip is named by its person, a delegation by its sponsor
SponsorOf(p) == IF p \in Hosts THEN "host" ELSE "guest"
SponsorOfOp(o) == IF o \in Sponsors THEN o ELSE SponsorOf(o)
MembersOf(f) == IF f = "host" THEN Hosts ELSE Guests
SeedOf(p)      == CHOOSE i \in DOMAIN Seeding : Seeding[i] = p

VARIABLES
    tour,       \* the row of the registry
    ops,        \* deployments: trips and delegations
    roads,      \* movements of the route owner: <<op, direction>>
    agenda,     \* one-off events: kind, ref and days left
    day, stuck,
    silver,     \* treasuries, markets, the player's purse and all that were paid out
    present,    \* guests whose location is in the host city
    errand,     \* people committed elsewhere
    dead, mishaps

tournamentVars == <<tour, ops, roads, agenda, day, stuck, silver, present, errand, dead, mishaps>>

Mishap == mishaps < MaxMishaps /\ mishaps' = mishaps + 1

NoPair == <<Bye, Bye>>
NoTour == [status |-> "none", phase |-> "championship", regs |-> {}, bracket |-> <<>>,
           winners |-> <<>>, round |-> 1, size |-> 0, pair |-> NoPair, matchSize |-> 0,
           lost |-> [p \in People |-> 0], runner |-> Bye, lastLoser |-> Bye,
           places |-> [i \in 1..4 |-> Bye], escrow |-> 0, gated |-> FALSE, combat |-> "none"]
NoOp   == [status |-> "none", members |-> {}, fee |-> 0, board |-> 0, seats |-> 0]

Live     == tour.status \notin {"none", "popped", "completed"}
Event(k, r, d) == [kind |-> k, ref |-> r, due |-> d]
Due(k, r)      == Event(k, r, 0) \in agenda
Reserve(o)     == ops[o].fee + ops[o].board + ops[o].seats

-----------------------------------------------------------------------------
(* Who is free: occupancy is derived from deployments, movements and the     *)
(* active pair, never stored.                                               *)

InOp(p)   == \E o \in Ops : ops[o].status # "none" /\ p \in ops[o].members
InPair(p) == p \in {tour.pair[1], tour.pair[2]}
Booked(p) == InOp(p) \/ InPair(p) \/ p \in errand
AtHost(p) == p \notin errand /\ (p \in Hosts \/ p \in present)
AtHome(p) == p \notin errand /\ (p \in Hosts \/ p \notin present)

Available(f) == {p \in MembersOf(f) \ (dead \cup {Player}) : ~Booked(p) /\ AtHome(p)}

\* The same people on two movements: every derivation of the occupancy raises.
DoubleBooked == \E o \in Ops : {<<o, "out">>, <<o, "back">>} \subseteq roads

-----------------------------------------------------------------------------
(* The draw.                                                                *)

\* The members of S in an order, a set of pairs <<earlier, later>>.
InOrder(S, order) ==
    [i \in 1..Cardinality(S) |->
        CHOOSE p \in S : Cardinality({q \in S : <<q, p>> \in order}) = i - 1]

BySeed == {e \in People \X People : SeedOf(e[1]) < SeedOf(e[2])}

\* Those who lost later come first.
ByLoss(t) ==
    {e \in People \X People :
        \/ t.lost[e[1]] > t.lost[e[2]]
        \/ t.lost[e[1]] = t.lost[e[2]] /\ e \in BySeed}

\* The best against the worst; the middle one of an odd number has a bye.
Draw(s) ==
    LET n == Len(s)
    IN  [i \in 1..((n + 1) \div 2) |-> <<s[i], IF i = n + 1 - i THEN Bye ELSE s[n + 1 - i]>>]

CloseRegistration(t) ==
    [t EXCEPT !.status = "bracket_ready", !.bracket = Draw(InOrder(t.regs, BySeed)),
              !.size = Cardinality(t.regs)]

\* Mutation: the finalists of the championship are not kept out of the losers' draw.
LosersOfAll(t) == ({p \in People : t.lost[p] > 0} \cup {t.runner}) \ {Bye}

Losers(t) == {p \in People : t.lost[p] > 0} \ {t.winners[1], t.runner}

NextRound(t) ==
    [t EXCEPT !.bracket = Draw(InOrder(ToSet(t.winners), BySeed)), !.winners = <<>>,
              !.round = @ + 1, !.size = Len(t.winners)]

Complete(t) == [t EXCEPT !.status = "completed", !.winners = <<>>, !.bracket = <<>>]

CrownChampion(t) ==
    LET c == [t EXCEPT !.places[1] = t.winners[1], !.places[2] = t.runner]
        l == Losers(t)
    IN  IF l = {} THEN Complete(c)
        ELSE [c EXCEPT !.phase = "losers_bracket", !.bracket = Draw(InOrder(l, ByLoss(t))),
                       !.winners = <<>>, !.round = 1, !.size = Cardinality(l),
                       !.status = "in_progress"]

SettleBracket(t) ==
    IF t.pair # NoPair \/ t.bracket # <<>> THEN t
    ELSE IF Len(t.winners) > 1 THEN NextRound(t)
    ELSE IF Len(t.winners) = 1 /\ t.phase = "championship" THEN CrownChampion(t)
    ELSE IF Len(t.winners) = 1
         THEN Complete([t EXCEPT !.places[3] = t.winners[1], !.places[4] = t.lastLoser])
    ELSE IF t.phase = "championship" THEN Complete([t EXCEPT !.places = NoTour.places])
    ELSE Complete(t)

\* A match is called: the pair leaves the bracket for the ring.
BeginMatch(t) ==
    [t EXCEPT !.bracket = Tail(@), !.pair = Head(t.bracket), !.status = "in_progress",
              !.matchSize = IF t.size > 2 THEN t.size ELSE 2]

\* A bye advances whoever can appear.
PassBye(t, usable) ==
    LET p == Head(t.bracket)[1]
    IN  [t EXCEPT !.bracket = Tail(@), !.winners = IF p \in usable THEN Append(@, p) ELSE @]

EndMatch(t) == [t EXCEPT !.pair = NoPair, !.matchSize = 0, !.status = "in_progress"]

RecordWinner(t, w) ==
    LET loser == IF t.pair[1] = w THEN t.pair[2] ELSE t.pair[1]
        noted == IF t.phase = "championship"
                 THEN IF t.matchSize <= 2 THEN [t EXCEPT !.runner = loser]
                      ELSE [t EXCEPT !.lost[loser] = IF @ = 0 THEN t.round ELSE @]
                 ELSE IF t.matchSize <= 2 THEN [t EXCEPT !.lastLoser = loser] ELSE t
    IN  EndMatch([noted EXCEPT !.winners = Append(@, w)])

RecordForfeit(t, usable) ==
    LET able == {t.pair[1], t.pair[2]} \cap usable
    IN  EndMatch([t EXCEPT !.winners = IF able = {} THEN @
                                       ELSE Append(@, CHOOSE p \in able : TRUE)])

\* A session on its way: who was killed, the matches it still has (0: as many as there
\* are) and how it ended (empty: it goes on).  One entry of the bracket is a bye, a
\* forfeit, a match that waits for the player, or a fight won by either side, with one
\* of the two possibly killed.
Begun(t, left) == [tour |-> t, killed |-> {}, left |-> left, end |-> ""]

Played(s, u, killed) ==
    LET t == IF s.left = 1 THEN SettleBracket(u) ELSE u
    IN  [tour |-> t, killed |-> killed, left |-> IF s.left = 0 THEN 0 ELSE s.left - 1,
         end |-> IF s.left # 1 THEN "" ELSE IF t.status = "completed" THEN "completed"
                 ELSE "continue"]

NoneOrOne(S) == {{}} \cup {{p} : p \in S}
Fights(s, match, pair) ==
    {Played(s, RecordWinner(match, w), s.killed \cup k) : w \in pair, k \in NoneOrOne(pair)}

Entry(s, able) ==
    LET t      == SettleBracket(s.tour)
        match  == BeginMatch(t)
        pair   == {match.pair[1], match.pair[2]}
        usable == able \ s.killed
    IN  IF s.end # "" THEN {s}
        ELSE IF t.status = "completed" THEN {[s EXCEPT !.tour = t, !.end = "completed"]}
        ELSE IF Head(t.bracket)[2] = Bye THEN {[s EXCEPT !.tour = PassBye(t, usable)]}
        ELSE IF ~(pair \subseteq usable)
        THEN {Played(s, RecordForfeit(match, usable), s.killed)}
        ELSE IF Player \in pair
        THEN {[s EXCEPT !.tour = [match EXCEPT !.status = "awaiting_player_match",
                                               !.combat = "active"], !.end = "waiting"]}
        ELSE Fights(s, match, pair)

\* More entries than two brackets have: a match or a bye for each entrant, and the end.
MaxEntries == 6 * Cardinality(People) + 1

Session(s, able) ==
    LET after[n \in 0 .. MaxEntries] == IF n = 0 THEN {s} ELSE UNION {Entry(x, able) : x \in after[n - 1]}
    IN  after[MaxEntries]

\* A session that starts at a match of the player either waits for it or reads it.
Resume(t, able, left) ==
    IF t.status # "awaiting_player_match" THEN Session(Begun(t, left), able)
    ELSE IF t.combat = "active" THEN {[Begun(t, left) EXCEPT !.end = "waiting"]}
    ELSE LET w == IF t.combat = "side_a" THEN t.pair[1] ELSE t.pair[2]
         IN  Session(Played(Begun(t, left), RecordWinner([t EXCEPT !.combat = "none"], w), {}), able)

-----------------------------------------------------------------------------
(* Money.                                                                   *)

\* The purse split over the places that were earned; the last one takes the rest.
Earned(t) == {i \in 1..4 : t.places[i] # Bye}
Payouts(t) ==
    LET weight == SumFunction([i \in Earned(t) |-> Weights[i]])
        share  == [i \in Earned(t) |-> (t.escrow * Weights[i]) \div weight]
    IN  IF Earned(t) = {} THEN share
        ELSE [share EXCEPT ![Max(Earned(t))] = @ + t.escrow - SumFunction(share)]

PaidTo(t, f) == {i \in Earned(t) : t.places[i] \in MembersOf(f)}

\* Mutation: both shares of an award are rounded down.
AwardedRounded(t, s) ==
    LET gross == Payouts(t)
        part(places, n) == SumFunction([i \in places |-> (gross[i] * n) \div 10])
    IN  [s EXCEPT !.host = @ + part(PaidTo(t, "host"), 7),
                  !.guest = @ + part(PaidTo(t, "guest"), 7),
                  !.purses = @ + part(Earned(t), 3)]

\* Seven tenths of each award to the sponsor, the rest to the person.
Awarded(t, s) ==
    LET gross == Payouts(t)
        shares(f) == [i \in PaidTo(t, f) |-> (gross[i] * 7) \div 10]
        rest == [i \in Earned(t) |-> gross[i] - (gross[i] * 7) \div 10]
    IN  [s EXCEPT !.host = @ + SumFunction(shares("host")),
                  !.guest = @ + SumFunction(shares("guest")),
                  !.purses = @ + SumFunction(rest)]

\* A death takes its person out of every deployment; one left empty is refunded.
Prune(o, gone) ==
    LET m == ops[o].members \ gone
    IN  IF ops[o].status = "none" \/ m = ops[o].members THEN ops[o]
        ELSE IF m = {} THEN NoOp ELSE [ops[o] EXCEPT !.members = m]
Refund(f, gone) ==
    SumFunction([o \in {x \in Ops : /\ x = f \/ x \in MembersOf(f)
                                   /\ ops[x].members # {} /\ ops[x].members \subseteq gone} |->
                    Reserve(o)])

\* One day's public: as many tickets as the city and its market can pay.
SellTickets(t, s) ==
    LET paid == Min({Gate, s.market})
    IN  IF t.gated THEN <<t, s>>
        ELSE <<[t EXCEPT !.escrow = @ + paid, !.gated = TRUE], [s EXCEPT !.market = @ - paid]>>

-----------------------------------------------------------------------------
TournamentInit ==
    /\ tour = NoTour /\ ops = [o \in Ops |-> NoOp] /\ roads = {} /\ agenda = {}
    /\ day = 0 /\ stuck = FALSE
    /\ silver = [host |-> Funds, guest |-> Funds, market |-> Gate, region |-> 0,
                 player |-> Gate, purses |-> 0]
    /\ present = {} /\ errand = {} /\ dead = {} /\ mishaps = 0

\* The calendar's later dates are put on the same agenda as the one-off events.
OpenRegistration ==
    /\ tour.status = "none" /\ day = 0
    /\ tour' = [tour EXCEPT !.status = "registration_open"]
    /\ agenda' = {Event("judgment", f, 0) : f \in {g \in Sponsors : Available(g) # {}}}
                 \cup {Event("close", "tour", CloseDay),
                       Event("convergence", "tour", ConvergenceDay),
                       Event("competition", "tour", CompetitionDay)}
    /\ UNCHANGED <<ops, roads, day, stuck, silver, present, errand, dead, mishaps>>

Take(k, r) == Due(k, r) /\ ~stuck /\ ~DoubleBooked

\* The n best of S by public score.
Best(S, n) == {p \in S : Cardinality({q \in S : <<q, p>> \in BySeed}) < n}

\* The best that the sponsor may send, local ones while the treasury can pay.
Decide(f, policy, delegates) ==
    LET able   == Available(f)
        chosen == CASE policy = "none" -> {}
                    [] policy = "champion" -> Best(able, 1)
                    [] policy = "broad" -> able
        local  == Best(chosen, silver.host \div Fee)
        rest   == able \ chosen
        leave  == CloseDay - TripDays - day
        gather == ConvergenceDay - (IF f = "host" THEN 0 ELSE TripDays) - day
        trips  == IF f = "guest" /\ leave >= 0
                  THEN {Event("trip_departure", p, leave) : p \in chosen} ELSE {}
        party  == IF delegates /\ rest # {} /\ gather >= 0
                  THEN {Event("delegation_departure", f, gather)} ELSE {}
        n      == Cardinality(local)
    IN  /\ Take("judgment", f)
        /\ agenda' = (agenda \ {Event("judgment", f, 0)})
                     \cup IF tour.status = "registration_open" THEN trips \cup party ELSE {}
        /\ IF tour.status = "registration_open" /\ f = "host"
           THEN /\ tour' = [tour EXCEPT !.regs = @ \cup local, !.escrow = @ + n * Fee]
                /\ silver' = [silver EXCEPT !.host = @ - n * Fee]
           ELSE UNCHANGED <<tour, silver>>
        /\ UNCHANGED <<ops, roads, day, stuck, present, errand, dead, mishaps>>

\* Declined, or time went on and the judgment lapsed.
Decline(f) ==
    /\ Take("judgment", f)
    /\ agenda' = agenda \ {Event("judgment", f, 0)}
    /\ UNCHANGED <<tour, ops, roads, day, stuck, silver, present, errand, dead, mishaps>>

-----------------------------------------------------------------------------
(* Departures: money leaves the treasury and is kept by the deployment.     *)

Mobilize(o, members, fee, board, seats) ==
    ops' = [ops EXCEPT ![o] = [status |-> "mobilizing", members |-> members, fee |-> fee,
                               board |-> board, seats |-> seats]]

TripDeparture(p) ==
    LET f == SponsorOf(p)
        start == /\ tour.status = "registration_open" /\ p \in Available(f)
                 /\ day + TripDays <= CloseDay /\ ops[p].status = "none"
                 /\ silver[f] >= Toll + Fee + Board
    IN  /\ Take("trip_departure", p)
        /\ IF start
           THEN /\ Mobilize(p, {p}, Fee, Board, 0)
                /\ silver' = [silver EXCEPT ![f] = @ - Toll - Fee - Board, !.region = @ + Toll]
                /\ agenda' = (agenda \ {Event("trip_departure", p, 0)})
                             \cup {Event("set_out", p, 0)}
           ELSE /\ agenda' = agenda \ {Event("trip_departure", p, 0)}
                /\ UNCHANGED <<ops, silver>>
        /\ UNCHANGED <<tour, roads, day, stuck, present, errand, dead, mishaps>>

\* The party shrinks from its tail to what the treasury can pay.
DelegationDeparture(f) ==
    LET each  == Board + Seat + IF f = "host" THEN 0 ELSE Toll
        party == Best(Available(f), silver[f] \div each)
        n     == Cardinality(party)
        start == /\ Live /\ n > 0 /\ ops[f].status = "none"
                 /\ f = "host" \/ day + TripDays < CompetitionDay
        gone  == agenda \ {Event("delegation_departure", f, 0)}
    IN  /\ Take("delegation_departure", f)
        /\ IF ~start
           THEN agenda' = gone /\ UNCHANGED <<tour, ops, silver>>
           ELSE IF f = "host"
           THEN /\ ops' = [ops EXCEPT ![f] = [NoOp EXCEPT !.status = "at_tournament",
                                                          !.members = party]]
                /\ silver' = [silver EXCEPT !.host = @ - n * each, !.market = @ + n * Board]
                /\ tour' = [tour EXCEPT !.escrow = @ + n * Seat]
                /\ agenda' = gone
           ELSE /\ Mobilize(f, party, 0, n * Board, n * Seat)
                /\ silver' = [silver EXCEPT !.guest = @ - n * each, !.region = @ + n * Toll]
                /\ agenda' = gone \cup {Event("set_out", f, 0)}
                /\ UNCHANGED tour
        /\ UNCHANGED <<roads, day, stuck, present, errand, dead, mishaps>>

\* The shared departure reducer: rations for the leg, or another try tomorrow.
SetOff(o, k, expected, way, road) ==
    LET gone == agenda \ {Event(k, o, 0)}
    IN  /\ Take(k, o)
        /\ IF ops[o].status \notin expected \/ <<o, way>> \in roads
           THEN agenda' = gone /\ UNCHANGED <<ops, roads, mishaps>>
           ELSE \/ /\ ops' = [ops EXCEPT ![o].status = road]
                   /\ roads' = roads \cup {<<o, way>>}
                   /\ agenda' = gone \cup {Event("road_" \o way, o, TripDays)}
                   /\ UNCHANGED mishaps
                \/ /\ Mishap
                   /\ agenda' = gone \cup {Event(k, o, 1)}
                   /\ UNCHANGED <<ops, roads>>
        /\ UNCHANGED <<tour, day, stuck, silver, present, errand, dead>>

SetOut(o)  == SetOff(o, "set_out", {"mobilizing", "traveling_outbound"}, "out",
                     "traveling_outbound")
SetBack(o) == SetOff(o, "set_back", {"return_preparing", "traveling_return"}, "back",
                     "traveling_return")

RoadOut(o) ==
    /\ Take("road_out", o)
    /\ roads' = roads \ {<<o, "out">>}
    /\ \/ /\ ops[o].status # "none"
          /\ ops' = [ops EXCEPT ![o].status = "arrived_pending"]
          /\ present' = present \cup ops[o].members
          /\ agenda' = (agenda \ {Event("road_out", o, 0)}) \cup {Event("arrival", o, 0)}
          /\ UNCHANGED mishaps
       \/ /\ ops[o].status = "none"
          /\ agenda' = agenda \ {Event("road_out", o, 0)}
          /\ UNCHANGED <<ops, present, mishaps>>
       \* a fight lost on the way: the deployment goes, with what it kept
       \/ /\ ops[o].status # "none" /\ Mishap
          /\ ops' = [ops EXCEPT ![o] = NoOp]
          /\ agenda' = agenda \ {Event("road_out", o, 0)}
          /\ UNCHANGED present
    /\ UNCHANGED <<tour, day, stuck, silver, errand, dead>>

RoadBack(o) ==
    /\ Take("road_back", o)
    /\ \/ /\ roads' = roads \ {<<o, "back">>} /\ ops' = [ops EXCEPT ![o] = NoOp]
          /\ present' = present \ ops[o].members
          /\ agenda' = agenda \ {Event("road_back", o, 0)}
          /\ UNCHANGED mishaps
       \/ /\ ops[o].status # "none" /\ Mishap
          /\ agenda' = (agenda \ {Event("road_back", o, 0)}) \cup {Event("road_back", o, 1)}
          /\ UNCHANGED <<roads, ops, present>>
    /\ UNCHANGED <<tour, day, stuck, silver, errand, dead>>

-----------------------------------------------------------------------------
(* Arrivals.                                                                *)

\* Registered and the board spent, or sent home with the money given back.
TravelArrival(p) ==
    LET f == SponsorOf(p)
        gone == agenda \ {Event("arrival", p, 0)}
    IN  /\ Take("arrival", p)
        /\ IF ops[p].status \notin {"arrived_pending", "traveling_outbound"}
           THEN agenda' = gone /\ UNCHANGED <<tour, ops, silver>>
           ELSE IF tour.status = "registration_open" /\ p \notin tour.regs
           THEN /\ tour' = [tour EXCEPT !.regs = @ \cup {p}, !.escrow = @ + ops[p].fee]
                /\ silver' = [silver EXCEPT !.market = @ + ops[p].board]
                /\ ops' = [ops EXCEPT ![p].status = "at_tournament", ![p].fee = 0, ![p].board = 0]
                /\ agenda' = gone
           ELSE /\ silver' = [silver EXCEPT ![f] = @ + ops[p].fee + ops[p].board]
                /\ ops' = [ops EXCEPT ![p].status = "return_preparing", ![p].fee = 0,
                                      ![p].board = 0]
                /\ agenda' = gone \cup {Event("set_back", p, 0)}
                /\ UNCHANGED tour
        /\ UNCHANGED <<roads, day, stuck, present, errand, dead, mishaps>>

\* Board and seats of those who came; the rest goes back to the sponsor.
DelegationArrival(f) ==
    LET n    == Cardinality(ops[f].members)
        gone == agenda \ {Event("arrival", f, 0)}
        spent == [ops EXCEPT ![f].board = 0, ![f].seats = 0]
    IN  /\ Take("arrival", f)
        /\ IF ops[f].status \notin {"arrived_pending", "traveling_outbound"}
           THEN agenda' = gone /\ UNCHANGED <<tour, ops, silver>>
           ELSE IF Live
           THEN /\ tour' = [tour EXCEPT !.escrow = @ + Min({ops[f].seats, n * Seat})]
                /\ silver' = [silver EXCEPT !.market = @ + Min({ops[f].board, n * Board}),
                       ![f] = @ + Reserve(f) - Min({ops[f].seats, n * Seat})
                                             - Min({ops[f].board, n * Board})]
                /\ ops' = [spent EXCEPT ![f].status = "at_tournament"]
                /\ agenda' = gone
           ELSE /\ silver' = [silver EXCEPT ![f] = @ + Reserve(f)]
                /\ ops' = [spent EXCEPT ![f].status = "return_preparing"]
                /\ agenda' = gone \cup {Event("set_back", f, 0)}
                /\ UNCHANGED tour
        /\ UNCHANGED <<roads, day, stuck, present, errand, dead, mishaps>>

\* A local party only walks home.
LocalReturn(f) ==
    /\ Take("home", f)
    /\ agenda' = agenda \ {Event("home", f, 0)}
    /\ ops' = [ops EXCEPT ![f] = IF @.status = "traveling_return" THEN NoOp ELSE @]
    /\ UNCHANGED <<tour, roads, day, stuck, silver, present, errand, dead, mishaps>>

-----------------------------------------------------------------------------
(* The host's calendar.                                                     *)

RegistrationCloses ==
    /\ Take("close", "tour")
    /\ agenda' = agenda \ {Event("close", "tour", 0)}
    /\ tour' = IF tour.status = "registration_open" THEN CloseRegistration(tour) ELSE tour
    /\ UNCHANGED <<ops, roads, day, stuck, silver, present, errand, dead, mishaps>>

Convergence ==
    LET sold == SellTickets(tour, silver)
    IN  /\ Take("convergence", "tour")
        /\ agenda' = agenda \ {Event("convergence", "tour", 0)}
        /\ IF tour.status \in {"bracket_ready", "in_progress"}
           THEN tour' = sold[1] /\ silver' = sold[2]
           ELSE UNCHANGED <<tour, silver>>
        /\ UNCHANGED <<ops, roads, day, stuck, present, errand, dead, mishaps>>

\* Who can fight when time runs the session: being booked by one's own trip does
\* not count, being booked by the active pair does.
OnTrip(p)   == \E o \in People : ops[o].status = "at_tournament" /\ p \in ops[o].members
TimedPeople == {p \in tour.regs \ dead : AtHost(p) /\ (Booked(p) => OnTrip(p))}

\* Everyone who came is sent home.
Returning(gone) ==
    [o \in Ops |->
        IF ops[o].status = "none" THEN NoOp
        ELSE IF ops[o].members \subseteq gone THEN NoOp
        ELSE [ops[o] EXCEPT !.members = @ \ gone,
                  !.status = IF SponsorOfOp(o) = "host" THEN "traveling_return"
                                                        ELSE "return_preparing"]]
\* Mutation: the way home is only arranged for those who came on trips of their own.
ReturnEventsOfTrips(after) ==
    {Event(IF SponsorOfOp(o) = "host" THEN "home" ELSE "set_back", o, 0) :
        o \in {x \in People : after[x].status # "none"}}

ReturnEvents(after) ==
    {Event(IF SponsorOfOp(o) = "host" THEN "home" ELSE "set_back", o, 0) :
        o \in {x \in Ops : after[x].status # "none"}}

Sold == SellTickets(tour, silver)

\* What the settlement cannot do: pay a purse that nobody earned, or book the
\* player's pair for a match when one of them is booked already.
Raises(r) ==
    \/ r.end = "completed" /\ r.tour.escrow > 0 /\ r.tour.places = NoTour.places
    \/ r.end = "waiting" /\ \E p \in {r.tour.pair[1], r.tour.pair[2]} : Booked(p)

Sessions == Resume(Sold[1], TimedPeople, SessionMatches)

\* A registration still open on the day is closed in a copy, which the row with the
\* tickets then replaces: the settlement finds a competition that is not ready.
StillOpen == tour.status = "registration_open"

CompetitionEvents == {e \in agenda : e.kind \in {"competition", "continue"} /\ e.due = 0}

Competition(e) ==
    /\ e \in CompetitionEvents /\ ~stuck /\ ~DoubleBooked
    /\ IF ~Live
       THEN /\ agenda' = agenda \ {e} /\ UNCHANGED <<tour, ops, silver, dead>>
       ELSE ~StillOpen /\ \E r \in Sessions :
            /\ ~Raises(r)
            /\ dead' = dead \cup r.killed
            /\ \/ /\ r.end = "completed"
                  /\ silver' = Awarded(r.tour, Sold[2])
                  /\ tour' = [NoTour EXCEPT !.status = "popped", !.places = r.tour.places]
                  /\ ops' = Returning(r.killed \cup dead)
                  /\ agenda' = (agenda \ {e}) \cup ReturnEvents(ops')
               \/ /\ r.end \in {"waiting", "continue"}
                  /\ tour' = r.tour /\ silver' = Sold[2]
                  /\ ops' = [o \in Ops |-> Prune(o, r.killed)]
                  /\ IF r.end = "waiting" THEN agenda' = agenda \ {e}
                     ELSE \E d \in {0, 1} : agenda' = (agenda \ {e}) \cup {Event("continue", "tour", d)}
    /\ UNCHANGED <<roads, day, stuck, present, errand, mishaps>>

\* The same settlement raising: the command is refused and time stands still.
CompetitionRefused(e) ==
    /\ e \in CompetitionEvents /\ ~stuck /\ ~DoubleBooked /\ Live
    /\ StillOpen \/ \E r \in Sessions : Raises(r)
    /\ stuck' = TRUE
    /\ UNCHANGED <<tour, ops, roads, agenda, day, silver, present, errand, dead, mishaps>>

-----------------------------------------------------------------------------
(* The player.                                                              *)

Register ==
    /\ tour.status = "registration_open" /\ Player \notin tour.regs /\ ~DoubleBooked
    /\ ~Booked(Player) /\ AtHost(Player) /\ silver.host >= Fee
    /\ tour' = [tour EXCEPT !.regs = @ \cup {Player}, !.escrow = @ + Fee]
    /\ silver' = [silver EXCEPT !.host = @ - Fee]
    /\ UNCHANGED <<ops, roads, agenda, day, stuck, present, errand, dead, mishaps>>

Spectate ==
    /\ Live /\ ~Booked(Player) /\ AtHost(Player) /\ ~DoubleBooked
    /\ silver.player >= Gate
    /\ tour' = [tour EXCEPT !.escrow = @ + Gate]
    /\ silver' = [silver EXCEPT !.player = @ - Gate]
    /\ UNCHANGED <<ops, roads, agenda, day, stuck, present, errand, dead, mishaps>>

\* The command takes the whole competition on until a match of the player.  A booking
\* by the pending match itself would be allowed, but its derived name is another one.
AdvanceTournament ==
    LET able == {p \in tour.regs \ dead : ~Booked(p) /\ AtHost(p)}
    IN  /\ tour.status \in {"bracket_ready", "in_progress", "awaiting_player_match"}
        /\ Player \in able /\ ~DoubleBooked
        /\ \E r \in Resume(tour, able, 0) :
             /\ ~Raises(r)
             /\ dead' = dead \cup r.killed
             /\ ops' = [o \in Ops |-> Prune(o, r.killed)]
             /\ IF r.end = "completed"
                THEN /\ silver' = Awarded(r.tour, silver)
                     /\ tour' = [NoTour EXCEPT !.status = "popped", !.places = r.tour.places]
                ELSE tour' = r.tour /\ UNCHANGED silver
        /\ stuck' = FALSE
        /\ UNCHANGED <<roads, agenda, day, present, errand, mishaps>>

\* The exact-combat commands decide the match: either side may win.
FightPlayerMatch ==
    /\ tour.combat = "active" /\ ~DoubleBooked
    /\ \E side \in {"side_a", "side_b"} : tour' = [tour EXCEPT !.combat = side]
    /\ stuck' = FALSE
    /\ UNCHANGED <<ops, roads, agenda, day, silver, present, errand, dead, mishaps>>

-----------------------------------------------------------------------------
(* The rest of the world.                                                   *)

\* Any other commitment, which also takes its person away, and its end.
Leave(p) ==
    /\ Live /\ Mishap /\ ~Booked(p) /\ p \notin dead
    /\ errand' = errand \cup {p}
    /\ UNCHANGED <<tour, ops, roads, agenda, day, stuck, silver, present, dead>>

ComeBack(p) ==
    /\ p \in errand /\ errand' = errand \ {p}
    /\ UNCHANGED <<tour, ops, roads, agenda, day, stuck, silver, present, dead, mishaps>>

Die(p) ==
    /\ Live /\ Mishap /\ p \notin dead \cup {Player} \cup errand
    /\ ~InPair(p) /\ ~DoubleBooked
    /\ dead' = dead \cup {p}
    /\ ops' = [o \in Ops |-> Prune(o, {p})]
    /\ silver' = [silver EXCEPT !.host = @ + Refund("host", {p}),
                                !.guest = @ + Refund("guest", {p})]
    /\ roads' = {r \in roads : ops'[r[1]].status # "none"}
    /\ UNCHANGED <<tour, agenda, day, stuck, present, errand>>

NextDay ==
    /\ tour.status # "none" /\ agenda # {} /\ \A e \in agenda : e.due > 0
    /\ ~stuck /\ ~DoubleBooked
    /\ day' = Min({day + 1, CompetitionDay + 1})
    /\ agenda' = {[e EXCEPT !.due = @ - 1] : e \in agenda}
    /\ tour' = [tour EXCEPT !.gated = FALSE]
    /\ UNCHANGED <<ops, roads, stuck, silver, present, errand, dead, mishaps>>

Timed ==
    \/ NextDay \/ OpenRegistration \/ RegistrationCloses \/ Convergence
    \/ \E f \in Sponsors : Decline(f) \/ DelegationDeparture(f) \/ DelegationArrival(f)
                           \/ LocalReturn(f)
    \/ \E p \in People : TripDeparture(p) \/ TravelArrival(p)
    \/ \E o \in Ops : SetOut(o) \/ SetBack(o) \/ RoadOut(o) \/ RoadBack(o)
    \/ \E e \in agenda : Competition(e) \/ CompetitionRefused(e)

TournamentNext ==
    \/ Timed
    \/ \E f \in Sponsors, policy \in {"none", "champion", "broad"}, d \in BOOLEAN :
           Decide(f, policy, d)
    \/ Register \/ Spectate \/ AdvanceTournament \/ FightPlayerMatch
    \/ \E p \in People : Leave(p) \/ ComeBack(p) \/ Die(p)

\* Time is advanced by the player again and again; nothing else is owed.
TournamentSpec == TournamentInit /\ [][TournamentNext]_tournamentVars /\ WF_tournamentVars(Timed)

-----------------------------------------------------------------------------
(* Properties.                                                              *)

TournamentTypeOK ==
    /\ tour.regs \subseteq People /\ tour.escrow \in Nat
    /\ \A o \in Ops : ops[o].members \subseteq People /\ (ops[o].members = {} => ops[o] = NoOp)
    /\ roads \subseteq Ops \X {"out", "back"} /\ stuck \in BOOLEAN

Total == silver.host + silver.guest + silver.market + silver.region + silver.player
         + silver.purses + tour.escrow
         + SumFunction([o \in Ops |-> Reserve(o)])

\* From the sponsor's treasury to the winner's purse no step makes silver, and the only
\* way to lose some is a journey that ends before it has spent or returned its reserve.
SilverIsAccounted ==
    [][\/ Total' = Total
       \/ \E o \in Ops : /\ Reserve(o) > 0 /\ ops'[o] = NoOp
                         /\ Total' = Total - Reserve(o)]_tournamentVars

\* Nobody stands twice in the draw, nobody is still in it who has a place, and the four
\* places belong to four people.
Slots ==
    ({"bracket"} \X (DOMAIN tour.bracket) \X {1, 2}) \cup ({"winners"} \X (DOMAIN tour.winners) \X {0})
    \cup ({"pair"} \X {0} \X {1, 2}) \cup ({"places"} \X (1..4) \X {0})
InSlot(s) ==
    CASE s[1] = "bracket" -> tour.bracket[s[2]][s[3]]
      [] s[1] = "winners" -> tour.winners[s[2]]
      [] s[1] = "pair"    -> tour.pair[s[3]]
      [] s[1] = "places"  -> tour.places[s[2]]
DrawIsSound ==
    \A s \in Slots : InSlot(s) # Bye =>
        /\ \A r \in Slots : InSlot(r) = InSlot(s) => r = s
        /\ InSlot(s) \in tour.regs \/ tour.status = "popped"

\* A tournament is settled and everyone who travelled to it is at home or dead, unless
\* time cannot pass, a match waits for the player, or the player's own command ended the
\* tournament, which leaves the others where they are.
EveryoneGetsHome ==
    <>[](\/ stuck \/ DoubleBooked \/ tour.status = "awaiting_player_match"
         \/ tour.status = "popped" /\ \A o \in Ops : ops[o].status \in {"none", "at_tournament"})

\* "When called again after that combat resolves, the same tournament consumes the
\* combat result and continues" (tournaments.py:614).
PlayedMatchIsRecorded == tour.combat \in {"side_a", "side_b"} ~> tour.combat = "none"
PlayerSpec == TournamentSpec /\ WF_tournamentVars(AdvanceTournament)

\* Time can always be advanced.
TimeCanPass == ~stuck /\ ~DoubleBooked
=============================================================================
