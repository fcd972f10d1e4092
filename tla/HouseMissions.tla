---------------------------- MODULE HouseMissions ----------------------------
(***************************************************************************)
(* Missions of the player's House: the dossier of each mission from its     *)
(* proposal, House offer or commission to its plan, its people in the       *)
(* field, its closure, its reward, the service it counts for and the        *)
(* promotion the House may offer for it.                                    *)
(*                                                                          *)
(* A dossier is only paper: operations, convoys and musters own the people. *)
(* Every event of the world is followed, in the same frontier, by the       *)
(* settlement of closed missions.  What the House decides is a judgment of   *)
(* the moment: the next frontier settles the committed ones and drops those *)
(* nobody decided, and the player may still act in between.  A settlement   *)
(* that raises is refused, and raises again whenever time is to go on.       *)
(*                                                                          *)
(* People and missions are numbers, because rewards and settlements go by   *)
(* the order of their references.  Left out: councils' views and scenes,    *)
(* training clocks, provisions (a party without them is refused or waits),  *)
(* the enemy's side of an operation (FactionWar), cargo and pay of a        *)
(* commission (EscortContracts), aid, captives, and what else happens to    *)
(* the player: other journeys, wounds, captivity, death.                    *)
(***************************************************************************)
EXTENDS Integers, Sequences, FiniteSets, FiniteSetsExt, Functions

CONSTANTS
    House,          \* members, numbered in the order of their references
    Player,
    Chiefs, Captains,   \* leaders and deputies; field commanders and deputies
    Stewards,       \* chief stewards
    Missions,       \* references in order: [source, kind, link, mode]
    Contracts,
    Home, Origin, Abroad,   \* headquarters, where commissions start, the road's end
    Silver, Reward, Fee, Toll,
    Gifts,          \* silver that talks may move to another House, negative from it
    Escorts,        \* people a commission asks for
    TopGrade,       \* the highest grade the player's years and skills qualify for
    MaxMissions,    \* bound: missions ever on paper
    MaxReviews,     \* bound: monthly reviews of the House
    MaxMishaps,     \* bound: deaths, departures, silver talks, reviews of active missions
    Rosters,        \* plans the player may submit: [party, lead]
    Nobody

ASSUME MissionAssumption ==
    /\ IsFiniteSet(House) /\ House \subseteq Nat
    /\ Player \in House /\ Chiefs \cup Captains \cup Stewards \subseteq House
    /\ IsFiniteSet(Contracts) /\ Nobody \notin House \cup Contracts
    /\ {Silver, Reward, Fee, Toll, Escorts, TopGrade, MaxMissions, MaxReviews, MaxMishaps} \subseteq Nat
    /\ Gifts \subseteq Int
    /\ MaxMissions <= 256       \* the archive drops the oldest of more rows than these
    /\ Missions \in Seq([source : {"player", "public", "house"}, kind : STRING,
                         link : Contracts \cup {Nobody}, mode : STRING])
    /\ \A r, q \in DOMAIN Missions :     \* an escort has a commission, which has one notice
        /\ Missions[r].kind = "escort" => Missions[r].link # Nobody
        /\ Missions[r].source = "public" => Missions[r].link # Nobody
        /\ /\ Missions[r].source = "public" /\ Missions[q].source = "public"
           /\ Missions[r].link = Missions[q].link
           => r = q
    /\ \A plan \in Rosters : plan.party \subseteq House /\ plan.lead \in plan.party

Refs == DOMAIN Missions

VARIABLES
    dossiers, archive,      \* active and closed missions by reference
    contracts,              \* open, mine, underway, over, expired
    field, convoys, musters,    \* who is on the road for which mission
    body, members, at,      \* health, who is in the House, site
    pending, committed,     \* judgments <<what, missions, grade>>, and those with a choice
    treasury, purse, outside,   \* silver of the House, of people, paid to others
    service, grade,         \* missions on a person's record, the player's grade
    reviews, mishaps,
    talked                  \* history: dossiers that talks closed over people on the road

people == <<body, members, at>>
roads  == <<field, convoys, musters>>
money  == <<treasury, purse, outside>>
bounds == <<reviews, mishaps, talked>>
vars   == <<dossiers, archive, contracts, roads, people, pending, committed, money,
            service, grade, bounds>>

Except(f, S)  == Restrict(f, DOMAIN f \ S)
With(f, k, v) == [x \in DOMAIN f \cup {k} |-> IF x = k THEN v ELSE f[x]]

-----------------------------------------------------------------------------
(* People and papers.                                                       *)

OnOps  == UNION {field[r].party : r \in DOMAIN field}
OnRoad == UNION {convoys[c].party : c \in DOMAIN convoys}
            \cup UNION {musters[r] : r \in DOMAIN musters}

\* Members who are conscious, in the House and owned by no activity.
Free == {p \in members : body[p] = "fit"} \ (OnOps \cup OnRoad)

Together(S) == \A p, q \in S : at[p] = at[q]

High(kind) == kind \in {"raid", "reinforcement", "diplomacy"}
Authorized(p, kind) == p \in IF High(kind) THEN Chiefs ELSE Chiefs \cup Captains

Issuers(kind) == {p \in members \ {Player} : body[p] = "fit" /\ Authorized(p, kind)}

InField == {"dispatched", "in_field", "returning"}

Promised(r) == IF Missions[r].mode = "none" THEN 0 ELSE Reward

Dossier(r, phase) ==
    [phase |-> phase, party |-> {}, lead |-> Nobody, backed |-> FALSE]

Linked(d, c) == {r \in DOMAIN d : Missions[r].link = c}

\* Functions that look for a contract's dossier take the first one.
First(d, c) == Min(Linked(d, c))

NoPay   == [p \in House |-> 0]
NoOffer == [status |-> "none", from |-> 0]

\* Closing: with no list of those who returned, everybody on the roll counts.
Closed(r, d, won, back) ==
    [lead |-> d.lead,
     back |-> IF d.party = {} THEN back ELSE back \cap d.party,
     pay |-> IF won /\ Promised(r) > 0 THEN "due" ELSE "none", paid |-> NoPay,
     reviewed |-> FALSE, offer |-> NoOffer]

Stub == [lead |-> Nobody, back |-> {}, pay |-> "none", paid |-> NoPay, reviewed |-> TRUE,
         offer |-> NoOffer]

Archived(a, r, won, back) == With(a, r, Closed(r, dossiers[r], won, back))

\* The first dossier of a contract is closed, if there is one.
CloseLinked(c, won, back) ==
    IF Linked(dossiers, c) = {} THEN <<dossiers, archive>>
    ELSE LET r == First(dossiers, c)
         IN  <<Except(dossiers, {r}), Archived(archive, r, won, back)>>

-----------------------------------------------------------------------------
(* Settlement of closed missions, in the order of their references.         *)

\* An equal division; those who left the House forgo their share.
Shares(S, amount, staff) ==
    [p \in House |->
        IF p \notin S \cap staff THEN 0
        ELSE amount \div Cardinality(S)
             + IF Cardinality({q \in S : q < p}) < amount % Cardinality(S) THEN 1 ELSE 0]

Total(f) == SumFunction(f)
Add(f, g) == [p \in House |-> f[p] + g[p]]

\* Mutation: the payment is not entered.
PaidUnmarked(a, paid) == [a EXCEPT !.paid = paid]

Paid(a, paid) == [a EXCEPT !.pay = "paid", !.paid = paid]

Recipients(r, a) == IF Missions[r].mode = "commander" THEN {a.lead} \cap a.back ELSE a.back

\* Payment at a frontier: not before the House can pay and somebody can take it.
Pay(s, r) ==
    LET a    == s.archive[r]
        to   == Recipients(r, a)
        paid == Shares(to, Promised(r), s.staff)
    IN  IF a.pay = "due" /\ to # {} /\ s.treasury >= Promised(r) /\ Total(paid) > 0
        THEN [s EXCEPT !.archive[r] = Paid(a, paid), !.treasury = @ - Total(paid),
                       !.purse = Add(@, paid)]
        ELSE s

Credit(record, a, staff) ==
    [p \in House |-> record[p] + IF p \in a.back \cap staff THEN 1 ELSE 0]

Post(s, r) ==
    IF s.archive[r].reviewed THEN s
    ELSE [s EXCEPT !.service = Credit(@, s.archive[r], s.staff), !.archive[r].reviewed = TRUE]

OpenOffers(a) == {r \in DOMAIN a : a[r].offer.status = "open"}

Unasked(a)    == {r \in DOMAIN a : Player \in a[r].back /\ a[r].offer = NoOffer}

\* Mutation: an open offer of another mission does not stand in the way.
MayBeAskedAgain(s, r) ==
    /\ r \in Unasked(s.archive)
    /\ grade < TopGrade /\ s.signed

MayBeAsked(s, r) ==
    /\ r \in Unasked(s.archive)
    /\ OpenOffers(s.archive) = {}
    /\ grade < TopGrade /\ s.signed

\* A promotion for the player: asked of the House, offered as it decided.
\* done: committed judgments.
Career(s, r, done) ==
    LET mine == {e \in done : e[1] = "career" /\ e[2] = {r}}
        e    == CHOOSE x \in mine : TRUE
    IN  IF ~MayBeAsked(s, r) THEN s
        ELSE IF mine = {} THEN [s EXCEPT !.asks = @ \cup {<<"career", {r}, grade>>}]
        ELSE IF e[4] = {} THEN [s EXCEPT !.archive[r].offer.status = "deferred"]
        ELSE IF e[3] # grade THEN [s EXCEPT !.raised = TRUE]
        ELSE [s EXCEPT !.archive[r].offer = [status |-> "open", from |-> grade]]

\* staff: the House as it is after the event; signed: somebody can authorize an offer.
Settled(a, done, staff, signed, income) ==
    LET s[i \in 0..Len(Missions)] ==
            IF i = 0
            THEN [archive |-> a, treasury |-> treasury + income, purse |-> purse, service |-> service,
                  staff |-> staff, signed |-> signed, asks |-> {}, raised |-> FALSE]
            ELSE IF i \in DOMAIN a THEN Career(Post(Pay(s[i - 1], i), i), i, done)
            ELSE s[i - 1]
    IN  s[Len(Missions)]

-----------------------------------------------------------------------------
(* Frontiers.                                                               *)

\* Bound: room for one more mission.
Room == Cardinality(DOMAIN dossiers \cup DOMAIN archive) < MaxMissions

HasOpenAssignment(d) == \E r \in DOMAIN d : Missions[r].source = "house"

Calm == pending = {} /\ committed = {}

\* The rest of a frontier: closed missions are settled.
\* d, a: dossiers and archive after the event; done: the judgments it settles;
\* ask: those it asks for; income: what the event itself brought in.
Frontier(d, a, done, ask, income) ==
    LET s == Settled(a, done, members', Issuers("raid")' # {}, income)
    IN  /\ ~s.raised
        /\ dossiers' = d
        /\ archive' = s.archive
        /\ treasury' = s.treasury /\ purse' = s.purse /\ service' = s.service
        /\ pending' = s.asks \cup ask

Plain(d, a) == Frontier(d, a, {}, {}, 0)

-----------------------------------------------------------------------------
(* What the House asks of the player.                                       *)

\* A review: missions the House may want, among them open commissions.
Review(needs) ==
    /\ Calm /\ reviews < MaxReviews
    /\ needs \subseteq {r \in Refs : /\ Missions[r].source = "house"
                                     /\ Missions[r].link # Nobody =>
                                            contracts[Missions[r].link] = "open"}
    /\ reviews' = reviews + 1
    /\ UNCHANGED <<contracts, roads, people, committed, outside, grade, mishaps, talked>>
    /\ Frontier(dossiers, archive, {},
                IF needs = {} \/ HasOpenAssignment(dossiers) THEN {} ELSE {<<"assignment", needs, 0>>}, 0)

\* The game master picks one of the offered intents, or none to defer; it stands.
Commit(j, choice) ==
    /\ j \in pending
    /\ choice \subseteq j[2] /\ Cardinality(choice) <= 1
    /\ pending' = pending \ {j}
    /\ committed' = committed \cup {Append(j, choice)}
    /\ UNCHANGED <<dossiers, archive, contracts, roads, people, money, service, grade,
                   bounds>>

\* The House's choice is offered unless the player has an assignment, the
\* mission is known already or nobody can issue it.
Offerable(r) ==
    /\ Room
    /\ ~HasOpenAssignment(dossiers)
    /\ r \notin DOMAIN dossiers \cup DOMAIN archive
    /\ Issuers(Missions[r].kind) # {}

\* The frontier of this moment: judgments nobody decided are dropped with it.
SettleJudgments ==
    /\ pending \cup committed # {}
    /\ committed' = {}
    /\ UNCHANGED <<contracts, roads, people, outside, grade, bounds>>
    /\ LET asked == UNION {e[4] : e \in {e \in committed : e[1] = "assignment"}}
           new   == {r \in asked : Offerable(r)}
       IN  Frontier([r \in DOMAIN dossiers \cup new |->
                        IF r \in new THEN Dossier(r, "offered") ELSE dossiers[r]],
                    archive, committed, {}, 0)

-----------------------------------------------------------------------------
(* What the player does with a dossier; no judgment need be settled first.  *)

Paper == UNCHANGED <<contracts, roads, people, pending, committed, money, service,
                     grade, bounds>>

Note(r, d)  == /\ dossiers' = With(dossiers, r, d) /\ UNCHANGED archive
InPhase(r, S) == r \in DOMAIN dossiers /\ dossiers[r].phase \in S

Propose(r) ==
    /\ Room
    /\ r \notin DOMAIN dossiers \cup DOMAIN archive
    /\ Missions[r].source = "player"
    /\ Note(r, Dossier(r, "proposed"))
    /\ Paper

\* The first dossier of a contract is the one that is accepted, or a new one.
Accepted(d, c) ==
    LET r == IF Linked(d, c) # {} THEN First(d, c)
             ELSE CHOOSE x \in Refs : Missions[x].source = "public" /\ Missions[x].link = c
    IN  With(d, r, [IF r \in DOMAIN d THEN d[r] ELSE Dossier(r, "accepted")
                        EXCEPT !.phase = "accepted", !.party = {Player}])

AcceptAssignment(r) ==
    /\ InPhase(r, {"offered"})
    /\ LET c == Missions[r].link
           d == [dossiers EXCEPT ![r].phase = "accepted"]
       IN  IF c = Nobody THEN dossiers' = d /\ UNCHANGED contracts
           ELSE /\ contracts[c] = "open"
                /\ contracts' = [contracts EXCEPT ![c] = "mine"]
                /\ dossiers' = Accepted(d, c)
    /\ UNCHANGED <<archive, roads, people, pending, committed, money, service, grade,
                   bounds>>

AcceptContract(c) ==
    /\ contracts[c] = "open" /\ Player \in Free
    /\ Linked(dossiers, c) # {} \/ Room
    /\ \E r \in Refs : Missions[r].source = "public" /\ Missions[r].link = c /\ r \notin DOMAIN archive
    /\ contracts' = [contracts EXCEPT ![c] = "mine"]
    /\ dossiers' = Accepted(dossiers, c)
    /\ UNCHANGED <<archive, roads, people, pending, committed, money, service, grade,
                   bounds>>

\* A council on the spot; whether it has an authority is recorded for the plan.
Convene(r, attending) ==
    /\ InPhase(r, {"proposed", "accepted", "briefed"})
    /\ Player \in attending /\ attending \subseteq {p \in members : body[p] = "fit"}
    /\ Together(attending)
    /\ LET able == {p \in attending : Authorized(p, Missions[r].kind)}
       IN  Note(r, [dossiers[r] EXCEPT !.phase = "briefed", !.backed = able # {}])
    /\ Paper

\* A quarter of those at hand, at least one, stays at home.
FieldLimit(n) == Max({1, n - Max({1, (n + 3) \div 4})})

\* Answers to a plan: why depends on relations with other Houses, except for the reserve.
SubmitPlan(r, plan) ==
    /\ InPhase(r, {"briefed", "accepted", "proposed", "revision"})
    /\ plan.party \subseteq Free /\ Together(plan.party)
    /\ dossiers[r].backed \/ Authorized(Player, Missions[r].kind)
    /\ LET at_hand == Cardinality({p \in Free : at[p] = at[plan.lead]})
           short   == /\ Missions[r].kind \in {"raid", "reinforcement"}
                      /\ at_hand > 2 /\ Cardinality(plan.party) > FieldLimit(at_hand)
           yes     == [dossiers[r] EXCEPT !.phase = "approved", !.party = plan.party, !.lead = plan.lead]
       IN  \E refused \in BOOLEAN :
               Note(r, IF short THEN [dossiers[r] EXCEPT !.phase = "revision"]
                       ELSE IF refused /\ Missions[r].kind # "escort"
                       THEN [dossiers[r] EXCEPT !.phase = "rejected"] ELSE yes)
    /\ Paper

Dispatch(r) ==
    LET d == dossiers[r]
    IN  /\ InPhase(r, {"approved"}) /\ Missions[r].kind \notin {"escort", "diplomacy"}
        /\ d.party \subseteq Free /\ Together(d.party)
        /\ r \notin DOMAIN field
        /\ field' = With(field, r, [leg |-> "mobilizing", party |-> d.party, won |-> FALSE, from |-> at[d.lead]])
        /\ Note(r, [d EXCEPT !.phase = "dispatched"])
        /\ UNCHANGED <<contracts, convoys, musters, people, pending, committed, money,
                       service, grade, bounds>>

\* The approved escort walks to the contract's origin.
Muster(r) ==
    LET d == dossiers[r]
        away == at[d.lead] # Origin
    IN  /\ InPhase(r, {"approved"}) /\ Missions[r].kind = "escort"
        /\ contracts[Missions[r].link] = "mine"
        /\ Player \in d.party /\ Cardinality(d.party) >= Escorts
        /\ d.party \subseteq Free /\ Together(d.party)
        /\ away => treasury >= Toll
        /\ Note(r, [d EXCEPT !.phase = "mustering"])
        /\ musters' = IF away THEN With(musters, r, d.party) ELSE musters
        /\ treasury' = IF away THEN treasury - Toll ELSE treasury
        /\ outside' = IF away THEN outside + Toll ELSE outside
        /\ UNCHANGED <<contracts, field, convoys, people, pending, committed, purse,
                       service, grade, bounds>>

Rolls(c) ==
    {r \in Linked(dossiers, c) : /\ dossiers[r].phase \in {"approved", "mustering"}
                                 /\ Missions[r].kind = "escort"}

\* The one approved dossier names the escort; the first linked one goes into the field.
StartEscort(c) ==
    LET rolls == Rolls(c)
        d     == dossiers[CHOOSE r \in rolls : TRUE]
        first == First(dossiers, c)
    IN  /\ contracts[c] = "mine" /\ Cardinality(rolls) = 1
        /\ Player \in d.party /\ Cardinality(d.party) >= Escorts
        /\ d.party \subseteq Free /\ \A p \in d.party : at[p] = Origin
        /\ convoys' = With(convoys, c, [leg |-> "out", party |-> d.party])
        /\ contracts' = [contracts EXCEPT ![c] = "underway"]
        /\ Note(first, [dossiers[first] EXCEPT !.phase = "in_field", !.party = d.party, !.lead = d.lead])
        /\ UNCHANGED <<field, musters, people, pending, committed, money, service, grade,
                       bounds>>

Close(r, won, back) ==
    /\ dossiers' = Except(dossiers, {r})
    /\ archive' = Archived(archive, r, won, back)

Decline(r) ==
    /\ InPhase(r, {"offered"})
    /\ Close(r, FALSE, dossiers[r].party)
    /\ Paper

\* Mutation: a mission in the field is cancelled on paper.
CancelAnyPhase(r) ==
    /\ r \in DOMAIN dossiers \ DOMAIN musters
    /\ Close(r, FALSE, dossiers[r].party)
    /\ Paper

Cancel(r) ==
    /\ InPhase(r, {"proposed", "offered", "accepted", "briefed", "approved", "revision", "rejected",
                   "mustering"})
    /\ r \notin DOMAIN musters
    /\ Close(r, FALSE, dossiers[r].party)
    /\ Paper

\* Silver of the House for the other one, or the other way; the other's is not followed.
Exchange(n) ==
    /\ n <= treasury
    /\ treasury' = treasury - n
    /\ outside' = outside + n

MayTalk == Player \in members /\ body[Player] = "fit" /\ Player \notin OnRoad

\* Those in office need no authority for a treaty, a chief steward none for silver.
InOffice == Player \in Chiefs \cup Stewards

\* The envoy of an approved mission.
Envoy(r) == InPhase(r, {"approved"}) /\ Missions[r].kind = "diplomacy" /\ dossiers[r].lead = Player

Roadside == DOMAIN field \cup DOMAIN musters
              \cup UNION {Linked(dossiers, c) : c \in DOMAIN convoys}

\* Who is in office may name any dossier of the House, the envoy his own: it is closed
\* with the talks.  Talks over silver count as mishaps, for their bound.
Diplomacy(r, won, n) ==
    /\ MayTalk /\ r \in DOMAIN dossiers
    /\ InOffice \/ Envoy(r)
    /\ n <= treasury
    /\ n # 0 => mishaps < MaxMishaps
    /\ Close(r, won, {Player})
    /\ Exchange(IF won THEN n ELSE 0)
    /\ talked' = talked \cup ({r} \cap Roadside)
    /\ mishaps' = IF n = 0 THEN mishaps ELSE mishaps + 1
    /\ UNCHANGED <<contracts, roads, people, pending, committed, purse, service, grade,
                   reviews>>

\* Talks of an officer that close nothing.
SilverTalks(n) ==
    /\ MayTalk /\ InOffice /\ mishaps < MaxMishaps
    /\ Exchange(n)
    /\ mishaps' = mishaps + 1
    /\ UNCHANGED <<dossiers, archive, contracts, roads, people, pending, committed, purse,
                   service, grade, reviews, talked>>

\* The player may have a due reward paid by hand, to the leader even if lost.
SettleReward(r) ==
    LET a    == archive[r]
        to   == IF Missions[r].mode = "commander" /\ a.lead # Nobody THEN {a.lead} ELSE a.back
        paid == Shares(to, Promised(r), members)
    IN  /\ r \in DOMAIN archive /\ a.pay = "due" /\ treasury >= Promised(r) /\ to # {}
        /\ archive' = [archive EXCEPT ![r] = Paid(a, paid)]
        /\ treasury' = treasury - Total(paid)
        /\ purse' = Add(purse, paid)
        /\ UNCHANGED <<dossiers, contracts, roads, people, pending, committed, outside,
                       service, grade, bounds>>

ServiceReview(r) ==
    /\ r \in DOMAIN archive /\ ~archive[r].reviewed
    /\ archive' = [archive EXCEPT ![r].reviewed = TRUE]
    /\ service' = Credit(service, archive[r], members)
    /\ UNCHANGED <<dossiers, contracts, roads, people, pending, committed, money,
                   grade, bounds>>

\* A review of a mission that is not closed yet leaves an empty record of it.
EarlyReview(r) ==
    /\ mishaps < MaxMishaps
    /\ r \in DOMAIN dossiers \ DOMAIN archive
    /\ archive' = With(archive, r, Stub)
    /\ mishaps' = mishaps + 1
    /\ UNCHANGED <<dossiers, contracts, roads, people, pending, committed, money,
                   service, grade, reviews, talked>>

AnswerCareer(r, yes) ==
    /\ r \in OpenOffers(archive)
    /\ yes => archive[r].offer.from = grade
    /\ archive' = [archive EXCEPT ![r].offer.status = IF yes THEN "accepted" ELSE "declined"]
    /\ grade' = IF yes THEN grade + 1 ELSE grade
    /\ UNCHANGED <<dossiers, contracts, roads, people, pending, committed, money, service,
                   bounds>>

-----------------------------------------------------------------------------
(* The world: each event is a frontier of its own.                          *)

Moved(S, place) == [p \in House |-> IF p \in S THEN place ELSE at[p]]

Staged(r, phase) == IF r \in DOMAIN dossiers THEN [dossiers EXCEPT ![r].phase = phase] ELSE dossiers

\* The dossier of an operation is closed if it is still active.
Reported(r, won, back) ==
    IF r \in DOMAIN dossiers THEN <<Except(dossiers, {r}), Archived(archive, r, won, back)>>
    ELSE <<dossiers, archive>>

Quiet == UNCHANGED <<committed, grade>>

Depart(r) ==
    /\ Calm /\ r \in DOMAIN field /\ field[r].leg = "mobilizing"
    /\ field' = [field EXCEPT ![r].leg = "out"]
    /\ UNCHANGED <<contracts, convoys, musters, people, outside, bounds>> /\ Quiet
    /\ Plain(Staged(r, "in_field"), archive)

\* Scouts who are not seen have their report and go home.
Scout(r) ==
    /\ Calm /\ r \in DOMAIN field /\ field[r].leg = "out"
    /\ Missions[r].kind = "reconnaissance"
    /\ field' = [field EXCEPT ![r].leg = "back", ![r].won = TRUE]
    /\ UNCHANGED <<contracts, convoys, musters, people, outside, bounds>> /\ Quiet
    /\ Plain(Staged(r, "returning"), archive)

\* A battle, of seen scouts too: it may kill, and a party of the dead reports nothing.
Arrive(r, dead) ==
    LET left == field[r].party \ dead
        lost == Reported(r, FALSE, {})
    IN  /\ Calm /\ r \in DOMAIN field /\ field[r].leg = "out"
        /\ dead \subseteq field[r].party \ {Player}
        /\ body' = [p \in House |-> IF p \in dead THEN "dead" ELSE body[p]]
        /\ UNCHANGED <<contracts, convoys, musters, members, at, outside, bounds>> /\ Quiet
        /\ IF left = {}
           THEN field' = Except(field, {r}) /\ Plain(lost[1], lost[2])
           ELSE \E won \in BOOLEAN :
                    /\ Missions[r].kind = "reconnaissance" => ~won
                    /\ field' = [field EXCEPT ![r].leg = "back", ![r].party = left, ![r].won = won]
                    /\ Plain(dossiers, archive)

\* Stopped on the way out, the people are free at once where they set out.
LostOnRoad(r) ==
    LET lost == Reported(r, FALSE, {})
    IN  /\ Calm /\ r \in DOMAIN field /\ field[r].leg = "out"
        /\ field' = Except(field, {r})
        /\ UNCHANGED <<contracts, convoys, musters, people, outside, bounds>> /\ Quiet
        /\ Plain(lost[1], lost[2])

Return(r) ==
    LET f == field[r]
        told == Reported(r, f.won, f.party)
    IN  /\ Calm /\ r \in DOMAIN field /\ f.leg = "back"
        /\ field' = Except(field, {r})
        /\ at' = Moved(f.party, f.from)
        /\ UNCHANGED <<contracts, convoys, musters, body, members, outside, bounds>> /\ Quiet
        /\ Plain(told[1], told[2])

MusterArrives(r) ==
    /\ Calm /\ r \in DOMAIN musters
    /\ at' = Moved(musters[r], Origin)
    /\ musters' = Except(musters, {r})
    /\ UNCHANGED <<contracts, field, convoys, body, members, outside, bounds>> /\ Quiet
    /\ Plain(dossiers, archive)

\* The end of the road: paid and on the way back, or beaten and reporting home.
EscortEnds(c, won, dead) ==
    LET party == convoys[c].party \ dead
        first == First(dossiers, c)
    IN  /\ Calm /\ c \in DOMAIN convoys /\ convoys[c].leg = "out"
        /\ dead \subseteq convoys[c].party \ {Player} /\ (won => dead = {})
        /\ convoys' = [convoys EXCEPT ![c] = [leg |-> IF won THEN "back" ELSE "report", party |-> party]]
        /\ contracts' = [contracts EXCEPT ![c] = "over"]
        /\ at' = Moved(party, Abroad)
        /\ body' = [p \in House |-> IF p \in dead THEN "dead" ELSE body[p]]
        /\ outside' = IF won THEN outside - Fee ELSE outside
        /\ UNCHANGED <<field, musters, members, bounds>> /\ Quiet
        /\ Frontier(IF won /\ Linked(dossiers, c) # {} THEN Staged(first, "returning") ELSE dossiers,
                    archive, {}, {}, IF won THEN Fee ELSE 0)

EscortHome(c) ==
    LET told == CloseLinked(c, convoys[c].leg = "back", convoys[c].party)
    IN  /\ Calm /\ c \in DOMAIN convoys /\ convoys[c].leg # "out"
        /\ convoys' = Except(convoys, {c})
        /\ at' = Moved(convoys[c].party, Origin)
        /\ UNCHANGED <<contracts, field, musters, body, members, outside, bounds>> /\ Quiet
        /\ Plain(told[1], told[2])

\* An open or an accepted commission expires; an open one may go to another House.
ContractExpires(c) ==
    LET told == CloseLinked(c, FALSE, dossiers[First(dossiers, c)].party)
    IN  /\ Calm /\ contracts[c] \in {"open", "mine"}
        /\ contracts' = [contracts EXCEPT ![c] = "expired"]
        /\ UNCHANGED <<roads, people, outside, bounds>> /\ Quiet
        /\ IF Linked(dossiers, c) = {} THEN Plain(dossiers, archive) ELSE Plain(told[1], told[2])

ContractTaken(c) ==
    /\ Calm /\ contracts[c] = "open"
    /\ contracts' = [contracts EXCEPT ![c] = "over"]
    /\ UNCHANGED <<roads, people, outside, bounds>> /\ Quiet
    /\ Plain(dossiers, archive)

\* Death elsewhere: an operation nobody is left of goes, its dossier does not.
Pruned(f, p) ==
    Except([r \in DOMAIN f |-> [f[r] EXCEPT !.party = @ \ {p}]], {r \in DOMAIN f : f[r].party = {p}})

Die(p) ==
    /\ Calm /\ mishaps < MaxMishaps /\ p \in House \ {Player} /\ body[p] # "dead"
    /\ mishaps' = mishaps + 1
    /\ body' = [body EXCEPT ![p] = "dead"]
    /\ field' = Pruned(field, p)
    /\ convoys' = [c \in DOMAIN convoys |-> [convoys[c] EXCEPT !.party = @ \ {p}]]
    /\ musters' = [r \in DOMAIN musters |-> musters[r] \ {p}]
    /\ UNCHANGED <<contracts, members, at, outside, reviews, talked>> /\ Quiet
    /\ Plain(dossiers, archive)

\* A free member without an office leaves the House.
Leave(p) ==
    /\ Calm /\ mishaps < MaxMishaps /\ p \in Free \ ({Player} \cup Chiefs \cup Captains)
    /\ mishaps' = mishaps + 1
    /\ members' = members \ {p}
    /\ UNCHANGED <<contracts, roads, body, at, outside, reviews, talked>> /\ Quiet
    /\ Plain(dossiers, archive)

-----------------------------------------------------------------------------
Init ==
    /\ dossiers = <<>> /\ archive = <<>>
    /\ contracts = [c \in Contracts |-> "open"]
    /\ field = <<>> /\ convoys = <<>> /\ musters = <<>>
    /\ body = [p \in House |-> "fit"] /\ members = House
    /\ at = [p \in House |-> Home]
    /\ pending = {} /\ committed = {}
    /\ treasury = Silver /\ purse = NoPay /\ outside = Fee * Cardinality(Contracts)
    /\ service = NoPay /\ grade = 0
    /\ reviews = 0 /\ mishaps = 0 /\ talked = {}

Commands ==
    \/ \E r \in Refs :
        \/ Propose(r) \/ AcceptAssignment(r) \/ Decline(r) \/ Cancel(r)
        \/ \E S \in SUBSET House : Convene(r, S)
        \/ \E plan \in Rosters : SubmitPlan(r, plan)
        \/ Dispatch(r) \/ Muster(r)
        \/ \E won \in BOOLEAN, n \in Gifts \cup {0} : Diplomacy(r, won, n)
        \/ SettleReward(r) \/ ServiceReview(r) \/ EarlyReview(r)
        \/ \E yes \in BOOLEAN : AnswerCareer(r, yes)
    \/ \E c \in Contracts : AcceptContract(c) \/ StartEscort(c)
    \/ \E n \in Gifts : SilverTalks(n)

World ==
    \/ \E r \in Refs :
        \/ Depart(r) \/ Scout(r) \/ LostOnRoad(r) \/ Return(r) \/ MusterArrives(r)
        \/ \E dead \in SUBSET House : Arrive(r, dead)
    \/ \E c \in Contracts :
        \/ EscortHome(c) \/ ContractExpires(c) \/ ContractTaken(c)
        \/ \E won \in BOOLEAN, dead \in SUBSET House : EscortEnds(c, won, dead)
    \/ \E p \in House : Die(p) \/ Leave(p)
    \/ \E needs \in SUBSET Refs : Review(needs)

Judgments ==
    \/ \E j \in pending : \E choice \in SUBSET j[2] : Commit(j, choice)
    \/ SettleJudgments

Next == Commands \/ World \/ Judgments

Spec == Init /\ [][Next]_vars

-----------------------------------------------------------------------------
(* Each silver piece of a reward is paid once and entered where it was      *)
(* paid: what people got is what the archive says, and nothing is minted    *)
(* by any order of closures, frontiers, shortages and payments by hand      *)
(* (institutional_progression settle_closed_mission_records, settle_reward).*)
RewardsPaidOnce ==
    /\ \A p \in House :
        purse[p] = SumFunction([r \in DOMAIN archive |-> archive[r].paid[p]])
    /\ treasury + Total(purse) + outside = Silver + Fee * Cardinality(Contracts)

(* A mission counts once, and for each member on its roll or home from it,  *)
(* whether it is posted by a frontier or by a review at the player's word,  *)
(* and although an early review may have filed the mission before it was    *)
(* closed (settle_closed_mission_records, service_review).                  *)
ServicePostedOnce ==
    \A p \in members :
        service[p] = Cardinality({r \in DOMAIN archive : archive[r].reviewed /\ p \in archive[r].back})

(* The House has at most one promotion on offer and it starts from the      *)
(* grade the player has, however many missions ask for one, and whatever    *)
(* the player answers between a judgment and its settlement                 *)
(* (_stage_player_grade_offer, accept_career_offer).                        *)
OpenOfferIsCurrent ==
    /\ Cardinality(OpenOffers(archive)) <= 1
    /\ \A r \in OpenOffers(archive) : archive[r].offer.from = grade

(* Nobody is on the road for two missions: operations, musters and convoys  *)
(* have no member in common, although plans are approved long before        *)
(* anybody leaves and two plans may name the same people (dispatch, muster  *)
(* and contract start revalidate the roll).                                 *)
NobodyOnTwoMissions ==
    LET parties == {<<"op", r, field[r].party>> : r \in DOMAIN field}
                   \cup {<<"convoy", c, convoys[c].party>> : c \in DOMAIN convoys}
                   \cup {<<"muster", r, musters[r]>> : r \in DOMAIN musters}
    IN  \A x, y \in parties : x # y => x[3] \cap y[3] = {}

EscortsOnly(c) ==
    \A r \in DOMAIN dossiers \cup DOMAIN archive :
        Missions[r].link = c => Missions[r].kind = "escort"

(* People in the field are there for a mission that is still on paper: no   *)
(* cancellation, acceptance, closure of a commission or loss of others      *)
(* files a dossier away over them ("in_field_cannot_paper_cancel",          *)
(* jianghu_institutional.py).  Two things in the code do, and only they:    *)
(* talks for which an officer names that dossier                            *)
(* (jianghu_extended.py:1969-1974), and a proposal of another kind linked   *)
(* to a commission, which shares the commission's dossier                   *)
(* (jianghu_institutional.py:171-178).  A commission that expires leaves    *)
(* its muster on the road.                                                  *)
FieldIsOnPaper ==
    /\ \A r \in DOMAIN field \ talked :
        Missions[r].link = Nobody => r \in DOMAIN dossiers /\ dossiers[r].phase \in InField
    /\ \A c \in DOMAIN convoys :
        \/ ~EscortsOnly(c) \/ \E r \in talked : Missions[r].link = c
        \/ \E r \in Linked(dossiers, c) : dossiers[r].phase \in InField
    /\ \A r \in DOMAIN musters \ talked :
        contracts[Missions[r].link] = "mine" => r \in DOMAIN dossiers /\ dossiers[r].phase = "mustering"

(* A mission that is out has people out: its dossier does not outlive them  *)
(* (institutional_progression.py:3-5: "keeps the institutional mission      *)
(* layer closed end to end").                                               *)
MissionsClose ==
    \A r \in DOMAIN dossiers :
        dossiers[r].phase \in InField /\ Missions[r].link = Nobody => r \in DOMAIN field

(* Nothing is left of a commission that expired                             *)
(* (close_expired_contract_dossiers: "cannot become orphaned dossiers").    *)
NoOrphans == \A c \in Contracts : contracts[c] = "expired" => Linked(dossiers, c) = {}

(* Time can always go on: no decision of the House is outdated by what the  *)
(* player may do before it is settled.                                      *)
SettlementGoesOn == ~Settled(archive, committed, members, Issuers("raid") # {}, 0).raised

=============================================================================
