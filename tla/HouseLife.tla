------------------------------ MODULE HouseLife ------------------------------
(***************************************************************************)
(* The lives of the people of the houses and of the houses themselves: the *)
(* monthly cycle (upkeep, stipends, courtship, conception, departures),    *)
(* births, deaths with their families and estates, the annual review, and  *)
(* the dissolution, merger, split and foundation of houses, each of them a *)
(* judgment that is asked, answered and settled at one and the same date   *)
(* (martial_world/faction_cycle_frontier.py, life_frontier.py,             *)
(* family_simulation.py, family_frontier.py, death_lifecycle.py,           *)
(* institutional_evolution_frontier.py, faction_transitions.py).           *)
(*                                                                         *)
(* A person is a number, so that "the first by reference" has a meaning.   *)
(* The player and the house of the player, which these frontiers leave to  *)
(* commands, are not among them.  Ages, places, trust and the calendar     *)
(* enter as choices of the environment: who may court, who dies of age,    *)
(* which houses trust each other.  Every house has neither food in store   *)
(* nor an enterprise, which would only keep it from being dissolved.       *)
(***************************************************************************)
EXTENDS Integers, FiniteSets, FiniteSetsExt, Functions

CONSTANTS
  Adults,       \* number of people alive at the start
  Kids,         \* number of children who may be conceived
  Women,        \* the women among them
  Houses,       \* number of houses, the ones yet to be founded included
  Settings,     \* initial worlds: who belongs where, with what silver
  Upkeep, Stipend, Startup,  \* monthly cost of a house, pay, cost of a founder
  SplitSize,    \* minimum_living_members of a house that splits
  BirthMonths, YearMonths,   \* months to a birth and between annual reviews
  MaxMonth, MaxFalls         \* bounds: months that pass, violent deaths

Adult == 1 .. Adults
Soul == 1 .. (Adults + Kids)
House == 1 .. Houses
Pairs == {s \in SUBSET Adult : Cardinality(s) = 2}

\* A marriage by its couple: the child that is expected, 0 for none, and its houses.
MarriageRow == [status : {"married", "widowed"}, child : 0 .. (Adults + Kids),
                houses : SUBSET House]

\* A world to begin with: everybody is in one house or independent, a house has at
\* most one leader, nobody is in two marriages or two courtships, no child is expected.
OpeningHouses(w) ==
  /\ DOMAIN w.roster \subseteq House
  /\ w.roster \in [DOMAIN w.roster -> SUBSET Adult]
  /\ w.loose \subseteq Adult /\ w.leaders \subseteq Adult
  /\ w.treasury \in [DOMAIN w.roster -> Nat] /\ w.purse \in [Adult -> Nat]
  /\ \A h \in DOMAIN w.roster :
       /\ w.roster[h] \cap w.loose = {}
       /\ \A g \in DOMAIN w.roster \ {h} : w.roster[g] \cap w.roster[h] = {}
       /\ \A x, y \in w.roster[h] \cap w.leaders : x = y
  /\ \A x \in Adult : x \in w.loose \/ \E h \in DOMAIN w.roster : x \in w.roster[h]

OpeningFamilies(w) ==
  /\ DOMAIN w.marriages \subseteq Pairs /\ w.courting \subseteq Pairs
  /\ w.marriages \in [DOMAIN w.marriages -> MarriageRow]
  /\ \A p \in DOMAIN w.marriages :
       /\ w.marriages[p].child = 0 /\ w.marriages[p].status = "married"
       /\ \A q \in DOMAIN w.marriages \ {p} : p \cap q = {}
  /\ \A p, q \in w.courting : p # q => p \cap q = {}

ASSUME LifeAssumption ==
  /\ {Adults, Kids, Houses, Upkeep, Stipend, Startup, MaxMonth, MaxFalls} \subseteq Nat
  /\ {BirthMonths, YearMonths} \subseteq Nat
  /\ 0 < BirthMonths /\ BirthMonths < YearMonths
  /\ SplitSize \in Nat /\ SplitSize >= 4
  /\ \A w \in Settings : OpeningHouses(w) /\ OpeningFamilies(w)

VARIABLES
  active,     \* the registry's faction_refs
  people,     \* [roster, loose, dead, leaders, known]: rows of the rosters (the dead
              \* stay in theirs), independents, rows with status dead, holders of the
              \* office of leader, houses that ever existed
  away,       \* unavailable_person_refs: on a road, in custody, in a fight
  silver,     \* [treasury, purse, pool]: houses, people, the regional market
  family,     \* [marriages, homes, parents, courting] of family.json and social.json
  births,     \* family_birth_due events
  asked,      \* npc_judgment_due events of this date
  committed,  \* npc_judgment_committed events of this date
  clock       \* [month, reviewed, annual, falls]

vars == <<active, people, away, silver, family, births, asked, committed, clock>>

(*------------------------------ who and where ----------------------------*)
Alive(P, X) == X \ P.dead
Members(P, h) == Alive(P, P.roster[h])
HousesOf(P, x) == {h \in House : x \in P.roster[h]}
Free(x) == x \notin away
Pending == asked # {} \/ committed # {}

Married(F) == {p \in DOMAIN F.marriages : F.marriages[p].status = "married"}
MarriedPeople(F) == UNION Married(F)
BoundTo(F, h) == UNION {p \in Married(F) : h \in F.marriages[p].houses}

(*--------------------------------- deaths --------------------------------*)
\* close_family_authorities: the marriages of the dead are widowed and lose their
\* pregnancies, households lose the dead and an empty household ends.
MembersLeft(home, D) == home.members \ D
\* Mutation: a widow keeps the pregnancy.
CloseFamilyKeepsPregnancy(F, P, D) ==
  [F EXCEPT
    !.marriages = [p \in DOMAIN @ |-> IF p \cap D = {} THEN @[p]
                                      ELSE [@[p] EXCEPT !.status = "widowed"]],
    !.homes = {[home EXCEPT !.members = MembersLeft(home, D)] :
                 home \in {g \in @ : MembersLeft(g, D) # {}}},
    !.courting = {p \in @ : p \cap D = {}}]

WidowedBy(marriages, D) ==
  [p \in DOMAIN marriages |->
     IF p \cap D = {} THEN marriages[p]
     ELSE [marriages[p] EXCEPT !.status = "widowed", !.child = 0]]
HomesWithout(homes, P, D) ==
  {IF home.members \cap D = {} THEN home
   ELSE LET left == MembersLeft(home, D)
            viable == Alive(P, left) \ D
        IN  [home EXCEPT !.members = left,
               !.head = IF @ \in left THEN @
                        ELSE Min(IF viable = {} THEN left ELSE viable)] :
     home \in {g \in homes : MembersLeft(g, D) # {}}}
Spared(couples, D) == {p \in couples : p \cap D = {}}
CloseFamily(F, P, D) ==
  [F EXCEPT !.marriages = WidowedBy(@, D), !.homes = HomesWithout(@, P, D),
            !.courting = Spared(@, D)]

\* estate_heir_ref: a living spouse, of a widowed marriage too, else the first
\* living child; 0 when there is none.
Heir(F, P, d) ==
  LET spouses == Alive(P, (UNION {p \in DOMAIN F.marriages : d \in p}) \ {d})
      children == Alive(P, {k \in DOMAIN F.parents : d \in F.parents[k]})
  IN  CASE spouses # {} -> Min(spouses)
        [] spouses = {} /\ children # {} -> Min(children)
        [] OTHER -> 0

\* settle_exact_death_estates: to the heir, else to the house, else, for an
\* independent, to the market of the region.
Bequeath(S, F, P, d) ==
  LET heir == Heir(F, P, d)
      home == HousesOf(P, d)
      cash == S.purse[d]
  IN  CASE heir # 0 -> [S EXCEPT !.purse[heir] = @ + cash, !.purse[d] = 0]
        [] heir = 0 /\ home # {} -> [S EXCEPT !.treasury[Min(home)] = @ + cash, !.purse[d] = 0]
        [] OTHER -> [S EXCEPT !.pool = @ + cash, !.purse[d] = 0]

Die(P, d) == [P EXCEPT !.dead = @ \cup {d}, !.leaders = @ \ {d}]

\* settle_extinctions_from_touched_rosters: a house without a living member ends.
StillHouses(act, P) == {h \in act : Members(P, h) # {}}

(*------------------------------- transitions -----------------------------*)
\* reconcile_family_transition: affiliations and households follow the people who
\* moved from source to target; target 0 is no house.
Affiliation(m, p, moved, source, target) ==
  LET wed == p \cap moved
  IN  CASE source \notin m.houses \/ wed = {} -> m.houses
        [] source \in m.houses /\ wed = p /\ target # 0 -> {target}
        [] source \in m.houses /\ wed = p /\ target = 0 -> {}
        [] source \in m.houses /\ wed # {} /\ wed # p /\ target # 0 -> {source, target}
        [] OTHER -> {source}

HomesAfter(home, moved, source, target) ==
  LET gone == home.members \cap moved
      left == home.members \ moved
      staying == [home EXCEPT !.members = left,
                              !.head = IF @ \in left THEN @ ELSE Min(left)]
      moving == [id |-> <<home.id, target, gone>>, house |-> target, members |-> gone,
                 head |-> IF home.head \in gone THEN home.head ELSE Min(gone)]
  IN  CASE home.house # source \/ gone = {} -> {home}
        [] home.house = source /\ gone # {} /\ left = {} ->
             IF target = 0 THEN {} ELSE {[home EXCEPT !.house = target]}
        [] OTHER -> IF target = 0 THEN {staying} ELSE {staying, moving}

Affiliated(marriages, moved, source, target) ==
  [p \in DOMAIN marriages |->
     [marriages[p] EXCEPT !.houses = Affiliation(marriages[p], p, moved, source, target)]]
HomesDivided(homes, moved, source, target) ==
  UNION {HomesAfter(home, moved, source, target) : home \in homes}
ReconcileFamily(F, moved, source, target) ==
  [F EXCEPT !.marriages = Affiliated(@, moved, source, target),
            !.homes = HomesDivided(@, moved, source, target)]

\* Mutation: the rows are copied and not taken out of the old roster.
CopyHouse(P, who, from, to) ==
  [P EXCEPT !.roster = [h \in House |-> IF h = to THEN P.roster[h] \cup who ELSE P.roster[h]],
            !.loose = IF to = 0 THEN @ \cup who ELSE @,
            !.leaders = @ \ who]

\* The living of `who` leave house `from`; the dead stay in its roster.
RostersAfter(roster, who, from, to) ==
  [h \in House |-> CASE h = to -> roster[h] \cup who
                     [] h = from /\ h # to -> roster[h] \ who
                     [] OTHER -> roster[h]]
MoveHouse(P, who, from, to) ==
  [P EXCEPT !.roster = RostersAfter(@, who, from, to),
            !.loose = IF from = 0 THEN @ \ who ELSE IF to = 0 THEN @ \cup who ELSE @,
            !.leaders = @ \ who]

Unfounded(P) == House \ P.known
Blocked(P, h) == \E x \in Members(P, h) : ~Free(x)
Transition(kind, from, to, who, leader) ==
  [kind |-> kind, from |-> from, to |-> to, who |-> who, leader |-> leader]

\* A house of one living member without silver.
Insolvent(P, S) ==
  {h \in active : /\ Cardinality(Members(P, h)) = 1 /\ ~Blocked(P, h)
                  /\ S.treasury[h] = 0}

\* The smaller of two houses is absorbed; of equals, the first by reference.
Absorption(P, a, b) ==
  IF Cardinality(Members(P, a)) <= Cardinality(Members(P, b))
  THEN Transition("merge", a, b, Members(P, a), 0)
  ELSE Transition("merge", b, a, Members(P, b), 0)
Neighbours(P) ==
  {ab \in active \X active : ab[1] < ab[2] /\ ~Blocked(P, ab[1]) /\ ~Blocked(P, ab[2])}
Mergers(P) == {Absorption(P, ab[1], ab[2]) : ab \in Neighbours(P)}

\* At least two dissidents and their candidate leave at least two others and a leader
\* behind.
Dissidents(P, h) ==
  {wc \in (SUBSET ((Members(P, h) \cap Adult) \ P.leaders)) \X Adult :
     /\ wc[2] \in wc[1] /\ Cardinality(wc[1]) >= 2
     /\ Cardinality(Members(P, h) \ wc[1]) >= 2}
Divided(P) ==
  {h \in active : /\ Unfounded(P) # {}
                  /\ Cardinality(Members(P, h)) >= SplitSize
                  /\ Members(P, h) \cap P.leaders # {} /\ ~Blocked(P, h)}
Splits(P) ==
  UNION {{Transition("split", h, Min(Unfounded(P)), wc[1], wc[2]) : wc \in Dissidents(P, h)} :
           h \in Divided(P)}

\* Independents who trust each other and together can pay for a house, and their leader.
Founders(P, S) ==
  {wl \in (SUBSET {x \in Alive(P, P.loose) \cap Adult : Free(x)}) \X Adult :
     /\ wl[2] \in wl[1] /\ Cardinality(wl[1]) >= 2
     /\ SumFunctionOnSet(S.purse, wl[1]) >= Startup * Cardinality(wl[1])}
Foundations(P, S) ==
  IF Unfounded(P) = {} THEN {}
  ELSE {Transition("found", 0, Min(Unfounded(P)), wl[1], wl[2]) : wl \in Founders(P, S)}

\* _settle_autonomous_institutional_evolution_candidate: dissolution comes first;
\* which of the others is considered is a matter of trust and place.
Proposals(P, S) ==
  IF Insolvent(P, S) # {}
  THEN LET h == Min(Insolvent(P, S)) IN {Transition("dissolve", h, 0, Members(P, h), 0)}
  ELSE Mergers(P) \cup Splits(P) \cup Foundations(P, S)

\* _evolution_actor_ref: without an actor nothing is asked.
HasActor(P, t) == t.leader # 0 \/ Members(P, t.from) \cap P.leaders # {}

\* What the members of a new house pay, by reference, until its cost is met.
Share(S, who, x) ==
  LET before == SumFunctionOnSet(S.purse, {y \in who : y < x})
      owed == Startup * Cardinality(who) - before
  IN  IF owed <= 0 THEN 0 ELSE Min({S.purse[x], owed})

PursesAfter(S, who) ==
  [x \in Soul |-> IF x \in who THEN S.purse[x] - Share(S, who, x) ELSE S.purse[x]]

\* Mutation: the absorbed house keeps its treasury.
TransitionSilverTwice(S, P, t) ==
  IF t.kind = "merge" THEN [S EXCEPT !.treasury[t.to] = @ + S.treasury[t.from]]
  ELSE IF t.kind = "split" THEN S
  ELSE S

\* The silver of a transition: a merger moves the whole treasury, a split the
\* share of the people who leave, a foundation is paid by the founders.
TransitionSilver(S, P, t) ==
  CASE t.kind = "merge" ->
         [S EXCEPT !.treasury[t.to] = @ + S.treasury[t.from], !.treasury[t.from] = 0]
    [] t.kind = "split" ->
         LET cash == (S.treasury[t.from] * Cardinality(t.who))
                       \div Cardinality(Members(P, t.from))
         IN  [S EXCEPT !.treasury[t.from] = @ - cash, !.treasury[t.to] = cash]
    [] t.kind = "found" ->
         [S EXCEPT !.treasury[t.to] = Startup * Cardinality(t.who),
                   !.purse = PursesAfter(S, t.who)]
    [] OTHER -> S

\* At the end of a frontier every touched roster rewrites its house from the
\* frontier's cache, and a house that another judgment of the frontier loaded is
\* there as it was before the transition (frontier_bridge.py:2488-2497).
TouchedRosters(t) == {t.from, t.to} \ {0}
WrittenBack(treasury, before, houses) ==
  [h \in House |-> IF h \in houses THEN before[h] ELSE treasury[h]]
Reconciled(S, before, t, cached) ==
  [S EXCEPT !.treasury = WrittenBack(@, before.treasury, cached \cap TouchedRosters(t))]

TransitionPeople(P, t) ==
  LET moved == MoveHouse(P, t.who, t.from, t.to)
  IN  [moved EXCEPT !.leaders = IF t.leader = 0 THEN @ ELSE @ \cup {t.leader},
                     !.known = @ \cup ({t.to} \ {0})]

TransitionHouses(act, t) ==
  CASE t.kind \in {"dissolve", "merge"} -> act \ {t.from}
    [] OTHER -> act \cup {t.to}

(*-------------------------------- judgments ------------------------------*)
\* build_npc_judgment_event: kind, owner, the people it is about and the options.
Judgment(kind, house, who, about, options) ==
  [kind |-> kind, house |-> house, who |-> who, about |-> about, options |-> options]
NoTransition == Transition("none", 0, 0, {}, 0)

OfficeJudgments(P, h) ==
  IF Members(P, h) \cap P.leaders # {} THEN {}
  ELSE {Judgment("office", h, {}, NoTransition, {"leave_vacant", "appoint"})}

\* annual_voluntary_departure_refs: an adult without office, bound neither by a
\* marriage of the house nor by what holds him elsewhere.
MayLeave(P, F, h) ==
  {x \in Members(P, h) \cap Adult : x \notin P.leaders /\ x \notin BoundTo(F, h) /\ Free(x)}
DepartureJudgments(P, F, h) ==
  {{}} \cup {{Judgment("leave", h, {x}, NoTransition, {"leave", "stay"})} : x \in MayLeave(P, F, h)}

InReach(P, h, p) == p \subseteq Members(P, h) /\ \A x \in p : Free(x)
Kin(F, p) == \E x, y \in p : x \in DOMAIN F.parents /\ y \in F.parents[x]

\* advance_npc_relationships: a courtship whose party married elsewhere ends; each
\* of the others in reach is asked about, and only if none is, one new pair.
Courtships(F) == {p \in F.courting : p \cap MarriedPeople(F) = {}}
MarriageJudgments(P, F, h) ==
  {Judgment("marriage", h, p, NoTransition, {"marry", "continue", "end"}) :
     p \in {q \in Courtships(F) : InReach(P, h, q)}}
Suited(P, F, h) ==
  {p \in Pairs : /\ InReach(P, h, p) /\ ~Kin(F, p)
                 /\ p \cap (MarriedPeople(F) \cup UNION Courtships(F)) = {}}
RelationshipJudgments(P, F, h) ==
  IF MarriageJudgments(P, F, h) # {} THEN {MarriageJudgments(P, F, h)}
  ELSE {{}} \cup {{Judgment("courtship", h, p, NoTransition, {"start", "decline"})} :
                    p \in Suited(P, F, h)}

(*------------------------------ monthly cycle ----------------------------*)
\* settle_monthly_compensation: by reference, as long as the treasury lasts.
Paid(S, P, h, x) ==
  LET earlier == Cardinality({y \in Members(P, h) \cap Adult : y < x}) * Stipend
      left == S.treasury[h] - earlier
  IN  IF x \notin Members(P, h) \cap Adult \/ left <= 0 THEN 0 ELSE Min({left, Stipend})

Payroll(S, P, h) == [x \in Soul |-> Paid(S, P, h, x)]

PaidOut(S, P, h) == [x \in Soul |-> S.purse[x] + Payroll(S, P, h)[x]]
Compensated(S, P, h) ==
  [S EXCEPT !.treasury[h] = @ - SumFunction(Payroll(S, P, h)), !.purse = PaidOut(S, P, h)]

Maintained(S, h) ==
  LET cash == Min({S.treasury[h], Upkeep})
  IN  [S EXCEPT !.treasury[h] = @ - cash, !.pool = @ + cash]

\* The frontier's cache forgets a house only where an estate had silver to settle:
\* else what was staged before the clean-up of the dead is replaced by what was
\* loaded before it (faction_cycle_frontier.py:322-326, life_frontier.py:503-510).
Forgotten(S, D) == \E d \in D : S.purse[d] > 0

\* Conception by a married couple of this house, reviewed by the mother's house.
Mother(p) == CHOOSE w \in p : w \in Women
ReviewedBy(P, m, p) ==
  LET hers == HousesOf(P, Mother(p)) \cap m.houses
  IN  IF hers # {} THEN hers ELSE {Min(m.houses)}
Unborn(F) == (Soul \ Adult) \ (DOMAIN F.parents \cup {b.child : b \in births})
MayConceive(P, F, h) ==
  {p \in Married(F) : /\ Cardinality(p \cap Women) = 1 /\ h \in F.marriages[p].houses
                      /\ F.marriages[p].child = 0
                      /\ p \cap P.dead = {} /\ \A x \in p : Free(x)
                      /\ h \in ReviewedBy(P, F.marriages[p], p)}

Quiet == ~Pending
Overdue == \E b \in births : b.due <= clock.month

\* settle_faction_cycle_frontier for one house.
MonthlyCycle(h) ==
  /\ Quiet /\ h \in active /\ h \notin clock.reviewed
  /\ LET kept == Maintained(silver, h)
         paid == Compensated(kept, people, h)
         gone == people.roster[h] \cap people.dead
         after == IF gone = {} \/ Forgotten(silver, gone) THEN paid ELSE kept
         alone == CloseFamily(family, people, gone)
         closed == [alone EXCEPT !.courting = Courtships(alone)]
         short == \/ silver.treasury[h] < Upkeep
                  \/ \E x \in Members(people, h) \cap Adult : Paid(kept, people, h, x) < Stipend
     IN  /\ silver' = after
         /\ \E leaving \in (IF short THEN DepartureJudgments(people, closed, h) ELSE {{}}),
               relations \in RelationshipJudgments(people, closed, h) :
              asked' = leaving \cup relations
                         \cup (IF gone = {} THEN {} ELSE OfficeJudgments(people, h))
         /\ \/ /\ family' = closed
               /\ UNCHANGED births
            \/ \E p \in MayConceive(people, closed, h) :
                 /\ Unborn(closed) # {}
                 /\ LET child == Min(Unborn(closed))
                    IN  /\ family' = [closed EXCEPT !.marriages[p].child = child]
                        /\ births' = births \cup
                             {[couple |-> p, child |-> child, house |-> h,
                               due |-> clock.month + BirthMonths]}
         /\ clock' = [clock EXCEPT !.reviewed = @ \cup {h}]
  /\ UNCHANGED <<active, people, away, committed>>

WithChild(parents, b) ==
  [k \in DOMAIN parents \cup {b.child} |-> IF k = b.child THEN b.couple ELSE parents[k]]
Grown(homes, g, child) == (homes \ {g}) \cup {[g EXCEPT !.members = @ \cup {child}]}

\* settle_due_births: only a pregnancy that is still the couple's own ends in a
\* birth, in the house of the mother, of the father, or of the review.
Birth ==
  /\ Quiet
  /\ \E b \in births :
       LET m == family.marriages[b.couple]
           mother == Mother(b.couple)
           father == Min(b.couple \ {mother})
           hers == HousesOf(people, mother)
           his == HousesOf(people, father)
           to == CASE hers # {} -> Min(hers)
                   [] hers = {} /\ his # {} -> Min(his)
                   [] OTHER -> b.house
           ended == [family EXCEPT !.marriages[b.couple].child = 0]
           home == {g \in family.homes : g.house = to /\ g.members \cap b.couple # {}}
       IN  /\ b.due <= clock.month
           /\ births' = births \ {b}
           /\ CASE m.child # b.child -> UNCHANGED <<family, people>>
                [] m.child = b.child /\ mother \in people.dead ->
                     family' = ended /\ UNCHANGED people
                [] OTHER ->
                     /\ people' = [people EXCEPT !.roster[to] = @ \cup {b.child}]
                     /\ \E g \in IF home = {} THEN {{}} ELSE home :
                          family' = [ended EXCEPT !.parents = WithChild(@, b),
                                                  !.homes = IF home = {} THEN @
                                                            ELSE Grown(@, g, b.child)]
  /\ UNCHANGED <<active, away, silver, asked, committed, clock>>

(*------------------------------ sudden deaths ----------------------------*)
\* close_dead_current_authorities: a wound, a fight or an execution.
Fall(d) ==
  /\ clock.falls < MaxFalls
  /\ d \in Alive(people, people.loose \cup UNION {people.roster[h] : h \in House})
  /\ LET after == Die(people, d)
         left == HousesOf(people, d)
     IN  /\ people' = after
         /\ family' = CloseFamily(family, people, {d})
         /\ silver' = Bequeath(silver, family, after, d)
         /\ active' = StillHouses(active, after)
         /\ asked' = asked \cup UNION {OfficeJudgments(after, h) :
                                         h \in {g \in left : Members(after, g) # {}}}
  /\ away' = away \ {d}
  /\ clock' = [clock EXCEPT !.falls = @ + 1]
  /\ UNCHANGED <<births, committed>>

\* Somebody sets out or comes back (routes, custody, projects).
GoOrReturn(x) ==
  /\ x \in (Adult \ people.dead)
  /\ IF x \in away THEN away' = away \ {x} ELSE away = {} /\ away' = {x}
  /\ UNCHANGED <<active, people, silver, family, births, asked, committed, clock>>

(*------------------------------ annual review ----------------------------*)
\* settle_annual_life_frontier and the proposal of a transition, the houses in one
\* frontier; at most one person dies of age in it.  The row of a member who dies
\* without silver is read back alive from the cache.
AnnualReview ==
  /\ Quiet /\ ~clock.annual /\ clock.month % YearMonths = 0 /\ ~Overdue
  /\ \E D \in {{}} \cup {{x} : x \in {y \in Adult \ people.dead : Free(y)}} :
       LET back == /\ D # {} /\ ~Forgotten(silver, D)
                   /\ \E d \in D : HousesOf(people, d) # {}
           d == Min(D)
           P == IF D = {} \/ back THEN people ELSE Die(people, d)
           F == CloseFamily(family, people, D)
           S == IF D = {} THEN silver ELSE Bequeath(silver, F, Die(people, d), d)
           left == IF D = {} THEN {} ELSE HousesOf(P, d)
           offices == UNION {OfficeJudgments(P, h) : h \in {g \in left : Members(P, g) # {}}}
       IN  /\ people' = P /\ family' = F /\ silver' = S
           /\ active' = StillHouses(active, P)
           /\ \E leaving \in UNION {DepartureJudgments(P, F, h) : h \in active},
                 evolving \in {{}} \cup
                   {{Judgment("evolution", IF t.from = 0 THEN t.to ELSE t.from, {}, t,
                              {"accept", "defer"})} :
                      t \in {u \in Proposals(P, S) : HasActor(P, u)}} :
                asked' = offices \cup leaving \cup evolving
  /\ clock' = [clock EXCEPT !.annual = TRUE]
  /\ UNCHANGED <<away, births, committed>>

(*------------------------- answers and their effect ----------------------*)
\* jianghu_npc_judgment_resolution
Answer ==
  /\ \E j \in asked : \E option \in j.options :
       /\ asked' = asked \ {j}
       /\ committed' = committed \cup
            {[kind |-> j.kind, house |-> j.house, who |-> j.who, about |-> j.about,
              option |-> option]}
  /\ UNCHANGED <<active, people, away, silver, family, births, clock>>

\* Both reducers of the frontier apply an appointment and a departure, and the
\* second finds the office filled or the member gone.
AppliedTwice(c) == <<c.kind, c.option>> \in {<<"office", "appoint">>, <<"leave", "leave">>}

\* apply_npc_relationship_judgment revalidates the pair.
StalePair(c) ==
  /\ c.kind \in {"marriage", "courtship"}
  /\ \/ ~InReach(people, c.house, c.who)
     \/ c.who \cap MarriedPeople(family) # {}
     \/ c.kind = "courtship" /\ c.option = "start" /\ c.who \cap UNION family.courting # {}
     \/ c.kind = "marriage" /\ c.who \notin family.courting

Evolutions == {c \in committed : c.kind = "evolution" /\ c.option = "accept"}
Drifted(c) == c.kind = "evolution" /\ c.option = "accept" /\ c.about \notin Proposals(people, silver)
Raises == \E c \in committed : AppliedTwice(c) \/ StalePair(c) \/ Drifted(c)

Chosen(kind, option) == {c \in committed : c.kind = kind /\ c.option = option}
NewHome(c) == [id |-> <<c.house, c.who>>, house |-> c.house, members |-> c.who, head |-> Min(c.who)]

\* marry, end, start: a marriage of the same pair replaces the one it widowed; a
\* household is only added under a new name.
Weddings == Chosen("marriage", "marry")
Couples == {c.who : c \in Weddings}
WithWeddings(marriages) ==
  [p \in DOMAIN marriages \cup Couples |->
     IF p \in Couples
     THEN [status |-> "married", child |-> 0,
           houses |-> {c.house : c \in {w \in Weddings : w.who = p}}]
     ELSE marriages[p]]
WithNewHomes(homes) ==
  homes \cup {NewHome(c) : c \in {w \in Weddings : NewHome(w).id \notin {g.id : g \in homes}}}
Ended == Couples \cup {c.who : c \in Chosen("marriage", "end")}
Begun == {c.who : c \in Chosen("courtship", "start")}
Related(F) ==
  [F EXCEPT !.marriages = WithWeddings(@), !.homes = WithNewHomes(@),
            !.courting = (@ \ Ended) \cup Begun]

\* The next frontier of the same date settles every committed judgment.
Settle ==
  /\ asked = {} /\ committed # {} /\ ~Raises
  /\ LET F == Related(family)
         loaded == {c.house : c \in {b \in committed : b.kind # "evolution"}}
     IN  IF Evolutions = {}
         THEN family' = F /\ UNCHANGED <<active, people, silver>>
         ELSE \E c \in Evolutions :
                LET t == c.about
                IN  /\ people' = TransitionPeople(people, t)
                    /\ silver' = Reconciled(TransitionSilver(silver, people, t), silver, t, loaded)
                    /\ family' = ReconcileFamily(F, t.who, t.from, t.to)
                    /\ active' = StillHouses(TransitionHouses(active, t), people')
  /\ committed' = {}
  /\ UNCHANGED <<away, births, asked, clock>>

\* The calendar moves on when the houses are reviewed and nothing is due.
NextMonth ==
  /\ Quiet /\ ~Overdue /\ active \subseteq clock.reviewed
  /\ clock.month % YearMonths = 0 => clock.annual
  /\ clock.month < MaxMonth
  /\ clock' = [clock EXCEPT !.month = @ + 1, !.reviewed = {}, !.annual = FALSE]
  /\ UNCHANGED <<active, people, away, silver, family, births, asked, committed>>

Init ==
  /\ \E w \in Settings :
       /\ people = [roster |-> [h \in House |-> IF h \in DOMAIN w.roster THEN w.roster[h] ELSE {}],
                    loose |-> w.loose, dead |-> {}, leaders |-> w.leaders,
                    known |-> DOMAIN w.roster]
       /\ active = DOMAIN w.roster
       /\ silver = [treasury |-> [h \in House |-> IF h \in DOMAIN w.roster THEN w.treasury[h] ELSE 0],
                    purse |-> [x \in Soul |-> IF x \in Adult THEN w.purse[x] ELSE 0], pool |-> 0]
       /\ family = [marriages |-> w.marriages, homes |-> w.homes, parents |-> <<>>, courting |-> w.courting]
  /\ away = {} /\ births = {} /\ asked = {} /\ committed = {}
  /\ clock = [month |-> 1, reviewed |-> {}, annual |-> FALSE, falls |-> 0]

Next ==
  \/ \E h \in House : MonthlyCycle(h)
  \/ Birth \/ AnnualReview \/ Answer \/ Settle \/ NextMonth
  \/ \E x \in Soul : Fall(x) \/ GoOrReturn(x)

Spec == Init /\ [][Next]_vars

(*-------------------------------- properties -----------------------------*)
(***************************************************************************)
(* Shape of the state.                                                     *)
(***************************************************************************)
HouseLifeTypeOK ==
  /\ active \subseteq House /\ away \subseteq Adult
  /\ people \in [roster : [House -> SUBSET Soul], loose : SUBSET Soul, dead : SUBSET Soul,
                 leaders : SUBSET Adult, known : SUBSET House]
  /\ silver \in [treasury : [House -> Nat], purse : [Soul -> Nat], pool : Nat]
  /\ DOMAIN family.marriages \subseteq Pairs /\ family.courting \subseteq Pairs

(***************************************************************************)
(* "Return one duplicate-checked current route for every exact person"     *)
(* (exact_person_index): whatever is founded, merged, split, dissolved or  *)
(* born, a person has one row, the row of a living person is in a house of *)
(* the registry or among the independents, and a leader leads his house    *)
(* alone.                                                                  *)
(***************************************************************************)
OneRowPerPerson ==
  LET born == Adult \cup DOMAIN family.parents
  IN  /\ \A x \in born :
           Cardinality(HousesOf(people, x)) + (IF x \in people.loose THEN 1 ELSE 0) = 1
      /\ \A h \in House \ active : Members(people, h) \cap Adult = {}
      /\ \A h \in House : Cardinality(people.roster[h] \cap people.leaders) <= 1

(***************************************************************************)
(* Marriage binds the living: nobody is in two marriages, both parties of  *)
(* a marriage live, and every pregnancy of one is awaited by exactly one   *)
(* birth, however deaths, judgments and reviews fall around it.            *)
(***************************************************************************)
FamilyOfTheLiving ==
  /\ \A p, q \in Married(family) : p # q => p \cap q = {}
  /\ MarriedPeople(family) \cap people.dead = {}
  /\ \A p \in DOMAIN family.marriages :
       family.marriages[p].child # 0 =>
         /\ p \in Married(family)
         /\ Cardinality({b \in births : b.couple = p /\ b.child = family.marriages[p].child}) = 1
  /\ \A p \in family.courting : p \cap people.dead = {}

(***************************************************************************)
(* A household of a house consists of living people of that house, and its *)
(* head is one of them: transitions split it, deaths shrink it, births go  *)
(* to the parents' one.                                                    *)
(***************************************************************************)
HouseholdsFollowTheirHouse ==
  \A g \in family.homes :
    /\ g.head \in g.members
    /\ g.members \subseteq Members(people, g.house)
    /\ \A f \in family.homes : f.id = g.id => f = g

(***************************************************************************)
(* "Institutional change is causal and conserved" (the rules of evolution):*)
(* silver moves between houses, purses and the market, and none appears or *)
(* is lost.                                                                *)
(***************************************************************************)
Total == SumFunction(silver.treasury) + SumFunction(silver.purse) + silver.pool
SilverIsConserved == [][Total' = Total]_silver

(***************************************************************************)
(* The same with the one step excepted in which it fails: a transition     *)
(* that is settled together with another judgment of a house it touches.   *)
(***************************************************************************)
SettledTogether ==
  \E c \in Evolutions : \E b \in committed :
    b.kind # "evolution" /\ b.house \in TouchedRosters(c.about)
SilverIsKept ==
  [][Total' = Total \/ (committed # {} /\ committed' = {} /\ SettledTogether)]_silver

(***************************************************************************)
(* The purse of the dead is settled: no silver stays with a dead person.   *)
(***************************************************************************)
TheDeadOwnNothing == \A d \in people.dead : silver.purse[d] = 0

(***************************************************************************)
(* Refuted, see the README: what a judgment decided can be settled; who is *)
(* widowed has lost somebody.                                              *)
(***************************************************************************)
CommittedJudgmentsApply == ~(asked = {} /\ \E c \in committed : AppliedTwice(c))
WidowsLostSomebody ==
  \A p \in DOMAIN family.marriages :
    family.marriages[p].status = "widowed" => p \cap people.dead # {}
=============================================================================
