--------------------------------- MODULE Estates --------------------------------
(***************************************************************************)
(* The estates of the houses and the work done on them: land and buildings *)
(* (martial_world/infrastructure.py), funded projects from their start to  *)
(* their completion (project_frontier.py, the infrastructure command of    *)
(* commands/jianghu.py, autonomous investment of frontier_bridge.py), and  *)
(* the bookings of people that projects, caravans and other owners share   *)
(* (commitments.py).                                                       *)
(*                                                                         *)
(* A site stands for one compound with one building and one enterprise.    *)
(* The roles of a crew (skilled, management, general) are one set of       *)
(* workers and one amount of labour in days of a person; skill is the      *)
(* order of the references.  Prices are one coin for the overhead of a     *)
(* project and one coin for the material it needs.                         *)
(*                                                                         *)
(* A boundary project takes in a parcel and lengthens the walls, whose     *)
(* footprint nobody has reserved.  WallGrowth <= Parcel is a fact of the   *)
(* world's data: walls take two square metres a metre, a perimeter keeps   *)
(* the shape of its estate, and the walled estates have 455 to 1360 metres *)
(* around 12,100 to 108,000 square metres, so that the smallest parcel of  *)
(* 500 costs about 20.  The row stores the area and the perimeter to reach *)
(* and the completion takes the larger of old and new; one boundary of a   *)
(* house is open at a time, so that is what it adds.                       *)
(***************************************************************************)
EXTENDS Belongings

CONSTANTS
  Region,    \* regional markets
  Site,      \* compounds
  HomeSite,  \* local_site_ref of a house
  RegionOf,  \* the region of the headquarters of a house
  Basis,     \* the land or workstations the enterprise of a house may organise
  Floor,     \* the reserve an autonomous investment leaves in the treasury
  Timber,    \* the material of construction
  IdleWait,  \* wait of a project without workers, in days: 7 in the code
  Labour,    \* days of one person a project needs
  Parcel,    \* land a boundary project adds: at least 500 square metres in the code
  WallGrowth,\* footprint the longer walls take of it
  MaxLevel,  \* the highest level of a building
  MaxProject \* bound: projects open at a time

ASSUME EstatesAssumption ==
  /\ IsFiniteSet(Person)
  /\ HomeSite \in [House -> Site] /\ RegionOf \in [House -> Region]
  /\ \A g, h \in House : g # h => HomeSite[g] # HomeSite[h]
  /\ Basis \in [House -> Nat] /\ Timber \in Item
  /\ {IdleWait, Labour, MaxLevel, MaxProject} \subseteq Nat \ {0}
  /\ Parcel \in Nat /\ WallGrowth \in 0 .. Parcel

VARIABLES
  silver,   \* [coffer, market]: treasury_cash of a house, cash_pool of a region
  shelf,    \* market stock of a region
  site,     \* per compound: owner, estate area, footprint, building, enterprise
  scale,    \* enterprise_scale of a house
  project,  \* projects.json: from a project number to its row
  wake,     \* autonomous_project_due events of the schedule: project number -> day
  caravan,  \* the merchant journey of a house, or NoCaravan
  where,    \* the compound a person is at, or Road
  away,     \* people dead, captive, in a fight or with another activity
  houses,   \* [extinct, dormant]: houses without members, estates to be claimed
  judged,   \* open judgments of a house: "invest", "aid"
  calendar  \* [day, reviewed, last]: the day, the houses reviewed on it, the last day

estates == <<silver, shelf, site, scale, project, wake, caravan, where, away, houses,
             judged, calendar>>

Road == "road"
NoCaravan == [crew |-> {}]
Building == {"upgrade", "expansion", "boundary"}
Kind == Building \cup {"enterprise", "scale"}
Day == calendar.day
Compound == [owner : House, area : Nat, foot : Nat, building : Nat, enterprise : Nat]

(*------------------------------- bookings --------------------------------*)
\* derived_commitment_state: the owners of people's time, one entry per owner.
Crews == {<<n, project[n].crew>> : n \in DOMAIN project}
         \cup {<<h, caravan[h].crew>> : h \in {g \in House : caravan[g] # NoCaravan}}
Booked == UNION {c[2] : c \in Crews}
\* unavailable_person_refs: booked, captive, fighting or on the road.
Unavailable == Booked \cup away

\* The first people of a set in the order of their references.
FirstOf(S, n) == {p \in S : Cardinality({q \in S : q < p}) < n}
Members(h) == {p \in Person : member[p] = h}

(*--------------------------------- land ----------------------------------*)
\* estate_land_summary, and the footprint open expansions of the house will take.
RemainingLand(s) == AtLeast0(site[s].area - site[s].foot)
Open(h, kind) == {n \in DOMAIN project : project[n].house = h /\ project[n].kind = kind}
ReservedLand(h) == Cardinality(Open(h, "expansion"))

\* start_building_upgrade, start_building_expansion, start_estate_boundary_expansion,
\* start_enterprise_upgrade and start_enterprise_scale_expansion: what each kind of
\* project asks of the estate; a level advances one step at a time and an enterprise
\* rests on a building.
Permits(h, kind, target) ==
  LET e == site[HomeSite[h]]
  IN  CASE kind = "upgrade"    -> e.building < MaxLevel /\ target = e.building + 1
        [] kind = "expansion"  -> e.building > 0 /\ target = 1 /\ RemainingLand(HomeSite[h]) >= 1
        [] kind = "boundary"   -> e.building > 0 /\ e.area > 0 /\ target = 1
        [] kind = "enterprise" -> /\ e.enterprise < MaxLevel /\ target = e.enterprise + 1
                                  /\ e.building >= Max({1, target - 1}) /\ scale[h] >= 1
        [] kind = "scale"      -> e.enterprise > 0 /\ target = 1 /\ scale[h] + 1 <= Basis[h]

(*------------------------------ a project --------------------------------*)
\* minimum_calendar_days is one day; the crew is sized to finish within it.
CrewNeed == Labour
CeilDiv(a, b) == (a + b - 1) \div b

\* Both roles must be filled: nobody starts with fewer than two workers.
Workers(available) == FirstOf(available, Max({2, CrewNeed}))
DaysNeeded(crew) == Max({1, CeilDiv(Labour, Cardinality(crew))})

With(f, n, row) == [m \in DOMAIN f \cup {n} |-> IF m = n THEN row ELSE f[m]]
Without(f, n) == Restrict(f, DOMAIN f \ {n})

NewProject(h, kind, target, crew) ==
  [house |-> h, site |-> HomeSite[h], kind |-> kind, target |-> target, crew |-> crew,
   planned |-> Cardinality(crew), elapsed |-> 0, labour |-> Labour, last |-> Day]

Begin(h, kind, target, crew) ==
  LET n == Min(1 .. MaxProject \ DOMAIN project)
  IN  /\ DOMAIN project # 1 .. MaxProject
      /\ project' = With(project, n, NewProject(h, kind, target, crew))
      /\ wake' = With(wake, n, Day + DaysNeeded(crew))

\* Cash goes into the surrounding economy, material into the building.
Spend(S, h, paid) == [S EXCEPT !.coffer[h] = @ - paid, !.market[RegionOf[h]] = @ + paid]
Consume(h, i, n) ==
  /\ goods' = [goods EXCEPT !.stock[h][i] = @ - n]
  /\ outside' = [outside EXCEPT ![i] = @ + n]

MaterialOf(kind) == IF kind \in Building THEN 1 ELSE 0

\* Mutation: land promised to open expansions is not set aside.
StartWorkUnreserved(p, kind, target) ==
  LET h == member[p]
      available == Members(h) \ Unavailable
  IN  /\ h # Nobody /\ p \notin Unavailable
      /\ Permits(h, kind, target)
      /\ silver.coffer[h] >= 1 /\ goods.stock[h][Timber] >= MaterialOf(kind)
      /\ Cardinality(available) >= 2
      /\ Begin(h, kind, target, Workers(available))
      /\ silver' = Spend(silver, h, 1)
      /\ Consume(h, Timber, MaterialOf(kind))
      /\ UNCHANGED <<title, member, purse, field, shelf, site, scale, caravan, where, away,
                     houses, judged, calendar>>

\* The infrastructure command: an officer starts a project with whoever of the house is
\* free, of any age and wherever they are; an expansion respects the land other open
\* expansions of the house will take, and one boundary is extended at a time.
StartWork(p, kind, target) ==
  LET h == member[p]
      available == Members(h) \ Unavailable
  IN  /\ h # Nobody /\ p \notin Unavailable
      /\ Permits(h, kind, target)
      /\ kind = "expansion" => RemainingLand(HomeSite[h]) - ReservedLand(h) >= 1
      /\ kind = "boundary" => Open(h, "boundary") = {}
      /\ silver.coffer[h] >= 1 /\ goods.stock[h][Timber] >= MaterialOf(kind)
      /\ Cardinality(available) >= 2
      /\ Begin(h, kind, target, Workers(available))
      /\ silver' = Spend(silver, h, 1)
      /\ Consume(h, Timber, MaterialOf(kind))
      /\ UNCHANGED <<title, member, purse, field, shelf, site, scale, caravan, where, away,
                     houses, judged, calendar>>

\* A committed investment judgment, or its deferral: one unfinished project per house;
\* missing material is bought in the region; what is left must cover the reserve.
Invest(h) ==
  LET bought(kind) == AtLeast0(MaterialOf(kind) - goods.stock[h][Timber])
      available == Members(h) \ Unavailable
  IN  /\ "invest" \in judged[h]
      /\ judged' = [judged EXCEPT ![h] = @ \ {"invest"}]
      /\ \/ \E kind \in {"upgrade", "expansion", "scale"}, target \in 1 .. MaxLevel :
              /\ \A n \in DOMAIN project : project[n].house # h
              /\ Permits(h, kind, target) /\ Cardinality(available) >= 2
              /\ shelf[RegionOf[h]][Timber] >= bought(kind)
              /\ silver.coffer[h] - bought(kind) - 1 >= Floor[h]
              /\ Begin(h, kind, target, Workers(available))
              /\ silver' = Spend(silver, h, bought(kind) + 1)
              /\ shelf' = [shelf EXCEPT ![RegionOf[h]][Timber] = @ - bought(kind)]
              /\ goods' = [goods EXCEPT !.stock[h][Timber] = @ + bought(kind) - MaterialOf(kind)]
              /\ outside' = [outside EXCEPT ![Timber] = @ + MaterialOf(kind)]
         \/ UNCHANGED <<project, wake, silver, shelf, goods, outside>>
      /\ UNCHANGED <<title, member, purse, field, site, scale, caravan, where, away, houses,
                     calendar>>

(*------------------------------ a due review ------------------------------*)
\* Mutation: a replacement may be busy with other work.
RestaffedBusy(n) ==
  LET w == project[n]
      ready == {p \in Members(w.house) : where[p] = w.site /\ p \notin w.crew}
      kept == FirstOf((w.crew \ Unavailable) \cap ready, w.planned)
  IN  kept \cup FirstOf(ready \ kept, w.planned - Cardinality(kept))

\* _restaff_project.  The workers of the project itself are among the unavailable people
\* it is given, so none is kept, and others who are free at the site take their places.
Restaffed(n) ==
  LET w == project[n]
      ready == {p \in Members(w.house) \ Unavailable : where[p] = w.site}
      kept == FirstOf((w.crew \ Unavailable) \cap ready, w.planned)
  IN  kept \cup FirstOf(ready \ kept, w.planned - Cardinality(kept))

\* The days since the last review are credited to the crew as it is now.
Advanced(n, crew) ==
  LET w == project[n]
  IN  [w EXCEPT !.crew = crew, !.elapsed = @ + Day - w.last, !.last = Day,
                !.labour = AtLeast0(@ - (Day - w.last) * Cardinality(crew))]

\* _next_review_days
NextReview(w) ==
  IF w.labour > 0 /\ w.crew = {} THEN IdleWait
  ELSE Max({1, 1 - w.elapsed, IF w.labour = 0 THEN 0 ELSE CeilDiv(w.labour, Cardinality(w.crew))})
Complete(w) == w.elapsed >= 1 /\ w.labour = 0

\* A new boundary takes in its parcel and has longer walls.
Enlarged(c) == [c EXCEPT !.area = c.area + Parcel, !.foot = c.foot + WallGrowth]

\* _apply_completion: the physical work goes to the site, scale to the institution.
Built(w) ==
  CASE w.kind = "upgrade"    -> [site EXCEPT ![w.site].building = w.target]
    [] w.kind = "expansion"  -> [site EXCEPT ![w.site].foot = @ + 1]
    [] w.kind = "boundary"   -> [site EXCEPT ![w.site] = Enlarged(@)]
    [] w.kind = "enterprise" -> [site EXCEPT ![w.site].enterprise = w.target]
    [] OTHER -> site
Grown(w) == IF w.kind = "scale" THEN [scale EXCEPT ![w.house] = @ + 1] ELSE scale

\* The house is extinct: the work is suspended and nothing wakes it again.
ProjectSuspended(n) ==
  /\ n \in DOMAIN wake /\ wake[n] <= Day
  /\ project[n].house \in houses.extinct
  /\ project' = [project EXCEPT ![n].crew = {}]
  /\ wake' = Without(wake, n)
  /\ UNCHANGED <<belongings, silver, shelf, site, scale, caravan, where, away, houses,
                 judged, calendar>>

\* Mutation: a review that leaves work to do does not ask for the next one.
ProjectReviewedOnce(n) ==
  LET w == Advanced(n, Restaffed(n))
  IN  /\ n \in DOMAIN wake /\ wake[n] <= Day
      /\ project[n].house \notin houses.extinct /\ ~Complete(w)
      /\ project' = [project EXCEPT ![n] = w]
      /\ wake' = Without(wake, n)
      /\ UNCHANGED <<belongings, silver, shelf, site, scale, caravan, where, away, houses,
                     judged, calendar>>

\* The work is not done: the next review is scheduled.
ProjectReviewed(n) ==
  LET w == Advanced(n, Restaffed(n))
  IN  /\ n \in DOMAIN wake /\ wake[n] <= Day
      /\ project[n].house \notin houses.extinct /\ ~Complete(w)
      /\ project' = [project EXCEPT ![n] = w]
      /\ wake' = [wake EXCEPT ![n] = Day + NextReview(w)]
      /\ UNCHANGED <<belongings, silver, shelf, site, scale, caravan, where, away, houses,
                     judged, calendar>>

\* The work is done: it is built, the crew is free and the row is gone.  On a compound
\* that is not of the house (project_site_invalid) nothing is built, and the row stays with
\* its crew but without a wake; so it would after the two other exits without a wake, a
\* row without a site and one whose last review lies ahead, which no command writes.
ProjectCompleted(n) ==
  LET w == Advanced(n, Restaffed(n))
      theirs == site[w.site].owner = w.house
  IN  /\ n \in DOMAIN wake /\ wake[n] <= Day
      /\ project[n].house \notin houses.extinct /\ Complete(w)
      /\ site' = IF theirs THEN Built(w) ELSE site
      /\ scale' = IF theirs THEN Grown(w) ELSE scale
      /\ project' = IF theirs THEN Without(project, n) ELSE project
      /\ wake' = Without(wake, n)
      /\ UNCHANGED <<belongings, silver, shelf, caravan, where, away, houses, judged,
                     calendar>>

EstatesNext ==
  \/ \E p \in Players, kind \in Kind, target \in 1 .. MaxLevel : StartWork(p, kind, target)
  \/ \E h \in House : Invest(h)
  \/ \E n \in DOMAIN project :
       ProjectSuspended(n) \/ ProjectReviewed(n) \/ ProjectCompleted(n)

(*-------------------------------- properties -----------------------------*)
(* The footprint of a compound, with what its open expansions will add, fits    *)
(* inside its boundary: expansions started at the same time, one completed      *)
(* after the other, cannot promise the same land twice (the reservation of      *)
(* expand_building), nor does the wall of a new boundary stand on it.           *)
LandIsEnough ==
  \A s \in Site :
    site[s].foot + Cardinality({n \in DOMAIN project : /\ project[n].kind = "expansion"
                                                       /\ project[n].site = s}) <= site[s].area

(* Work in progress of a house that lives is on the schedule: through reviews,  *)
(* replaced workers, the end of its house and the claim of the estate, it is    *)
(* never a row that nothing will look at again.                                 *)
WorkHasAWake ==
  /\ \A n \in DOMAIN project : project[n].house \notin houses.extinct => n \in DOMAIN wake
  /\ DOMAIN wake \subseteq DOMAIN project

(* Nobody is booked by two owners: projects restaff, caravans leave and estates *)
(* change hands, each from the people free at that time.  A second booking      *)
(* would stop every later command (derived_commitment_state raises on it).      *)
NobodyTwice ==
  \A a, b \in Crews : a # b => a[2] \cap b[2] = {}

(* The scale of an enterprise stays within the land or the workstations it      *)
(* organises.  Not kept by the code: two expansions started at the same time    *)
(* each look at the current scale only.                                         *)
ScaleWithinBasis == \A h \in House : scale[h] <= Basis[h]
================================================================================
