---------------------------- MODULE HouseEconomyProofs ----------------------------
(***************************************************************************)
(* What holds of the estates of any houses and any number of projects,     *)
(* people and compounds: nobody is booked twice, work in progress stays on *)
(* the schedule, and the land of a compound is never promised twice.       *)
(*                                                                         *)
(* The three need each other and two facts that no run asks for by name:   *)
(* whoever is left of an extinct house is dead or away, so nobody starts   *)
(* work for it, and a living house owns its home and work stands on a      *)
(* compound of its house, so that what a living house has reserved covers  *)
(* its own compound and a completion finds its compound where it was.      *)
(***************************************************************************)
EXTENDS HouseEconomy, SumTheorems

Rows == [house : House, site : Site, kind : Kind, target : Nat, crew : SUBSET Person,
         planned : Nat, elapsed : Int, labour : Nat, last : Int]
Caravans == [crew : SUBSET Person, item : Item, qty : Nat, food : Nat,
             leg : {"out", "wait", "back"}, region : Region]

\* The types of what bookings and land depend on.
EstatesShape ==
  /\ member \in [Person -> House \cup {Nobody}]
  /\ site \in [Site -> Compound]
  /\ IsFiniteSet(DOMAIN project)
  /\ \A n \in DOMAIN project : project[n] \in Rows
  /\ caravan \in [House -> Caravans \cup {NoCaravan}]
  /\ houses \in [extinct : SUBSET House, dormant : SUBSET House]
  /\ calendar \in [day : Int, reviewed : SUBSET House, last : Int]

\* No two crews share a worker, whatever the owners are.
CrewsApart ==
  /\ \A m, n \in DOMAIN project : m # n => project[m].crew \cap project[n].crew = {}
  /\ \A n \in DOMAIN project : \A h \in House : project[n].crew \cap caravan[h].crew = {}
  /\ \A g, h \in House : g # h => caravan[g].crew \cap caravan[h].crew = {}

\* Whoever still is of an extinct house is dead or away (HouseDies, Freed).
ExtinctAreGone == \A p \in Person : member[p] \in houses.extinct => p \in away

\* A living house owns its home; work stands on a compound of its house.
WorkHasAHome ==
  /\ \A h \in House : h \notin houses.extinct => site[HomeSite[h]].owner = h
  /\ \A n \in DOMAIN project : site[project[n].site].owner = project[n].house

\* What the open expansions of a compound will take.
Promised(s) == {n \in DOMAIN project : /\ project[n].kind = "expansion"
                                       /\ project[n].site = s}

EconomyInv ==
  /\ EstatesShape
  /\ WorkHasAWake
  /\ CrewsApart
  /\ ExtinctAreGone
  /\ WorkHasAHome
  /\ LandIsEnough

-----------------------------------------------------------------------------
\* The first people of a set are of the set.
LEMMA FirstAreSome ==
  ASSUME NEW S, NEW n PROVE FirstOf(S, n) \subseteq S
  BY DEF FirstOf

\* Whoever is in a crew is not available (derived_commitment_state).
LEMMA CrewsAreBusy ==
  ASSUME caravan \in [House -> Caravans \cup {NoCaravan}]
  PROVE  /\ \A n \in DOMAIN project : project[n].crew \subseteq Unavailable
         /\ \A h \in House : caravan[h].crew \subseteq Unavailable
<1>1. ASSUME NEW n \in DOMAIN project PROVE project[n].crew \subseteq Unavailable
  <2>1. <<n, project[n].crew>> \in Crews
    BY DEF Crews
  <2> QED  BY <2>1 DEF Unavailable, Booked
<1>2. ASSUME NEW h \in House PROVE caravan[h].crew \subseteq Unavailable
  <2>1. CASE caravan[h] = NoCaravan
    BY <2>1 DEF NoCaravan
  <2>2. CASE caravan[h] # NoCaravan
    <3>1. <<h, caravan[h].crew>> \in Crews
      BY <2>2 DEF Crews
    <3> QED  BY <3>1 DEF Unavailable, Booked
  <2> QED  BY <2>1, <2>2
<1> QED  BY <1>1, <1>2

\* The promise of the bookings: crews apart are owners apart.
LEMMA ApartIsNobodyTwice ==
  ASSUME CrewsApart PROVE NobodyTwice
<1> SUFFICES ASSUME NEW a \in Crews, NEW b \in Crews, a # b
             PROVE  a[2] \cap b[2] = {}
  BY DEF NobodyTwice
<1>1. \/ \E n \in DOMAIN project : a = <<n, project[n].crew>>
      \/ \E h \in House : a = <<h, caravan[h].crew>>
  BY DEF Crews
<1>2. \/ \E n \in DOMAIN project : b = <<n, project[n].crew>>
      \/ \E h \in House : b = <<h, caravan[h].crew>>
  BY DEF Crews
<1> QED  BY <1>1, <1>2 DEF CrewsApart

\* A compound's open expansions can be counted.
LEMMA PromisesAreFinite ==
  ASSUME IsFiniteSet(DOMAIN project), NEW s
  PROVE  IsFiniteSet(Promised(s)) /\ Cardinality(Promised(s)) \in Nat
<1>1. Promised(s) \subseteq DOMAIN project
  BY DEF Promised
<1> QED  BY <1>1, FS_Subset, FS_CardinalityType

-----------------------------------------------------------------------------
\* A step that leaves the estates alone and changes no house for a person but to none.
LEMMA BystandersKeep ==
  ASSUME EconomyInv,
         member' \in [Person -> House \cup {Nobody}],
         \A p \in Person : member'[p] \in {member[p], Nobody},
         UNCHANGED <<site, project, wake, caravan, away, houses>>, calendar' \in [day : Int, reviewed : SUBSET House, last : Int]
  PROVE  EconomyInv'
<1> USE DEF EconomyInv
<1>1. EstatesShape'
  BY DEF EstatesShape
<1>2. WorkHasAWake'
  BY DEF WorkHasAWake
<1>3. CrewsApart'
  BY DEF CrewsApart
<1>4. ExtinctAreGone'
  BY BelongingsAssumption DEF ExtinctAreGone, EstatesShape
<1>5. WorkHasAHome'
  BY DEF WorkHasAHome
<1>6. LandIsEnough'
  BY DEF LandIsEnough
<1> QED  BY <1>1, <1>2, <1>3, <1>4, <1>5, <1>6

\* The first workers of a house that is free are some of those people.
LEMMA WorkersAreFree ==
  ASSUME NEW h \in House
  PROVE  /\ Workers(Members(h) \ Unavailable) \subseteq Person
         /\ Workers(Members(h) \ Unavailable) \cap Unavailable = {}
         /\ Cardinality(Workers(Members(h) \ Unavailable)) \in Nat
<1>1. Workers(Members(h) \ Unavailable) \subseteq Members(h) \ Unavailable
  BY FirstAreSome DEF Workers
<1>2. Members(h) \subseteq Person
  BY DEF Members
<1> QED  BY <1>1, <1>2, EstatesAssumption, FS_Subset, FS_CardinalityType

\* A house with somebody to send is not extinct.
LEMMA TheLivingWork ==
  ASSUME ExtinctAreGone, NEW h \in House, Members(h) \ Unavailable # {}
  PROVE  h \notin houses.extinct
  BY DEF ExtinctAreGone, Members, Unavailable

\* Work that stands on the compound of a living house is its own work.
LEMMA LandOfTheLiving ==
  ASSUME EstatesShape, WorkHasAHome, NEW h \in House, h \notin houses.extinct
  PROVE  Promised(HomeSite[h]) \subseteq Open(h, "expansion")
<1> SUFFICES ASSUME NEW n \in Promised(HomeSite[h]) PROVE project[n].house = h
  BY DEF Promised, Open
<1> QED  BY DEF WorkHasAHome, Promised

\* What the reservation of expand_building leaves: room for one more expansion.
LEMMA RoomForOneMore ==
  ASSUME EconomyInv, NEW h \in House, h \notin houses.extinct,
         RemainingLand(HomeSite[h]) - ReservedLand(h) >= 1
  PROVE  site[HomeSite[h]].foot + Cardinality(Promised(HomeSite[h])) + 1
           <= site[HomeSite[h]].area
<1> DEFINE s == HomeSite[h]
<1>1. s \in Site /\ site[s] \in Compound
  BY EstatesAssumption DEF EconomyInv, EstatesShape
<1>2. IsFiniteSet(Open(h, "expansion")) /\ Promised(s) \subseteq Open(h, "expansion")
  <2>1. Open(h, "expansion") \subseteq DOMAIN project
    BY DEF Open
  <2> QED  BY <2>1, FS_Subset, LandOfTheLiving DEF EconomyInv, EstatesShape
<1>3. /\ Cardinality(Promised(s)) \in Nat /\ ReservedLand(h) \in Nat
      /\ Cardinality(Promised(s)) <= ReservedLand(h)
  BY <1>2, FS_Subset, FS_CardinalityType DEF ReservedLand
<1>4. site[s].area \in Nat /\ site[s].foot \in Nat
  BY <1>1 DEF Compound
<1>5. AtLeast0(site[s].area - site[s].foot) - ReservedLand(h) >= 1
  BY DEF RemainingLand
<1> HIDE DEF s
<1>6. site[s].foot + Cardinality(Promised(s)) + 1 <= site[s].area
  BY <1>3, <1>4, <1>5 DEF AtLeast0
<1> QED  BY <1>6 DEF s

\* A project that is begun takes free people, is on the schedule, stands on the home of
\* its house, and if it is an expansion there is room for it.
LEMMA BeginKeeps ==
  ASSUME EconomyInv, NEW h \in House, NEW kind \in Kind, NEW target \in Nat,
         Members(h) \ Unavailable # {},
         Begin(h, kind, target, Workers(Members(h) \ Unavailable)),
         kind = "expansion" => RemainingLand(HomeSite[h]) - ReservedLand(h) >= 1,
         UNCHANGED <<member, site, caravan, away, houses, calendar>>
  PROVE  EconomyInv'
<1> DEFINE crew == Workers(Members(h) \ Unavailable)
           n == Min(1 .. MaxProject \ DOMAIN project)
           row == NewProject(h, kind, target, crew)
<1>1. /\ project' = With(project, n, row)
      /\ wake' = With(wake, n, Day + DaysNeeded(crew))
  BY DEF Begin
<1>2. /\ row \in Rows /\ row.crew = crew /\ row.house = h /\ row.site = HomeSite[h]
      /\ row.kind = kind
  <2>1. crew \in SUBSET Person /\ Cardinality(crew) \in Nat /\ HomeSite[h] \in Site
        /\ Labour \in Nat /\ 0 \in Int /\ Day \in Int
    BY WorkersAreFree, EstatesAssumption DEF EconomyInv, EstatesShape, Day
  <2> HIDE DEF crew
  <2> QED  BY <2>1 DEF NewProject, Rows
<1>3. crew \cap Unavailable = {}
  BY WorkersAreFree
<1>4. h \notin houses.extinct
  BY TheLivingWork DEF EconomyInv
<1> HIDE DEF crew, n, row
<1>5. /\ DOMAIN project' = DOMAIN project \cup {n}
      /\ project'[n] = row
      /\ \A m \in DOMAIN project : m # n => project'[m] = project[m]
      /\ DOMAIN wake' = DOMAIN wake \cup {n}
  BY <1>1 DEF With
<1>6. EstatesShape'
  BY <1>2, <1>5, FS_AddElement DEF EconomyInv, EstatesShape
<1>7. WorkHasAWake'
  BY <1>5 DEF EconomyInv, WorkHasAWake
<1>8. CrewsApart'
  BY <1>2, <1>3, <1>5, CrewsAreBusy DEF EconomyInv, CrewsApart, EstatesShape
<1>9. ExtinctAreGone'
  BY DEF EconomyInv, ExtinctAreGone
<1>10. WorkHasAHome'
  <2>1. site[row.site].owner = row.house
    BY <1>2, <1>4 DEF EconomyInv, WorkHasAHome
  <2> QED  BY <1>5, <2>1 DEF EconomyInv, WorkHasAHome
<1>11. LandIsEnough'
  <2> SUFFICES ASSUME NEW s \in Site
               PROVE  site'[s].foot + Cardinality(Promised(s)') <= site'[s].area
    BY DEF LandIsEnough, Promised
  <2>1. site' = site /\ site[s].foot \in Nat /\ site[s].area \in Nat
    BY DEF EconomyInv, EstatesShape, Compound
  <2>2. IsFiniteSet(Promised(s)) /\ Cardinality(Promised(s)) \in Nat
    BY PromisesAreFinite DEF EconomyInv, EstatesShape
  <2>3. site[s].foot + Cardinality(Promised(s)) <= site[s].area
    BY DEF EconomyInv, LandIsEnough, Promised
  <2>4. CASE kind = "expansion" /\ s = HomeSite[h]
    <3>1. Promised(s)' \subseteq Promised(s) \cup {n}
      BY <1>5 DEF Promised
    <3>2. /\ IsFiniteSet(Promised(s) \cup {n})
          /\ Cardinality(Promised(s) \cup {n}) <= Cardinality(Promised(s)) + 1
          /\ Cardinality(Promised(s) \cup {n}) \in Nat
      BY <2>2, FS_AddElement, FS_CardinalityType
    <3>3. /\ Cardinality(Promised(s)') \in Nat
          /\ Cardinality(Promised(s)') <= Cardinality(Promised(s)) + 1
      BY <2>2, <3>1, <3>2, FS_Subset, FS_CardinalityType
    <3>4. site[s].foot + Cardinality(Promised(s)) + 1 <= site[s].area
      BY <1>4, <2>4, RoomForOneMore
    <3> QED  BY <2>1, <2>2, <3>3, <3>4
  <2>5. CASE ~(kind = "expansion" /\ s = HomeSite[h])
    <3>1. Promised(s)' \subseteq Promised(s)
      BY <1>2, <1>5, <2>5 DEF Promised
    <3>2. /\ Cardinality(Promised(s)') \in Nat
          /\ Cardinality(Promised(s)') <= Cardinality(Promised(s))
      BY <2>2, <3>1, FS_Subset, FS_CardinalityType
    <3> QED  BY <2>1, <2>2, <2>3, <3>2
  <2> QED  BY <2>4, <2>5
<1> QED  BY <1>6, <1>7, <1>8, <1>9, <1>10, <1>11 DEF EconomyInv

\* The infrastructure command: its own reservation is what RoomForOneMore needs.
LEMMA StartWorkStep ==
  ASSUME EconomyInv, NEW p \in Players, NEW kind \in Kind, NEW target \in 1 .. MaxLevel,
         StartWork(p, kind, target)
  PROVE  EconomyInv'
<1>1. member[p] \in House /\ target \in Nat
  BY BelongingsAssumption, EstatesAssumption DEF StartWork, EconomyInv, EstatesShape
<1>2. Members(member[p]) \ Unavailable # {}
  BY BelongingsAssumption DEF StartWork, Members
<1> QED  BY <1>1, <1>2, BeginKeeps DEF StartWork

\* An investment judgment: no work of the house is open, so what remains is free.
LEMMA InvestStep ==
  ASSUME EconomyInv, NEW h \in House, Invest(h)
  PROVE  EconomyInv'
<1>1. CASE UNCHANGED <<project, wake, silver, shelf, goods, outside>>
  BY <1>1, BystandersKeep DEF Invest, EconomyInv, EstatesShape
<1>2. CASE ~UNCHANGED <<project, wake, silver, shelf, goods, outside>>
  <2>1. PICK kind \in {"upgrade", "expansion", "scale"}, target \in 1 .. MaxLevel :
          /\ \A n \in DOMAIN project : project[n].house # h
          /\ Permits(h, kind, target)
          /\ Cardinality(Members(h) \ Unavailable) >= 2
          /\ Begin(h, kind, target, Workers(Members(h) \ Unavailable))
    BY <1>2 DEF Invest
  <2>2. Members(h) \ Unavailable # {}
    BY <2>1, FS_EmptySet
  <2>3. kind = "expansion" => RemainingLand(HomeSite[h]) - ReservedLand(h) >= 1
    <3>1. Open(h, "expansion") = {}
      BY <2>1 DEF Open
    <3>2. ReservedLand(h) = 0
      BY <3>1, FS_EmptySet DEF ReservedLand
    <3>3. kind = "expansion" => RemainingLand(HomeSite[h]) >= 1
      BY <2>1 DEF Permits
    <3>4. RemainingLand(HomeSite[h]) \in Int
      BY EstatesAssumption DEF RemainingLand, AtLeast0, EconomyInv, EstatesShape, Compound
    <3> QED  BY <3>2, <3>3, <3>4
  <2>4. kind \in Kind /\ target \in Nat
    BY EstatesAssumption DEF Kind, Building
  <2>5. UNCHANGED <<member, site, caravan, away, houses, calendar>>
    BY DEF Invest
  <2> QED  BY <2>1, <2>2, <2>3, <2>4, <2>5, BeginKeeps
<1> QED  BY <1>1, <1>2

-----------------------------------------------------------------------------
\* The row of a project after the days since its last review.
LEMMA AdvancedRow ==
  ASSUME EstatesShape, NEW n \in DOMAIN project
  PROVE  LET w == Advanced(n, Restaffed(n))
         IN  /\ w \in Rows /\ w.crew = Restaffed(n)
             /\ w.house = project[n].house /\ w.site = project[n].site
             /\ w.kind = project[n].kind /\ w.target = project[n].target
<1> DEFINE crew == Restaffed(n)
           w == Advanced(n, crew)
           row == project[n]
<1>1. crew \subseteq Person /\ IsFiniteSet(crew) /\ Cardinality(crew) \in Nat
  <2>1. crew \subseteq Members(row.house)
    BY FirstAreSome DEF Restaffed
  <2> QED  BY <2>1, EstatesAssumption, FS_Subset, FS_CardinalityType DEF Members
<1>2. row \in Rows /\ Day \in Int
  BY DEF EstatesShape, Day
<1> HIDE DEF crew, row
<1>3. row.labour \in Nat /\ row.last \in Int /\ row.elapsed \in Int
  BY <1>2 DEF Rows
<1> DEFINE left == AtLeast0(row.labour - (Day - row.last) * Cardinality(crew))
           passed == row.elapsed + Day - row.last
<1>4. left \in Nat /\ passed \in Int
  <2>1. (Day - row.last) * Cardinality(crew) \in Int
    BY <1>1, <1>2, <1>3
  <2> QED  BY <2>1, <1>2, <1>3 DEF AtLeast0
<1>5. w = [row EXCEPT !.crew = crew, !.elapsed = passed, !.last = Day, !.labour = left]
  BY DEF Advanced, row
<1> HIDE DEF w, left, passed
<1>6. /\ w \in Rows /\ w.crew = crew /\ w.house = row.house /\ w.site = row.site
      /\ w.kind = row.kind /\ w.target = row.target
  BY <1>1, <1>2, <1>4, <1>5 DEF Rows
<1> QED  BY <1>6 DEF w, crew, row

\* The workers of a review were free, so no other crew has them.
LEMMA RestaffedAreFree ==
  ASSUME NEW n PROVE Restaffed(n) \cap Unavailable = {}
  BY FirstAreSome DEF Restaffed

\* A project that changes only in its workers, days or house of the living leaves the
\* land as it was promised.
LEMMA SamePromises ==
  ASSUME EstatesShape, LandIsEnough, DOMAIN project' \subseteq DOMAIN project,
         \A n \in DOMAIN project' : /\ project'[n].kind = project[n].kind
                                    /\ project'[n].site = project[n].site,
         \A s \in Site : site'[s].foot = site[s].foot /\ site'[s].area >= site[s].area,
         site' \in [Site -> Compound]
  PROVE  LandIsEnough'
<1> SUFFICES ASSUME NEW s \in Site
             PROVE  site'[s].foot + Cardinality(Promised(s)') <= site'[s].area
  BY DEF LandIsEnough, Promised
<1>1. Promised(s)' \subseteq Promised(s)
  BY DEF Promised
<1>2. IsFiniteSet(Promised(s)) /\ Cardinality(Promised(s)) \in Nat
  BY PromisesAreFinite DEF EstatesShape
<1>3. Cardinality(Promised(s)') \in Nat /\ Cardinality(Promised(s)') <= Cardinality(Promised(s))
  BY <1>1, <1>2, FS_Subset, FS_CardinalityType
<1>4. site[s].foot + Cardinality(Promised(s)) <= site[s].area
  BY DEF LandIsEnough, Promised
<1>5. /\ site[s].foot \in Nat /\ site[s].area \in Nat
      /\ site'[s].area \in Nat /\ site'[s].foot = site[s].foot /\ site'[s].area >= site[s].area
  BY DEF EstatesShape, Compound
<1> QED  BY <1>2, <1>3, <1>4, <1>5

\* Extinct: the work is suspended.
LEMMA ProjectSuspendedStep ==
  ASSUME EconomyInv, NEW n \in DOMAIN project, ProjectSuspended(n)
  PROVE  EconomyInv'
<1> DEFINE row == [project[n] EXCEPT !.crew = {}]
<1>1. project' = [project EXCEPT ![n] = row] /\ wake' = Without(wake, n)
      /\ project[n].house \in houses.extinct
      /\ UNCHANGED <<member, site, caravan, away, houses, calendar>>
  BY DEF ProjectSuspended, belongings
<1>2. project[n] \in Rows
  BY DEF EconomyInv, EstatesShape
<1>3. /\ row \in Rows /\ row.crew = {} /\ row.house = project[n].house
      /\ row.site = project[n].site /\ row.kind = project[n].kind
  BY <1>2 DEF Rows
<1> HIDE DEF row
<1>4. /\ DOMAIN project' = DOMAIN project /\ project'[n] = row
      /\ \A m \in DOMAIN project : m # n => project'[m] = project[m]
      /\ DOMAIN wake' = DOMAIN wake \ {n}
  BY <1>1 DEF Without, Restrict
<1>5. EstatesShape'
  BY <1>1, <1>3, <1>4 DEF EconomyInv, EstatesShape
<1>6. WorkHasAWake'
  BY <1>1, <1>3, <1>4 DEF EconomyInv, WorkHasAWake
<1>7. CrewsApart'
  BY <1>1, <1>3, <1>4 DEF EconomyInv, CrewsApart
<1>8. ExtinctAreGone'
  BY <1>1 DEF EconomyInv, ExtinctAreGone
<1>9. WorkHasAHome'
  BY <1>1, <1>3, <1>4 DEF EconomyInv, WorkHasAHome
<1>10. LandIsEnough'
  <2>1. \A s \in Site : site'[s].foot = site[s].foot /\ site'[s].area >= site[s].area
    BY <1>1 DEF EconomyInv, EstatesShape, Compound
  <2>2. \A m \in DOMAIN project' : /\ project'[m].kind = project[m].kind
                                   /\ project'[m].site = project[m].site
    BY <1>3, <1>4
  <2> QED  BY <1>1, <1>4, <2>1, <2>2, SamePromises DEF EconomyInv, EstatesShape
<1> QED  BY <1>5, <1>6, <1>7, <1>8, <1>9, <1>10 DEF EconomyInv

\* The work goes on with whoever is free at the site, and is due again.
LEMMA ProjectReviewedStep ==
  ASSUME EconomyInv, NEW n \in DOMAIN project, ProjectReviewed(n)
  PROVE  EconomyInv'
<1> DEFINE row == Advanced(n, Restaffed(n))
<1>1. /\ project' = [project EXCEPT ![n] = row] /\ wake' = [wake EXCEPT ![n] = Day + NextReview(row)]
      /\ UNCHANGED <<member, site, caravan, away, houses, calendar>>
  BY DEF ProjectReviewed, belongings
<1>2. /\ row \in Rows /\ row.crew = Restaffed(n) /\ row.house = project[n].house
      /\ row.site = project[n].site /\ row.kind = project[n].kind
  BY AdvancedRow DEF EconomyInv
<1>3. row.crew \cap Unavailable = {}
  BY <1>2, RestaffedAreFree
<1> HIDE DEF row
<1>4. /\ DOMAIN project' = DOMAIN project /\ project'[n] = row
      /\ \A m \in DOMAIN project : m # n => project'[m] = project[m]
      /\ DOMAIN wake' = DOMAIN wake
  BY <1>1
<1>5. EstatesShape'
  BY <1>1, <1>2, <1>4 DEF EconomyInv, EstatesShape
<1>6. WorkHasAWake'
  BY <1>1, <1>2, <1>4 DEF EconomyInv, WorkHasAWake
<1>7. CrewsApart'
  BY <1>1, <1>3, <1>4, CrewsAreBusy DEF EconomyInv, CrewsApart, EstatesShape
<1>8. ExtinctAreGone'
  BY <1>1 DEF EconomyInv, ExtinctAreGone
<1>9. WorkHasAHome'
  BY <1>1, <1>2, <1>4 DEF EconomyInv, WorkHasAHome
<1>10. LandIsEnough'
  <2>1. \A s \in Site : site'[s].foot = site[s].foot /\ site'[s].area >= site[s].area
    BY <1>1 DEF EconomyInv, EstatesShape, Compound
  <2>2. \A m \in DOMAIN project' : /\ project'[m].kind = project[m].kind
                                   /\ project'[m].site = project[m].site
    BY <1>2, <1>4
  <2> QED  BY <1>1, <1>4, <2>1, <2>2, SamePromises DEF EconomyInv, EstatesShape
<1> QED  BY <1>5, <1>6, <1>7, <1>8, <1>9, <1>10 DEF EconomyInv

\* A new boundary leaves no less land than there was.
LEMMA WallsStandOnTheParcel ==
  ASSUME NEW c \in Compound
  PROVE  /\ Enlarged(c) \in Compound /\ Enlarged(c).owner = c.owner
         /\ Enlarged(c).area - Enlarged(c).foot >= c.area - c.foot
<1>1. /\ Parcel \in Nat /\ WallGrowth \in Nat /\ WallGrowth <= Parcel
      /\ c.area \in Nat /\ c.foot \in Nat
  BY EstatesAssumption DEF Compound
<1>2. /\ Enlarged(c) \in Compound /\ Enlarged(c).owner = c.owner
      /\ Enlarged(c).area = c.area + Parcel /\ Enlarged(c).foot = c.foot + WallGrowth
  <2> DEFINE a == c.area + Parcel
             f == c.foot + WallGrowth
  <2>1. a \in Nat /\ f \in Nat
    BY <1>1
  <2> HIDE DEF a, f
  <2>2. /\ [c EXCEPT !.area = a, !.foot = f] \in Compound
        /\ [c EXCEPT !.area = a, !.foot = f].owner = c.owner
        /\ [c EXCEPT !.area = a, !.foot = f].area = a
        /\ [c EXCEPT !.area = a, !.foot = f].foot = f
    BY <2>1 DEF Compound
  <2> QED  BY <2>2 DEF Enlarged, a, f
<1> QED  BY <1>1, <1>2

\* Done: the work is built, and what an expansion takes is no longer promised.
LEMMA ProjectCompletedStep ==
  ASSUME EconomyInv, NEW n \in DOMAIN project, ProjectCompleted(n)
  PROVE  EconomyInv'
<1> DEFINE w == Advanced(n, Restaffed(n))
           c == site[w.site]
<1>2. /\ w \in Rows /\ w.site = project[n].site /\ w.kind = project[n].kind
      /\ w.house = project[n].house
  BY AdvancedRow DEF EconomyInv
<1>12. site[w.site].owner = w.house
  BY <1>2 DEF EconomyInv, WorkHasAHome
<1>1. /\ site' = Built(w) /\ project' = Without(project, n) /\ wake' = Without(wake, n)
      /\ UNCHANGED <<member, caravan, away, houses, calendar>>
  BY <1>12 DEF ProjectCompleted, belongings
<1>3. w.site \in Site /\ w.target \in Nat /\ c \in Compound
  BY <1>2 DEF Rows, EconomyInv, EstatesShape
<1>4. /\ DOMAIN project' = DOMAIN project \ {n}
      /\ \A m \in DOMAIN project' : project'[m] = project[m]
      /\ DOMAIN wake' = DOMAIN wake \ {n}
  BY <1>1 DEF Without, Restrict
<1> HIDE DEF w
<1>5. /\ site' \in [Site -> Compound]
      /\ \A s \in Site : s # w.site => site'[s] = site[s]
      /\ w.kind = "expansion" => /\ site'[w.site].foot = c.foot + 1
                                 /\ site'[w.site].area = c.area
      /\ w.kind # "expansion" => site'[w.site].area - site'[w.site].foot >= c.area - c.foot
      /\ site'[w.site].owner = c.owner
  <2> DEFINE raised == [c EXCEPT !.building = w.target]
             wider == [c EXCEPT !.foot = c.foot + 1]
             larger == Enlarged(c)
             better == [c EXCEPT !.enterprise = w.target]
  <2>0. c.foot \in Nat /\ c.area \in Nat
    BY <1>3 DEF Compound
  <2>1. /\ raised \in Compound /\ raised.foot = c.foot /\ raised.area = c.area
        /\ better \in Compound /\ better.foot = c.foot /\ better.area = c.area
        /\ raised.owner = c.owner /\ better.owner = c.owner
    BY <1>3 DEF Compound
  <2>2. /\ wider \in Compound /\ wider.foot = c.foot + 1 /\ wider.area = c.area
        /\ wider.owner = c.owner
    BY <1>3, <2>0 DEF Compound
  <2>10. /\ larger \in Compound /\ larger.owner = c.owner
         /\ larger.area - larger.foot >= c.area - c.foot
    BY <1>3, WallsStandOnTheParcel
  <2>3. /\ w.kind = "upgrade" => site' = [site EXCEPT ![w.site] = raised]
        /\ w.kind = "expansion" => site' = [site EXCEPT ![w.site] = wider]
        /\ w.kind = "boundary" => site' = [site EXCEPT ![w.site] = larger]
        /\ w.kind = "enterprise" => site' = [site EXCEPT ![w.site] = better]
        /\ w.kind \notin {"upgrade", "expansion", "boundary", "enterprise"} => site' = site
    BY <1>1 DEF Built
  <2>4. site \in [Site -> Compound]
    BY DEF EconomyInv, EstatesShape
  <2> HIDE DEF raised, wider, larger, better, c
  <2>5. CASE w.kind = "upgrade"
    BY <1>3, <2>0, <2>1, <2>3, <2>4, <2>5
  <2>6. CASE w.kind = "expansion"
    BY <1>3, <2>0, <2>2, <2>3, <2>4, <2>6
  <2>7. CASE w.kind = "boundary"
    BY <1>3, <2>0, <2>3, <2>4, <2>7, <2>10
  <2>8. CASE w.kind = "enterprise"
    BY <1>3, <2>0, <2>1, <2>3, <2>4, <2>8
  <2>9. CASE w.kind \notin {"upgrade", "expansion", "boundary", "enterprise"}
    BY <1>3, <2>0, <2>3, <2>4, <2>9 DEF c
  <2> QED  BY <2>5, <2>6, <2>7, <2>8, <2>9
<1>6. EstatesShape'
  <2>1. IsFiniteSet(DOMAIN project')
    BY <1>4, FS_Subset DEF EconomyInv, EstatesShape
  <2> QED  BY <1>1, <1>4, <1>5, <2>1 DEF EconomyInv, EstatesShape
<1>7. WorkHasAWake'
  BY <1>1, <1>4 DEF EconomyInv, WorkHasAWake
<1>8. CrewsApart'
  BY <1>1, <1>4 DEF EconomyInv, CrewsApart
<1>9. ExtinctAreGone'
  BY <1>1 DEF EconomyInv, ExtinctAreGone
<1>10. WorkHasAHome'
  <2>1. \A s \in Site : site'[s].owner = site[s].owner
    BY <1>5
  <2>2. \A m \in DOMAIN project : project[m].site \in Site
    BY DEF EconomyInv, EstatesShape, Rows
  <2> QED  BY <1>1, <1>4, <2>1, <2>2, EstatesAssumption DEF EconomyInv, WorkHasAHome
<1>11. LandIsEnough'
  <2> SUFFICES ASSUME NEW s \in Site
               PROVE  site'[s].foot + Cardinality(Promised(s)') <= site'[s].area
    BY DEF LandIsEnough, Promised
  <2>1. IsFiniteSet(Promised(s)) /\ Cardinality(Promised(s)) \in Nat
    BY PromisesAreFinite DEF EconomyInv, EstatesShape
  <2>2. site[s].foot + Cardinality(Promised(s)) <= site[s].area
    BY DEF EconomyInv, LandIsEnough, Promised
  <2>3. /\ site[s].foot \in Nat /\ site[s].area \in Nat
        /\ site'[s].foot \in Nat /\ site'[s].area \in Nat
    BY <1>5 DEF EconomyInv, EstatesShape, Compound
  <2>4. CASE w.kind = "expansion" /\ s = w.site
    <3>1. Promised(s)' = Promised(s) \ {n} /\ n \in Promised(s)
      BY <1>2, <1>4, <2>4 DEF Promised
    <3>2. Cardinality(Promised(s)') = Cardinality(Promised(s)) - 1
      BY <2>1, <3>1, FS_RemoveElement
    <3> QED  BY <1>5, <2>1, <2>2, <2>3, <2>4, <3>2
  <2>5. CASE ~(w.kind = "expansion" /\ s = w.site)
    <3>1. Promised(s)' \subseteq Promised(s)
      BY <1>4 DEF Promised
    <3>2. /\ Cardinality(Promised(s)') \in Nat
          /\ Cardinality(Promised(s)') <= Cardinality(Promised(s))
      BY <2>1, <3>1, FS_Subset, FS_CardinalityType
    <3>3. site'[s].area - site'[s].foot >= site[s].area - site[s].foot
      BY <1>5, <2>3, <2>5
    <3> QED  BY <2>1, <2>2, <2>3, <3>2, <3>3
  <2> QED  BY <2>4, <2>5
<1> QED  BY <1>6, <1>7, <1>8, <1>9, <1>10, <1>11 DEF EconomyInv

-----------------------------------------------------------------------------
\* A caravan may lose people, or leave with people who were free.
LEMMA CaravansKeep ==
  ASSUME EconomyInv, NEW h \in House, NEW c \in Caravans \cup {NoCaravan},
         caravan' = [caravan EXCEPT ![h] = c],
         c.crew \subseteq caravan[h].crew \/ c.crew \cap Unavailable = {},
         UNCHANGED <<member, site, project, wake, away, houses>>, calendar' \in [day : Int, reviewed : SUBSET House, last : Int]
  PROVE  EconomyInv'
<1>1. caravan' \in [House -> Caravans \cup {NoCaravan}] /\ caravan'[h] = c
      /\ \A g \in House : g # h => caravan'[g] = caravan[g]
  BY DEF EconomyInv, EstatesShape
<1>2. EstatesShape'
  BY <1>1 DEF EconomyInv, EstatesShape
<1>3. WorkHasAWake' /\ ExtinctAreGone' /\ WorkHasAHome' /\ LandIsEnough'
  BY DEF EconomyInv, WorkHasAWake, ExtinctAreGone, WorkHasAHome, LandIsEnough
<1>4. CrewsApart'
  <2>1. CASE c.crew \subseteq caravan[h].crew
    BY <1>1, <2>1 DEF EconomyInv, CrewsApart
  <2>2. CASE c.crew \cap Unavailable = {}
    BY <1>1, <2>2, CrewsAreBusy DEF EconomyInv, CrewsApart, EstatesShape
  <2> QED  BY <2>1, <2>2
<1> QED  BY <1>2, <1>3, <1>4 DEF EconomyInv

\* A review starts a caravan with one free merchant, or leaves the roads alone.
LEMMA ReviewStep ==
  ASSUME EconomyInv, NEW h \in House, Review(h) PROVE EconomyInv'
<1>1. /\ UNCHANGED <<member, site, project, wake, away, houses>>
      /\ calendar' = [calendar EXCEPT !.reviewed = @ \cup {h}]
  BY DEF Review
<1>2. calendar' \in [day : Int, reviewed : SUBSET House, last : Int]
  BY <1>1 DEF EconomyInv, EstatesShape, Review
<1>3. \/ \E d \in Region : caravan' = [caravan EXCEPT ![h] = Journey(h, d)]
      \/ UNCHANGED caravan
  BY DEF Review, Spreads
<1>4. CASE UNCHANGED caravan
  BY <1>1, <1>2, <1>4, BystandersKeep DEF EconomyInv, EstatesShape
<1>5. ASSUME NEW d \in Region, caravan' = [caravan EXCEPT ![h] = Journey(h, d)]
      PROVE  EconomyInv'
  <2>1. Merchants(h) \subseteq Members(h) \ Unavailable
    BY FirstAreSome DEF Merchants
  <2>2. /\ Journey(h, d) \in Caravans
        /\ Journey(h, d).crew \cap Unavailable = {}
    BY <2>1, EstatesAssumption DEF Journey, Caravans, Members
  <2> QED  BY <1>1, <1>2, <1>5, <2>2, CaravansKeep
<1> QED  BY <1>3, <1>4, <1>5

\* On the road the crew only shrinks (CaravanLost), and at home it is free.
LEMMA CaravanSteps ==
  ASSUME EconomyInv, NEW h \in House, NEW eaten \in 0 .. 1, NEW taken \in BOOLEAN,
         NEW r \in Region,
         \/ CaravanArrives(h, eaten) \/ CaravanSetsOut(h)
         \/ CaravanHome(h, eaten) \/ CaravanLost(h, taken, r)
  PROVE  EconomyInv'
<1> DEFINE c == caravan[h]
<1>1. /\ c # NoCaravan /\ c \in Caravans
      /\ UNCHANGED <<member, site, project, wake, away, houses, calendar>>
  BY DEF CaravanArrives, CaravanSetsOut, CaravanHome, CaravanLost, EconomyInv, EstatesShape
<1>2. calendar' \in [day : Int, reviewed : SUBSET House, last : Int]
  BY <1>1 DEF EconomyInv, EstatesShape
<1>3. NoCaravan \in Caravans \cup {NoCaravan} /\ NoCaravan.crew \subseteq c.crew
  BY DEF NoCaravan
<1>4. c.qty \in Nat /\ c.crew \in SUBSET Person
  BY <1>1 DEF Caravans
<1>5. CASE CaravanArrives(h, eaten)
  <2>1. PICK q \in {0, c.qty} :
          caravan' = [caravan EXCEPT ![h] = [c EXCEPT !.leg = "wait", !.qty = q, !.food = 0]]
    BY <1>5 DEF CaravanArrives
  <2> DEFINE d == [c EXCEPT !.leg = "wait", !.qty = q, !.food = 0]
  <2>2. d \in Caravans /\ d.crew = c.crew
    <3>1. q \in Nat
      BY <1>4
    <3> HIDE DEF c
    <3> QED  BY <1>1, <3>1 DEF Caravans
  <2> HIDE DEF d
  <2> QED  BY <1>1, <1>2, <2>1, <2>2, CaravansKeep DEF d
<1>6. CASE CaravanSetsOut(h)
  <2> DEFINE d == [c EXCEPT !.leg = "back", !.food = 1]
  <2>1. caravan' = [caravan EXCEPT ![h] = d]
    BY <1>6 DEF CaravanSetsOut
  <2>2. d \in Caravans /\ d.crew = c.crew
    BY <1>1 DEF Caravans
  <2> HIDE DEF d
  <2> QED  BY <1>1, <1>2, <2>1, <2>2, CaravansKeep
<1>7. CASE CaravanHome(h, eaten)
  <2>1. caravan' = [caravan EXCEPT ![h] = NoCaravan]
    BY <1>7 DEF CaravanHome
  <2> QED  BY <1>1, <1>2, <1>3, <2>1, CaravansKeep
<1>8. CASE CaravanLost(h, taken, r)
  <2>1. CASE caravan' = [caravan EXCEPT ![h] = NoCaravan]
    BY <1>1, <1>2, <1>3, <2>1, CaravansKeep
  <2>2. CASE caravan' # [caravan EXCEPT ![h] = NoCaravan]
    <3>1. PICK q \in {0, c.qty} :
            caravan' = [caravan EXCEPT ![h] =
                         [c EXCEPT !.leg = "wait", !.crew = c.crew \ away, !.qty = q, !.food = 0]]
      BY <1>8, <2>2 DEF CaravanLost
    <3> DEFINE d == [c EXCEPT !.leg = "wait", !.crew = c.crew \ away, !.qty = q, !.food = 0]
    <3>2. d \in Caravans /\ d.crew \subseteq c.crew
      <4>1. q \in Nat /\ c.crew \ away \in SUBSET Person
        BY <1>4
      <4> HIDE DEF c
      <4> QED  BY <1>1, <4>1 DEF Caravans
    <3> HIDE DEF d
    <3> QED  BY <1>1, <1>2, <3>1, <3>2, CaravansKeep DEF d
  <2> QED  BY <2>1, <2>2
<1> QED  BY <1>5, <1>6, <1>7, <1>8

-----------------------------------------------------------------------------
\* The last members die with their house: work it leaves is work of an extinct house.
LEMMA HouseDiesStep ==
  ASSUME EconomyInv, NEW h \in House, HouseDies(h) PROVE EconomyInv'
<1>1. /\ UNCHANGED <<member, site, project, wake, caravan, calendar>>
      /\ away' = away \cup Members(h)
      /\ houses' = [extinct |-> houses.extinct \cup {h}, dormant |-> houses.dormant \cup {h}]
  BY DEF HouseDies, belongings
<1>2. EstatesShape'
  BY <1>1 DEF EconomyInv, EstatesShape
<1>3. WorkHasAWake'
  BY <1>1 DEF EconomyInv, WorkHasAWake
<1>4. CrewsApart'
  BY <1>1 DEF EconomyInv, CrewsApart
<1>5. ExtinctAreGone'
  BY <1>1 DEF EconomyInv, ExtinctAreGone, Members
<1>6. WorkHasAHome'
  BY <1>1 DEF EconomyInv, WorkHasAHome
<1>7. LandIsEnough'
  BY <1>1 DEF EconomyInv, LandIsEnough
<1> QED  BY <1>2, <1>3, <1>4, <1>5, <1>6, <1>7 DEF EconomyInv

\* The claim of an estate: land and work change hands together, without workers, and
\* everything adopted is due the next day.
LEMMA ClaimEstateStep ==
  ASSUME EconomyInv, NEW p \in Players, NEW d \in House, ClaimEstate(p, d)
  PROVE  EconomyInv'
<1> DEFINE c == member[p]
           theirs == {n \in DOMAIN project : project[n].house = d}
           scales == {n \in theirs : project[n].kind = "scale"}
<1>1. c \in House /\ c \notin houses.extinct /\ d \in houses.extinct
  BY BelongingsAssumption DEF ClaimEstate, Claimable, EconomyInv, EstatesShape
<1>2. /\ site' = [s \in Site |-> IF site[s].owner = d THEN [site[s] EXCEPT !.owner = c] ELSE site[s]]
      /\ project' = [n \in DOMAIN project \ scales |->
                       IF n \in theirs THEN Adopted(project[n], c) ELSE project[n]]
      /\ wake' = [n \in (DOMAIN wake \cup theirs) \ scales |->
                    IF n \in theirs THEN Day + 1 ELSE wake[n]]
      /\ houses' = [houses EXCEPT !.dormant = @ \ {d}]
      /\ UNCHANGED <<member, caravan, away, calendar>>
  BY DEF ClaimEstate
<1>3. \A n \in theirs : /\ Adopted(project[n], c) \in Rows
                        /\ Adopted(project[n], c).crew = {}
                        /\ Adopted(project[n], c).house = c
                        /\ Adopted(project[n], c).site = project[n].site
                        /\ Adopted(project[n], c).kind = project[n].kind
  <2> SUFFICES ASSUME NEW w \in Rows
               PROVE  /\ Adopted(w, c) \in Rows /\ Adopted(w, c).crew = {}
                      /\ Adopted(w, c).house = c /\ Adopted(w, c).site = w.site
                      /\ Adopted(w, c).kind = w.kind
    BY DEF EconomyInv, EstatesShape
  <2>1. Day \in Int
    BY DEF EconomyInv, EstatesShape, Day
  <2> HIDE DEF c
  <2> QED  BY <1>1, <2>1 DEF Adopted, Rows
<1>4. /\ DOMAIN project' = DOMAIN project \ scales
      /\ \A n \in DOMAIN project' :
           IF n \in theirs THEN project'[n] = Adopted(project[n], c)
                           ELSE project'[n] = project[n]
      /\ DOMAIN wake' = (DOMAIN wake \cup theirs) \ scales
  BY <1>2
<1>5. houses'.extinct = houses.extinct /\ houses' \in [extinct : SUBSET House, dormant : SUBSET House]
  BY <1>2 DEF EconomyInv, EstatesShape
<1>6. /\ site' \in [Site -> Compound]
      /\ \A s \in Site : site'[s].foot = site[s].foot /\ site'[s].area = site[s].area
      /\ \A s \in Site : site'[s].owner = IF site[s].owner = d THEN c ELSE site[s].owner
  <2>1. \A s \in Site : /\ [site[s] EXCEPT !.owner = c] \in Compound
                        /\ [site[s] EXCEPT !.owner = c].foot = site[s].foot
                        /\ [site[s] EXCEPT !.owner = c].area = site[s].area
                        /\ [site[s] EXCEPT !.owner = c].owner = c
    BY <1>1 DEF EconomyInv, EstatesShape, Compound
  <2>2. \A s \in Site : site[s] \in Compound
    BY DEF EconomyInv, EstatesShape
  <2> HIDE DEF c
  <2> QED  BY <1>2, <2>1, <2>2
<1> HIDE DEF c
<1>7. EstatesShape'
  <2>1. IsFiniteSet(DOMAIN project')
    BY <1>4, FS_Subset DEF EconomyInv, EstatesShape
  <2>2. \A n \in DOMAIN project' : project'[n] \in Rows
    BY <1>3, <1>4 DEF EconomyInv, EstatesShape
  <2> QED  BY <1>2, <1>5, <1>6, <2>1, <2>2 DEF EconomyInv, EstatesShape
<1>8. WorkHasAWake'
  BY <1>4, <1>5 DEF EconomyInv, WorkHasAWake
<1>9. CrewsApart'
  BY <1>2, <1>3, <1>4 DEF EconomyInv, CrewsApart
<1>10. ExtinctAreGone'
  BY <1>2, <1>5 DEF EconomyInv, ExtinctAreGone
<1>11. WorkHasAHome'
  <2>1. \A n \in DOMAIN project' : /\ project[n].site \in Site
                                   /\ project'[n].site = project[n].site
                                   /\ project'[n].house = IF project[n].house = d THEN c
                                                          ELSE project[n].house
    BY <1>3, <1>4 DEF EconomyInv, EstatesShape, Rows
  <2> QED  BY <1>1, <1>4, <1>5, <1>6, <2>1, EstatesAssumption DEF EconomyInv, WorkHasAHome
<1>12. LandIsEnough'
  <2>1. \A n \in DOMAIN project' : /\ project'[n].kind = project[n].kind
                                   /\ project'[n].site = project[n].site
    BY <1>3, <1>4
  <2>2. \A s \in Site : site'[s].foot = site[s].foot /\ site'[s].area >= site[s].area
    BY <1>6 DEF EconomyInv, EstatesShape, Compound
  <2>3. DOMAIN project' \subseteq DOMAIN project
    BY <1>4
  <2> QED  BY <1>6, <2>1, <2>2, <2>3, SamePromises DEF EconomyInv
<1> QED  BY <1>7, <1>8, <1>9, <1>10, <1>11, <1>12 DEF EconomyInv

\* Who is away comes back only if his house lives.
LEMMA AwayStep ==
  ASSUME EconomyInv, NEW p \in Restless, Taken(p) \/ Freed(p) PROVE EconomyInv'
<1>1. UNCHANGED <<member, site, project, wake, caravan, houses, calendar>>
  BY DEF Taken, Freed, belongings
<1>2. ExtinctAreGone'
  BY <1>1 DEF EconomyInv, ExtinctAreGone, Taken, Freed
<1> QED  BY <1>1, <1>2 DEF EconomyInv, EstatesShape, WorkHasAWake, CrewsApart, WorkHasAHome,
                            LandIsEnough

\* What is held, given, returned, seized or issued never touches estates; people only leave.
LEMMA BelongingsStep ==
  ASSUME EconomyInv, BelongingsNext, UNCHANGED estates PROVE EconomyInv'
<1>1. \/ UNCHANGED member
      \/ \E p \in Restless : member' = [member EXCEPT ![p] = Nobody]
  <2>1. ASSUME NEW p \in Players, NEW q \in Person, PayCash(p, q) \/ PayCash(q, p)
        PROVE  UNCHANGED member
    BY <2>1 DEF PayCash
  <2>2. ASSUME NEW p \in Players, NEW q \in Person, NEW i \in Item,
               \/ GiveItem(p, q, i) \/ ReturnItem(p, q, i)
               \/ ArmoryIssue(p, q, i) \/ ArmoryReturn(p, q, i)
               \/ \E seen \in BOOLEAN : SeizeItem(p, q, i, seen)
        PROVE  UNCHANGED member
    BY <2>2 DEF GiveItem, ReturnItem, ArmoryIssue, ArmoryReturn, SeizeItem
  <2>3. ASSUME NEW h, NEW party, FieldIssue(h, party) \/ FieldContact(h, party)
        PROVE  UNCHANGED member
    BY <2>3 DEF FieldIssue, FieldContact
  <2>4. ASSUME NEW h \in House, FieldReturn(h) \/ \E p \in Person : FieldSeparate(h, p)
        PROVE  UNCHANGED member
    BY <2>4 DEF FieldReturn, FieldSeparate
  <2>5. ASSUME NEW p, NEW i, SpendItem(p, i) PROVE UNCHANGED member
    BY <2>5 DEF SpendItem
  <2>6. ASSUME NEW p \in Restless, LeaveHouse(p)
        PROVE  member' = [member EXCEPT ![p] = Nobody]
    BY <2>6 DEF LeaveHouse
  <2> QED  BY <2>1, <2>2, <2>3, <2>4, <2>5, <2>6 DEF BelongingsNext
<1>2. /\ member' \in [Person -> House \cup {Nobody}]
      /\ \A p \in Person : member'[p] \in {member[p], Nobody}
  BY <1>1 DEF EconomyInv, EstatesShape
<1>3. UNCHANGED <<site, project, wake, caravan, away, houses, calendar>>
  BY DEF estates
<1> QED  BY <1>2, <1>3, BystandersKeep DEF EconomyInv, EstatesShape

\* Aid, trade, production, travel and the passing of a day leave people and work alone.
LEMMA OtherSteps ==
  ASSUME EconomyInv,
         \/ \E h, g \in House : Aid(h, g)
         \/ \E p \in Players, i \in Item : HouseTrade(p, i)
         \/ \E p \in Players, i \in Weapon :
              Produce(p, i) \/ \E r \in Region : PersonalTrade(p, i, r)
         \/ \E p \in Players, s \in Site : Travel(p, s)
         \/ Tick
  PROVE  EconomyInv'
<1> DEFINE still == UNCHANGED <<member, site, project, wake, caravan, away, houses>>
<1>1. ASSUME NEW h \in House, NEW g \in House, Aid(h, g) PROVE still /\ UNCHANGED calendar
  BY <1>1 DEF Aid, belongings
<1>2. ASSUME NEW p \in Players, NEW i \in Item, HouseTrade(p, i) PROVE still /\ UNCHANGED calendar
  BY <1>2 DEF HouseTrade
<1>3. ASSUME NEW p \in Players, NEW i \in Weapon, Produce(p, i) PROVE still /\ UNCHANGED calendar
  BY <1>3 DEF Produce
<1>4. ASSUME NEW p \in Players, NEW i \in Weapon, NEW r \in Region, PersonalTrade(p, i, r)
      PROVE  still /\ UNCHANGED calendar
  BY <1>4 DEF PersonalTrade
<1>5. ASSUME NEW p \in Players, NEW s \in Site, Travel(p, s) PROVE still /\ UNCHANGED calendar
  BY <1>5 DEF Travel, belongings
<1>6. ASSUME Tick
      PROVE  still /\ calendar' = [calendar EXCEPT !.day = calendar.day + 1, !.reviewed = {}]
  BY <1>6 DEF Tick, Day, belongings
<1>7. /\ still
      /\ \/ UNCHANGED calendar
         \/ calendar' = [calendar EXCEPT !.day = calendar.day + 1, !.reviewed = {}]
  <2> HIDE DEF still
  <2> QED  BY <1>1, <1>2, <1>3, <1>4, <1>5, <1>6
<1>8. calendar' \in [day : Int, reviewed : SUBSET House, last : Int]
  <2>1. calendar \in [day : Int, reviewed : SUBSET House, last : Int]
    BY DEF EconomyInv, EstatesShape
  <2>2. calendar.day + 1 \in Int /\ {} \in SUBSET House
    BY <2>1
  <2> QED  BY <1>7, <2>1, <2>2
<1>9. /\ member' \in [Person -> House \cup {Nobody}]
      /\ \A p \in Person : member'[p] \in {member[p], Nobody}
  BY <1>7 DEF EconomyInv, EstatesShape
<1> QED  BY <1>7, <1>8, <1>9, BystandersKeep

\* Every setting starts with houses in order and nothing under way.
LEMMA InitialEconomy ==
  ASSUME Init PROVE EconomyInv
<1> PICK s \in Settings :
      /\ member = s.member /\ site = s.site /\ project = <<>> /\ wake = <<>>
      /\ caravan = [h \in House |-> NoCaravan] /\ away = s.dead
      /\ houses = [extinct |-> s.extinct, dormant |-> {}]
      /\ calendar = [day |-> s.day, reviewed |-> {}, last |-> s.last]
  BY DEF Init
<1>1. DOMAIN project = {} /\ DOMAIN wake = {}
  OBVIOUS
<1>2. EstatesShape
  BY <1>1, FS_EmptySet, EconomyAssumption DEF EstatesShape
<1>3. WorkHasAWake
  BY <1>1 DEF WorkHasAWake
<1>4. CrewsApart
  BY <1>1 DEF CrewsApart, NoCaravan
<1>5. ExtinctAreGone
  BY EconomyAssumption DEF ExtinctAreGone
<1>6. WorkHasAHome
  BY <1>1, EconomyAssumption DEF WorkHasAHome
<1>7. LandIsEnough
  <2> SUFFICES ASSUME NEW c \in Site
               PROVE  site[c].foot + Cardinality(Promised(c)) <= site[c].area
    BY DEF LandIsEnough, Promised
  <2>1. Promised(c) = {}
    BY <1>1 DEF Promised
  <2>2. Cardinality(Promised(c)) = 0
    BY <2>1, FS_EmptySet
  <2>3. site[c].foot \in Nat /\ site[c].area \in Nat /\ site[c].foot <= site[c].area
    BY <1>2, EconomyAssumption DEF EstatesShape, Compound
  <2> QED  BY <2>2, <2>3
<1> QED  BY <1>2, <1>3, <1>4, <1>5, <1>6, <1>7 DEF EconomyInv

-----------------------------------------------------------------------------
\* Crews are apart, work has a wake and a home, the extinct are gone and the land is
\* enough, for any houses, people, compounds, prices and seasons.
THEOREM EconomyInvariance == Spec => []EconomyInv
<1>1. EconomyInv /\ [Next]_vars => EconomyInv'
  <2> SUFFICES ASSUME EconomyInv, [Next]_vars PROVE EconomyInv'
    OBVIOUS
  <2>1. CASE UNCHANGED vars
    BY <2>1, BystandersKeep DEF vars, belongings, estates, EconomyInv, EstatesShape
  <2>2. CASE Next
    <3>1. CASE BelongingsNext /\ UNCHANGED estates
      BY <3>1, BelongingsStep
    <3>2. CASE EstatesNext
      BY <3>2, StartWorkStep, InvestStep, ProjectSuspendedStep, ProjectReviewedStep,
         ProjectCompletedStep DEF EstatesNext
    <3>3. CASE \E h \in House : Review(h) \/ HouseDies(h)
      BY <3>3, ReviewStep, HouseDiesStep
    <3>4. ASSUME NEW h \in House, CaravanSetsOut(h) PROVE EconomyInv'
      <4>1. RegionOf[h] \in Region /\ 0 \in 0 .. 1 /\ TRUE \in BOOLEAN
        BY EstatesAssumption
      <4> QED  BY <3>4, <4>1, CaravanSteps
    <3>5. ASSUME NEW h \in House, NEW eaten \in 0 .. 1,
                 CaravanArrives(h, eaten) \/ CaravanHome(h, eaten)
          PROVE  EconomyInv'
      <4>1. RegionOf[h] \in Region /\ 0 \in 0 .. 1 /\ TRUE \in BOOLEAN
        BY EstatesAssumption
      <4> QED  BY <3>5, <4>1, CaravanSteps
    <3>6. ASSUME NEW h \in House, NEW taken \in BOOLEAN, NEW r \in Region,
                 CaravanLost(h, taken, r)
          PROVE  EconomyInv'
      BY <3>6, CaravanSteps
    <3>7. CASE \E p \in Players, d \in House : ClaimEstate(p, d)
      BY <3>7, ClaimEstateStep
    <3>8. CASE \E p \in Restless : Taken(p) \/ Freed(p)
      BY <3>8, AwayStep
    <3> QED  BY <2>2, <3>1, <3>2, <3>3, <3>4, <3>5, <3>6, <3>7, <3>8, OtherSteps DEF Next
  <2> QED  BY <2>1, <2>2
<1> QED  BY <1>1, InitialEconomy, PTL DEF Spec

\* Whatever the houses start, claim, suspend or lose, the land of a compound is promised
\* once (jianghu.py:1276-1278: the reservation of open expansions).
THEOREM LandIsNeverPromisedTwice == Spec => []LandIsEnough
<1>1. EconomyInv => LandIsEnough
  BY DEF EconomyInv
<1> QED  BY <1>1, EconomyInvariance, PTL

\* Work in progress of a living house is always due (project_frontier.py's
\* autonomous_project_due events, adopted by jianghu_extended.py's claim).
THEOREM WorkIsAlwaysDue == Spec => []WorkHasAWake
<1>1. EconomyInv => WorkHasAWake
  BY DEF EconomyInv
<1> QED  BY <1>1, EconomyInvariance, PTL

\* Nobody is booked by two owners (derived_commitment_state raises on a second booking):
\* crews are only ever taken from the people who are free.
THEOREM NobodyWorksTwice == Spec => []NobodyTwice
<1>1. EconomyInv => NobodyTwice
  BY ApartIsNobodyTwice DEF EconomyInv
<1> QED  BY <1>1, EconomyInvariance, PTL

-----------------------------------------------------------------------------
(* Coins and pieces.  Nothing here looks at how much there is: every operation *)
(* moves what it moves, and the guards only decide whether it may.             *)
Lots == [Item -> Int]
Money == [coffer : [House -> Int], market : [Region -> Int]]
Worlds == [silver : Money, shelf : [Region -> Lots], stock : [House -> Lots], outside : Lots]

\* What a world that a review works on holds, in coins and of an item.
Coins(S) == SumFunction(S.coffer) + SumFunction(S.market)
InWorld(w, i) == InColumn(House, w.stock, i) + InColumn(Region, w.shelf, i) + w.outside[i]

\* v is a world with the coins and pieces of w.
Even(v, w) ==
  /\ v \in Worlds
  /\ Coins(v.silver) = Coins(w.silver)
  /\ \A i \in Item : InWorld(v, i) = InWorld(w, i)

\* n pieces of an item, as a row of changes.
Some(i, n) == [j \in Item |-> IF j = i THEN n ELSE 0]

\* The constants as the proofs use them.
LEMMA Sizes ==
  /\ IsFiniteSet(House) /\ IsFiniteSet(Region) /\ IsFiniteSet(Person)
  /\ RegionOf \in [House -> Region] /\ Timber \in Item /\ Food \in Item /\ Poison \in Item
  /\ Weapon \subseteq Item /\ Players \subseteq Person
  /\ \A r \in Region : Price[r] \in Int
BY BelongingsAssumption, EstatesAssumption, EconomyAssumption

\* A treasury, a market or a purse changes by q.
Moves(f, g, x, q) == g[x] = f[x] + q /\ \A y \in DOMAIN f : y # x => g[y] = f[y]

\* A coffer, market or purse that changes by an amount changes its sum by that amount.
LEMMA SumsOfCoins ==
  /\ \A f, g \in [House -> Int], x \in House, q \in Int :
       Moves(f, g, x, q) => SumFunction(g) = SumFunction(f) + q
  /\ \A f, g \in [Region -> Int], x \in Region, q \in Int :
       Moves(f, g, x, q) => SumFunction(g) = SumFunction(f) + q
  /\ \A f, g \in [Person -> Int], x \in Person, q \in Int :
       Moves(f, g, x, q) => SumFunction(g) = SumFunction(f) + q
  /\ \A f \in [House -> Int] : SumFunction(f) \in Int
  /\ \A f \in [Region -> Int] : SumFunction(f) \in Int
  /\ \A f \in [Person -> Int] : SumFunction(f) \in Int
<1>1. \A f, g \in [House -> Int], x \in House, q \in Int :
        Moves(f, g, x, q) => SumFunction(g) = SumFunction(f) + q
  BY Sizes, SumAdd DEF Moves
<1>2. \A f, g \in [Region -> Int], x \in Region, q \in Int :
        Moves(f, g, x, q) => SumFunction(g) = SumFunction(f) + q
  BY Sizes, SumAdd DEF Moves
<1>3. \A f, g \in [Person -> Int], x \in Person, q \in Int :
        Moves(f, g, x, q) => SumFunction(g) = SumFunction(f) + q
  BY Sizes, SumAdd DEF Moves
<1>4. /\ \A f \in [House -> Int] : SumFunction(f) \in Int
      /\ \A f \in [Region -> Int] : SumFunction(f) \in Int
      /\ \A f \in [Person -> Int] : SumFunction(f) \in Int
  BY Sizes, SumType
<1> QED  BY <1>1, <1>2, <1>3, <1>4

\* Coins that a treasury and its market exchange.
LEMMA EarnedEven ==
  ASSUME NEW w \in Worlds, NEW h \in House, NEW n \in Int PROVE Even(Earned(w, h, n), w)
<1> DEFINE r == RegionOf[h]
           c == [w.silver.coffer EXCEPT ![h] = @ + n]
           m == [w.silver.market EXCEPT ![r] = @ - n]
           v == Earned(w, h, n)
<1>1. /\ w.silver.coffer \in [House -> Int] /\ w.silver.market \in [Region -> Int]
      /\ w.silver \in Money /\ r \in Region
  BY Sizes DEF Worlds, Money
<1>2. /\ c \in [House -> Int] /\ Moves(w.silver.coffer, c, h, n)
      /\ m \in [Region -> Int] /\ Moves(w.silver.market, m, r, 0 - n)
  BY <1>1 DEF Moves
<1>3. /\ v.silver = [w.silver EXCEPT !.coffer = c, !.market = m]
      /\ v = [w EXCEPT !.silver = v.silver]
  BY <1>1 DEF Earned, Worlds, Money
<1> HIDE DEF c, m, v
<1>4. v.silver.coffer = c /\ v.silver.market = m /\ v.silver \in Money
  BY <1>1, <1>2, <1>3 DEF Money
<1>5. v \in Worlds /\ v.shelf = w.shelf /\ v.stock = w.stock /\ v.outside = w.outside
  BY <1>3, <1>4 DEF Worlds
<1>6. SumFunction(c) = SumFunction(w.silver.coffer) + n
  BY <1>1, <1>2, SumsOfCoins
<1>7. SumFunction(m) = SumFunction(w.silver.market) + (0 - n)
  <2>1. 0 - n \in Int
    OBVIOUS
  <2> QED  BY <1>1, <1>2, <2>1, SumsOfCoins
<1>8. SumFunction(w.silver.coffer) \in Int /\ SumFunction(w.silver.market) \in Int
  BY <1>1, SumsOfCoins
<1>9. Coins(v.silver) = Coins(w.silver)
  BY <1>4, <1>6, <1>7, <1>8 DEF Coins
<1> QED  BY <1>5, <1>9 DEF Even, InWorld, v

\* One row of a table of stores, markets or carriers changes by d.
RowMoves(F, G, x, d) ==
  /\ \A j \in Item : G[x][j] = F[x][j] + d[j]
  /\ \A y \in DOMAIN F : y # x => G[y] = F[y]

\* A lot added to the row of one house is added to the houses' total of each item.
LEMMA RowsOfHouses ==
  \A F, G \in [House -> Lots], x \in House, d \in Lots :
    RowMoves(F, G, x, d) => \A j \in Item : InColumn(House, G, j) = InColumn(House, F, j) + d[j]
BY Sizes, RowChange DEF RowMoves, Lots

\* A lot added to the row of one region is added to the regions' total of each item.
LEMMA RowsOfRegions ==
  \A F, G \in [Region -> Lots], x \in Region, d \in Lots :
    RowMoves(F, G, x, d) => \A j \in Item : InColumn(Region, G, j) = InColumn(Region, F, j) + d[j]
BY Sizes, RowChange DEF RowMoves, Lots

\* A lot added to the row of one person is added to the people's total of each item.
LEMMA RowsOfPeople ==
  \A F, G \in [Person -> Lots], x \in Person, d \in Lots :
    RowMoves(F, G, x, d) => \A j \in Item : InColumn(Person, G, j) = InColumn(Person, F, j) + d[j]
BY Sizes, RowChange DEF RowMoves, Lots

\* The total of an item over houses, regions or people is a whole number.
LEMMA Columns ==
  /\ \A F \in [House -> Lots], j \in Item : InColumn(House, F, j) \in Int
  /\ \A F \in [Region -> Lots], j \in Item : InColumn(Region, F, j) \in Int
  /\ \A F \in [Person -> Lots], j \in Item : InColumn(Person, F, j) \in Int
BY Sizes, ColumnType DEF Lots

\* A store changes, and the world outside by as much the other way.
LEMMA StockAndOutside ==
  ASSUME NEW w \in Worlds, NEW v \in Worlds, NEW h \in House, NEW d \in Lots,
         v.silver = w.silver, v.shelf = w.shelf, RowMoves(w.stock, v.stock, h, d),
         \A i \in Item : v.outside[i] = w.outside[i] - d[i]
  PROVE  Even(v, w)
<1>1. /\ w.stock \in [House -> Lots] /\ v.stock \in [House -> Lots]
      /\ w.outside \in Lots /\ w.shelf \in [Region -> Lots]
  BY DEF Worlds
<1>2. \A i \in Item : InColumn(House, v.stock, i) = InColumn(House, w.stock, i) + d[i]
  BY <1>1, RowsOfHouses
<1>3. \A i \in Item : InColumn(House, w.stock, i) \in Int /\ InColumn(Region, w.shelf, i) \in Int
  BY <1>1, Columns
<1>4. ASSUME NEW i \in Item PROVE InWorld(v, i) = InWorld(w, i)
  <2>1. d[i] \in Int /\ w.outside[i] \in Int /\ v.outside[i] = w.outside[i] - d[i]
    BY <1>1 DEF Lots
  <2> QED  BY <1>2, <1>3, <2>1 DEF InWorld
<1> QED  BY <1>4 DEF Even

\* A store changes, and a market by as much the other way.
LEMMA StockAndShelf ==
  ASSUME NEW w \in Worlds, NEW v \in Worlds, NEW h \in House, NEW r \in Region, NEW d \in Lots,
         NEW e \in Lots, \A i \in Item : e[i] = 0 - d[i],
         v.silver = w.silver, v.outside = w.outside,
         RowMoves(w.stock, v.stock, h, d), RowMoves(w.shelf, v.shelf, r, e)
  PROVE  Even(v, w)
<1>1. /\ w.stock \in [House -> Lots] /\ v.stock \in [House -> Lots]
      /\ w.shelf \in [Region -> Lots] /\ v.shelf \in [Region -> Lots] /\ w.outside \in Lots
  BY DEF Worlds
<1>2. \A i \in Item : InColumn(House, v.stock, i) = InColumn(House, w.stock, i) + d[i]
  BY <1>1, RowsOfHouses
<1>3. \A i \in Item : InColumn(Region, v.shelf, i) = InColumn(Region, w.shelf, i) + e[i]
  BY <1>1, RowsOfRegions
<1>4. \A i \in Item : InColumn(House, w.stock, i) \in Int /\ InColumn(Region, w.shelf, i) \in Int
  BY <1>1, Columns
<1>5. ASSUME NEW i \in Item PROVE InWorld(v, i) = InWorld(w, i)
  <2>1. d[i] \in Int /\ e[i] = 0 - d[i] /\ w.outside[i] \in Int
    BY <1>1 DEF Lots
  <2> QED  BY <1>2, <1>3, <1>4, <2>1 DEF InWorld
<1> QED  BY <1>5 DEF Even

\* Made and used up: the world outside gives and takes.
LEMMA MadeEven ==
  ASSUME NEW w \in Worlds, NEW h \in House, NEW i \in Item, NEW n \in Int
  PROVE  Even(Made(w, h, i, n), w)
<1> DEFINE s == [w.stock EXCEPT ![h] = [w.stock[h] EXCEPT ![i] = w.stock[h][i] + n]]
           o == [w.outside EXCEPT ![i] = w.outside[i] - n]
           d == Some(i, n)
           v == Made(w, h, i, n)
<1>1. w.stock \in [House -> Lots] /\ w.outside \in Lots /\ w.stock[h] \in Lots
  BY DEF Worlds
<1>2. /\ d \in Lots /\ s \in [House -> Lots] /\ o \in Lots
      /\ RowMoves(w.stock, s, h, d)
      /\ \A j \in Item : o[j] = w.outside[j] - d[j]
  BY <1>1 DEF Lots, Some, RowMoves
<1>3. v = [w EXCEPT !.stock = s, !.outside = o]
  BY DEF Made, Worlds
<1> HIDE DEF s, o, d, v
<1>4. /\ v \in Worlds /\ v.stock = s /\ v.outside = o /\ v.silver = w.silver /\ v.shelf = w.shelf
  BY <1>2, <1>3 DEF Worlds
<1> QED  BY <1>2, <1>4, StockAndOutside DEF v

\* Pieces that are used up are counted as gone.
LEMMA UsedEven ==
  ASSUME NEW w \in Worlds, NEW h \in House, NEW i \in Item, NEW n \in Int
  PROVE  Even(Used(w, h, i, n), w)
<1> DEFINE s == [w.stock EXCEPT ![h] = [w.stock[h] EXCEPT ![i] = w.stock[h][i] - n]]
           o == [w.outside EXCEPT ![i] = w.outside[i] + n]
           d == Some(i, 0 - n)
           v == Used(w, h, i, n)
<1>1. w.stock \in [House -> Lots] /\ w.outside \in Lots /\ w.stock[h] \in Lots
  BY DEF Worlds
<1>2. /\ d \in Lots /\ s \in [House -> Lots] /\ o \in Lots
      /\ RowMoves(w.stock, s, h, d)
      /\ \A j \in Item : o[j] = w.outside[j] - d[j]
  BY <1>1 DEF Lots, Some, RowMoves
<1>3. v = [w EXCEPT !.stock = s, !.outside = o]
  BY DEF Used, Worlds
<1> HIDE DEF s, o, d, v
<1>4. /\ v \in Worlds /\ v.stock = s /\ v.outside = o /\ v.silver = w.silver /\ v.shelf = w.shelf
  BY <1>2, <1>3 DEF Worlds
<1> QED  BY <1>2, <1>4, StockAndOutside DEF v

\* Bought and sold: a piece against its price.
LEMMA TradedEven ==
  ASSUME NEW w \in Worlds, NEW h \in House, NEW i \in Item
  PROVE  Even(Bought(w, h, i), w) /\ Even(Sold(w, h, i), w)
<1> DEFINE r == RegionOf[h]
<1>1. r \in Region /\ Price[r] \in Int /\ 0 - Price[r] \in Int
  BY Sizes
<1>2. Even(Bought(w, h, i), w)
  <2> DEFINE u == Earned(w, h, 0 - Price[r])
             s == [u.stock EXCEPT ![h] = [u.stock[h] EXCEPT ![i] = u.stock[h][i] + 1]]
             f == [u.shelf EXCEPT ![r] = [u.shelf[r] EXCEPT ![i] = u.shelf[r][i] - 1]]
             d == Some(i, 1)
             e == Some(i, 0 - 1)
             v == Bought(w, h, i)
  <2>1. Even(u, w)
    BY <1>1, EarnedEven
  <2> HIDE DEF u
  <2>2. u \in Worlds /\ u.stock \in [House -> Lots] /\ u.shelf \in [Region -> Lots]
    BY <2>1 DEF Even, Worlds
  <2>3. /\ d \in Lots /\ e \in Lots /\ s \in [House -> Lots] /\ f \in [Region -> Lots]
        /\ RowMoves(u.stock, s, h, d) /\ RowMoves(u.shelf, f, r, e)
        /\ \A j \in Item : e[j] = 0 - d[j]
    BY <1>1, <2>2 DEF Lots, Some, RowMoves
  <2>4. v = [u EXCEPT !.shelf = f, !.stock = s]
    BY <2>2 DEF Bought, Worlds, u
  <2> HIDE DEF s, f, d, e, v
  <2>5. /\ v \in Worlds /\ v.stock = s /\ v.shelf = f /\ v.silver = u.silver
        /\ v.outside = u.outside
    BY <2>2, <2>3, <2>4 DEF Worlds
  <2>6. Even(v, u)
    BY <1>1, <2>2, <2>3, <2>5, StockAndShelf
  <2> QED  BY <2>1, <2>6 DEF Even, v
<1>3. Even(Sold(w, h, i), w)
  <2> DEFINE u == Earned(w, h, Price[r])
             s == [u.stock EXCEPT ![h] = [u.stock[h] EXCEPT ![i] = u.stock[h][i] - 1]]
             f == [u.shelf EXCEPT ![r] = [u.shelf[r] EXCEPT ![i] = u.shelf[r][i] + 1]]
             d == Some(i, 0 - 1)
             e == Some(i, 1)
             v == Sold(w, h, i)
  <2>1. Even(u, w)
    BY <1>1, EarnedEven
  <2> HIDE DEF u
  <2>2. u \in Worlds /\ u.stock \in [House -> Lots] /\ u.shelf \in [Region -> Lots]
    BY <2>1 DEF Even, Worlds
  <2>3. /\ d \in Lots /\ e \in Lots /\ s \in [House -> Lots] /\ f \in [Region -> Lots]
        /\ RowMoves(u.stock, s, h, d) /\ RowMoves(u.shelf, f, r, e)
        /\ \A j \in Item : e[j] = 0 - d[j]
    BY <1>1, <2>2 DEF Lots, Some, RowMoves
  <2>4. v = [u EXCEPT !.shelf = f, !.stock = s]
    BY <2>2 DEF Sold, Worlds, u
  <2> HIDE DEF s, f, d, e, v
  <2>5. /\ v \in Worlds /\ v.stock = s /\ v.shelf = f /\ v.silver = u.silver
        /\ v.outside = u.outside
    BY <2>2, <2>3, <2>4 DEF Worlds
  <2>6. Even(v, u)
    BY <1>1, <2>2, <2>3, <2>5, StockAndShelf
  <2> QED  BY <2>1, <2>6 DEF Even, v
<1> QED  BY <1>2, <1>3

\* A caravan takes a piece of timber and rations, which are on the road now, and the toll
\* changes hands.
LEMMA DispatchedTakes ==
  ASSUME NEW w \in Worlds, NEW h \in House, NEW d \in Region
  PROVE  LET v == Dispatched(w, h, d)
         IN  /\ v \in Worlds /\ Coins(v.silver) = Coins(w.silver)
             /\ \A i \in Item : InWorld(v, i) = InWorld(w, i) - (IF i = Timber THEN 1 ELSE 0)
                                                              - (IF i = Food THEN 1 ELSE 0)
<1> DEFINE r == RegionOf[h]
           u == Earned(w, h, 0 - Price[r])
           c == [u.silver.coffer EXCEPT ![h] = @ - 1]
           m == [u.silver.market EXCEPT ![d] = @ + 1]
           s == [u.stock EXCEPT ![h] = [u.stock[h] EXCEPT ![Food] = u.stock[h][Food] - 1]]
           f == [u.shelf EXCEPT ![r] = [u.shelf[r] EXCEPT ![Timber] = u.shelf[r][Timber] - 1]]
           v == Dispatched(w, h, d)
<1>1. r \in Region /\ Price[r] \in Int /\ 0 - Price[r] \in Int
  BY Sizes
<1>2. Even(u, w)
  BY <1>1, EarnedEven
<1> HIDE DEF u
<1>3. /\ u \in Worlds /\ u.stock \in [House -> Lots] /\ u.shelf \in [Region -> Lots]
      /\ u.outside \in Lots /\ u.silver \in Money
      /\ u.silver.coffer \in [House -> Int] /\ u.silver.market \in [Region -> Int]
  BY <1>2 DEF Even, Worlds, Money
<1>4. /\ Some(Food, 0 - 1) \in Lots /\ Some(Timber, 0 - 1) \in Lots
      /\ s \in [House -> Lots] /\ f \in [Region -> Lots]
      /\ RowMoves(u.stock, s, h, Some(Food, 0 - 1)) /\ RowMoves(u.shelf, f, r, Some(Timber, 0 - 1))
  BY <1>1, <1>3, Sizes DEF Lots, Some, RowMoves
<1>5. /\ c \in [House -> Int] /\ Moves(u.silver.coffer, c, h, 0 - 1)
      /\ m \in [Region -> Int] /\ Moves(u.silver.market, m, d, 1)
  BY <1>3 DEF Moves
<1>6. /\ v.silver = [u.silver EXCEPT !.coffer = c, !.market = m]
      /\ v = [u EXCEPT !.silver = v.silver, !.shelf = f, !.stock = s]
  BY <1>3, ZenonT(60) DEF Dispatched, Worlds, Money, u
<1> HIDE DEF c, m, s, f, v
<1>7. v.silver.coffer = c /\ v.silver.market = m /\ v.silver \in Money
  BY <1>3, <1>5, <1>6 DEF Money
<1>8. v \in Worlds /\ v.shelf = f /\ v.stock = s /\ v.outside = u.outside
  BY <1>3, <1>4, <1>6, <1>7 DEF Worlds
<1>9. Coins(v.silver) = Coins(u.silver)
  <2>1. SumFunction(c) = SumFunction(u.silver.coffer) + (0 - 1)
    <3>1. 0 - 1 \in Int
      OBVIOUS
    <3> QED  BY <1>3, <1>5, <3>1, SumsOfCoins
  <2>2. SumFunction(m) = SumFunction(u.silver.market) + 1
    BY <1>3, <1>5, SumsOfCoins
  <2>3. SumFunction(u.silver.coffer) \in Int /\ SumFunction(u.silver.market) \in Int
    BY <1>3, SumsOfCoins
  <2> QED  BY <1>7, <2>1, <2>2, <2>3 DEF Coins
<1>10. ASSUME NEW i \in Item
       PROVE  InWorld(v, i) = InWorld(u, i) - (IF i = Timber THEN 1 ELSE 0)
                                            - (IF i = Food THEN 1 ELSE 0)
  <2>1. InColumn(House, s, i) = InColumn(House, u.stock, i) + Some(Food, 0 - 1)[i]
    BY <1>3, <1>4, RowsOfHouses
  <2>2. InColumn(Region, f, i) = InColumn(Region, u.shelf, i) + Some(Timber, 0 - 1)[i]
    BY <1>1, <1>3, <1>4, RowsOfRegions
  <2>3. /\ InColumn(House, u.stock, i) \in Int /\ InColumn(Region, u.shelf, i) \in Int
        /\ u.outside[i] \in Int
    BY <1>3, Columns DEF Lots
  <2>4. /\ Some(Food, 0 - 1)[i] = 0 - (IF i = Food THEN 1 ELSE 0)
        /\ Some(Timber, 0 - 1)[i] = 0 - (IF i = Timber THEN 1 ELSE 0)
    BY DEF Some
  <2> QED  BY <1>8, <2>1, <2>2, <2>3, <2>4 DEF InWorld
<1> QED  BY <1>2, <1>8, <1>9, <1>10 DEF Even, v

-----------------------------------------------------------------------------
(* The operations of a review: whichever worlds they find, they leave worlds   *)
(* with as much in them.                                                       *)
AllEven(S, w) == \A v \in S : Even(v, w)

\* Two even changes in a row are one.
LEMMA EvenChain ==
  ASSUME NEW u, NEW v, NEW w, Even(u, v), Even(v, w) PROVE Even(u, w)
BY DEF Even

\* Buying the food of the month is even.
LEMMA FoodIsEven ==
  ASSUME NEW S, NEW w, NEW h \in House, AllEven(S, w) PROVE AllEven(SecuredFood(S, h), w)
<1>1. ASSUME NEW v \in S PROVE Even(Bought(v, h, Food), w) /\ Even(v, w)
  <2>1. Even(v, w) /\ v \in Worlds
    BY DEF AllEven, Even
  <2>2. Even(Bought(v, h, Food), v)
    BY <2>1, Sizes, TradedEven
  <2> QED  BY <2>1, <2>2, EvenChain
<1> QED  BY <1>1 DEF SecuredFood, AllEven

\* Selling the surplus is even.
LEMMA SurplusIsEven ==
  ASSUME NEW S, NEW w, NEW h \in House, AllEven(S, w) PROVE AllEven(SurplusSold(S, h), w)
<1>1. ASSUME NEW v \in S, NEW i \in Item PROVE Even(Sold(v, h, i), w)
  <2>1. Even(v, w) /\ v \in Worlds
    BY DEF AllEven, Even
  <2>2. Even(Sold(v, h, i), v)
    BY <2>1, TradedEven
  <2> QED  BY <2>1, <2>2, EvenChain
<1>2. ASSUME NEW u \in SurplusSold(S, h) PROVE u \in S \/ \E v \in S, i \in Item : u = Sold(v, h, i)
  BY Sizes DEF SurplusSold
<1> QED  BY <1>1, <1>2 DEF AllEven

\* What any operation earns, makes or uses, one after the other.
LEMMA EarnedStays ==
  ASSUME NEW v, NEW w, NEW h \in House, Even(v, w)
  PROVE  /\ Even(Earned(v, h, 1), w) /\ Even(Earned(v, h, 0 - 1), w)
<1>1. v \in Worlds /\ 1 \in Int /\ 0 - 1 \in Int
  BY DEF Even
<1>2. Even(Earned(v, h, 1), v) /\ Even(Earned(v, h, 0 - 1), v)
  BY <1>1, EarnedEven
<1> QED  BY <1>2, EvenChain

\* A piece that is made or used up is counted as made or gone.
LEMMA MadeStays ==
  ASSUME NEW v, NEW w, NEW h \in House, NEW i \in Item, Even(v, w)
  PROVE  Even(Made(v, h, i, 1), w) /\ Even(Used(v, h, i, 1), w)
<1>1. v \in Worlds /\ 1 \in Int
  BY DEF Even
<1>2. Even(Made(v, h, i, 1), v) /\ Even(Used(v, h, i, 1), v)
  BY <1>1, MadeEven, UsedEven
<1> QED  BY <1>2, EvenChain

\* Tuition, rent and labour are even.
LEMMA IncomeIsEven ==
  ASSUME NEW S, NEW w, NEW h \in House, AllEven(S, w)
  PROVE  AllEven(TuitionAndRent(S, h), w) /\ AllEven(LabourPaid(S, h), w)
<1>1. \A v \in S : Even(v, w) /\ Even(Earned(v, h, 1), w)
  BY EarnedStays DEF AllEven
<1> QED  BY <1>1 DEF TuitionAndRent, LabourPaid, AllEven

\* The harvest is even.
LEMMA HarvestIsEven ==
  ASSUME NEW S, NEW w, NEW h \in House, AllEven(S, w) PROVE AllEven(Harvested(S, h), w)
<1>1. ASSUME NEW v \in S PROVE Even(v, w) /\ Even(Made(Earned(v, h, 0 - 1), h, Food, 1), w)
  <2>1. Even(v, w)
    BY DEF AllEven
  <2>2. Even(Earned(v, h, 0 - 1), w)
    BY <2>1, EarnedStays
  <2> QED  BY <2>1, <2>2, Sizes, MadeStays
<1> QED  BY <1>1 DEF Harvested, AllEven

\* The forge is even.
LEMMA ForgeIsEven ==
  ASSUME NEW S, NEW w, NEW h \in House, AllEven(S, w) PROVE AllEven(Forged(S, h), w)
<1> DEFINE new(v, i) == Made(Used(v, h, Timber, 1), h, i, 1)
<1>1. ASSUME NEW v \in S, NEW i \in Weapon
      PROVE  /\ Even(v, w) /\ Even(new(v, i), w)
             /\ \A j \in Weapon : Even(Sold(new(v, i), h, j), w)
  <2>1. Even(v, w) /\ i \in Item
    BY Sizes DEF AllEven
  <2>2. Even(Used(v, h, Timber, 1), w)
    BY <2>1, Sizes, MadeStays
  <2>3. Even(new(v, i), w)
    BY <2>1, <2>2, MadeStays
  <2> HIDE DEF new
  <2>4. ASSUME NEW j \in Weapon PROVE Even(Sold(new(v, i), h, j), w)
    <3>1. j \in Item /\ new(v, i) \in Worlds
      BY <2>3, Sizes DEF Even
    <3>2. Even(Sold(new(v, i), h, j), new(v, i))
      BY <3>1, TradedEven
    <3> QED  BY <2>3, <3>2, EvenChain
  <2> QED  BY <2>1, <2>3, <2>4
<1>2. ASSUME NEW u \in Forged(S, h)
      PROVE  \/ u \in S \/ \E v \in S, i \in Weapon : u = new(v, i)
             \/ \E v \in S, i, j \in Weapon : u = Sold(new(v, i), h, j)
  BY DEF Forged
<1> HIDE DEF new
<1> QED  BY <1>1, <1>2 DEF AllEven

\* The brewing is even.
LEMMA BrewIsEven ==
  ASSUME NEW S, NEW w, NEW h \in House, AllEven(S, w) PROVE AllEven(Brewed(S, h), w)
<1>1. ASSUME NEW v \in S
      PROVE  /\ Even(v, w) /\ Even(Made(Used(v, h, Food, 1), h, Poison, 1), w)
             /\ Even(Used(Earned(v, h, 1), h, Food, 1), w)
  <2>1. Even(v, w)
    BY DEF AllEven
  <2>2. Even(Used(v, h, Food, 1), w) /\ Even(Earned(v, h, 1), w)
    BY <2>1, Sizes, MadeStays, EarnedStays
  <2> QED  BY <2>1, <2>2, Sizes, MadeStays
<1> QED  BY <1>1 DEF Brewed, AllEven

\* All of a monthly review is even.
LEMMA ReviewIsEven ==
  ASSUME NEW w \in Worlds, NEW h \in House
  PROVE  AllEven(Produced(SurplusSold(SecuredFood({w}, h), h), h), w)
<1>1. AllEven({w}, w)
  BY DEF AllEven, Even
<1>2. AllEven(SurplusSold(SecuredFood({w}, h), h), w)
  BY <1>1, FoodIsEven, SurplusIsEven
<1>3. ASSUME NEW S, AllEven(S, w) PROVE AllEven(Produced(S, h), w)
  BY <1>3, IncomeIsEven, HarvestIsEven, ForgeIsEven, BrewIsEven DEF Produced
<1> QED  BY <1>2, <1>3

-----------------------------------------------------------------------------
(* The whole: stores, people, markets, the road and the world outside.         *)
Holdings ==
  /\ goods \in [stock : [House -> Lots], held : [Person -> Lots]]
  /\ silver \in Money /\ shelf \in [Region -> Lots] /\ purse \in [Person -> Int]
  /\ outside \in Lots
  /\ DOMAIN field = House
  /\ \A h \in House : /\ DOMAIN field[h] \subseteq Person
                      /\ \A p \in DOMAIN field[h] : /\ field[h][p].item \in Item
                                                    /\ field[h][p].base \in Int

Load(c) == [i \in Item |-> IF c = NoCaravan THEN 0
                           ELSE (IF c.item = i THEN c.qty ELSE 0) + IF i = Food THEN c.food ELSE 0]
Loads(C) == [h \in House |-> Load(C[h])]

\* What a step may not change.
Kept ==
  /\ CoinsIn(silver', purse') = CoinsIn(silver, purse)
  /\ \A i \in Item : Pieces(i)' = Pieces(i)

\* The pieces of an item before and after a step, part by part.
LEMMA PiecesAre ==
  ASSUME NEW i \in Item
  PROVE  /\ Pieces(i) = InColumn(House, goods.stock, i) + InColumn(Person, goods.held, i)
                          + InColumn(Region, shelf, i) + InColumn(House, Loads(caravan), i)
                          + outside[i]
         /\ Pieces(i)' = InColumn(House, goods'.stock, i) + InColumn(Person, goods'.held, i)
                          + InColumn(Region, shelf', i) + InColumn(House, Loads(caravan'), i)
                          + outside'[i]
<1>1. \A C : [h \in House |-> IF C[h] = NoCaravan THEN 0
                              ELSE (IF C[h].item = i THEN C[h].qty ELSE 0)
                                   + IF i = Food THEN C[h].food ELSE 0]
             = [h \in House |-> Loads(C)[h][i]]
  BY DEF Loads, Load
<1> QED  BY <1>1 DEF Pieces, InColumn

\* The loads of the caravans are lots.
LEMMA LoadsAreLots ==
  ASSUME NEW C \in [House -> Caravans \cup {NoCaravan}] PROVE Loads(C) \in [House -> Lots]
<1> SUFFICES ASSUME NEW h \in House PROVE Load(C[h]) \in Lots
  BY DEF Loads
<1>1. CASE C[h] = NoCaravan
  BY <1>1 DEF Load, Lots
<1>2. CASE C[h] # NoCaravan
  <2>1. C[h].qty \in Int /\ C[h].food \in Int
    BY <1>2 DEF Caravans
  <2> QED  BY <1>2, <2>1 DEF Load, Lots
<1> QED  BY <1>1, <1>2

\* What two people, or two houses, pass between them.
LEMMA CoinsPass ==
  /\ \A f, g \in [Person -> Int], x, z \in Person, q \in Int :
       /\ x # z /\ g[x] = f[x] - q /\ g[z] = f[z] + q
       /\ \A y \in Person : y # x /\ y # z => g[y] = f[y]
       => SumFunction(g) = SumFunction(f)
  /\ \A f, g \in [House -> Int], x, z \in House, q \in Int :
       /\ x # z /\ g[x] = f[x] - q /\ g[z] = f[z] + q
       /\ \A y \in House : y # x /\ y # z => g[y] = f[y]
       => SumFunction(g) = SumFunction(f)
<1>1. ASSUME NEW T, IsFiniteSet(T), NEW f \in [T -> Int], NEW g \in [T -> Int],
             NEW x \in T, NEW z \in T, NEW q \in Int, x # z, g[x] = f[x] - q, g[z] = f[z] + q,
             \A y \in T : y # x /\ y # z => g[y] = f[y]
      PROVE  SumFunction(g) = SumFunction(f)
  <2>1. SumFunction(g) = SumFunction(f) - f[x] + g[x] - f[z] + g[z]
    BY <1>1, SumTransfer
  <2>2. SumFunction(f) \in Int /\ f[x] \in Int /\ f[z] \in Int
    BY <1>1, SumType
  <2> QED  BY <1>1, <2>1, <2>2
<1> QED  BY <1>1, Sizes

RowsPass(F, G, x, z, d, e) ==
  /\ x # z
  /\ \A j \in Item : G[x][j] = F[x][j] + d[j] /\ G[z][j] = F[z][j] + e[j]
  /\ \A y \in DOMAIN F : y # x /\ y # z => G[y] = F[y]

\* What one person gives and another takes changes the people's totals by both.
LEMMA PeoplePass ==
  ASSUME NEW F \in [Person -> Lots], NEW G \in [Person -> Lots], NEW x \in Person, NEW z \in Person,
         NEW d \in Lots, NEW e \in Lots, RowsPass(F, G, x, z, d, e)
  PROVE  \A j \in Item : InColumn(Person, G, j) = InColumn(Person, F, j) + d[j] + e[j]
<1> DEFINE M == [F EXCEPT ![x] = G[x]]
<1>1. /\ M \in [Person -> Lots] /\ M[x] = G[x] /\ M[z] = F[z]
      /\ \A y \in Person : y # x => M[y] = F[y]
      /\ \A y \in Person : y # z => G[y] = M[y]
  BY DEF RowsPass
<1>2. DOMAIN F = Person /\ DOMAIN M = Person
  OBVIOUS
<1> HIDE DEF M
<1>3. RowMoves(F, M, x, d) /\ RowMoves(M, G, z, e)
  BY <1>1, <1>2 DEF RowsPass, RowMoves
<1>4. \A j \in Item : InColumn(Person, M, j) = InColumn(Person, F, j) + d[j]
  BY <1>1, <1>3, RowsOfPeople
<1>5. \A j \in Item : InColumn(Person, G, j) = InColumn(Person, M, j) + e[j]
  BY <1>1, <1>3, RowsOfPeople
<1> QED  BY <1>4, <1>5

\* What one house gives and another takes changes the houses' totals by both.
LEMMA HousesPass ==
  ASSUME NEW F \in [House -> Lots], NEW G \in [House -> Lots], NEW x \in House, NEW z \in House,
         NEW d \in Lots, NEW e \in Lots, RowsPass(F, G, x, z, d, e)
  PROVE  \A j \in Item : InColumn(House, G, j) = InColumn(House, F, j) + d[j] + e[j]
<1> DEFINE M == [F EXCEPT ![x] = G[x]]
<1>1. /\ M \in [House -> Lots] /\ M[x] = G[x] /\ M[z] = F[z]
      /\ \A y \in House : y # x => M[y] = F[y]
      /\ \A y \in House : y # z => G[y] = M[y]
  BY DEF RowsPass
<1>2. DOMAIN F = House /\ DOMAIN M = House
  OBVIOUS
<1> HIDE DEF M
<1>3. RowMoves(F, M, x, d) /\ RowMoves(M, G, z, e)
  BY <1>1, <1>2 DEF RowsPass, RowMoves
<1>4. \A j \in Item : InColumn(House, M, j) = InColumn(House, F, j) + d[j]
  BY <1>1, <1>3, RowsOfHouses
<1>5. \A j \in Item : InColumn(House, G, j) = InColumn(House, M, j) + e[j]
  BY <1>1, <1>3, RowsOfHouses
<1> QED  BY <1>4, <1>5

\* One piece more for each of some people is as many pieces as they are.
LEMMA PeopleCounted ==
  ASSUME NEW F \in [Person -> Lots], NEW G \in [Person -> Lots], NEW j \in Item,
         NEW A, A \subseteq Person,
         \A y \in Person : G[y][j] = F[y][j] + IF y \in A THEN 1 ELSE 0
  PROVE  InColumn(Person, G, j) = InColumn(Person, F, j) + Cardinality(A)
BY Sizes, ColumnCounts DEF Lots

\* The columns of the present are numbers.
LEMMA ColumnsNow ==
  ASSUME Holdings, caravan \in [House -> Caravans \cup {NoCaravan}], NEW i \in Item
  PROVE  /\ InColumn(House, goods.stock, i) \in Int /\ InColumn(Person, goods.held, i) \in Int
         /\ InColumn(Region, shelf, i) \in Int /\ InColumn(House, Loads(caravan), i) \in Int
         /\ outside[i] \in Int
<1>1. /\ goods.stock \in [House -> Lots] /\ goods.held \in [Person -> Lots]
      /\ shelf \in [Region -> Lots] /\ outside \in Lots /\ Loads(caravan) \in [House -> Lots]
  BY LoadsAreLots DEF Holdings
<1> QED  BY <1>1, Columns DEF Lots

\* The coffers, the markets and the purses each have a sum.
LEMMA CoinsNow ==
  ASSUME Holdings
  PROVE  /\ SumFunction(silver.coffer) \in Int /\ SumFunction(silver.market) \in Int
         /\ SumFunction(purse) \in Int
BY SumsOfCoins DEF Holdings, Money

-----------------------------------------------------------------------------
(* What people give, take and are issued.                                      *)
LEMMA PayCashKeeps ==
  ASSUME Holdings, NEW g \in Person, NEW r \in Person, PayCash(g, r), UNCHANGED estates
  PROVE  Holdings' /\ Kept
<1>1. PICK cash \in 1 .. purse[g] :
        purse' = [purse EXCEPT ![g] = @ - cash, ![r] = @ + cash]
  BY DEF PayCash
<1>2. g # r /\ UNCHANGED <<goods, field, outside, silver, shelf, caravan>>
  BY DEF PayCash, estates
<1>3. /\ purse \in [Person -> Int] /\ purse' \in [Person -> Int] /\ cash \in Int
      /\ purse'[g] = purse[g] - cash /\ purse'[r] = purse[r] + cash
      /\ \A y \in Person : y # g /\ y # r => purse'[y] = purse[y]
  BY <1>1, <1>2 DEF Holdings
<1>4. SumFunction(purse') = SumFunction(purse)
  BY <1>2, <1>3, CoinsPass
<1> QED  BY <1>2, <1>3, <1>4, PiecesAre DEF Holdings, Kept, CoinsIn

\* One row of people's things or of the stores changes by d, the other by e.
LEMMA GoodsKept ==
  ASSUME Holdings, caravan \in [House -> Caravans \cup {NoCaravan}],
         goods' \in [stock : [House -> Lots], held : [Person -> Lots]], outside' \in Lots,
         UNCHANGED <<silver, shelf, purse, field, caravan>>,
         \A i \in Item : InColumn(House, goods'.stock, i) + InColumn(Person, goods'.held, i)
                           + outside'[i]
                       = InColumn(House, goods.stock, i) + InColumn(Person, goods.held, i)
                           + outside[i]
  PROVE  Holdings' /\ Kept
<1>1. Holdings'
  BY DEF Holdings
<1>2. ASSUME NEW i \in Item PROVE Pieces(i)' = Pieces(i)
  <2>1. /\ InColumn(House, goods'.stock, i) \in Int /\ InColumn(Person, goods'.held, i) \in Int
        /\ outside'[i] \in Int
    BY Columns DEF Lots
  <2> QED  BY <2>1, PiecesAre, ColumnsNow
<1> QED  BY <1>1, <1>2 DEF Kept

\* Pieces that pass from hand to hand are all still there.
LEMMA HandedKeeps ==
  ASSUME Holdings, caravan \in [House -> Caravans \cup {NoCaravan}],
         NEW a \in Person, NEW b \in Person, a # b, NEW i \in Item, NEW qty \in Int,
         goods' = Handed(goods, a, b, i, qty),
         UNCHANGED <<silver, shelf, purse, field, outside, caravan>>
  PROVE  Holdings' /\ Kept
<1> DEFINE H == [goods.held EXCEPT ![a] = [goods.held[a] EXCEPT ![i] = goods.held[a][i] - qty],
                                   ![b] = [goods.held[b] EXCEPT ![i] = goods.held[b][i] + qty]]
           d == Some(i, 0 - qty)
           e == Some(i, qty)
<1>1. /\ goods.stock \in [House -> Lots] /\ goods.held \in [Person -> Lots]
      /\ goods \in [stock : [House -> Lots], held : [Person -> Lots]] /\ outside \in Lots
  BY DEF Holdings
<1>2. /\ H \in [Person -> Lots] /\ d \in Lots /\ e \in Lots
      /\ \A j \in Item : d[j] + e[j] = 0
  BY <1>1, SMTT(30) DEF Lots, Some
<1>6. RowsPass(goods.held, H, a, b, d, e)
  <2>1. /\ H[a] = [goods.held[a] EXCEPT ![i] = goods.held[a][i] - qty]
        /\ H[b] = [goods.held[b] EXCEPT ![i] = goods.held[b][i] + qty]
        /\ \A y \in Person : y # a /\ y # b => H[y] = goods.held[y]
    BY <1>1
  <2>2. ASSUME NEW j \in Item
        PROVE  H[a][j] = goods.held[a][j] + d[j] /\ H[b][j] = goods.held[b][j] + e[j]
    BY <1>1, <2>1 DEF Lots, Some
  <2>3. DOMAIN goods.held = Person
    BY <1>1
  <2> QED  BY <2>1, <2>2, <2>3 DEF RowsPass
<1>3. goods' = [goods EXCEPT !.held = H]
  BY <1>1 DEF Handed
<1> HIDE DEF H, d, e
<1>4. /\ goods' \in [stock : [House -> Lots], held : [Person -> Lots]]
      /\ goods'.stock = goods.stock /\ goods'.held = H
  BY <1>1, <1>2, <1>3
<1>5. ASSUME NEW j \in Item
      PROVE  InColumn(Person, goods'.held, j) = InColumn(Person, goods.held, j)
  <2>1. InColumn(Person, H, j) = InColumn(Person, goods.held, j) + d[j] + e[j]
    <3>2. PICK F \in [Person -> Lots] : F = goods.held
      BY <1>1
    <3>3. RowsPass(F, H, a, b, d, e)
      BY <1>6, <3>2
    <3>4. \A k \in Item : InColumn(Person, H, k) = InColumn(Person, F, k) + d[k] + e[k]
      BY <1>2, <3>3, PeoplePass
    <3> QED  BY <3>2, <3>4
  <2>2. InColumn(Person, goods.held, j) \in Int /\ d[j] \in Int /\ e[j] \in Int
    BY <1>1, <1>2, Columns DEF Lots
  <2> QED  BY <1>2, <1>4, <2>1, <2>2
<1> QED  BY <1>1, <1>4, <1>5, GoodsKept

\* Gifts, returns and seizures make and lose nothing.
LEMMA HandToHand ==
  ASSUME Holdings, caravan \in [House -> Caravans \cup {NoCaravan}],
         NEW a \in Players, NEW b \in Person, NEW i \in Item,
         GiveItem(a, b, i) \/ ReturnItem(a, b, i) \/ \E seen \in BOOLEAN : SeizeItem(a, b, i, seen),
         UNCHANGED estates
  PROVE  Holdings' /\ Kept
<1>1. UNCHANGED <<silver, shelf, purse, field, outside, caravan>>
  BY DEF GiveItem, ReturnItem, SeizeItem, estates
<1>2. /\ a \in Person /\ a # b
      /\ \A x \in Person : goods.held[x][i] \in Int
  <2>1. a \in Person /\ \A x \in Person : goods.held[x][i] \in Int
    BY Sizes DEF Holdings, Lots
  <2>2. ASSUME NEW seen, SeizeItem(a, b, i, seen) PROVE a # b
    BY <2>2 DEF SeizeItem
  <2>3. GiveItem(a, b, i) \/ ReturnItem(a, b, i) => a # b
    BY DEF GiveItem, ReturnItem
  <2> QED  BY <2>1, <2>2, <2>3
<1>3. \E qty \in Int : goods' = Handed(goods, a, b, i, qty) \/ goods' = Handed(goods, b, a, i, qty)
  <2>1. CASE GiveItem(a, b, i)
    BY <1>2, <2>1 DEF GiveItem
  <2>2. CASE ReturnItem(a, b, i)
    <3>1. \E qty \in 1 .. Least(goods.held[a][i], ClaimQty(title, a, i)) :
             goods' = Handed(goods, a, b, i, qty)
      BY <2>2 DEF ReturnItem
    <3> QED  BY <3>1
  <2>3. CASE \E seen \in BOOLEAN : SeizeItem(a, b, i, seen)
    <3>1. \E qty \in 1 .. goods.held[b][i] : goods' = Handed(goods, b, a, i, qty)
      BY <2>3 DEF SeizeItem
    <3> QED  BY <3>1
  <2> QED  BY <2>1, <2>2, <2>3
<1> QED  BY <1>1, <1>2, <1>3, HandedKeeps

\* The armory and one person.
Exchanged(h, p, i, qty) ==
  \/ goods' = [goods EXCEPT !.stock[h][i] = @ - qty, !.held[p][i] = @ + qty]
  \/ goods' = [goods EXCEPT !.stock[h][i] = @ + qty, !.held[p][i] = @ - qty]

\* An exchange of a person with the house's armory makes and loses nothing.
LEMMA ArmoryKeeps ==
  ASSUME Holdings, caravan \in [House -> Caravans \cup {NoCaravan}],
         NEW h \in House, NEW p \in Person, NEW i \in Item, NEW qty \in Int,
         Exchanged(h, p, i, qty),
         UNCHANGED <<silver, shelf, purse, field, outside, caravan>>
  PROVE  Holdings' /\ Kept
<1>0. /\ goods.stock \in [House -> Lots] /\ goods.held \in [Person -> Lots]
      /\ goods \in [stock : [House -> Lots], held : [Person -> Lots]] /\ outside \in Lots
  BY DEF Holdings
<1>1. PICK n \in Int :
        goods' = [goods EXCEPT
                   !.stock = [goods.stock EXCEPT ![h] = [goods.stock[h] EXCEPT ![i] = goods.stock[h][i] + n]],
                   !.held = [goods.held EXCEPT ![p] = [goods.held[p] EXCEPT ![i] = goods.held[p][i] - n]]]
  <2>0. goods.stock[h][i] \in Int /\ goods.held[p][i] \in Int /\ 0 - qty \in Int
    BY <1>0 DEF Lots
  <2>1. CASE goods' = [goods EXCEPT !.stock[h][i] = @ + qty, !.held[p][i] = @ - qty]
    BY <1>0, <2>1
  <2>2. CASE goods' = [goods EXCEPT !.stock[h][i] = @ - qty, !.held[p][i] = @ + qty]
    <3>1. /\ goods.stock[h][i] - qty = goods.stock[h][i] + (0 - qty)
          /\ goods.held[p][i] + qty = goods.held[p][i] - (0 - qty)
      BY <2>0
    <3> QED  BY <1>0, <2>0, <2>2, <3>1
  <2> QED  BY <2>1, <2>2 DEF Exchanged
<1> DEFINE s == [goods.stock EXCEPT ![h] = [goods.stock[h] EXCEPT ![i] = goods.stock[h][i] + n]]
           H == [goods.held EXCEPT ![p] = [goods.held[p] EXCEPT ![i] = goods.held[p][i] - n]]
<1>2. /\ s \in [House -> Lots] /\ RowMoves(goods.stock, s, h, Some(i, n)) /\ Some(i, n) \in Lots
      /\ H \in [Person -> Lots] /\ RowMoves(goods.held, H, p, Some(i, 0 - n))
      /\ Some(i, 0 - n) \in Lots
  BY <1>0 DEF Lots, Some, RowMoves
<1>3. goods' = [goods EXCEPT !.stock = s, !.held = H]
  BY <1>1
<1> HIDE DEF s, H
<1>4. /\ goods' \in [stock : [House -> Lots], held : [Person -> Lots]]
      /\ goods'.stock = s /\ goods'.held = H
  BY <1>0, <1>2, <1>3
<1>5. ASSUME NEW j \in Item
      PROVE  InColumn(House, s, j) + InColumn(Person, H, j) + outside'[j]
               = InColumn(House, goods.stock, j) + InColumn(Person, goods.held, j) + outside[j]
  <2>1. /\ InColumn(House, s, j) = InColumn(House, goods.stock, j) + Some(i, n)[j]
        /\ InColumn(Person, H, j) = InColumn(Person, goods.held, j) + Some(i, 0 - n)[j]
    BY <1>0, <1>2, RowsOfHouses, RowsOfPeople
  <2>2. Some(i, n)[j] + Some(i, 0 - n)[j] = 0 /\ Some(i, n)[j] \in Int /\ Some(i, 0 - n)[j] \in Int
    BY DEF Some
  <2>3. /\ InColumn(House, goods.stock, j) \in Int /\ InColumn(Person, goods.held, j) \in Int
        /\ outside[j] \in Int
    BY ColumnsNow
  <2> QED  BY <2>1, <2>2, <2>3
<1> QED  BY <1>0, <1>4, <1>5, GoodsKept

\* What an issue takes from the store it puts into as many hands.
LEMMA IssuedGoodsKeep ==
  ASSUME Holdings, NEW h \in House, NEW S \in SUBSET Person, NEW f \in [S -> Weapon]
  PROVE  LET g == IssuedGoods(h, f)
         IN  /\ g \in [stock : [House -> Lots], held : [Person -> Lots]]
             /\ \A i \in Item : InColumn(House, g.stock, i) + InColumn(Person, g.held, i)
                                  = InColumn(House, goods.stock, i) + InColumn(Person, goods.held, i)
<1>0. /\ goods.stock \in [House -> Lots] /\ goods.held \in [Person -> Lots]
      /\ goods \in [stock : [House -> Lots], held : [Person -> Lots]]
  BY DEF Holdings
<1> DEFINE A(i) == {p \in S : f[p] = i}
           d == [i \in Item |-> 0 - Cardinality(A(i))]
           s == [goods.stock EXCEPT ![h] = [i \in Item |-> goods.stock[h][i] - Given(f, i)]]
           H == [p \in Person |-> [i \in Item |->
                   goods.held[p][i] + IF p \in DOMAIN f /\ f[p] = i THEN 1 ELSE 0]]
           g == IssuedGoods(h, f)
<1>1. \A i \in Item : A(i) \subseteq Person /\ Cardinality(A(i)) \in Nat /\ Given(f, i) = Cardinality(A(i))
  <2> SUFFICES ASSUME NEW i \in Item
               PROVE  A(i) \subseteq Person /\ Cardinality(A(i)) \in Nat /\ Given(f, i) = Cardinality(A(i))
    OBVIOUS
  <2>1. A(i) \subseteq Person /\ {p \in DOMAIN f : f[p] = i} = A(i)
    OBVIOUS
  <2>2. IsFiniteSet(A(i))
    BY <2>1, Sizes, FS_Subset
  <2>3. Given(f, i) = Cardinality(A(i))
    BY <2>1 DEF Given
  <2> QED  BY <2>1, <2>2, <2>3, FS_CardinalityType
<1>2. d \in Lots /\ s \in [House -> Lots] /\ RowMoves(goods.stock, s, h, d)
  <2>1. \A i \in Item : goods.stock[h][i] \in Int
    BY <1>0 DEF Lots
  <2>2. d \in Lots /\ s \in [House -> Lots]
    <3>1. ASSUME NEW i \in Item PROVE Given(f, i) \in Int /\ 0 - Cardinality(A(i)) \in Int
      <4>1. Cardinality(A(i)) \in Nat /\ Given(f, i) = Cardinality(A(i))
        BY <1>1
      <4> HIDE DEF A
      <4> QED  BY <4>1
    <3> HIDE DEF A
    <3>2. d \in Lots
      BY <3>1 DEF Lots
    <3>3. [i \in Item |-> goods.stock[h][i] - Given(f, i)] \in Lots
      BY <2>1, <3>1 DEF Lots
    <3> QED  BY <1>0, <3>2, <3>3
  <2>3. /\ \A i \in Item : s[h][i] = goods.stock[h][i] - Cardinality(A(i))
        /\ \A y \in House : y # h => s[y] = goods.stock[y]
        /\ \A i \in Item : d[i] = 0 - Cardinality(A(i))
        /\ DOMAIN goods.stock = House
    BY <1>0, <1>1
  <2> HIDE DEF d, s, A
  <2>4. \A i \in Item : s[h][i] = goods.stock[h][i] + d[i]
    BY <1>1, <2>1, <2>3
  <2> QED  BY <2>2, <2>3, <2>4 DEF RowMoves
<1>3. /\ H \in [Person -> Lots]
      /\ \A i \in Item : \A p \in Person : H[p][i] = goods.held[p][i] + IF p \in A(i) THEN 1 ELSE 0
  <2>1. \A p \in Person : \A i \in Item : goods.held[p][i] \in Int
    BY <1>0 DEF Lots
  <2>2. H \in [Person -> Lots]
    BY <2>1 DEF Lots
  <2>3. \A i \in Item : \A p \in Person : (p \in DOMAIN f /\ f[p] = i) <=> p \in A(i)
    OBVIOUS
  <2> QED  BY <2>2, <2>3
<1>4. g = [goods EXCEPT !.stock = s, !.held = H]
  BY <1>0 DEF IssuedGoods
<1>8. \A i \in Item : d[i] = 0 - Cardinality(A(i))
  OBVIOUS
<1> HIDE DEF A, d, s, H, g
<1>5. /\ g \in [stock : [House -> Lots], held : [Person -> Lots]] /\ g.stock = s /\ g.held = H
  BY <1>0, <1>2, <1>3, <1>4
<1>6. ASSUME NEW i \in Item
      PROVE  InColumn(House, s, i) + InColumn(Person, H, i)
               = InColumn(House, goods.stock, i) + InColumn(Person, goods.held, i)
  <2>1. InColumn(House, s, i) = InColumn(House, goods.stock, i) + d[i]
    BY <1>0, <1>2, RowsOfHouses
  <2>2. InColumn(Person, H, i) = InColumn(Person, goods.held, i) + Cardinality(A(i))
    BY <1>0, <1>1, <1>3, PeopleCounted
  <2>3. InColumn(House, goods.stock, i) \in Int /\ InColumn(Person, goods.held, i) \in Int
    BY <1>0, Columns
  <2> QED  BY <1>1, <1>8, <2>1, <2>2, <2>3
<1> QED  BY <1>5, <1>6 DEF g

\* The issue of a field party, and its contact, make and lose nothing.
LEMMA FieldIssueKeeps ==
  ASSUME Holdings, caravan \in [House -> Caravans \cup {NoCaravan}],
         NEW h \in House, NEW party \in SUBSET Person,
         FieldIssue(h, party) \/ FieldContact(h, party), UNCHANGED estates
  PROVE  Holdings' /\ Kept
<1>1. PICK f \in Issues(h, party) :
        /\ goods' = IssuedGoods(h, f)
        /\ \/ UNCHANGED field
           \/ field' = [field EXCEPT ![h] = [p \in DOMAIN f |->
                [item |-> f[p], base |-> goods.held[p][f[p]], claimed |-> ClaimQty(title, p, f[p])]]]
  BY DEF FieldIssue, FieldContact
<1>2. UNCHANGED <<silver, shelf, purse, outside, caravan>>
  BY DEF FieldIssue, FieldContact, estates
<1>3. PICK S \in SUBSET party : f \in [S -> Weapon]
  BY DEF Issues
<1>4. S \in SUBSET Person /\ Weapon \subseteq Item
  BY Sizes
<1>5. /\ goods' \in [stock : [House -> Lots], held : [Person -> Lots]]
      /\ \A i \in Item : InColumn(House, goods'.stock, i) + InColumn(Person, goods'.held, i)
                           = InColumn(House, goods.stock, i) + InColumn(Person, goods.held, i)
  BY <1>1, <1>3, <1>4, IssuedGoodsKeep
<1>6. /\ DOMAIN field' = House
      /\ \A k \in House : /\ DOMAIN field'[k] \subseteq Person
                          /\ \A p \in DOMAIN field'[k] : /\ field'[k][p].item \in Item
                                                         /\ field'[k][p].base \in Int
  <2>1. CASE UNCHANGED field
    BY <2>1 DEF Holdings
  <2>2. CASE ~UNCHANGED field
    <3> DEFINE new == [p \in DOMAIN f |->
                [item |-> f[p], base |-> goods.held[p][f[p]], claimed |-> ClaimQty(title, p, f[p])]]
    <3>1. /\ DOMAIN new \subseteq Person
          /\ \A p \in DOMAIN new : new[p].item \in Item /\ new[p].base \in Int
      BY <1>3, <1>4 DEF Holdings, Lots
    <3>2. field' = [field EXCEPT ![h] = new]
      BY <1>1, <2>2
    <3> HIDE DEF new
    <3> QED  BY <3>1, <3>2 DEF Holdings
  <2> QED  BY <2>1, <2>2
<1>7. Holdings'
  BY <1>2, <1>5, <1>6 DEF Holdings
<1>8. ASSUME NEW i \in Item PROVE Pieces(i)' = Pieces(i)
  <2>1. /\ InColumn(House, goods'.stock, i) \in Int /\ InColumn(Person, goods'.held, i) \in Int
    BY <1>5, Columns
  <2> QED  BY <1>2, <1>5, <2>1, PiecesAre, ColumnsNow
<1> QED  BY <1>2, <1>7, <1>8 DEF Kept

\* What comes back from the field leaves the hands it was in.
LEMMA FieldReturnKeeps ==
  ASSUME Holdings, caravan \in [House -> Caravans \cup {NoCaravan}],
         NEW h \in House, FieldReturn(h), UNCHANGED estates
  PROVE  Holdings' /\ Kept
<1>0. /\ goods.stock \in [House -> Lots] /\ goods.held \in [Person -> Lots]
      /\ goods \in [stock : [House -> Lots], held : [Person -> Lots]] /\ outside \in Lots
      /\ DOMAIN field[h] \subseteq Person
      /\ \A p \in DOMAIN field[h] : field[h][p].item \in Item /\ field[h][p].base \in Int
      /\ UNCHANGED <<silver, shelf, purse, outside, caravan>>
  BY DEF Holdings, FieldReturn, estates
<1> DEFINE B(i) == Returning(h, i)
           d == [i \in Item |-> Cardinality(B(i))]
           s == [goods.stock EXCEPT ![h] = [i \in Item |-> goods.stock[h][i] + Cardinality(B(i))]]
           H == HeldAfterReturn(h)
<1>1. ASSUME NEW i \in Item PROVE B(i) \subseteq Person /\ Cardinality(B(i)) \in Nat
  <2>1. B(i) \subseteq Person
    BY <1>0 DEF Returning
  <2> QED  BY <2>1, Sizes, FS_Subset, FS_CardinalityType
<1>2. ASSUME NEW p \in DOMAIN field[h] PROVE StillHeld(h, p) \in {0, 1}
  <2>1. goods.held[p][field[h][p].item] \in Int /\ field[h][p].base \in Int
    BY <1>0 DEF Lots
  <2> QED  BY <2>1 DEF StillHeld, Least, AtLeast0
<1>3. goods' = [goods EXCEPT !.stock = s, !.held = H]
  BY <1>0 DEF FieldReturn
<1>4. d \in Lots /\ s \in [House -> Lots] /\ RowMoves(goods.stock, s, h, d)
  <2>1. \A i \in Item : goods.stock[h][i] \in Int /\ Cardinality(B(i)) \in Int
    BY <1>0, <1>1 DEF Lots
  <2> HIDE DEF B
  <2>2. d \in Lots /\ [i \in Item |-> goods.stock[h][i] + Cardinality(B(i))] \in Lots
    BY <2>1 DEF Lots
  <2>3. s \in [House -> Lots]
    BY <1>0, <2>2
  <2> QED  BY <1>0, <2>1, <2>2, <2>3 DEF RowMoves
<1>5. /\ H \in [Person -> Lots]
      /\ \A i \in Item : \A p \in Person : goods.held[p][i] = H[p][i] + IF p \in B(i) THEN 1 ELSE 0
  <2>1. ASSUME NEW p \in Person
        PROVE  H[p] \in Lots /\ \A i \in Item : goods.held[p][i] = H[p][i] + IF p \in B(i) THEN 1 ELSE 0
    <3>1. goods.held[p] \in Lots
      BY <1>0
    <3>2. CASE p \notin DOMAIN field[h]
      BY <3>1, <3>2 DEF Lots, Returning, HeldAfterReturn
    <3>3. CASE p \in DOMAIN field[h]
      <4>1. PICK n \in {0, 1} : n = StillHeld(h, p)
        BY <1>2, <3>3
      <4>2. PICK x \in Item : x = field[h][p].item
        BY <1>0, <3>3
      <4>3. H[p] = [goods.held[p] EXCEPT ![x] = goods.held[p][x] - n]
        BY <3>3, <4>1, <4>2 DEF HeldAfterReturn
      <4>4. \A i \in Item : p \in B(i) <=> (x = i /\ n = 1)
        BY <3>3, <4>1, <4>2 DEF Returning
      <4> HIDE DEF H, B
      <4> QED  BY <3>1, <4>3, <4>4 DEF Lots
    <3> QED  BY <3>2, <3>3
  <2>2. H = [p \in Person |-> H[p]]
    BY DEF HeldAfterReturn
  <2> HIDE DEF H, B
  <2> QED  BY <2>1, <2>2
<1>6. \A i \in Item : d[i] = Cardinality(B(i))
  OBVIOUS
<1> HIDE DEF B, d, s, H
<1>7. /\ goods' \in [stock : [House -> Lots], held : [Person -> Lots]]
      /\ goods'.stock = s /\ goods'.held = H
  BY <1>0, <1>3, <1>4, <1>5
<1>8. Holdings'
  <2>1. /\ DOMAIN field' = House
        /\ \A k \in House : field'[k] \in {field[k], NoIssue}
    BY DEF Holdings, FieldReturn
  <2>2. DOMAIN NoIssue = {}
    BY DEF NoIssue
  <2>3. \A k \in House : /\ DOMAIN field'[k] \subseteq Person
                         /\ \A p \in DOMAIN field'[k] : /\ field'[k][p].item \in Item
                                                        /\ field'[k][p].base \in Int
    BY <2>1, <2>2 DEF Holdings
  <2> QED  BY <1>0, <1>7, <2>1, <2>3 DEF Holdings
<1>9. ASSUME NEW i \in Item PROVE Pieces(i)' = Pieces(i)
  <2>1. InColumn(House, s, i) = InColumn(House, goods.stock, i) + d[i]
    BY <1>0, <1>4, RowsOfHouses
  <2>2. InColumn(Person, goods.held, i) = InColumn(Person, H, i) + Cardinality(B(i))
    BY <1>0, <1>1, <1>5, PeopleCounted
  <2>3. InColumn(Person, H, i) \in Int /\ Cardinality(B(i)) \in Int
    BY <1>1, <1>5, Columns
  <2>4. InColumn(House, s, i) + InColumn(Person, H, i)
          = InColumn(House, goods.stock, i) + InColumn(Person, goods.held, i)
    BY <1>6, <2>1, <2>2, <2>3, ColumnsNow
  <2>5. InColumn(House, s, i) \in Int
    BY <1>4, Columns
  <2> QED  BY <1>0, <1>7, <2>3, <2>4, <2>5, PiecesAre, ColumnsNow
<1> QED  BY <1>0, <1>8, <1>9 DEF Kept

\* A step that leaves coins and pieces where they are.
LEMMA NothingMoves ==
  ASSUME Holdings, UNCHANGED <<goods, silver, shelf, purse, outside, caravan>>,
         \/ UNCHANGED field
         \/ /\ DOMAIN field' = House
            /\ \A h \in House : /\ DOMAIN field'[h] \subseteq DOMAIN field[h]
                                /\ \A p \in DOMAIN field'[h] : field'[h][p] = field[h][p]
  PROVE  Holdings' /\ Kept
<1>1. Holdings'
  BY DEF Holdings
<1>2. Kept
  BY PiecesAre DEF Kept, CoinsIn
<1> QED  BY <1>1, <1>2

\* Separating from the field party makes and loses nothing.
LEMMA SeparateKeeps ==
  ASSUME Holdings, NEW h \in House, NEW p \in Person, FieldSeparate(h, p), UNCHANGED estates
  PROVE  Holdings' /\ Kept
<1>1. UNCHANGED <<goods, silver, shelf, purse, outside, caravan>>
  BY DEF FieldSeparate, estates
<1> DEFINE left == Restrict(field[h], DOMAIN field[h] \ {p})
<1>2. field' = [field EXCEPT ![h] = left]
  BY DEF FieldSeparate
<1>3. DOMAIN left \subseteq DOMAIN field[h] /\ \A q \in DOMAIN left : left[q] = field[h][q]
  BY DEF Restrict
<1> HIDE DEF left
<1>4. /\ DOMAIN field' = House
      /\ \A k \in House : /\ DOMAIN field'[k] \subseteq DOMAIN field[k]
                          /\ \A q \in DOMAIN field'[k] : field'[k][q] = field[k][q]
  BY <1>2, <1>3 DEF Holdings
<1> QED  BY <1>1, <1>4, NothingMoves

\* A piece a person spends is counted as gone.
LEMMA SpendItemKeeps ==
  ASSUME Holdings, caravan \in [House -> Caravans \cup {NoCaravan}],
         NEW p \in Person, NEW i \in Item, SpendItem(p, i), UNCHANGED estates
  PROVE  Holdings' /\ Kept
<1>0. /\ goods.stock \in [House -> Lots] /\ goods.held \in [Person -> Lots]
      /\ goods \in [stock : [House -> Lots], held : [Person -> Lots]] /\ outside \in Lots
      /\ UNCHANGED <<silver, shelf, purse, field, caravan>>
  BY DEF Holdings, SpendItem, estates
<1> DEFINE H == [goods.held EXCEPT ![p] = [goods.held[p] EXCEPT ![i] = goods.held[p][i] - 1]]
           d == Some(i, 0 - 1)
<1>1. /\ H \in [Person -> Lots] /\ RowMoves(goods.held, H, p, d) /\ d \in Lots
      /\ outside' \in Lots /\ \A j \in Item : outside'[j] = outside[j] - d[j]
  BY <1>0 DEF Lots, Some, RowMoves, SpendItem
<1>2. goods' = [goods EXCEPT !.held = H]
  BY <1>0 DEF SpendItem
<1> HIDE DEF H, d
<1>3. /\ goods' \in [stock : [House -> Lots], held : [Person -> Lots]]
      /\ goods'.stock = goods.stock /\ goods'.held = H
  BY <1>0, <1>1, <1>2
<1>4. ASSUME NEW j \in Item
      PROVE  InColumn(House, goods'.stock, j) + InColumn(Person, goods'.held, j) + outside'[j]
               = InColumn(House, goods.stock, j) + InColumn(Person, goods.held, j) + outside[j]
  <2>1. InColumn(Person, H, j) = InColumn(Person, goods.held, j) + d[j]
    BY <1>0, <1>1, RowsOfPeople
  <2>2. d[j] \in Int /\ outside'[j] = outside[j] - d[j]
    BY <1>1 DEF Lots
  <2> QED  BY <1>3, <2>1, <2>2, ColumnsNow
<1> QED  BY <1>0, <1>1, <1>3, <1>4, GoodsKept

\* No step of the belongings makes or loses a piece or a coin.
LEMMA BelongingsKeep ==
  ASSUME Holdings, EstatesShape, BelongingsNext, UNCHANGED estates PROVE Holdings' /\ Kept
<1>0. caravan \in [House -> Caravans \cup {NoCaravan}] /\ UNCHANGED <<silver, shelf, caravan>>
  BY DEF EstatesShape, estates
<1>1. ASSUME NEW p \in Players, NEW q \in Person, PayCash(p, q) \/ PayCash(q, p)
      PROVE  Holdings' /\ Kept
  BY <1>1, Sizes, PayCashKeeps
<1>2. ASSUME NEW p \in Players, NEW q \in Person, NEW i \in Item,
             GiveItem(p, q, i) \/ ReturnItem(p, q, i) \/ \E seen \in BOOLEAN : SeizeItem(p, q, i, seen)
      PROVE  Holdings' /\ Kept
  BY <1>0, <1>2, HandToHand
<1>3. ASSUME NEW p \in Players, NEW q \in Person, NEW i \in Item,
             ArmoryIssue(p, q, i) \/ ArmoryReturn(p, q, i)
      PROVE  Holdings' /\ Kept
  <2>1. member[q] \in House /\ UNCHANGED <<purse, field, outside>>
    BY <1>3 DEF ArmoryIssue, ArmoryReturn, EstatesShape
  <2>2. goods.stock[member[q]][i] \in Int /\ goods.held[q][i] \in Int
    BY <2>1 DEF Holdings, Lots
  <2>3. \E qty \in Int : Exchanged(member[q], q, i, qty)
    <3>1. CASE ArmoryIssue(p, q, i)
      <4>1. \E qty \in 1 .. goods.stock[member[q]][i] : Exchanged(member[q], q, i, qty)
        BY <3>1 DEF ArmoryIssue, Exchanged
      <4> QED  BY <2>2, <4>1
    <3>2. CASE ArmoryReturn(p, q, i)
      <4>1. \E qty \in 1 .. goods.held[q][i] : Exchanged(member[q], q, i, qty)
        BY <3>2 DEF ArmoryReturn, Exchanged
      <4> QED  BY <2>2, <4>1
    <3> QED  BY <1>3, <3>1, <3>2
  <2> QED  BY <1>0, <2>1, <2>3, ArmoryKeeps
<1>4. ASSUME NEW h \in Armories, NEW party \in SUBSET {p \in Person : member[p] = h},
             FieldIssue(h, party) \/ FieldContact(h, party)
      PROVE  Holdings' /\ Kept
  <2>1. h \in House /\ party \in SUBSET Person
    BY DEF Armories
  <2> QED  BY <1>0, <1>4, <2>1, FieldIssueKeeps
<1>5. ASSUME NEW h \in House, FieldReturn(h) PROVE Holdings' /\ Kept
  BY <1>0, <1>5, FieldReturnKeeps
<1>6. ASSUME NEW h \in House, NEW p \in Person, FieldSeparate(h, p) PROVE Holdings' /\ Kept
  BY <1>6, SeparateKeeps
<1>7. ASSUME NEW p \in Person, NEW i \in Weapon, SpendItem(p, i) PROVE Holdings' /\ Kept
  BY <1>0, <1>7, Sizes, SpendItemKeeps
<1>8. ASSUME NEW p \in Restless, LeaveHouse(p) PROVE Holdings' /\ Kept
  <2>1. UNCHANGED <<goods, purse, outside, field>>
    BY <1>8 DEF LeaveHouse
  <2> QED  BY <1>0, <2>1, NothingMoves
<1> QED  BY <1>1, <1>2, <1>3, <1>4, <1>5, <1>6, <1>7, <1>8 DEF BelongingsNext

-----------------------------------------------------------------------------
(* What stores, treasuries, markets and caravans exchange.                     *)
LEMMA LoadsMove ==
  ASSUME NEW C \in [House -> Caravans \cup {NoCaravan}],
         NEW D \in [House -> Caravans \cup {NoCaravan}], NEW h \in House,
         \A g \in House : g # h => D[g] = C[g]
  PROVE  \A i \in Item : /\ Load(C[h])[i] \in Int /\ Load(D[h])[i] \in Int
                         /\ InColumn(House, Loads(D), i)
                              = InColumn(House, Loads(C), i) + (Load(D[h])[i] - Load(C[h])[i])
<1> DEFINE d == [i \in Item |-> Load(D[h])[i] - Load(C[h])[i]]
<1>1. Loads(C) \in [House -> Lots] /\ Loads(D) \in [House -> Lots]
  BY LoadsAreLots
<1>2. /\ \A g \in House : Loads(C)[g] = Load(C[g]) /\ Loads(D)[g] = Load(D[g])
      /\ DOMAIN Loads(C) = House
  BY DEF Loads
<1>3. \A i \in Item : Load(C[h])[i] \in Int /\ Load(D[h])[i] \in Int
  BY <1>1, <1>2 DEF Lots
<1>4. d \in Lots
  BY <1>3 DEF Lots
<1>5. RowMoves(Loads(C), Loads(D), h, d)
  BY <1>2, <1>3 DEF RowMoves
<1>6. \A i \in Item : d[i] = Load(D[h])[i] - Load(C[h])[i]
  OBVIOUS
<1> HIDE DEF d
<1>7. \A i \in Item : InColumn(House, Loads(D), i) = InColumn(House, Loads(C), i) + d[i]
  BY <1>1, <1>4, <1>5, RowsOfHouses
<1> QED  BY <1>3, <1>6, <1>7

\* What a caravan carries of each item: its cargo, and the food of the way.
LEMMA LoadIs ==
  /\ \A i \in Item : Load(NoCaravan)[i] = 0
  /\ \A c \in Caravans, i \in Item :
       Load(c)[i] = (IF c.item = i THEN c.qty ELSE 0) + IF i = Food THEN c.food ELSE 0
<1>1. ASSUME NEW c \in Caravans PROVE c # NoCaravan
  <2>1. "leg" \in DOMAIN c /\ "leg" \notin DOMAIN NoCaravan
    BY DEF Caravans, NoCaravan
  <2> QED  BY <2>1
<1> QED  BY <1>1 DEF Load

\* Silver between a coffer and a market is all still there.
LEMMA CoinsExchange ==
  ASSUME NEW S \in Money, NEW T, NEW h \in House, NEW r \in Region, NEW q \in Int,
         T = [S EXCEPT !.coffer = [S.coffer EXCEPT ![h] = S.coffer[h] + q],
                       !.market = [S.market EXCEPT ![r] = S.market[r] - q]]
  PROVE  T \in Money /\ Coins(T) = Coins(S)
<1> DEFINE c == [S.coffer EXCEPT ![h] = S.coffer[h] + q]
           m == [S.market EXCEPT ![r] = S.market[r] - q]
<1>1. S.coffer \in [House -> Int] /\ S.market \in [Region -> Int] /\ 0 - q \in Int
  BY DEF Money
<1>2. /\ c \in [House -> Int] /\ Moves(S.coffer, c, h, q)
      /\ m \in [Region -> Int] /\ Moves(S.market, m, r, 0 - q)
  BY <1>1 DEF Moves
<1> HIDE DEF c, m
<1>3. T \in Money /\ T.coffer = c /\ T.market = m
  BY <1>2 DEF Money, c, m
<1>4. /\ SumFunction(c) = SumFunction(S.coffer) + q
      /\ SumFunction(m) = SumFunction(S.market) + (0 - q)
      /\ SumFunction(S.coffer) \in Int /\ SumFunction(S.market) \in Int
  BY <1>1, <1>2, SumsOfCoins
<1> QED  BY <1>3, <1>4 DEF Coins

\* A step that leaves people alone and keeps the columns of the rest together.
LEMMA StoresKeep ==
  ASSUME Holdings, caravan \in [House -> Caravans \cup {NoCaravan}],
         caravan' \in [House -> Caravans \cup {NoCaravan}],
         NEW s \in [House -> Lots], goods' = [goods EXCEPT !.stock = s],
         silver' \in Money, Coins(silver') = Coins(silver),
         shelf' \in [Region -> Lots], outside' \in Lots, UNCHANGED <<purse, field>>,
         \A i \in Item : InColumn(House, s, i) + InColumn(Region, shelf', i)
                            + InColumn(House, Loads(caravan'), i) + outside'[i]
                       = InColumn(House, goods.stock, i) + InColumn(Region, shelf, i)
                            + InColumn(House, Loads(caravan), i) + outside[i]
  PROVE  Holdings' /\ Kept
<1>1. /\ goods' \in [stock : [House -> Lots], held : [Person -> Lots]]
      /\ goods'.stock = s /\ goods'.held = goods.held
  BY DEF Holdings
<1>2. Holdings'
  BY <1>1 DEF Holdings
<1>3. CoinsIn(silver', purse') = CoinsIn(silver, purse)
  BY DEF Coins, CoinsIn
<1>4. ASSUME NEW i \in Item PROVE Pieces(i)' = Pieces(i)
  <2>1. /\ InColumn(House, s, i) \in Int /\ InColumn(Region, shelf', i) \in Int
        /\ InColumn(House, Loads(caravan'), i) \in Int /\ outside'[i] \in Int
    <3>1. Loads(caravan') \in [House -> Lots]
      BY LoadsAreLots
    <3> QED  BY <3>1, Columns DEF Lots
  <2> QED  BY <1>1, <2>1, PiecesAre, ColumnsNow
<1> QED  BY <1>2, <1>3, <1>4 DEF Kept

\* What a review or a command saves.
LEMMA SavedKeeps ==
  ASSUME Holdings, caravan \in [House -> Caravans \cup {NoCaravan}],
         caravan' \in [House -> Caravans \cup {NoCaravan}],
         NEW w \in Worlds, Saved(w), Coins(w.silver) = Coins(silver), UNCHANGED <<purse, field>>,
         \A i \in Item : InWorld(w, i) + InColumn(House, Loads(caravan'), i)
                       = InWorld(World, i) + InColumn(House, Loads(caravan), i)
  PROVE  Holdings' /\ Kept
<1>1. /\ w.stock \in [House -> Lots] /\ w.silver \in Money /\ w.shelf \in [Region -> Lots]
      /\ w.outside \in Lots
  BY DEF Worlds
<1>2. /\ goods' = [goods EXCEPT !.stock = w.stock] /\ silver' = w.silver /\ shelf' = w.shelf
      /\ outside' = w.outside
  BY DEF Saved
<1>3. /\ World.stock = goods.stock /\ World.shelf = shelf /\ World.outside = outside
  BY DEF World
<1>4. ASSUME NEW i \in Item
      PROVE  InColumn(House, w.stock, i) + InColumn(Region, shelf', i)
                            + InColumn(House, Loads(caravan'), i) + outside'[i]
                       = InColumn(House, goods.stock, i) + InColumn(Region, shelf, i)
                            + InColumn(House, Loads(caravan), i) + outside[i]
  <2>1. /\ InColumn(House, w.stock, i) \in Int /\ InColumn(Region, w.shelf, i) \in Int
        /\ InColumn(House, Loads(caravan'), i) \in Int /\ w.outside[i] \in Int
    <3>1. Loads(caravan') \in [House -> Lots]
      BY LoadsAreLots
    <3> QED  BY <1>1, <3>1, Columns DEF Lots
  <2> QED  BY <1>2, <1>3, <2>1, ColumnsNow DEF InWorld
<1> QED  BY <1>1, <1>2, <1>4, StoresKeep

\* The estates' part of the state is a world, with its silver.
LEMMA WorldIsWorld ==
  ASSUME Holdings PROVE World \in Worlds /\ World.silver = silver
BY DEF Holdings, World, Worlds

\* An even change of the world, once saved, makes and loses nothing.
LEMMA EvenKeeps ==
  ASSUME Holdings, EstatesShape, NEW w, Even(w, World), Saved(w), UNCHANGED <<purse, field, caravan>>
  PROVE  Holdings' /\ Kept
BY WorldIsWorld, SavedKeeps DEF Even, EstatesShape

\* A house's trade with its market makes and loses nothing.
LEMMA TradeKeeps ==
  ASSUME Holdings, EstatesShape, NEW p \in Players, NEW i \in Item, HouseTrade(p, i)
  PROVE  Holdings' /\ Kept
<1>1. UNCHANGED <<purse, field, caravan>> /\ p \in Person /\ member[p] # Nobody
  BY Sizes DEF HouseTrade
<1>2. member[p] \in House
  BY <1>1 DEF EstatesShape
<1>3. \/ Saved(Bought(World, member[p], i)) \/ Saved(Sold(World, member[p], i))
  BY DEF HouseTrade
<1>4. /\ Even(Bought(World, member[p], i), World) /\ Even(Sold(World, member[p], i), World)
  BY <1>2, WorldIsWorld, TradedEven
<1> QED  BY <1>1, <1>3, <1>4, EvenKeeps

\* Making a weapon makes no coin, and counts the piece.
LEMMA ProduceKeeps ==
  ASSUME Holdings, EstatesShape, NEW p \in Players, NEW i \in Weapon, Produce(p, i)
  PROVE  Holdings' /\ Kept
<1>1. UNCHANGED <<purse, field, caravan>> /\ p \in Person /\ member[p] # Nobody
  BY Sizes DEF Produce
<1>2. member[p] \in House /\ i \in Item /\ Timber \in Item
  BY <1>1, Sizes DEF EstatesShape
<1>3. Saved(Made(Used(World, member[p], Timber, 1), member[p], i, 1))
  BY DEF Produce
<1>4. Even(World, World)
  BY WorldIsWorld DEF Even
<1>5. Even(Used(World, member[p], Timber, 1), World)
  BY <1>2, <1>4, MadeStays
<1>6. Even(Made(Used(World, member[p], Timber, 1), member[p], i, 1), World)
  BY <1>2, <1>5, MadeStays
<1> QED  BY <1>1, <1>3, <1>6, EvenKeeps

\* The caravan a review sends out.
LEMMA JourneyIs ==
  ASSUME EstatesShape, NEW h \in House, NEW d \in Region
  PROVE  /\ Journey(h, d) \in Caravans
         /\ \A i \in Item : Load(Journey(h, d))[i] = (IF i = Timber THEN 1 ELSE 0)
                                                     + (IF i = Food THEN 1 ELSE 0)
<1>1. Merchants(h) \subseteq Person
  BY DEF Merchants, FirstOf, Members
<1>2. Journey(h, d) \in Caravans
  BY <1>1, Sizes DEF Journey, Caravans
<1>3. /\ Journey(h, d).item = Timber /\ Journey(h, d).qty = 1 /\ Journey(h, d).food = 1
  BY DEF Journey
<1> QED  BY <1>2, <1>3, LoadIs

\* A house's monthly review makes and loses nothing.
LEMMA ReviewKeeps ==
  ASSUME Holdings, EstatesShape, NEW h \in House, Review(h) PROVE Holdings' /\ Kept
<1> DEFINE C == [House -> Caravans \cup {NoCaravan}]
<1>1. /\ UNCHANGED <<purse, field>> /\ caravan \in C
      /\ World \in Worlds /\ World.silver = silver
  BY WorldIsWorld DEF Review, EstatesShape
<1>2. PICK w \in Produced(SurplusSold(SecuredFood({World}, h), h), h) :
        \/ /\ MayTrade(w, h)
           /\ \E d \in Spreads(w, h) :
                /\ Saved(AfterTrade(w, h, d))
                /\ caravan' = [caravan EXCEPT ![h] = Journey(h, d)]
        \/ Saved(w) /\ UNCHANGED caravan
  BY DEF Review
<1>3. Even(w, World) /\ w \in Worlds
  BY <1>1, <1>2, ReviewIsEven DEF AllEven, Even
<1>4. CASE Saved(w) /\ UNCHANGED caravan
  BY <1>1, <1>3, <1>4, EvenKeeps
<1>5. CASE /\ MayTrade(w, h)
           /\ \E d \in Spreads(w, h) :
                /\ Saved(AfterTrade(w, h, d))
                /\ caravan' = [caravan EXCEPT ![h] = Journey(h, d)]
  <2>1. PICK d \in Region : /\ Saved(Dispatched(w, h, d))
                           /\ caravan' = [caravan EXCEPT ![h] = Journey(h, d)]
    BY <1>5 DEF Spreads, AfterTrade
  <2>2. caravan[h] = NoCaravan
    BY <1>5 DEF MayTrade
  <2> DEFINE v == Dispatched(w, h, d)
  <2>3. /\ v \in Worlds /\ Coins(v.silver) = Coins(w.silver)
        /\ \A i \in Item : InWorld(v, i) = InWorld(w, i) - (IF i = Timber THEN 1 ELSE 0)
                                                         - (IF i = Food THEN 1 ELSE 0)
    BY <1>3, DispatchedTakes
  <2>4. Coins(v.silver) = Coins(silver) /\ \A i \in Item : InWorld(w, i) = InWorld(World, i)
    BY <1>1, <1>3, <2>3 DEF Even
  <2>5. Journey(h, d) \in Caravans
    BY JourneyIs
  <2>6. caravan' \in C /\ caravan'[h] = Journey(h, d) /\ \A g \in House : g # h => caravan'[g] = caravan[g]
    BY <1>1, <2>1, <2>5
  <2>7. Saved(v)
    BY <2>1
  <2> HIDE DEF v
  <2>8. ASSUME NEW i \in Item
        PROVE  InWorld(v, i) + InColumn(House, Loads(caravan'), i)
                 = InWorld(World, i) + InColumn(House, Loads(caravan), i)
    <3>1. InColumn(House, Loads(caravan'), i)
            = InColumn(House, Loads(caravan), i) + (Load(Journey(h, d))[i] - Load(NoCaravan)[i])
      BY <1>1, <2>2, <2>6, LoadsMove
    <3>2. Load(Journey(h, d))[i] = (IF i = Timber THEN 1 ELSE 0) + (IF i = Food THEN 1 ELSE 0)
      BY JourneyIs
    <3>3. Load(NoCaravan)[i] = 0
      BY LoadIs
    <3>4. InWorld(World, i) \in Int /\ InColumn(House, Loads(caravan), i) \in Int
      BY <1>1, ColumnsNow DEF World, InWorld
    <3> QED  BY <2>3, <2>4, <3>1, <3>2, <3>3, <3>4
  <2> QED  BY <1>1, <2>3, <2>4, <2>6, <2>7, <2>8, SavedKeeps
<1> QED  BY <1>2, <1>4, <1>5

\* Aid from house to house.
LEMMA AidKeeps ==
  ASSUME Holdings, NEW h \in House, NEW g \in House, Aid(h, g) PROVE Holdings' /\ Kept
<1>1. UNCHANGED <<goods, shelf, purse, outside, caravan, field>>
  BY DEF Aid, belongings
<1>2. CASE UNCHANGED silver
  BY <1>1, <1>2, NothingMoves
<1>3. CASE ~UNCHANGED silver
  <2>1. /\ silver \in Money /\ silver.coffer \in [House -> Int] /\ silver.market \in [Region -> Int]
        /\ AidNeed[g] - silver.coffer[g] \in Int
    BY EconomyAssumption DEF Holdings, Money
  <2>2. PICK n \in 1 .. AidNeed[g] - silver.coffer[g] :
          silver' = [silver EXCEPT !.coffer[h] = @ - n, !.coffer[g] = @ + n]
    BY <1>3 DEF Aid
  <2>3. n \in Int /\ g # h
    <3>1. MayAid(h, g)
      BY <1>3 DEF Aid
    <3>2. g # h
      BY <3>1 DEF MayAid
    <3>3. n \in Int
      BY <2>1, <2>2
    <3> QED  BY <3>2, <3>3
  <2> DEFINE c == [silver.coffer EXCEPT ![h] = silver.coffer[h] - n, ![g] = silver.coffer[g] + n]
  <2>4. silver' = [silver EXCEPT !.coffer = c]
    BY <2>1, <2>2, <2>3
  <2>5. /\ c \in [House -> Int] /\ c[h] = silver.coffer[h] - n /\ c[g] = silver.coffer[g] + n
        /\ \A y \in House : y # h /\ y # g => c[y] = silver.coffer[y]
    BY <2>1, <2>3
  <2> HIDE DEF c
  <2>6. silver' \in Money /\ silver'.coffer = c /\ silver'.market = silver.market
    BY <2>1, <2>4, <2>5 DEF Money
  <2>7. SumFunction(c) = SumFunction(silver.coffer)
    BY <2>1, <2>3, <2>5, CoinsPass
  <2>8. CoinsIn(silver', purse') = CoinsIn(silver, purse)
    BY <1>1, <2>6, <2>7 DEF CoinsIn
  <2>9. Holdings'
    BY <1>1, <2>6 DEF Holdings
  <2> QED  BY <1>1, <2>8, <2>9, PiecesAre DEF Kept
<1> QED  BY <1>2, <1>3

\* One store changes by d, one market by e, the road by a load and the outside by the rest.
PartsMove(h, s, d, r, e) ==
  /\ caravan' \in [House -> Caravans \cup {NoCaravan}]
  /\ \A g \in House : g # h => caravan'[g] = caravan[g]
  /\ s \in [House -> Lots] /\ goods' = [goods EXCEPT !.stock = s]
  /\ d \in Lots /\ RowMoves(goods.stock, s, h, d)
  /\ e \in Lots /\ shelf' \in [Region -> Lots] /\ RowMoves(shelf, shelf', r, e)
  /\ silver' \in Money /\ Coins(silver') = Coins(silver) /\ outside' \in Lots
  /\ UNCHANGED <<purse, field>>
  /\ \A i \in Item : d[i] + e[i] + (Load(caravan'[h])[i] - Load(caravan[h])[i])
                       + outside'[i] = outside[i]

\* What a caravan's call moves between house, region and load is all still there.
LEMMA PartsKeep ==
  ASSUME Holdings, caravan \in [House -> Caravans \cup {NoCaravan}],
         NEW h \in House, NEW r \in Region, NEW s, NEW d, NEW e, PartsMove(h, s, d, r, e)
  PROVE  Holdings' /\ Kept
<1>0. /\ caravan' \in [House -> Caravans \cup {NoCaravan}]
      /\ \A g \in House : g # h => caravan'[g] = caravan[g]
      /\ s \in [House -> Lots] /\ goods' = [goods EXCEPT !.stock = s]
      /\ d \in Lots /\ RowMoves(goods.stock, s, h, d)
      /\ e \in Lots /\ shelf' \in [Region -> Lots] /\ RowMoves(shelf, shelf', r, e)
      /\ silver' \in Money /\ Coins(silver') = Coins(silver) /\ outside' \in Lots
      /\ UNCHANGED <<purse, field>>
      /\ \A i \in Item : d[i] + e[i] + (Load(caravan'[h])[i] - Load(caravan[h])[i])
                           + outside'[i] = outside[i]
  BY DEF PartsMove
<1>1. goods.stock \in [House -> Lots] /\ shelf \in [Region -> Lots]
  BY DEF Holdings
<1>2. ASSUME NEW i \in Item
      PROVE  InColumn(House, s, i) + InColumn(Region, shelf', i)
                            + InColumn(House, Loads(caravan'), i) + outside'[i]
                       = InColumn(House, goods.stock, i) + InColumn(Region, shelf, i)
                            + InColumn(House, Loads(caravan), i) + outside[i]
  <2>1. InColumn(House, s, i) = InColumn(House, goods.stock, i) + d[i]
    BY <1>0, <1>1, RowsOfHouses
  <2>2. InColumn(Region, shelf', i) = InColumn(Region, shelf, i) + e[i]
    BY <1>0, <1>1, RowsOfRegions
  <2>3. /\ Load(caravan[h])[i] \in Int /\ Load(caravan'[h])[i] \in Int
        /\ InColumn(House, Loads(caravan'), i)
             = InColumn(House, Loads(caravan), i) + (Load(caravan'[h])[i] - Load(caravan[h])[i])
    BY <1>0, LoadsMove
  <2>4. d[i] \in Int /\ e[i] \in Int /\ outside'[i] \in Int
    BY <1>0 DEF Lots
  <2> QED  BY <1>0, <2>1, <2>2, <2>3, <2>4, ColumnsNow
<1> QED  BY <1>0, <1>2, StoresKeep

NoRow == [i \in Item |-> 0]

\* A row of nothing changes nothing.
LEMMA NothingInARow ==
  /\ NoRow \in Lots /\ \A i \in Item : NoRow[i] = 0
  /\ \A F \in [House -> Lots], x \in House : RowMoves(F, F, x, NoRow)
  /\ \A F \in [Region -> Lots], x \in Region : RowMoves(F, F, x, NoRow)
<1>1. NoRow \in Lots /\ \A i \in Item : NoRow[i] = 0
  BY DEF NoRow, Lots
<1>2. ASSUME NEW T, NEW F \in [T -> Lots], NEW x \in T PROVE RowMoves(F, F, x, NoRow)
  BY <1>1 DEF RowMoves, Lots
<1> QED  BY <1>1, <1>2

\* Silver that is spent is counted as spent.
LEMMA SpentIsKept ==
  ASSUME NEW S \in Money, NEW h \in House, NEW n \in Int
  PROVE  Spend(S, h, n) \in Money /\ Coins(Spend(S, h, n)) = Coins(S)
<1>1. /\ RegionOf[h] \in Region /\ 0 - n \in Int
      /\ S.coffer[h] \in Int /\ S.market[RegionOf[h]] \in Int
  BY Sizes DEF Money
<1>2. /\ S.coffer[h] - n = S.coffer[h] + (0 - n)
      /\ S.market[RegionOf[h]] + n = S.market[RegionOf[h]] - (0 - n)
  BY <1>1
<1>3. Spend(S, h, n) = [S EXCEPT !.coffer = [S.coffer EXCEPT ![h] = S.coffer[h] + (0 - n)],
                                 !.market = [S.market EXCEPT ![RegionOf[h]] =
                                               S.market[RegionOf[h]] - (0 - n)]]
  BY <1>2 DEF Spend, Money
<1> HIDE <1>2
<1> QED  BY <1>1, <1>3, CoinsExchange, ZenonT(60)

\* Starting a work makes and loses nothing.
LEMMA StartWorkKeeps ==
  ASSUME Holdings, EstatesShape, NEW p \in Players, NEW kind, NEW target,
         StartWork(p, kind, target)
  PROVE  Holdings' /\ Kept
<1> DEFINE h == member[p]
           n == MaterialOf(kind)
           s == [goods.stock EXCEPT ![h] = [goods.stock[h] EXCEPT ![Timber] = goods.stock[h][Timber] + (0 - n)]]
<1>1. /\ UNCHANGED <<purse, field, caravan, shelf>> /\ p \in Person /\ h # Nobody
      /\ silver' = Spend(silver, h, 1)
      /\ goods' = [goods EXCEPT !.stock[h][Timber] = @ - n]
      /\ outside' = [outside EXCEPT ![Timber] = @ + n]
  BY Sizes DEF StartWork, Consume
<1>2. /\ h \in House /\ caravan \in [House -> Caravans \cup {NoCaravan}]
      /\ n \in Int /\ 0 - n \in Int
  BY <1>1 DEF EstatesShape, MaterialOf
<1> HIDE DEF n, h
<1>3. /\ goods.stock \in [House -> Lots] /\ outside \in Lots /\ silver \in Money
      /\ shelf \in [Region -> Lots] /\ goods \in [stock : [House -> Lots], held : [Person -> Lots]]
  BY DEF Holdings
<1>4. /\ s \in [House -> Lots] /\ Some(Timber, 0 - n) \in Lots
      /\ RowMoves(goods.stock, s, h, Some(Timber, 0 - n))
  BY <1>2, <1>3, Sizes DEF Lots, Some, RowMoves
<1>5. goods' = [goods EXCEPT !.stock = s]
  <2>1. goods.stock[h][Timber] - n = goods.stock[h][Timber] + (0 - n)
    BY <1>2, <1>3, Sizes DEF Lots
  <2> QED  BY <1>1, <1>3, <2>1
<1>6. silver' \in Money /\ Coins(silver') = Coins(silver)
  BY <1>1, <1>2, <1>3, SpentIsKept
<1>7. /\ RegionOf[h] \in Region /\ NoRow \in Lots
      /\ shelf' \in [Region -> Lots] /\ RowMoves(shelf, shelf', RegionOf[h], NoRow)
  BY <1>1, <1>2, <1>3, Sizes, NothingInARow
<1>8. /\ outside' \in Lots
      /\ \A i \in Item : Some(Timber, 0 - n)[i] + NoRow[i]
                            + (Load(caravan'[h])[i] - Load(caravan[h])[i]) + outside'[i] = outside[i]
  <2>1. outside' \in Lots
    BY <1>1, <1>2, <1>3, Sizes DEF Lots
  <2>2. ASSUME NEW i \in Item
        PROVE  Some(Timber, 0 - n)[i] + NoRow[i]
                 + (Load(caravan'[h])[i] - Load(caravan[h])[i]) + outside'[i] = outside[i]
    <3>1. Load(caravan[h])[i] \in Int /\ caravan' = caravan
      BY <1>1, <1>2, LoadsMove
    <3>2. outside'[i] = outside[i] - Some(Timber, 0 - n)[i] /\ outside[i] \in Int
      BY <1>1, <1>2, <1>3, Sizes DEF Lots, Some
    <3>3. Some(Timber, 0 - n)[i] \in Int /\ NoRow[i] = 0
      BY <1>4, NothingInARow DEF Lots
    <3> QED  BY <3>1, <3>2, <3>3
  <2> QED  BY <2>1, <2>2
<1> HIDE DEF s
<1>9. caravan' \in [House -> Caravans \cup {NoCaravan}] /\ \A g \in House : g # h => caravan'[g] = caravan[g]
  BY <1>1, <1>2
<1>10. PartsMove(h, s, Some(Timber, 0 - n), RegionOf[h], NoRow)
  BY <1>1, <1>4, <1>5, <1>6, <1>7, <1>8, <1>9 DEF PartsMove
<1> QED  BY <1>2, <1>7, <1>10, PartsKeep

\* An investment of a house makes and loses nothing.
LEMMA InvestKeeps ==
  ASSUME Holdings, EstatesShape, NEW h \in House, Invest(h) PROVE Holdings' /\ Kept
<1>1. UNCHANGED <<purse, field, caravan>> /\ caravan \in [House -> Caravans \cup {NoCaravan}]
  BY DEF Invest, EstatesShape
<1>2. CASE UNCHANGED <<project, wake, silver, shelf, goods, outside>>
  BY <1>1, <1>2, NothingMoves
<1>3. CASE ~UNCHANGED <<project, wake, silver, shelf, goods, outside>>
  <2> DEFINE r == RegionOf[h]
             bought(kind) == AtLeast0(MaterialOf(kind) - goods.stock[h][Timber])
  <2>1. PICK kind \in {"upgrade", "expansion", "scale"} :
          /\ silver' = Spend(silver, h, bought(kind) + 1)
          /\ shelf' = [shelf EXCEPT ![r][Timber] = @ - bought(kind)]
          /\ goods' = [goods EXCEPT !.stock[h][Timber] = @ + bought(kind) - MaterialOf(kind)]
          /\ outside' = [outside EXCEPT ![Timber] = @ + MaterialOf(kind)]
    BY <1>3 DEF Invest
  <2>2. /\ goods.stock \in [House -> Lots] /\ outside \in Lots /\ silver \in Money
        /\ shelf \in [Region -> Lots] /\ r \in Region /\ Timber \in Item
        /\ goods \in [stock : [House -> Lots], held : [Person -> Lots]]
    BY Sizes DEF Holdings
  <2>3. goods.stock[h][Timber] \in Int /\ shelf[r][Timber] \in Int /\ MaterialOf(kind) \in Int
    BY <2>2 DEF Lots, MaterialOf
  <2>4. bought(kind) \in Int
    BY <2>3 DEF AtLeast0
  <2> HIDE DEF bought
  <2>5. PICK b \in Int, m \in Int : b = bought(kind) /\ m = MaterialOf(kind)
    BY <2>3, <2>4
  <2> DEFINE s == [goods.stock EXCEPT ![h] = [goods.stock[h] EXCEPT ![Timber] =
                                                goods.stock[h][Timber] + (b - m)]]
             f == [shelf EXCEPT ![r] = [shelf[r] EXCEPT ![Timber] = shelf[r][Timber] + (0 - b)]]
             d == Some(Timber, b - m)
             e == Some(Timber, 0 - b)
  <2>6. b - m \in Int /\ 0 - b \in Int /\ b + 1 \in Int
    OBVIOUS
  <2>7. /\ s \in [House -> Lots] /\ d \in Lots /\ RowMoves(goods.stock, s, h, d)
        /\ f \in [Region -> Lots] /\ e \in Lots /\ RowMoves(shelf, f, r, e)
    BY <2>2, <2>6 DEF Lots, Some, RowMoves
  <2>8. goods' = [goods EXCEPT !.stock = s] /\ shelf' = f
    <3>1. /\ goods.stock[h][Timber] + b - m = goods.stock[h][Timber] + (b - m)
          /\ shelf[r][Timber] - b = shelf[r][Timber] + (0 - b)
      BY <2>3
    <3>2. /\ goods' = [goods EXCEPT !.stock[h][Timber] = @ + b - m]
          /\ shelf' = [shelf EXCEPT ![r][Timber] = @ - b]
      BY <2>1, <2>5
    <3> QED  BY <2>2, <3>1, <3>2
  <2>9. silver' \in Money /\ Coins(silver') = Coins(silver)
    <3>1. silver' = Spend(silver, h, b + 1)
      BY <2>1, <2>5
    <3> QED  BY <2>2, <2>6, <3>1, SpentIsKept
  <2>10. outside' \in Lots /\ \A i \in Item : d[i] + e[i] + outside'[i] = outside[i]
    <3>1. outside' = [outside EXCEPT ![Timber] = outside[Timber] + m]
      BY <2>1, <2>5
    <3> QED  BY <2>2, <3>1 DEF Lots, Some
  <2> HIDE DEF s, f, d, e
  <2>11. ASSUME NEW i \in Item
         PROVE  d[i] + e[i] + (Load(caravan'[h])[i] - Load(caravan[h])[i]) + outside'[i] = outside[i]
    <3>1. Load(caravan[h])[i] \in Int /\ caravan' = caravan
      BY <1>1, LoadsMove
    <3>2. d[i] \in Int /\ e[i] \in Int /\ outside'[i] \in Int
      BY <2>7, <2>10 DEF Lots
    <3> QED  BY <2>10, <3>1, <3>2
  <2>12. PartsMove(h, s, d, r, e)
    BY <1>1, <2>7, <2>8, <2>9, <2>10, <2>11 DEF PartsMove
  <2> QED  BY <1>1, <2>2, <2>12, PartsKeep
<1> QED  BY <1>2, <1>3

\* A caravan's arrival makes and loses nothing.
LEMMA ArrivalKeeps ==
  ASSUME Holdings, EstatesShape, NEW h \in House, NEW eaten \in 0 .. 1, CaravanArrives(h, eaten)
  PROVE  Holdings' /\ Kept
<1>1. PICK c \in Caravans : c = caravan[h]
  BY DEF CaravanArrives, EstatesShape
<1>2. /\ c.item \in Item /\ c.qty \in Int /\ c.food \in Int /\ c.region \in Region
      /\ eaten \in Int /\ Price[c.region] \in Int /\ Food \in Item
      /\ c.food - eaten \in Int /\ 0 - Price[c.region] \in Int
  BY Sizes DEF Caravans
<1>3. PICK pays \in BOOLEAN :
        /\ UNCHANGED <<purse, field>>
        /\ caravan' = [caravan EXCEPT ![h] =
             [c EXCEPT !.leg = "wait", !.qty = IF pays THEN 0 ELSE @, !.food = 0]]
        /\ goods' = [goods EXCEPT !.stock[h][Food] = @ + c.food - eaten]
        /\ outside' = [outside EXCEPT ![Food] = @ + eaten]
        /\ IF pays
           THEN /\ silver' = [silver EXCEPT !.market[c.region] = @ - Price[c.region],
                                            !.coffer[h] = @ + Price[c.region]]
                /\ shelf' = [shelf EXCEPT ![c.region][c.item] = @ + c.qty]
           ELSE UNCHANGED <<silver, shelf>>
  BY <1>1 DEF CaravanArrives
<1>4. /\ goods.stock \in [House -> Lots] /\ outside \in Lots /\ silver \in Money
      /\ silver.coffer \in [House -> Int] /\ silver.market \in [Region -> Int]
      /\ shelf \in [Region -> Lots]
      /\ goods \in [stock : [House -> Lots], held : [Person -> Lots]]
      /\ caravan \in [House -> Caravans \cup {NoCaravan}]
  BY DEF Holdings, Money, EstatesShape
<1> DEFINE q == IF pays THEN c.qty ELSE 0
           C == [c EXCEPT !.leg = "wait", !.qty = c.qty - q, !.food = 0]
           s == [goods.stock EXCEPT ![h] = [goods.stock[h] EXCEPT ![Food] =
                                              goods.stock[h][Food] + (c.food - eaten)]]
           f == [shelf EXCEPT ![c.region] = [shelf[c.region] EXCEPT ![c.item] =
                                               shelf[c.region][c.item] + q]]
           d == Some(Food, c.food - eaten)
           e == Some(c.item, q)
<1>5. q \in Int /\ c.qty - q \in Nat
  BY <1>2 DEF Caravans
<1>6. C \in Caravans /\ C.item = c.item /\ C.qty = c.qty - q /\ C.food = 0
  BY <1>5 DEF Caravans
<1>7. caravan' = [caravan EXCEPT ![h] = C]
  <2>1. (IF pays THEN 0 ELSE c.qty) = c.qty - q
    BY <1>2
  <2> QED  BY <1>3, <2>1
<1>8. goods' = [goods EXCEPT !.stock = s]
  <2>1. goods.stock[h][Food] + c.food - eaten = goods.stock[h][Food] + (c.food - eaten)
    BY <1>2, <1>4 DEF Lots
  <2> QED  BY <1>3, <1>4, <2>1
<1>9. shelf' = f
  <2>1. CASE pays
    BY <1>3, <1>4, <2>1
  <2>2. CASE ~pays
    <3>1. shelf[c.region][c.item] + q = shelf[c.region][c.item]
      BY <1>2, <1>4, <2>2 DEF Lots
    <3>2. shelf = f
      BY <1>2, <1>4, <3>1 DEF Lots
    <3> QED  BY <1>3, <2>2, <3>2
  <2> QED  BY <2>1, <2>2
<1>10. /\ s \in [House -> Lots] /\ d \in Lots /\ RowMoves(goods.stock, s, h, d)
       /\ f \in [Region -> Lots] /\ e \in Lots /\ RowMoves(shelf, f, c.region, e)
  BY <1>2, <1>4, <1>5 DEF Lots, Some, RowMoves
<1>11. silver' \in Money /\ Coins(silver') = Coins(silver)
  <2>1. CASE pays
    <3>1. silver' = [silver EXCEPT
             !.coffer = [silver.coffer EXCEPT ![h] = silver.coffer[h] + Price[c.region]],
             !.market = [silver.market EXCEPT ![c.region] = silver.market[c.region] - Price[c.region]]]
      BY <1>3, <1>4, <2>1 DEF Money
    <3> QED  BY <1>2, <1>4, <3>1, CoinsExchange
  <2> QED  BY <1>3, <1>4, <2>1
<1>12. outside' \in Lots /\ \A i \in Item : outside'[i] = outside[i] + IF i = Food THEN eaten ELSE 0
  BY <1>2, <1>3, <1>4 DEF Lots
<1>13. \A i \in Item : /\ d[i] = (IF i = Food THEN c.food - eaten ELSE 0)
                       /\ e[i] = (IF i = c.item THEN q ELSE 0)
  BY DEF Some
<1>14. /\ caravan' \in [House -> Caravans \cup {NoCaravan}] /\ caravan'[h] = C
       /\ \A g \in House : g # h => caravan'[g] = caravan[g]
  BY <1>4, <1>6, <1>7
<1> HIDE DEF C, s, f, d, e
<1>15. ASSUME NEW i \in Item
       PROVE  d[i] + e[i] + (Load(caravan'[h])[i] - Load(caravan[h])[i]) + outside'[i] = outside[i]
  <2>1. /\ Load(C)[i] = (IF c.item = i THEN c.qty - q ELSE 0) + IF i = Food THEN 0 ELSE 0
        /\ Load(c)[i] = (IF c.item = i THEN c.qty ELSE 0) + IF i = Food THEN c.food ELSE 0
    BY <1>6, LoadIs
  <2>2. outside[i] \in Int
    BY <1>4 DEF Lots
  <2>3. Load(caravan'[h])[i] = Load(C)[i] /\ Load(caravan[h])[i] = Load(c)[i]
    BY <1>1, <1>14
  <2> HIDE DEF q
  <2>4. Load(caravan'[h])[i] - Load(caravan[h])[i]
          = (IF i = c.item THEN 0 - q ELSE 0) + (IF i = Food THEN 0 - c.food ELSE 0)
    BY <1>2, <1>5, <2>1, <2>3
  <2>5. /\ d[i] = (IF i = Food THEN c.food - eaten ELSE 0)
        /\ e[i] = (IF i = c.item THEN q ELSE 0)
        /\ outside'[i] = outside[i] + IF i = Food THEN eaten ELSE 0
    BY <1>12, <1>13
  <2>6. d[i] + e[i] + (Load(caravan'[h])[i] - Load(caravan[h])[i]) = IF i = Food THEN 0 - eaten ELSE 0
    BY <1>2, <1>5, <2>4, <2>5
  <2>7. d[i] \in Int /\ e[i] \in Int /\ Load(caravan'[h])[i] - Load(caravan[h])[i] \in Int
    BY <1>2, <1>5, <2>4, <2>5
  <2> QED  BY <1>2, <2>2, <2>5, <2>6, <2>7
<1>16. PartsMove(h, s, d, c.region, e)
  BY <1>3, <1>8, <1>9, <1>10, <1>11, <1>12, <1>14, <1>15 DEF PartsMove
<1> QED  BY <1>2, <1>4, <1>16, PartsKeep

\* A caravan that waits carries no food: what it is sent for the way home is all it has.
Waiting == \A h \in House : (caravan[h] # NoCaravan /\ caravan[h].leg = "wait") => caravan[h].food = 0

\* A caravan setting out makes and loses nothing.
LEMMA SettingOutKeeps ==
  ASSUME Holdings, EstatesShape, Waiting, NEW h \in House, CaravanSetsOut(h)
  PROVE  Holdings' /\ Kept
<1>1. PICK c \in Caravans : c = caravan[h] /\ c.leg = "wait" /\ c.food = 0
  BY DEF CaravanSetsOut, EstatesShape, Waiting
<1>2. /\ UNCHANGED <<purse, field, outside, silver, shelf>>
      /\ caravan' = [caravan EXCEPT ![h] = [c EXCEPT !.leg = "back", !.food = 1]]
      /\ goods' = [goods EXCEPT !.stock[h][Food] = @ - 1]
  BY <1>1 DEF CaravanSetsOut
<1>3. /\ goods.stock \in [House -> Lots] /\ outside \in Lots /\ silver \in Money
      /\ shelf \in [Region -> Lots] /\ RegionOf[h] \in Region /\ Food \in Item
      /\ goods \in [stock : [House -> Lots], held : [Person -> Lots]]
      /\ caravan \in [House -> Caravans \cup {NoCaravan}]
  BY Sizes DEF Holdings, EstatesShape
<1> DEFINE C == [c EXCEPT !.leg = "back", !.food = 1]
           s == [goods.stock EXCEPT ![h] = [goods.stock[h] EXCEPT ![Food] =
                                              goods.stock[h][Food] - 1]]
           d == Some(Food, 0 - 1)
<1>4. C \in Caravans /\ C.item = c.item /\ C.qty = c.qty /\ C.food = 1
  BY DEF Caravans
<1>5. /\ s \in [House -> Lots] /\ d \in Lots /\ RowMoves(goods.stock, s, h, d)
      /\ goods' = [goods EXCEPT !.stock = s]
  BY <1>2, <1>3 DEF Lots, Some, RowMoves
<1>6. /\ caravan' \in [House -> Caravans \cup {NoCaravan}] /\ caravan'[h] = C
      /\ \A g \in House : g # h => caravan'[g] = caravan[g]
  BY <1>2, <1>3, <1>4
<1>7. \A i \in Item : d[i] = (IF i = Food THEN 0 - 1 ELSE 0)
  BY DEF Some
<1> HIDE DEF C, s, d
<1>8. ASSUME NEW i \in Item
      PROVE  d[i] + NoRow[i] + (Load(caravan'[h])[i] - Load(caravan[h])[i]) + outside'[i] = outside[i]
  <2>1. /\ Load(C)[i] = (IF c.item = i THEN c.qty ELSE 0) + IF i = Food THEN 1 ELSE 0
        /\ Load(c)[i] = (IF c.item = i THEN c.qty ELSE 0) + IF i = Food THEN 0 ELSE 0
    BY <1>1, <1>4, LoadIs
  <2>2. c.qty \in Int /\ outside[i] \in Int /\ NoRow[i] = 0
    BY <1>3, NothingInARow DEF Caravans, Lots
  <2>3. Load(caravan'[h])[i] = Load(C)[i] /\ Load(caravan[h])[i] = Load(c)[i]
    BY <1>1, <1>6
  <2>4. Load(caravan'[h])[i] - Load(caravan[h])[i] = IF i = Food THEN 1 ELSE 0
    BY <2>1, <2>2, <2>3
  <2> QED  BY <1>2, <1>7, <2>2, <2>4
<1>9. /\ NoRow \in Lots /\ shelf' \in [Region -> Lots]
      /\ RowMoves(shelf, shelf', RegionOf[h], NoRow) /\ silver' \in Money
      /\ Coins(silver') = Coins(silver)
  BY <1>2, <1>3, NothingInARow
<1>10. PartsMove(h, s, d, RegionOf[h], NoRow)
  BY <1>2, <1>3, <1>5, <1>6, <1>8, <1>9 DEF PartsMove
<1> QED  BY <1>3, <1>10, PartsKeep

\* A caravan's homecoming makes and loses nothing.
LEMMA HomecomingKeeps ==
  ASSUME Holdings, EstatesShape, NEW h \in House, NEW eaten \in 0 .. 1, CaravanHome(h, eaten)
  PROVE  Holdings' /\ Kept
<1>1. PICK c \in Caravans : c = caravan[h]
  BY DEF CaravanHome, EstatesShape
<1>2. /\ UNCHANGED <<purse, field, silver, shelf>>
      /\ caravan' = [caravan EXCEPT ![h] = NoCaravan]
      /\ goods' = [goods EXCEPT !.stock[h] =
           [i \in Item |-> @[i] + (IF i = c.item THEN c.qty ELSE 0)
                                + (IF i = Food THEN c.food - eaten ELSE 0)]]
      /\ outside' = [outside EXCEPT ![Food] = @ + eaten]
  BY <1>1 DEF CaravanHome
<1>3. /\ goods.stock \in [House -> Lots] /\ outside \in Lots /\ silver \in Money
      /\ shelf \in [Region -> Lots] /\ RegionOf[h] \in Region /\ Food \in Item
      /\ goods \in [stock : [House -> Lots], held : [Person -> Lots]]
      /\ caravan \in [House -> Caravans \cup {NoCaravan}]
  BY Sizes DEF Holdings, EstatesShape
<1>4. /\ c.item \in Item /\ c.qty \in Int /\ c.food \in Int /\ eaten \in Int
      /\ c.food - eaten \in Int
  BY DEF Caravans
<1> DEFINE d == [i \in Item |-> (IF i = c.item THEN c.qty ELSE 0)
                                + (IF i = Food THEN c.food - eaten ELSE 0)]
           R == [i \in Item |-> goods.stock[h][i] + (IF i = c.item THEN c.qty ELSE 0)
                                + (IF i = Food THEN c.food - eaten ELSE 0)]
           s == [goods.stock EXCEPT ![h] = R]
<1>5. d \in Lots /\ R \in Lots
  BY <1>3, <1>4 DEF Lots
<1>6. \A i \in Item : R[i] = goods.stock[h][i] + d[i]
  BY <1>3, <1>4 DEF Lots
<1>7. goods' = [goods EXCEPT !.stock = s]
  BY <1>2, <1>3
<1>8. \A i \in Item : d[i] = (IF i = c.item THEN c.qty ELSE 0)
                              + (IF i = Food THEN c.food - eaten ELSE 0)
  OBVIOUS
<1> HIDE DEF d, R
<1>9. s \in [House -> Lots] /\ RowMoves(goods.stock, s, h, d)
  BY <1>3, <1>5, <1>6 DEF RowMoves
<1>10. /\ caravan' \in [House -> Caravans \cup {NoCaravan}] /\ caravan'[h] = NoCaravan
       /\ \A g \in House : g # h => caravan'[g] = caravan[g]
  BY <1>2, <1>3
<1>11. outside' \in Lots /\ \A i \in Item : outside'[i] = outside[i] + IF i = Food THEN eaten ELSE 0
  BY <1>2, <1>3, <1>4 DEF Lots
<1> HIDE DEF s
<1>12. ASSUME NEW i \in Item
       PROVE  d[i] + NoRow[i] + (Load(caravan'[h])[i] - Load(caravan[h])[i]) + outside'[i] = outside[i]
  <2>1. /\ Load(NoCaravan)[i] = 0
        /\ Load(c)[i] = (IF c.item = i THEN c.qty ELSE 0) + IF i = Food THEN c.food ELSE 0
    BY LoadIs
  <2>2. outside[i] \in Int /\ NoRow[i] = 0
    BY <1>3, NothingInARow DEF Lots
  <2>3. Load(caravan'[h])[i] = Load(NoCaravan)[i] /\ Load(caravan[h])[i] = Load(c)[i]
    BY <1>1, <1>10
  <2>4. Load(caravan'[h])[i] - Load(caravan[h])[i]
          = (IF i = c.item THEN 0 - c.qty ELSE 0) + (IF i = Food THEN 0 - c.food ELSE 0)
    BY <1>4, <2>1, <2>3
  <2>5. /\ d[i] = (IF i = c.item THEN c.qty ELSE 0) + (IF i = Food THEN c.food - eaten ELSE 0)
        /\ outside'[i] = outside[i] + IF i = Food THEN eaten ELSE 0
    BY <1>8, <1>11
  <2>6. d[i] + (Load(caravan'[h])[i] - Load(caravan[h])[i]) = IF i = Food THEN 0 - eaten ELSE 0
    BY <1>4, <2>4, <2>5
  <2>7. d[i] \in Int /\ Load(caravan'[h])[i] - Load(caravan[h])[i] \in Int
    BY <1>4, <2>4, <2>5
  <2> QED  BY <1>4, <2>2, <2>5, <2>6, <2>7
<1>13. /\ NoRow \in Lots /\ shelf' \in [Region -> Lots]
       /\ RowMoves(shelf, shelf', RegionOf[h], NoRow) /\ silver' \in Money
       /\ Coins(silver') = Coins(silver)
  BY <1>2, <1>3, NothingInARow
<1>14. PartsMove(h, s, d, RegionOf[h], NoRow)
  BY <1>2, <1>5, <1>7, <1>9, <1>10, <1>11, <1>12, <1>13 DEF PartsMove
<1> QED  BY <1>3, <1>14, PartsKeep

\* Raiders, with survivors who turn back.
LEMMA RaidKeeps ==
  ASSUME Holdings, EstatesShape, NEW h \in House, NEW taken \in BOOLEAN, NEW r \in Region,
         CaravanLost(h, taken, r)
  PROVE  Holdings' /\ Kept
<1>1. PICK c \in Caravans : c = caravan[h]
  BY DEF CaravanLost, EstatesShape
<1>2. /\ c.item \in Item /\ c.qty \in Int /\ c.food \in Int /\ Food \in Item
  BY Sizes DEF Caravans
<1>3. PICK n \in Nat : n = (IF taken THEN 0 ELSE c.qty)
  BY DEF Caravans
<1>4. /\ goods.stock \in [House -> Lots] /\ outside \in Lots /\ silver \in Money
      /\ shelf \in [Region -> Lots]
      /\ goods \in [stock : [House -> Lots], held : [Person -> Lots]]
      /\ caravan \in [House -> Caravans \cup {NoCaravan}]
      /\ NoRow \in Lots /\ \A i \in Item : NoRow[i] = 0
  BY NothingInARow DEF Holdings, EstatesShape
<1>5. /\ UNCHANGED <<purse, field, silver>>
      /\ outside' = IF taken THEN [outside EXCEPT ![c.item] = @ + c.qty] ELSE outside
  BY <1>1 DEF CaravanLost
<1>6. /\ outside' \in Lots
      /\ \A i \in Item : outside'[i] = outside[i] + IF i = c.item THEN c.qty - n ELSE 0
  BY <1>2, <1>3, <1>4, <1>5 DEF Lots
<1>7. CASE c.crew \ away # {}
  <2>1. /\ caravan' = [caravan EXCEPT ![h] =
                [c EXCEPT !.leg = "wait", !.crew = @ \ away, !.qty = n, !.food = 0]]
        /\ goods' = [goods EXCEPT !.stock[h][Food] = @ + c.food]
        /\ UNCHANGED shelf
    BY <1>1, <1>3, <1>7 DEF CaravanLost
  <2> DEFINE C == [c EXCEPT !.leg = "wait", !.crew = c.crew \ away, !.qty = n, !.food = 0]
             s == [goods.stock EXCEPT ![h] = [goods.stock[h] EXCEPT ![Food] =
                                                goods.stock[h][Food] + c.food]]
             d == Some(Food, c.food)
  <2>2. C \in Caravans /\ C.item = c.item /\ C.qty = n /\ C.food = 0
    BY DEF Caravans
  <2>3. /\ s \in [House -> Lots] /\ d \in Lots /\ RowMoves(goods.stock, s, h, d)
        /\ goods' = [goods EXCEPT !.stock = s]
    BY <1>2, <1>4, <2>1 DEF Lots, Some, RowMoves
  <2>4. /\ caravan' \in [House -> Caravans \cup {NoCaravan}] /\ caravan'[h] = C
        /\ \A g \in House : g # h => caravan'[g] = caravan[g]
    BY <1>4, <2>1, <2>2
  <2>5. \A i \in Item : d[i] = IF i = Food THEN c.food ELSE 0
    BY DEF Some
  <2> HIDE DEF C, s, d
  <2>6. ASSUME NEW i \in Item
        PROVE  d[i] + NoRow[i] + (Load(caravan'[h])[i] - Load(caravan[h])[i]) + outside'[i]
                 = outside[i]
    <3>1. /\ Load(C)[i] = (IF c.item = i THEN n ELSE 0) + IF i = Food THEN 0 ELSE 0
          /\ Load(c)[i] = (IF c.item = i THEN c.qty ELSE 0) + IF i = Food THEN c.food ELSE 0
      BY <2>2, LoadIs
    <3>2. Load(caravan'[h])[i] = Load(C)[i] /\ Load(caravan[h])[i] = Load(c)[i]
      BY <1>1, <2>4
    <3>3. Load(caravan'[h])[i] - Load(caravan[h])[i]
            = (IF i = c.item THEN n - c.qty ELSE 0) + (IF i = Food THEN 0 - c.food ELSE 0)
      BY <1>2, <3>1, <3>2
    <3>4. d[i] + (Load(caravan'[h])[i] - Load(caravan[h])[i]) = IF i = c.item THEN n - c.qty ELSE 0
      BY <1>2, <2>5, <3>3
    <3>5. /\ d[i] \in Int /\ Load(caravan'[h])[i] - Load(caravan[h])[i] \in Int
          /\ outside[i] \in Int /\ outside'[i] = outside[i] + IF i = c.item THEN c.qty - n ELSE 0
      BY <1>2, <1>4, <1>6, <2>5, <3>3 DEF Lots
    <3> QED  BY <1>2, <1>4, <3>4, <3>5
  <2>7. /\ shelf' \in [Region -> Lots] /\ RowMoves(shelf, shelf', r, NoRow)
        /\ silver' \in Money /\ Coins(silver') = Coins(silver)
    BY <1>4, <1>5, <2>1, NothingInARow
  <2>8. PartsMove(h, s, d, r, NoRow)
    BY <1>4, <1>5, <1>6, <2>3, <2>4, <2>6, <2>7 DEF PartsMove
  <2> QED  BY <1>4, <2>8, PartsKeep
<1>8. CASE ~(c.crew \ away # {})
  <2>1. /\ caravan' = [caravan EXCEPT ![h] = NoCaravan]
        /\ shelf' = [shelf EXCEPT ![r] = [i \in Item |->
             @[i] + (IF i = c.item THEN n ELSE 0) + (IF i = Food THEN c.food ELSE 0)]]
        /\ UNCHANGED goods
    BY <1>1, <1>3, <1>8 DEF CaravanLost
  <2> DEFINE R == [i \in Item |-> shelf[r][i] + (IF i = c.item THEN n ELSE 0)
                                              + (IF i = Food THEN c.food ELSE 0)]
             f == [shelf EXCEPT ![r] = R]
             e == [i \in Item |-> (IF i = c.item THEN n ELSE 0) + (IF i = Food THEN c.food ELSE 0)]
  <2>2. e \in Lots /\ R \in Lots /\ \A i \in Item : R[i] = shelf[r][i] + e[i]
    BY <1>2, <1>4 DEF Lots
  <2>3. shelf' = f
    BY <2>1
  <2>4. \A i \in Item : e[i] = (IF i = c.item THEN n ELSE 0) + (IF i = Food THEN c.food ELSE 0)
    OBVIOUS
  <2> HIDE DEF e, R
  <2>5. f \in [Region -> Lots] /\ RowMoves(shelf, f, r, e)
    BY <1>4, <2>2 DEF RowMoves
  <2>6. /\ caravan' \in [House -> Caravans \cup {NoCaravan}] /\ caravan'[h] = NoCaravan
        /\ \A g \in House : g # h => caravan'[g] = caravan[g]
    BY <1>4, <2>1
  <2> HIDE DEF f
  <2>7. ASSUME NEW i \in Item
        PROVE  NoRow[i] + e[i] + (Load(caravan'[h])[i] - Load(caravan[h])[i]) + outside'[i]
                 = outside[i]
    <3>1. /\ Load(NoCaravan)[i] = 0
          /\ Load(c)[i] = (IF c.item = i THEN c.qty ELSE 0) + IF i = Food THEN c.food ELSE 0
      BY LoadIs
    <3>2. Load(caravan'[h])[i] = Load(NoCaravan)[i] /\ Load(caravan[h])[i] = Load(c)[i]
      BY <1>1, <2>6
    <3>3. Load(caravan'[h])[i] - Load(caravan[h])[i]
            = (IF i = c.item THEN 0 - c.qty ELSE 0) + (IF i = Food THEN 0 - c.food ELSE 0)
      BY <1>2, <3>1, <3>2
    <3>4. e[i] + (Load(caravan'[h])[i] - Load(caravan[h])[i]) = IF i = c.item THEN n - c.qty ELSE 0
      BY <1>2, <2>4, <3>3
    <3>5. /\ e[i] \in Int /\ Load(caravan'[h])[i] - Load(caravan[h])[i] \in Int
          /\ outside[i] \in Int /\ outside'[i] = outside[i] + IF i = c.item THEN c.qty - n ELSE 0
      BY <1>2, <1>4, <1>6, <2>4, <3>3 DEF Lots
    <3> QED  BY <1>2, <1>4, <3>4, <3>5
  <2>8. /\ RowMoves(goods.stock, goods.stock, h, NoRow) /\ goods' = [goods EXCEPT !.stock = goods.stock]
        /\ silver' \in Money /\ Coins(silver') = Coins(silver)
    BY <1>4, <1>5, <2>1, NothingInARow
  <2>9. PartsMove(h, goods.stock, NoRow, r, e)
    BY <1>4, <1>5, <1>6, <2>2, <2>3, <2>5, <2>6, <2>7, <2>8 DEF PartsMove
  <2> QED  BY <1>4, <2>9, PartsKeep
<1> QED  BY <1>7, <1>8

\* A person's own trade makes and loses nothing.
LEMMA PersonalTradeKeeps ==
  ASSUME Holdings, EstatesShape, NEW p \in Players, NEW i \in Weapon, NEW r \in Region,
         PersonalTrade(p, i, r)
  PROVE  Holdings' /\ Kept
<1>1. /\ UNCHANGED <<field, outside, caravan>> /\ p \in Person /\ i \in Item
      /\ Price[r] \in Int /\ 0 - Price[r] \in Int
      /\ caravan \in [House -> Caravans \cup {NoCaravan}]
  BY Sizes DEF PersonalTrade, EstatesShape
<1>2. /\ goods.held \in [Person -> Lots] /\ goods.stock \in [House -> Lots]
      /\ goods \in [stock : [House -> Lots], held : [Person -> Lots]]
      /\ silver \in Money /\ silver.market \in [Region -> Int] /\ silver.coffer \in [House -> Int]
      /\ shelf \in [Region -> Lots] /\ purse \in [Person -> Int]
  BY DEF Holdings, Money
<1>3. /\ purse[p] \in Int /\ silver.market[r] \in Int /\ shelf[r][i] \in Int
      /\ goods.held[p][i] \in Int
  BY <1>1, <1>2 DEF Lots
<1>4. PICK q \in Int, m \in Int :
        /\ purse' = [purse EXCEPT ![p] = purse[p] + q]
        /\ silver' = [silver EXCEPT !.market = [silver.market EXCEPT ![r] = silver.market[r] - q]]
        /\ shelf' = [shelf EXCEPT ![r] = [shelf[r] EXCEPT ![i] = shelf[r][i] + m]]
        /\ goods' = [goods EXCEPT !.held = [goods.held EXCEPT ![p] =
                       [goods.held[p] EXCEPT ![i] = goods.held[p][i] - m]]]
  <2>1. /\ purse[p] - Price[r] = purse[p] + (0 - Price[r])
        /\ silver.market[r] + Price[r] = silver.market[r] - (0 - Price[r])
        /\ shelf[r][i] - 1 = shelf[r][i] + (0 - 1)
        /\ goods.held[p][i] + 1 = goods.held[p][i] - (0 - 1)
        /\ 0 - 1 \in Int /\ 1 \in Int
    BY <1>1, <1>3
  <2>2. CASE /\ purse' = [purse EXCEPT ![p] = @ - Price[r]]
             /\ silver' = [silver EXCEPT !.market[r] = @ + Price[r]]
             /\ shelf' = [shelf EXCEPT ![r][i] = @ - 1]
             /\ goods' = [goods EXCEPT !.held[p][i] = @ + 1]
    <3>1. /\ purse' = [purse EXCEPT ![p] = purse[p] + (0 - Price[r])]
          /\ silver' = [silver EXCEPT !.market = [silver.market EXCEPT ![r] = silver.market[r] - (0 - Price[r])]]
          /\ shelf' = [shelf EXCEPT ![r] = [shelf[r] EXCEPT ![i] = shelf[r][i] + (0 - 1)]]
          /\ goods' = [goods EXCEPT !.held = [goods.held EXCEPT ![p] =
                         [goods.held[p] EXCEPT ![i] = goods.held[p][i] - (0 - 1)]]]
      BY <2>1, <2>2
    <3> QED  BY <1>1, <2>1, <3>1
  <2>3. CASE /\ purse' = [purse EXCEPT ![p] = @ + Price[r]]
             /\ silver' = [silver EXCEPT !.market[r] = @ - Price[r]]
             /\ shelf' = [shelf EXCEPT ![r][i] = @ + 1]
             /\ goods' = [goods EXCEPT !.held[p][i] = @ - 1]
    <3>1. /\ purse' = [purse EXCEPT ![p] = purse[p] + Price[r]]
          /\ silver' = [silver EXCEPT !.market = [silver.market EXCEPT ![r] = silver.market[r] - Price[r]]]
          /\ shelf' = [shelf EXCEPT ![r] = [shelf[r] EXCEPT ![i] = shelf[r][i] + 1]]
          /\ goods' = [goods EXCEPT !.held = [goods.held EXCEPT ![p] =
                         [goods.held[p] EXCEPT ![i] = goods.held[p][i] - 1]]]
      BY <2>3
    <3> QED  BY <1>1, <2>1, <3>1
  <2> QED  BY <2>2, <2>3 DEF PersonalTrade
<1> DEFINE P == [purse EXCEPT ![p] = purse[p] + q]
           M == [silver.market EXCEPT ![r] = silver.market[r] - q]
           f == [shelf EXCEPT ![r] = [shelf[r] EXCEPT ![i] = shelf[r][i] + m]]
           H == [goods.held EXCEPT ![p] = [goods.held[p] EXCEPT ![i] = goods.held[p][i] - m]]
           e == Some(i, m)
           d == Some(i, 0 - m)
<1>5. 0 - q \in Int /\ 0 - m \in Int
  OBVIOUS
<1>6. /\ P \in [Person -> Int] /\ Moves(purse, P, p, q)
      /\ M \in [Region -> Int] /\ Moves(silver.market, M, r, 0 - q)
  BY <1>1, <1>2, <1>3 DEF Moves
<1>7. /\ f \in [Region -> Lots] /\ e \in Lots /\ RowMoves(shelf, f, r, e)
      /\ H \in [Person -> Lots] /\ d \in Lots /\ RowMoves(goods.held, H, p, d)
  BY <1>1, <1>2, <1>5 DEF Lots, Some, RowMoves
<1>8. \A j \in Item : d[j] + e[j] = 0
  BY <1>5 DEF Some
<1>9. /\ purse' = P /\ silver' = [silver EXCEPT !.market = M] /\ shelf' = f
      /\ goods' = [goods EXCEPT !.held = H]
  BY <1>4
<1> HIDE DEF P, M, f, H, d, e
<1>10. /\ silver' \in Money /\ silver'.market = M /\ silver'.coffer = silver.coffer
       /\ goods' \in [stock : [House -> Lots], held : [Person -> Lots]]
       /\ goods'.stock = goods.stock /\ goods'.held = H
  BY <1>2, <1>6, <1>7, <1>9 DEF Money
<1>11. Holdings'
  BY <1>1, <1>6, <1>7, <1>9, <1>10 DEF Holdings
<1>12. CoinsIn(silver', purse') = CoinsIn(silver, purse)
  <2>1. SumFunction(P) = SumFunction(purse) + q
    BY <1>1, <1>2, <1>6, SumsOfCoins
  <2>2. SumFunction(M) = SumFunction(silver.market) + (0 - q)
    BY <1>2, <1>5, <1>6, SumsOfCoins
  <2> QED  BY <1>9, <1>10, <2>1, <2>2, CoinsNow DEF CoinsIn
<1>13. ASSUME NEW j \in Item PROVE Pieces(j)' = Pieces(j)
  <2>1. InColumn(Region, f, j) = InColumn(Region, shelf, j) + e[j]
    BY <1>2, <1>7, RowsOfRegions
  <2>2. InColumn(Person, H, j) = InColumn(Person, goods.held, j) + d[j]
    BY <1>1, <1>2, <1>7, RowsOfPeople
  <2>3. d[j] \in Int /\ e[j] \in Int
    BY <1>7 DEF Lots
  <2> QED  BY <1>1, <1>8, <1>9, <1>10, <2>1, <2>2, <2>3, PiecesAre, ColumnsNow
<1> QED  BY <1>11, <1>12, <1>13 DEF Kept

\* The claim of an estate: the silver and the stores of one house go to another.
LEMMA ClaimKeeps ==
  ASSUME Holdings, EstatesShape, NEW p \in Players, NEW d \in House, ClaimEstate(p, d)
  PROVE  Holdings' /\ Kept
<1>1. PICK c \in House : /\ c = member[p] /\ c # d
  <2>1. Claimable(p, d) /\ p \in Person
    BY Sizes DEF ClaimEstate
  <2>2. member[p] # Nobody /\ member[p] # d
    BY <2>1 DEF Claimable
  <2> QED  BY <2>1, <2>2 DEF EstatesShape
<1>2. /\ UNCHANGED <<purse, field, outside, shelf, caravan>>
      /\ silver' = [silver EXCEPT !.coffer[c] = @ + silver.coffer[d], !.coffer[d] = 0]
      /\ goods' = [goods EXCEPT
           !.stock[c] = [i \in Item |-> @[i] + IF i = Poison THEN 0 ELSE goods.stock[d][i]],
           !.stock[d] = [i \in Item |-> IF i = Poison THEN @[i] ELSE 0]]
  BY <1>1 DEF ClaimEstate
<1>3. /\ goods.stock \in [House -> Lots] /\ silver \in Money
      /\ silver.coffer \in [House -> Int] /\ shelf \in [Region -> Lots] /\ outside \in Lots
      /\ goods \in [stock : [House -> Lots], held : [Person -> Lots]]
      /\ caravan \in [House -> Caravans \cup {NoCaravan}]
  BY DEF Holdings, Money, EstatesShape
<1> DEFINE C == [silver.coffer EXCEPT ![c] = silver.coffer[c] + silver.coffer[d], ![d] = 0]
           R == [i \in Item |-> goods.stock[c][i] + IF i = Poison THEN 0 ELSE goods.stock[d][i]]
           L == [i \in Item |-> IF i = Poison THEN goods.stock[d][i] ELSE 0]
           s == [goods.stock EXCEPT ![c] = R, ![d] = L]
           x == [i \in Item |-> IF i = Poison THEN 0 ELSE goods.stock[d][i]]
           z == [i \in Item |-> IF i = Poison THEN 0 ELSE 0 - goods.stock[d][i]]
<1>4. /\ C \in [House -> Int] /\ C[c] = silver.coffer[c] + silver.coffer[d]
      /\ C[d] = silver.coffer[d] - silver.coffer[d]
      /\ \A y \in House : y # d /\ y # c => C[y] = silver.coffer[y]
      /\ silver.coffer[d] \in Int
  BY <1>1, <1>3
<1>5. silver' = [silver EXCEPT !.coffer = C]
  BY <1>1, <1>2, <1>3
<1> HIDE DEF C
<1>6. silver' \in Money /\ silver'.coffer = C /\ silver'.market = silver.market
  BY <1>3, <1>4, <1>5 DEF Money
<1>7. Coins(silver') = Coins(silver)
  <2>1. SumFunction(C) = SumFunction(silver.coffer)
    <3>1. PICK f \in [House -> Int], q \in Int : f = silver.coffer /\ q = silver.coffer[d]
      BY <1>3, <1>4
    <3>2. /\ d # c /\ C[d] = f[d] - q /\ C[c] = f[c] + q
          /\ \A y \in House : y # d /\ y # c => C[y] = f[y]
      BY <1>1, <1>4, <3>1
    <3> QED  BY <1>4, <3>1, <3>2, CoinsPass
  <2> QED  BY <1>6, <2>1 DEF Coins
<1>8. /\ R \in Lots /\ L \in Lots /\ x \in Lots /\ z \in Lots
      /\ \A i \in Item : /\ R[i] = goods.stock[c][i] + x[i] /\ L[i] = goods.stock[d][i] + z[i]
                         /\ x[i] + z[i] = 0
  BY <1>3 DEF Lots
<1>9. goods' = [goods EXCEPT !.stock = s]
  BY <1>1, <1>2, <1>3
<1> HIDE DEF R, L, x, z
<1>10. /\ s \in [House -> Lots] /\ s[c] = R /\ s[d] = L
       /\ \A y \in House : y # c /\ y # d => s[y] = goods.stock[y]
  BY <1>1, <1>3, <1>8
<1>11. RowsPass(goods.stock, s, c, d, x, z)
  BY <1>1, <1>3, <1>8, <1>10 DEF RowsPass
<1> HIDE DEF s
<1>12. ASSUME NEW i \in Item PROVE InColumn(House, s, i) = InColumn(House, goods.stock, i)
  <2>1. PICK F \in [House -> Lots] : F = goods.stock
    BY <1>3
  <2>2. RowsPass(F, s, c, d, x, z)
    BY <1>11, <2>1
  <2>3. InColumn(House, s, i) = InColumn(House, F, i) + x[i] + z[i]
    BY <1>8, <1>10, <2>2, HousesPass
  <2>4. InColumn(House, F, i) \in Int /\ x[i] \in Int /\ z[i] \in Int
    BY <1>8, Columns DEF Lots
  <2> QED  BY <1>8, <2>1, <2>3, <2>4
<1> QED  BY <1>2, <1>3, <1>6, <1>7, <1>9, <1>10, <1>12, StoresKeep

-----------------------------------------------------------------------------
(* Every step.                                                                 *)
LEMMA EstatesKeep ==
  ASSUME Holdings, EstatesShape, EstatesNext PROVE Holdings' /\ Kept
<1>1. ASSUME NEW p \in Players, NEW kind \in Kind, NEW target \in 1 .. MaxLevel,
             StartWork(p, kind, target)
      PROVE  Holdings' /\ Kept
  BY <1>1, StartWorkKeeps
<1>2. ASSUME NEW h \in House, Invest(h) PROVE Holdings' /\ Kept
  BY <1>2, InvestKeeps
<1>3. ASSUME NEW n \in DOMAIN project,
             ProjectSuspended(n) \/ ProjectReviewed(n) \/ ProjectCompleted(n)
      PROVE  Holdings' /\ Kept
  <2>1. UNCHANGED <<goods, silver, shelf, purse, outside, caravan, field>>
    BY <1>3 DEF ProjectSuspended, ProjectReviewed, ProjectCompleted, belongings
  <2> QED  BY <2>1, NothingMoves
<1> QED  BY <1>1, <1>2, <1>3 DEF EstatesNext

\* The steps that move neither goods nor silver leave both as they are.
LEMMA QuietStepsKeep ==
  ASSUME Holdings,
         \/ \E h \in House : HouseDies(h)
         \/ \E p \in Players, s \in Site : Travel(p, s)
         \/ \E p \in Restless : Taken(p) \/ Freed(p)
         \/ Tick
         \/ UNCHANGED vars
  PROVE  /\ Holdings' /\ Kept
         /\ UNCHANGED caravan
<1>1. ASSUME NEW h \in House, HouseDies(h)
      PROVE  UNCHANGED <<goods, silver, shelf, purse, outside, caravan, field>>
  BY <1>1 DEF HouseDies, belongings
<1>2. ASSUME NEW p \in Players, NEW s \in Site, Travel(p, s)
      PROVE  UNCHANGED <<goods, silver, shelf, purse, outside, caravan, field>>
  BY <1>2 DEF Travel, belongings
<1>3. ASSUME NEW p \in Restless, Taken(p) \/ Freed(p)
      PROVE  UNCHANGED <<goods, silver, shelf, purse, outside, caravan, field>>
  BY <1>3 DEF Taken, Freed, belongings
<1>4. ASSUME Tick
      PROVE  UNCHANGED <<goods, silver, shelf, purse, outside, caravan, field>>
  BY <1>4 DEF Tick, belongings
<1>5. ASSUME UNCHANGED vars
      PROVE  UNCHANGED <<goods, silver, shelf, purse, outside, caravan, field>>
  BY <1>5 DEF vars, belongings, estates
<1>6. UNCHANGED <<goods, silver, shelf, purse, outside, caravan, field>>
  BY <1>1, <1>2, <1>3, <1>4, <1>5
<1> QED  BY <1>6, NothingMoves

\* No step makes or loses a piece or a coin.
LEMMA EveryStepKeeps ==
  ASSUME Holdings, EstatesShape, Waiting, [Next]_vars PROVE Holdings' /\ Kept
<1>1. ASSUME BelongingsNext /\ UNCHANGED estates PROVE Holdings' /\ Kept
  BY <1>1, BelongingsKeep
<1>2. ASSUME EstatesNext PROVE Holdings' /\ Kept
  BY <1>2, EstatesKeep
<1>3. ASSUME NEW h \in House, Review(h) \/ HouseDies(h) \/ CaravanSetsOut(h)
      PROVE  Holdings' /\ Kept
  BY <1>3, ReviewKeeps, QuietStepsKeep, SettingOutKeeps
<1>4. ASSUME NEW h \in House, NEW g \in House, Aid(h, g) PROVE Holdings' /\ Kept
  BY <1>4, AidKeeps
<1>5. ASSUME NEW h \in House, NEW eaten \in 0 .. 1, CaravanArrives(h, eaten) \/ CaravanHome(h, eaten)
      PROVE  Holdings' /\ Kept
  BY <1>5, ArrivalKeeps, HomecomingKeeps
<1>6. ASSUME NEW h \in House, NEW taken \in BOOLEAN, NEW r \in Region, CaravanLost(h, taken, r)
      PROVE  Holdings' /\ Kept
  BY <1>6, RaidKeeps
<1>7. ASSUME NEW p \in Players, NEW i \in Item, HouseTrade(p, i) PROVE Holdings' /\ Kept
  BY <1>7, TradeKeeps
<1>8. ASSUME NEW p \in Players, NEW i \in Weapon,
             Produce(p, i) \/ \E r \in Region : PersonalTrade(p, i, r)
      PROVE  Holdings' /\ Kept
  BY <1>8, ProduceKeeps, PersonalTradeKeeps
<1>9. ASSUME NEW p \in Players, NEW d \in House, ClaimEstate(p, d) PROVE Holdings' /\ Kept
  BY <1>9, ClaimKeeps
<1>10. CASE \/ \E p \in Players, s \in Site : Travel(p, s)
            \/ \E p \in Restless : Taken(p) \/ Freed(p)
            \/ Tick
            \/ UNCHANGED vars
  BY <1>10, QuietStepsKeep
<1> QED  BY <1>1, <1>2, <1>3, <1>4, <1>5, <1>6, <1>7, <1>8, <1>9, <1>10 DEF Next

\* Only raiders and the market make a caravan wait, and both leave it without food.
LEMMA WaitingStays ==
  ASSUME EstatesShape, Waiting, [Next]_vars PROVE Waiting'
<1> DEFINE rests(c) == (c # NoCaravan /\ c.leg = "wait") => c.food = 0
<1>1. ASSUME \/ UNCHANGED caravan
             \/ \E h \in House : \E c : caravan' = [caravan EXCEPT ![h] = c] /\ rests(c)
      PROVE  Waiting'
  <2>1. \A g \in House : rests(caravan[g])
    BY DEF Waiting
  <2>2. \A g \in House : rests(caravan'[g])
    BY <1>1, <2>1 DEF EstatesShape
  <2> QED  BY <2>2 DEF Waiting
<1>2. CASE \E h \in House : Review(h)
  <2>1. PICK h \in House : Review(h)
    BY <1>2
  <2>2. UNCHANGED caravan \/ \E d : caravan' = [caravan EXCEPT ![h] = Journey(h, d)]
    BY <2>1 DEF Review
  <2>3. \A d : rests(Journey(h, d))
    BY DEF Journey
  <2> HIDE DEF rests
  <2> QED  BY <1>1, <2>2, <2>3
<1>3. CASE \E h \in House, eaten \in 0 .. 1 : CaravanArrives(h, eaten) \/ CaravanHome(h, eaten)
  <2>1. PICK h \in House, eaten \in 0 .. 1 : CaravanArrives(h, eaten) \/ CaravanHome(h, eaten)
    BY <1>3
  <2>2. PICK c \in Caravans : c = caravan[h]
    BY <2>1 DEF CaravanArrives, CaravanHome, EstatesShape
  <2>3. \/ caravan' = [caravan EXCEPT ![h] = NoCaravan]
        \/ \E q : caravan' = [caravan EXCEPT ![h] = [c EXCEPT !.leg = "wait", !.qty = q, !.food = 0]]
    BY <2>1, <2>2 DEF CaravanArrives, CaravanHome
  <2>4. rests(NoCaravan) /\ \A q : rests([c EXCEPT !.leg = "wait", !.qty = q, !.food = 0])
    BY DEF Caravans
  <2> HIDE DEF rests
  <2> QED  BY <1>1, <2>3, <2>4
<1>4. CASE \E h \in House, taken \in BOOLEAN, r \in Region : CaravanLost(h, taken, r)
  <2>1. PICK h \in House, taken \in BOOLEAN, r \in Region : CaravanLost(h, taken, r)
    BY <1>4
  <2>2. PICK c \in Caravans : c = caravan[h]
    BY <2>1 DEF CaravanLost, EstatesShape
  <2>3. \/ caravan' = [caravan EXCEPT ![h] = NoCaravan]
        \/ \E q, k : caravan' = [caravan EXCEPT ![h] =
                                   [c EXCEPT !.leg = "wait", !.crew = k, !.qty = q, !.food = 0]]
    BY <2>1, <2>2 DEF CaravanLost
  <2>4. /\ rests(NoCaravan)
        /\ \A q, k : rests([c EXCEPT !.leg = "wait", !.crew = k, !.qty = q, !.food = 0])
    BY DEF Caravans
  <2> HIDE DEF rests
  <2> QED  BY <1>1, <2>3, <2>4
<1>5. CASE \E h \in House : CaravanSetsOut(h)
  <2>1. PICK h \in House : CaravanSetsOut(h)
    BY <1>5
  <2>2. PICK c \in Caravans : c = caravan[h]
    BY <2>1 DEF CaravanSetsOut, EstatesShape
  <2>3. caravan' = [caravan EXCEPT ![h] = [c EXCEPT !.leg = "back", !.food = 1]]
    BY <2>1, <2>2 DEF CaravanSetsOut
  <2>4. rests([c EXCEPT !.leg = "back", !.food = 1])
    BY DEF Caravans
  <2> HIDE DEF rests
  <2> QED  BY <1>1, <2>3, <2>4
<1>6. CASE \/ \E h \in House : HouseDies(h)
           \/ \E p \in Players, s \in Site : Travel(p, s)
           \/ \E p \in Restless : Taken(p) \/ Freed(p)
           \/ Tick
           \/ UNCHANGED vars
  <2>1. UNCHANGED caravan
    BY <1>6 DEF HouseDies, Travel, Taken, Freed, Tick, vars, estates
  <2> QED  BY <1>1, <2>1
<1>7. CASE \/ BelongingsNext /\ UNCHANGED estates
           \/ EstatesNext
           \/ \E h, g \in House : Aid(h, g)
  <2>1. UNCHANGED caravan
    BY <1>7 DEF estates, EstatesNext, StartWork, Invest, ProjectSuspended, ProjectReviewed,
                ProjectCompleted, Aid
  <2> QED  BY <1>1, <2>1
<1>8. CASE \E p \in Players :
             \/ \E i \in Item : HouseTrade(p, i)
             \/ \E i \in Weapon : Produce(p, i) \/ \E r \in Region : PersonalTrade(p, i, r)
             \/ \E d \in House : ClaimEstate(p, d)
  <2>1. ASSUME NEW p, NEW i, HouseTrade(p, i) PROVE UNCHANGED caravan
    BY <2>1 DEF HouseTrade
  <2>2. ASSUME NEW p, NEW i, Produce(p, i) PROVE UNCHANGED caravan
    BY <2>2 DEF Produce
  <2>3. ASSUME NEW p, NEW i, NEW r, PersonalTrade(p, i, r) PROVE UNCHANGED caravan
    BY <2>3 DEF PersonalTrade
  <2>4. ASSUME NEW p, NEW d, ClaimEstate(p, d) PROVE UNCHANGED caravan
    BY <2>4 DEF ClaimEstate
  <2>5. UNCHANGED caravan
    BY <1>8, <2>1, <2>2, <2>3, <2>4
  <2> QED  BY <1>1, <2>5
<1> HIDE DEF rests
<1> QED  BY <1>2, <1>3, <1>4, <1>5, <1>6, <1>7, <1>8 DEF Next

\* The houses begin with sound holdings, and no caravan under way.
LEMMA InitialHoldings ==
  ASSUME Init PROVE Holdings /\ Waiting
<1> PICK s \in Settings :
      /\ goods = s.goods /\ purse = s.purse /\ field = [h \in House |-> NoIssue]
      /\ outside = [i \in Item |-> 0] /\ silver = s.silver /\ shelf = s.shelf
      /\ caravan = [h \in House |-> NoCaravan]
  BY DEF Init
<1>1. /\ goods \in [stock : [House -> [Item -> Nat]], held : [Person -> [Item -> Nat]]]
      /\ silver \in [coffer : [House -> Nat], market : [Region -> Nat]]
      /\ shelf \in [Region -> [Item -> Nat]] /\ purse \in [Person -> Nat]
  BY EconomyAssumption
<1>2. \A T : [T -> Nat] \subseteq [T -> Int]
  OBVIOUS
<1>3. [Item -> Nat] \subseteq Lots
  BY <1>2 DEF Lots
<1>4. \A T : [T -> [Item -> Nat]] \subseteq [T -> Lots]
  BY <1>3
<1>5. /\ goods \in [stock : [House -> Lots], held : [Person -> Lots]]
      /\ silver \in Money /\ shelf \in [Region -> Lots] /\ purse \in [Person -> Int]
  BY <1>1, <1>2, <1>4 DEF Money
<1>6. outside \in Lots /\ DOMAIN field = House /\ \A h \in House : DOMAIN field[h] = {}
  BY DEF Lots, NoIssue
<1>7. Waiting
  BY DEF Waiting
<1> QED  BY <1>5, <1>6, <1>7 DEF Holdings

\* The holdings are what they are typed to be, and no caravan waits with food on it.
LEMMA BooksInvariance == Spec => [](EconomyInv /\ Holdings /\ Waiting)
<1>1. Init => Holdings /\ Waiting
  BY InitialHoldings
<1>2. EconomyInv /\ Holdings /\ Waiting /\ [Next]_vars => Holdings' /\ Waiting'
  BY EveryStepKeeps, WaitingStays DEF EconomyInv
<1> QED  BY <1>1, <1>2, EconomyInvariance, PTL DEF Spec

\* No coin is made or lost, whatever houses, people, markets and prices there are: reviews
\* with a caravan in the middle (autonomy_frontier.py:1254-1310), aid, trade, arrivals,
\* investments and the claim of an estate each move what one side has to another.
THEOREM CoinsAreKept == Spec => MoneyIsKept
<1>1. EconomyInv /\ Holdings /\ Waiting /\ [Next]_vars
        => [CoinsIn(silver', purse') = CoinsIn(silver, purse)]_vars
  BY EveryStepKeeps DEF EconomyInv, Kept
<1> QED  BY <1>1, BooksInvariance, PTL DEF Spec, MoneyIsKept

\* Every piece is somewhere: issue, return, gift, seizure, separation, combat, trade,
\* production, raids and claims leave the count of each item as it was, with what was used
\* up and made.
THEOREM PiecesAreKept == Spec => ItemsAreConserved
<1>1. EconomyInv /\ Holdings /\ Waiting /\ [Next]_vars
        => [\A i \in Item : Pieces(i)' = Pieces(i)]_vars
  BY EveryStepKeeps DEF EconomyInv, Kept
<1> QED  BY <1>1, BooksInvariance, PTL DEF Spec, ItemsAreConserved
=============================================================================
