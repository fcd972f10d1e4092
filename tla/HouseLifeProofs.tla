--------------------------- MODULE HouseLifeProofs ---------------------------
(***************************************************************************)
(* Proofs about HouseLife, for every set of worlds, people, houses, costs  *)
(* and spans of time.                                                      *)
(*                                                                         *)
(* LifeInv says where everybody's row is, who is bound to whom and what a  *)
(* pending judgment may be about.  Its parts are stated of the values they *)
(* speak of, so that a lemma about a family or about the rows can be used  *)
(* before and after a step.                                                *)
(***************************************************************************)
EXTENDS HouseLife, SumTheorems

-----------------------------------------------------------------------------
(* The inductive invariant *)

BirthRow == [couple : Pairs, child : Soul \ Adult, house : House, due : Nat]

\* Records of the right shape.
PeopleRecord(P) ==
  P \in [roster : [House -> SUBSET Soul], loose : SUBSET Soul, dead : SUBSET Soul,
         leaders : SUBSET Adult, known : SUBSET House]
SilverRecord(S) == S \in [treasury : [House -> Nat], purse : [Soul -> Nat], pool : Nat]
FamilyRecord(F) ==
  /\ F = [marriages |-> F.marriages, homes |-> F.homes, parents |-> F.parents,
          courting |-> F.courting]
  /\ DOMAIN F.marriages \subseteq Pairs
  /\ F.marriages \in [DOMAIN F.marriages -> MarriageRow]
  /\ DOMAIN F.parents \subseteq Soul \ Adult
  /\ F.courting \subseteq Pairs
ClockRecord(c) ==
  /\ c = [month |-> c.month, reviewed |-> c.reviewed, annual |-> c.annual, falls |-> c.falls]
  /\ c.month \in Nat

Shape ==
  /\ active \subseteq people.known /\ away \subseteq Adult
  /\ PeopleRecord(people) /\ SilverRecord(silver) /\ FamilyRecord(family)
  /\ births \subseteq BirthRow /\ ClockRecord(clock)

\* Everybody born has a row in one place; a leader leads a house alone.
Placed(P, F) ==
  /\ \A h, g \in House : h # g => P.roster[h] \cap P.roster[g] = {}
  /\ \A h \in House : P.roster[h] \cap P.loose = {}
  /\ \A x \in Soul : x \in Adult \cup DOMAIN F.parents
                       <=> x \in P.loose \/ \E h \in House : x \in P.roster[h]
  /\ \A h \in House : \A x, y \in P.roster[h] \cap P.leaders : x = y

\* A house that was never founded has neither people nor silver, and no adult lives in a
\* house that is not of the registry.
Empty(P, T, act) ==
  /\ \A h \in House \ P.known : P.roster[h] = {} /\ T[h] = 0
  /\ \A h \in House \ act : Members(P, h) \cap Adult = {}

\* A child is awaited once, in a house that exists, and is not born yet.
Awaited(F, B, P) ==
  /\ \A b \in B : /\ b.child \notin DOMAIN F.parents
                  /\ b.couple \in DOMAIN F.marriages /\ b.house \in P.known
  /\ \A a, b \in B : a.child = b.child => a = b

\* Marriages and courtships exclude each other and are of the living.
Bonds(F, P) ==
  /\ \A p, q \in Married(F) : p # q => p \cap q = {}
  /\ \A p \in Married(F) : p \cap P.dead = {}
  /\ \A p, q \in F.courting : p # q => p \cap q = {}
  /\ \A p \in F.courting : p \cap P.dead = {}

\* A pregnancy is of a marriage and has its birth.
Expected(F, B) ==
  \A p \in DOMAIN F.marriages :
    F.marriages[p].child # 0 =>
      /\ F.marriages[p].status = "married"
      /\ \E b \in B : b.couple = p /\ b.child = F.marriages[p].child

\* Pending judgments of bonds are of couples and houses, at most one of them a new bond.
Pleas(J) ==
  /\ \A j \in J : j.kind \in {"marriage", "courtship"} => j.who \in Pairs /\ j.house \in House
  /\ \A j, k \in J : j.kind = "courtship" /\ k.kind = "courtship" => j.who = k.who

LifeInv ==
  /\ Shape
  /\ Placed(people, family)
  /\ Empty(people, silver.treasury, active)
  /\ Awaited(family, births, people)
  /\ Bonds(family, people)
  /\ Expected(family, births)
  /\ Pleas(asked \cup committed)

-----------------------------------------------------------------------------
(* Numbers and persons *)

\* The least of a set of naturals is one of them.
LEMMA LeastOf ==
  ASSUME NEW N, N \subseteq Nat, N # {}
  PROVE  Min(N) \in N /\ \A m \in N : Min(N) <= m
  BY LeastNatural DEF Min

\* People and houses are finitely many.
LEMMA FiniteWorld == IsFiniteSet(Soul) /\ IsFiniteSet(House) /\ IsFiniteSet(Adult)
<1>1. Adults \in Int /\ Houses \in Int /\ Adults + Kids \in Int
  BY LifeAssumption
<1>2. IsFiniteSet(1 .. Adults) /\ IsFiniteSet(1 .. Houses) /\ IsFiniteSet(1 .. (Adults + Kids))
  BY <1>1, FS_Interval
<1> QED  BY <1>2 DEF Soul, House, Adult

\* People and houses are numbered from one; 0 is neither.
LEMMA Numbers ==
  /\ Soul \subseteq Nat /\ House \subseteq Nat /\ Adult \subseteq Soul
  /\ 0 \notin House /\ 0 \notin Soul
  /\ \A p \in Pairs : p \subseteq Adult /\ p \subseteq Soul
  BY LifeAssumption DEF Soul, House, Adult, Pairs

\* A house found by somebody's row is a house.
LEMMA FirstHouse ==
  ASSUME NEW P, NEW x, HousesOf(P, x) # {}
  PROVE  Min(HousesOf(P, x)) \in HousesOf(P, x) /\ Min(HousesOf(P, x)) \in House
<1>1. HousesOf(P, x) \subseteq House
  BY DEF HousesOf
<1> QED  BY <1>1, Numbers, LeastOf

-----------------------------------------------------------------------------
(* Families after deaths *)

\* What the clean-up of the dead does: it widows and ends pregnancies and courtships.
LEMMA ClosedFamily ==
  ASSUME NEW F, FamilyRecord(F), NEW P, NEW D
  PROVE  LET G == CloseFamily(F, P, D)
         IN  /\ FamilyRecord(G) /\ G.parents = F.parents
             /\ DOMAIN G.marriages = DOMAIN F.marriages
             /\ \A p \in DOMAIN F.marriages :
                  p \cap D = {} => G.marriages[p] = F.marriages[p]
             /\ \A p \in DOMAIN F.marriages :
                  p \cap D # {} => /\ G.marriages[p].status = "widowed"
                                   /\ G.marriages[p].child = 0
             /\ G.courting = Spared(F.courting, D)
<1> DEFINE M == WidowedBy(F.marriages, D)
           H == HomesWithout(F.homes, P, D)
           C == Spared(F.courting, D)
           G == CloseFamily(F, P, D)
<1>1. /\ DOMAIN M = DOMAIN F.marriages
      /\ \A p \in DOMAIN F.marriages : p \cap D = {} => M[p] = F.marriages[p]
      /\ \A p \in DOMAIN F.marriages : p \cap D # {} =>
           M[p] = [F.marriages[p] EXCEPT !.status = "widowed", !.child = 0]
  BY DEF WidowedBy
<1>2. \A p \in DOMAIN F.marriages : F.marriages[p] \in MarriageRow
  BY DEF FamilyRecord
<1>3. ASSUME NEW p \in DOMAIN F.marriages, p \cap D # {}
      PROVE  M[p] \in MarriageRow /\ M[p].status = "widowed" /\ M[p].child = 0
  <2>1. F.marriages[p] \in MarriageRow
    BY <1>2
  <2>2. 0 \in 0 .. (Adults + Kids)
    BY LifeAssumption
  <2> QED  BY <1>1, <1>3, <2>1, <2>2 DEF MarriageRow
<1>4. M \in [DOMAIN F.marriages -> MarriageRow]
  <2>1. \A p \in DOMAIN F.marriages : M[p] \in MarriageRow
    BY <1>1, <1>2, <1>3
  <2>2. M = [p \in DOMAIN F.marriages |-> M[p]]
    BY DEF WidowedBy
  <2> HIDE DEF M
  <2> QED  BY <2>1, <2>2
<1>5. C \subseteq F.courting
  BY DEF Spared
<1>6. G = [F EXCEPT !.marriages = M, !.homes = H, !.courting = C]
  BY DEF CloseFamily
<1> HIDE DEF M, H, C, G
<1>7. /\ G = [marriages |-> M, homes |-> H, parents |-> F.parents, courting |-> C]
  BY <1>6 DEF FamilyRecord
<1>8. G.marriages = M /\ G.homes = H /\ G.parents = F.parents /\ G.courting = C
  BY <1>7
<1>9. FamilyRecord(G)
  BY <1>1, <1>4, <1>5, <1>7, <1>8 DEF FamilyRecord
<1>10. G.courting = Spared(F.courting, D)
  BY <1>8 DEF C
<1>11. /\ DOMAIN G.marriages = DOMAIN F.marriages
       /\ \A p \in DOMAIN F.marriages : p \cap D = {} => G.marriages[p] = F.marriages[p]
       /\ \A p \in DOMAIN F.marriages : p \cap D # {} =>
            G.marriages[p].status = "widowed" /\ G.marriages[p].child = 0
  BY <1>1, <1>3, <1>8
<1> QED  BY <1>8, <1>9, <1>10, <1>11 DEF G

\* The dead lose their bonds: what binds the others still holds of the living.
LEMMA BondsAfterDeaths ==
  ASSUME NEW F, FamilyRecord(F), NEW P, Bonds(F, P), NEW B, Expected(F, B),
         NEW Q, NEW D, NEW R, R.dead \subseteq P.dead \cup D
  PROVE  /\ Bonds(CloseFamily(F, Q, D), R) /\ Expected(CloseFamily(F, Q, D), B)
         /\ Married(CloseFamily(F, Q, D)) \subseteq Married(F)
<1> DEFINE G == CloseFamily(F, Q, D)
<1>1. /\ DOMAIN G.marriages = DOMAIN F.marriages
      /\ \A p \in DOMAIN F.marriages : p \cap D = {} => G.marriages[p] = F.marriages[p]
      /\ \A p \in DOMAIN F.marriages : p \cap D # {} =>
           G.marriages[p].status = "widowed" /\ G.marriages[p].child = 0
      /\ G.courting = Spared(F.courting, D)
  BY ClosedFamily
<1> HIDE DEF G
<1>2. \A p \in Married(G) : p \in Married(F) /\ p \cap D = {}
  BY <1>1 DEF Married
<1>3. \A p \in G.courting : p \in F.courting /\ p \cap D = {}
  BY <1>1 DEF Spared
<1>4. Bonds(G, R)
  <2>1. \A p, q \in Married(G) : p # q => p \cap q = {}
    BY <1>2 DEF Bonds
  <2>2. \A p \in Married(G) : p \cap R.dead = {}
    BY <1>2 DEF Bonds
  <2>3. \A p, q \in G.courting : p # q => p \cap q = {}
    BY <1>3 DEF Bonds
  <2>4. \A p \in G.courting : p \cap R.dead = {}
    BY <1>3 DEF Bonds
  <2> QED  BY <2>1, <2>2, <2>3, <2>4 DEF Bonds
<1>5. Expected(G, B)
  <2> SUFFICES ASSUME NEW p \in DOMAIN F.marriages, G.marriages[p].child # 0
               PROVE  /\ G.marriages[p].status = "married"
                      /\ \E b \in B : b.couple = p /\ b.child = G.marriages[p].child
    BY <1>1 DEF Expected
  <2>1. G.marriages[p] = F.marriages[p]
    BY <1>1
  <2> QED  BY <2>1 DEF Expected
<1> QED  BY <1>2, <1>4, <1>5 DEF G

-----------------------------------------------------------------------------
(* The beginning *)

\* Every opening world satisfies the invariant.
LEMMA Begins == Init => LifeInv
<1> SUFFICES ASSUME Init PROVE LifeInv
  OBVIOUS
<1>1. PICK w \in Settings :
       /\ people = [roster |-> [h \in House |-> IF h \in DOMAIN w.roster THEN w.roster[h] ELSE {}],
                    loose |-> w.loose, dead |-> {}, leaders |-> w.leaders,
                    known |-> DOMAIN w.roster]
       /\ active = DOMAIN w.roster
       /\ silver = [treasury |-> [h \in House |-> IF h \in DOMAIN w.roster THEN w.treasury[h] ELSE 0],
                    purse |-> [x \in Soul |-> IF x \in Adult THEN w.purse[x] ELSE 0], pool |-> 0]
       /\ family = [marriages |-> w.marriages, homes |-> w.homes, parents |-> <<>>, courting |-> w.courting]
  BY DEF Init
<1>2. /\ away = {} /\ births = {} /\ asked = {} /\ committed = {}
      /\ clock = [month |-> 1, reviewed |-> {}, annual |-> FALSE, falls |-> 0]
  BY DEF Init
<1>3. OpeningHouses(w) /\ OpeningFamilies(w)
  BY <1>1, LifeAssumption
<1>4. /\ DOMAIN w.roster \subseteq House
      /\ \A h \in DOMAIN w.roster : w.roster[h] \subseteq Adult /\ w.treasury[h] \in Nat
      /\ \A x \in Adult : w.purse[x] \in Nat
      /\ w.loose \subseteq Adult /\ w.leaders \subseteq Adult
  BY <1>3 DEF OpeningHouses
<1> DEFINE R == [h \in House |-> IF h \in DOMAIN w.roster THEN w.roster[h] ELSE {}]
           T == [h \in House |-> IF h \in DOMAIN w.roster THEN w.treasury[h] ELSE 0]
           U == [x \in Soul |-> IF x \in Adult THEN w.purse[x] ELSE 0]
<1>5. R \in [House -> SUBSET Soul] /\ T \in [House -> Nat] /\ U \in [Soul -> Nat]
  <2>1. R \in [House -> SUBSET Soul]
    BY <1>4, Numbers
  <2>2. T \in [House -> Nat]
    BY <1>4
  <2>3. U \in [Soul -> Nat]
    BY <1>4
  <2> QED  BY <2>1, <2>2, <2>3
<1>6. \A h \in House : /\ h \in DOMAIN w.roster => R[h] = w.roster[h]
                       /\ h \notin DOMAIN w.roster => R[h] = {} /\ T[h] = 0
  OBVIOUS
<1> HIDE DEF R, T, U
<1>7. /\ people.roster = R /\ people.loose = w.loose /\ people.dead = {}
      /\ people.leaders = w.leaders /\ people.known = DOMAIN w.roster
      /\ silver.treasury = T
  BY <1>1 DEF R, T
<1>8. PeopleRecord(people) /\ SilverRecord(silver)
  <2>1. PeopleRecord(people)
    BY <1>1, <1>4, <1>5, Numbers DEF PeopleRecord, R
  <2>2. SilverRecord(silver)
    BY <1>1, <1>5 DEF SilverRecord, T, U
  <2> QED  BY <2>1, <2>2
<1>9. /\ family.marriages = w.marriages /\ family.courting = w.courting
      /\ family.homes = w.homes /\ DOMAIN family.parents = {}
      /\ family = [marriages |-> family.marriages, homes |-> family.homes,
                   parents |-> family.parents, courting |-> family.courting]
  BY <1>1
<1>10. FamilyRecord(family)
  BY <1>3, <1>9 DEF FamilyRecord, OpeningFamilies
<1>11. Shape
  BY <1>1, <1>2, <1>7, <1>8, <1>10 DEF Shape, ClockRecord
<1>12. Placed(people, family)
  <2>1. \A h, g \in House : h # g => R[h] \cap R[g] = {}
    BY <1>3, <1>6 DEF OpeningHouses
  <2>2. \A h \in House : R[h] \cap w.loose = {}
    BY <1>3, <1>6 DEF OpeningHouses
  <2>3. \A x \in Soul : x \in Adult <=> x \in w.loose \/ \E h \in House : x \in R[h]
    <3> SUFFICES ASSUME NEW x \in Soul
                 PROVE  x \in Adult <=> x \in w.loose \/ \E h \in House : x \in R[h]
      OBVIOUS
    <3>1. x \in Adult => x \in w.loose \/ \E h \in House : x \in R[h]
      BY <1>3, <1>4, <1>6 DEF OpeningHouses
    <3>2. ASSUME NEW h \in House, x \in R[h] PROVE x \in Adult
      BY <1>4, <1>6, <3>2
    <3> QED  BY <1>4, <3>1, <3>2
  <2>4. \A h \in House : \A x, y \in R[h] \cap w.leaders : x = y
    BY <1>3, <1>6 DEF OpeningHouses
  <2> QED  BY <1>7, <1>9, <2>1, <2>2, <2>3, <2>4 DEF Placed
<1>13. Empty(people, silver.treasury, active)
  BY <1>1, <1>6, <1>7 DEF Empty, Members, Alive
<1>14. Awaited(family, births, people) /\ Pleas(asked \cup committed)
  BY <1>2 DEF Awaited, Pleas
<1>15. Bonds(family, people) /\ Expected(family, births)
  <2>1. \A p \in DOMAIN w.marriages : w.marriages[p].child = 0
    BY <1>3 DEF OpeningFamilies
  <2>2. \A p, q \in Married(family) : p # q => p \cap q = {}
    BY <1>3, <1>9 DEF OpeningFamilies, Married
  <2>3. \A p, q \in family.courting : p # q => p \cap q = {}
    BY <1>3, <1>9 DEF OpeningFamilies
  <2> QED  BY <1>7, <1>9, <2>1, <2>2, <2>3 DEF Bonds, Expected
<1> QED  BY <1>11, <1>12, <1>13, <1>14, <1>15 DEF LifeInv

-----------------------------------------------------------------------------
(* Silver *)

Worth(S) == SumFunction(S.treasury) + SumFunction(S.purse) + S.pool

\* What a change of the accounts may touch: the treasuries of H.
Booked(S, R, H) ==
  /\ SilverRecord(R) /\ Worth(R) = Worth(S)
  /\ \A g \in House \ H : R.treasury[g] = S.treasury[g]

\* The parts of the accounts, and their sums.
LEMMA Accounts ==
  ASSUME NEW S, SilverRecord(S)
  PROVE  /\ S.treasury \in [House -> Nat] /\ S.purse \in [Soul -> Nat] /\ S.pool \in Nat
         /\ S.treasury \in [House -> Int] /\ S.purse \in [Soul -> Int]
         /\ SumFunction(S.treasury) \in Int /\ SumFunction(S.purse) \in Int
<1>1. S.treasury \in [House -> Nat] /\ S.purse \in [Soul -> Nat] /\ S.pool \in Nat
  BY DEF SilverRecord
<1>2. S.treasury \in [House -> Int] /\ S.purse \in [Soul -> Int]
  BY <1>1
<1> QED  BY <1>1, <1>2, FiniteWorld, SumType

\* Upkeep goes to the market.
LEMMA UpkeepIsBooked ==
  ASSUME NEW S, SilverRecord(S), NEW h \in House
  PROVE  Booked(S, Maintained(S, h), {h})
<1> DEFINE cash == Min({S.treasury[h], Upkeep})
           T == [S.treasury EXCEPT ![h] = @ - cash]
           R == Maintained(S, h)
<1>1. S.treasury[h] \in Nat /\ Upkeep \in Nat
  BY Accounts, LifeAssumption
<1>2. cash \in Nat /\ cash <= S.treasury[h]
  <2>1. {S.treasury[h], Upkeep} \subseteq Nat
    BY <1>1
  <2>2. cash \in {S.treasury[h], Upkeep} /\ \A m \in {S.treasury[h], Upkeep} : cash <= m
    BY <2>1, LeastOf
  <2> HIDE DEF cash
  <2> QED  BY <1>1, <2>2
<1>3. R = [S EXCEPT !.treasury = T, !.pool = @ + cash]
  BY DEF Maintained
<1> HIDE DEF cash
<1>4. T \in [House -> Nat] /\ T[h] = S.treasury[h] - cash
  BY <1>1, <1>2, Accounts
<1>5. \A g \in House \ {h} : T[g] = S.treasury[g]
  BY Accounts
<1> HIDE DEF T, R
<1>6. /\ R = [treasury |-> T, purse |-> S.purse, pool |-> S.pool + cash]
  BY <1>3 DEF SilverRecord
<1>7. R.treasury = T /\ R.purse = S.purse /\ R.pool = S.pool + cash
  BY <1>6
<1>8. SilverRecord(R)
  BY <1>2, <1>4, <1>6, Accounts DEF SilverRecord
<1>9. SumFunction(T) = SumFunction(S.treasury) - S.treasury[h] + T[h]
  <2>1. T \in [House -> Int] /\ S.treasury \in [House -> Int]
    BY <1>4, Accounts
  <2> QED  BY <1>5, <2>1, FiniteWorld, SumUpdate
<1>10. Worth(R) = Worth(S)
  <2>1. /\ SumFunction(S.treasury) \in Int /\ SumFunction(S.purse) \in Int /\ S.pool \in Nat
    BY Accounts
  <2>2. SumFunction(T) = SumFunction(S.treasury) - cash
    BY <1>1, <1>2, <1>4, <1>9, <2>1
  <2> QED  BY <1>2, <1>7, <2>1, <2>2 DEF Worth
<1> QED  BY <1>5, <1>7, <1>8, <1>10 DEF Booked, R

\* The lesser of two amounts.
LEMMA LesserOf ==
  ASSUME NEW a \in Nat, NEW b \in Nat PROVE Min({a, b}) = IF b <= a THEN b ELSE a
<1>1. {a, b} \subseteq Nat
  OBVIOUS
<1>2. Min({a, b}) \in {a, b} /\ \A m \in {a, b} : Min({a, b}) <= m
  BY <1>1, LeastOf
<1> DEFINE c == Min({a, b})
<1> HIDE DEF c
<1>3. (c = a \/ c = b) /\ c <= a /\ c <= b
  BY <1>2 DEF c
<1>4. c = IF b <= a THEN b ELSE a
  BY <1>3
<1> QED  BY <1>4 DEF c

\* The pay of a house is at most its treasury.
LEMMA PayIsCovered ==
  ASSUME NEW S, SilverRecord(S), NEW P, PeopleRecord(P), NEW h \in House
  PROVE  /\ Payroll(S, P, h) \in [Soul -> Nat]
         /\ SumFunction(Payroll(S, P, h)) \in Nat
         /\ SumFunction(Payroll(S, P, h)) <= S.treasury[h]
<1> DEFINE n == Adults + Kids
           W == Members(P, h) \cap Adult
           T == S.treasury[h]
           f == [x \in Soul |-> Stipend]
           b == [x \in Soul |-> Cardinality({y \in W : y < x}) * Stipend]
           g == Payroll(S, P, h)
<1>1. n \in Nat /\ Stipend \in Nat /\ Soul = 1 .. n
  BY LifeAssumption DEF Soul
<1>2. W \subseteq Soul /\ IsFiniteSet(W) /\ T \in Nat
  <2>1. W \subseteq Adult
    OBVIOUS
  <2>2. IsFiniteSet(W)
    BY <2>1, FiniteWorld, FS_Subset
  <2> QED  BY <2>1, <2>2, Numbers, Accounts
<1>3. f \in [Soul -> Nat]
  BY <1>1
<1>4. \A x \in Soul : Cardinality({y \in W : y < x}) \in Nat
  <2> SUFFICES ASSUME NEW x \in Soul PROVE Cardinality({y \in W : y < x}) \in Nat
    OBVIOUS
  <2>1. {y \in W : y < x} \subseteq W
    OBVIOUS
  <2>2. IsFiniteSet({y \in W : y < x})
    BY <1>2, <2>1, FS_Subset
  <2> QED  BY <2>2, FS_CardinalityType
<1>5. \A x \in Soul : b[x] \in Nat
  <2> SUFFICES ASSUME NEW x \in Soul PROVE b[x] \in Nat
    OBVIOUS
  <2>1. PICK c \in Nat : c = Cardinality({y \in W : y < x})
    BY <1>4
  <2>2. b[x] = c * Stipend
    BY <2>1
  <2>3. c * Stipend \in Nat
    BY <1>1
  <2> QED  BY <2>2, <2>3
<1>6. \A x \in Soul : b[x] = SumFunctionOnSet(f, Under(W, x))
  <2> SUFFICES ASSUME NEW x \in Soul PROVE b[x] = SumFunctionOnSet(f, Under(W, x))
    OBVIOUS
  <2>1. Under(W, x) \subseteq W /\ Under(W, x) = {y \in W : y < x}
    BY DEF Under
  <2>2. IsFiniteSet(Under(W, x))
    BY <1>2, <2>1, FS_Subset
  <2>3. \A y \in Under(W, x) : f[y] = Stipend
    BY <1>2, <2>1
  <2>4. Stipend \in Int
    BY <1>1
  <2> HIDE DEF f
  <2>5. SumFunctionOnSet(f, Under(W, x)) = Cardinality(Under(W, x)) * Stipend
    BY <2>2, <2>3, <2>4, SumOfEqual
  <2> QED  BY <2>1, <2>5
<1>7. \A x \in Soul : g[x] = IF x \notin W \/ T - b[x] <= 0 THEN 0
                             ELSE IF f[x] <= T - b[x] THEN f[x] ELSE T - b[x]
  <2> SUFFICES ASSUME NEW x \in Soul
               PROVE  g[x] = IF x \notin W \/ T - b[x] <= 0 THEN 0
                             ELSE IF f[x] <= T - b[x] THEN f[x] ELSE T - b[x]
    OBVIOUS
  <2>1. f[x] = Stipend
    OBVIOUS
  <2>2. g[x] = IF x \notin W \/ T - b[x] <= 0 THEN 0 ELSE Min({T - b[x], Stipend})
    BY DEF Payroll, Paid
  <2>3. b[x] \in Nat
    BY <1>5
  <2> HIDE DEF b, g, f, T, W
  <2>4. CASE T - b[x] <= 0
    BY <2>2, <2>4
  <2>5. CASE ~(T - b[x] <= 0)
    <3>1. T - b[x] \in Nat
      BY <1>2, <2>3, <2>5
    <3>2. Min({T - b[x], Stipend}) = IF Stipend <= T - b[x] THEN Stipend ELSE T - b[x]
      BY <1>1, <3>1, LesserOf
    <3> QED  BY <2>1, <2>2, <3>2
  <2> QED  BY <2>4, <2>5
<1>8. g = [x \in Soul |-> g[x]]
  BY DEF Payroll
<1>9. b \in [Soul -> Int]
  BY <1>5
<1> HIDE DEF b, g, f, T, W, n
<1>10. g \in [Soul -> Nat]
  <2>1. \A x \in Soul : g[x] \in Nat
    BY <1>2, <1>3, <1>5, <1>7
  <2> QED  BY <1>8, <2>1
<1>11. g \in [Soul -> Int]
  BY <1>10
<1>12. InTurn(g, f, W, T, n)
  BY <1>1, <1>2, <1>3, <1>6, <1>7, <1>9, <1>11 DEF InTurn
<1>13. /\ SumFunction(g) = IF SumFunctionOnSet(f, W) <= T THEN SumFunctionOnSet(f, W) ELSE T
       /\ SumFunctionOnSet(f, W) \in Nat
  BY <1>12, PaidInOrder
<1>14. SumFunction(g) \in Nat /\ SumFunction(g) <= T
  BY <1>2, <1>13
<1> QED  BY <1>10, <1>14 DEF g, T

\* Stipends go from the treasury to the purses.
LEMMA PayIsBooked ==
  ASSUME NEW S, SilverRecord(S), NEW P, PeopleRecord(P), NEW h \in House
  PROVE  Booked(S, Compensated(S, P, h), {h})
<1> DEFINE g == Payroll(S, P, h)
           cost == SumFunction(g)
           T == [S.treasury EXCEPT ![h] = @ - cost]
           U == PaidOut(S, P, h)
           R == Compensated(S, P, h)
<1>1. g \in [Soul -> Nat] /\ cost \in Nat /\ cost <= S.treasury[h] /\ S.treasury[h] \in Nat
  BY PayIsCovered, Accounts
<1>2. R = [S EXCEPT !.treasury = T, !.purse = U]
  BY DEF Compensated
<1>3. U = [x \in Soul |-> S.purse[x] + g[x]]
  BY DEF PaidOut
<1> HIDE DEF g, U
<1>4. U \in [Soul -> Nat] /\ \A x \in Soul : U[x] = S.purse[x] + g[x]
  BY <1>1, <1>3, Accounts
<1> HIDE DEF cost
<1>5. T \in [House -> Nat] /\ T[h] = S.treasury[h] - cost
  BY <1>1, Accounts
<1>6. \A x \in House \ {h} : T[x] = S.treasury[x]
  BY Accounts
<1> HIDE DEF T, R
<1>7. R = [treasury |-> T, purse |-> U, pool |-> S.pool]
  BY <1>2 DEF SilverRecord
<1>8. R.treasury = T /\ R.purse = U /\ R.pool = S.pool
  BY <1>7
<1>9. SilverRecord(R)
  BY <1>4, <1>5, <1>7, Accounts DEF SilverRecord
<1>10. T \in [House -> Int] /\ U \in [Soul -> Int] /\ g \in [Soul -> Int]
  BY <1>1, <1>4, <1>5
<1>11. SumFunction(T) = SumFunction(S.treasury) - S.treasury[h] + T[h]
  BY <1>6, <1>10, Accounts, FiniteWorld, SumUpdate
<1>12. SumFunction(U) = SumFunction(S.purse) + SumFunction(g)
  <2>1. S.purse \in [Soul -> Int]
    BY Accounts
  <2> QED  BY <1>4, <1>10, <2>1, FiniteWorld, SumOfTwo
<1>13. Worth(R) = Worth(S)
  <2>1. SumFunction(S.treasury) \in Int /\ SumFunction(S.purse) \in Int /\ S.pool \in Nat
    BY Accounts
  <2>2. SumFunction(g) = cost
    BY DEF cost
  <2>3. SumFunction(T) = SumFunction(S.treasury) - cost
    BY <1>1, <1>5, <1>11, <2>1
  <2> QED  BY <1>1, <1>8, <1>12, <2>1, <2>2, <2>3 DEF Worth
<1> QED  BY <1>6, <1>8, <1>9, <1>13 DEF Booked, R

\* An heir is somebody else alive.
LEMMA HeirLives ==
  ASSUME NEW F, FamilyRecord(F), NEW P, NEW d, d \in P.dead, Heir(F, P, d) # 0
  PROVE  Heir(F, P, d) \in Soul /\ Heir(F, P, d) # d
<1> DEFINE couples == {p \in DOMAIN F.marriages : d \in p}
           spouses == Alive(P, (UNION couples) \ {d})
           children == Alive(P, {k \in DOMAIN F.parents : d \in F.parents[k]})
<1>1. spouses \subseteq Soul /\ d \notin spouses
  BY Numbers DEF FamilyRecord, Alive
<1>2. children \subseteq Soul /\ d \notin children
  BY DEF FamilyRecord, Alive
<1>3. Heir(F, P, d) = CASE spouses # {} -> Min(spouses)
                        [] spouses = {} /\ children # {} -> Min(children)
                        [] OTHER -> 0
  BY DEF Heir
<1> HIDE DEF spouses, children
<1>4. CASE spouses # {}
  <2>1. spouses \subseteq Nat
    BY <1>1, Numbers
  <2>2. Min(spouses) \in spouses
    BY <1>4, <2>1, LeastOf
  <2> QED  BY <1>1, <1>3, <1>4, <2>2
<1>5. CASE spouses = {} /\ children # {}
  <2>1. children \subseteq Nat
    BY <1>2, Numbers
  <2>2. Min(children) \in children
    BY <1>5, <2>1, LeastOf
  <2> QED  BY <1>2, <1>3, <1>5, <2>2
<1>6. CASE spouses = {} /\ children = {}
  BY <1>3, <1>6
<1> QED  BY <1>4, <1>5, <1>6

\* An estate goes to a person, to a house of the dead, or to the market.
LEMMA EstateIsBooked ==
  ASSUME NEW S, SilverRecord(S), NEW F, FamilyRecord(F), NEW P, NEW d \in Soul, d \in P.dead
  PROVE  Booked(S, Bequeath(S, F, P, d), HousesOf(P, d))
<1> DEFINE heir == Heir(F, P, d)
           home == Min(HousesOf(P, d))
           cash == S.purse[d]
           U == [S.purse EXCEPT ![d] = 0]
           V == [S.purse EXCEPT ![heir] = @ + cash, ![d] = 0]
           T == [S.treasury EXCEPT ![home] = @ + cash]
           R == Bequeath(S, F, P, d)
<1>1. cash \in Nat /\ S.purse \in [Soul -> Nat] /\ S.treasury \in [House -> Nat] /\ S.pool \in Nat
  BY Accounts
<1>2. /\ U \in [Soul -> Nat] /\ U[d] = 0 /\ U \in [Soul -> Int]
      /\ \A y \in Soul \ {d} : U[y] = S.purse[y]
  BY <1>1
<1>3. S = [treasury |-> S.treasury, purse |-> S.purse, pool |-> S.pool]
  BY DEF SilverRecord
<1>4. /\ SumFunction(S.treasury) \in Int /\ SumFunction(S.purse) \in Int
      /\ S.purse \in [Soul -> Int] /\ S.treasury \in [House -> Int]
  BY Accounts
<1>5. SumFunction(U) = SumFunction(S.purse) - cash
  <2>1. SumFunction(U) = SumFunction(S.purse) - S.purse[d] + U[d]
    <3> HIDE DEF U
    <3> QED  BY <1>2, <1>4, FiniteWorld, SumUpdate
  <2> QED  BY <1>1, <1>2, <1>4, <2>1
<1>6. CASE heir # 0
  <2>1. heir \in Soul /\ heir # d
    BY <1>6, HeirLives
  <2>2. R = [S EXCEPT !.purse = V]
    BY <1>3, <1>6 DEF Bequeath
  <2> HIDE DEF heir, R
  <2>3. /\ V \in [Soul -> Nat] /\ V[d] = 0 /\ V[heir] = S.purse[heir] + cash
        /\ \A y \in Soul \ {d, heir} : V[y] = S.purse[y]
    BY <1>1, <2>1
  <2> HIDE DEF V
  <2>4. V \in [Soul -> Int] /\ S.purse[heir] \in Nat
    BY <1>1, <2>1, <2>3
  <2>5. SumFunction(V) = SumFunction(S.purse) - S.purse[d] + V[d] - S.purse[heir] + V[heir]
    BY <1>4, <2>1, <2>3, <2>4, FiniteWorld, SumTransfer
  <2>6. SumFunction(V) = SumFunction(S.purse)
    BY <1>1, <1>4, <2>3, <2>4, <2>5
  <2>7. R = [treasury |-> S.treasury, purse |-> V, pool |-> S.pool]
    BY <1>3, <2>2
  <2> QED  BY <1>1, <2>3, <2>6, <2>7 DEF Booked, SilverRecord, Worth, R
<1>7. CASE heir = 0 /\ HousesOf(P, d) # {}
  <2>1. home \in House /\ home \in HousesOf(P, d)
    BY <1>7, FirstHouse
  <2>2. R = [S EXCEPT !.treasury = T, !.purse = U]
    BY <1>3, <1>7 DEF Bequeath
  <2> HIDE DEF home, R, U
  <2>3. /\ T \in [House -> Nat] /\ T[home] = S.treasury[home] + cash /\ S.treasury[home] \in Nat
        /\ \A g \in House \ {home} : T[g] = S.treasury[g]
    BY <1>1, <2>1
  <2> HIDE DEF T
  <2>4. T \in [House -> Int]
    BY <2>3
  <2>5. SumFunction(T) = SumFunction(S.treasury) - S.treasury[home] + T[home]
    BY <1>4, <2>1, <2>3, <2>4, FiniteWorld, SumUpdate
  <2>6. SumFunction(T) = SumFunction(S.treasury) + cash
    BY <1>1, <1>4, <2>3, <2>5
  <2>7. R = [treasury |-> T, purse |-> U, pool |-> S.pool]
    BY <1>3, <2>2
  <2>8. R.treasury = T /\ R.purse = U /\ R.pool = S.pool
    BY <2>7
  <2>9. Worth(R) = Worth(S)
    BY <1>1, <1>4, <1>5, <2>6, <2>8 DEF Worth
  <2>10. SilverRecord(R)
    BY <1>1, <1>2, <2>3, <2>7 DEF SilverRecord
  <2>11. \A g \in House \ HousesOf(P, d) : R.treasury[g] = S.treasury[g]
    BY <2>1, <2>3, <2>8
  <2> QED  BY <2>9, <2>10, <2>11 DEF Booked, R
<1>8. CASE heir = 0 /\ HousesOf(P, d) = {}
  <2>1. R = [S EXCEPT !.pool = @ + cash, !.purse = U]
    BY <1>3, <1>8 DEF Bequeath
  <2> HIDE DEF R, U
  <2>2. R = [treasury |-> S.treasury, purse |-> U, pool |-> S.pool + cash]
    BY <1>3, <2>1
  <2>3. R.treasury = S.treasury /\ R.purse = U /\ R.pool = S.pool + cash
    BY <2>2
  <2>4. Worth(R) = Worth(S)
    BY <1>1, <1>4, <1>5, <2>3 DEF Worth
  <2>5. SilverRecord(R)
    BY <1>1, <1>2, <2>2 DEF SilverRecord
  <2> QED  BY <2>3, <2>4, <2>5 DEF Booked, R
<1> QED  BY <1>6, <1>7, <1>8

-----------------------------------------------------------------------------
(* Transitions *)

\* What each kind of transition is about.
Dissolves(P, t) ==
  t.kind = "dissolve" /\ t.from \in active /\ t.to = 0 /\ t.who = Members(P, t.from) /\ t.leader = 0
Merges(P, t) ==
  /\ t.kind = "merge" /\ t.from \in active /\ t.to \in active /\ t.from # t.to
  /\ t.who = Members(P, t.from) /\ t.leader = 0
Parts(P, t) ==
  /\ t.kind = "split" /\ t.from \in active /\ t.to \in Unfounded(P)
  /\ t.who \subseteq Members(P, t.from) \cap Adult /\ t.leader \in t.who
  /\ Cardinality(Members(P, t.from)) >= SplitSize
Founds(P, S, t) ==
  /\ t.kind = "found" /\ t.from = 0 /\ t.to \in Unfounded(P)
  /\ t.who \subseteq P.loose \cap Adult /\ t.who \cap P.dead = {} /\ t.leader \in t.who
  /\ SumFunctionOnSet(S.purse, t.who) >= Startup * Cardinality(t.who)

\* The free number of a new house.
LEMMA NextHouse ==
  ASSUME NEW P, Unfounded(P) # {} PROVE Min(Unfounded(P)) \in Unfounded(P)
<1>1. Unfounded(P) \subseteq Nat
  BY Numbers DEF Unfounded
<1> QED  BY <1>1, LeastOf

\* A transition that is proposed is of one of these kinds.
LEMMA Proposed ==
  ASSUME active \subseteq House, NEW P, NEW S, NEW t \in Proposals(P, S)
  PROVE  Dissolves(P, t) \/ Merges(P, t) \/ Parts(P, t) \/ Founds(P, S, t)
<1>1. CASE Insolvent(P, S) # {}
  <2>1. t = Transition("dissolve", Min(Insolvent(P, S)), 0, Members(P, Min(Insolvent(P, S))), 0)
    BY <1>1 DEF Proposals
  <2>2. Insolvent(P, S) \subseteq active /\ Insolvent(P, S) \subseteq Nat
    BY Numbers DEF Insolvent
  <2>3. Min(Insolvent(P, S)) \in active
    BY <1>1, <2>2, LeastOf
  <2> QED  BY <2>1, <2>3 DEF Transition, Dissolves
<1>2. CASE Insolvent(P, S) = {}
  <2>1. t \in Mergers(P) \/ t \in Splits(P) \/ t \in Foundations(P, S)
    BY <1>2 DEF Proposals
  <2>2. CASE t \in Mergers(P)
    <3>1. PICK ab \in Neighbours(P) : t = Absorption(P, ab[1], ab[2])
      BY <2>2 DEF Mergers
    <3>2. ab[1] \in active /\ ab[2] \in active /\ ab[1] < ab[2]
      BY <3>1 DEF Neighbours
    <3>3. ab[1] # ab[2]
      <4>1. PICK m, n : m = ab[1] /\ n = ab[2]
        OBVIOUS
      <4>2. m \in Nat /\ n \in Nat /\ m < n
        BY <3>2, <4>1, Numbers
      <4> QED  BY <4>1, <4>2
    <3> QED  BY <3>1, <3>2, <3>3 DEF Absorption, Transition, Merges
  <2>3. CASE t \in Splits(P)
    <3>1. PICK h \in Divided(P) :
            t \in {Transition("split", h, Min(Unfounded(P)), wc[1], wc[2]) : wc \in Dissidents(P, h)}
      BY <2>3 DEF Splits
    <3>2. PICK wc \in Dissidents(P, h) : t = Transition("split", h, Min(Unfounded(P)), wc[1], wc[2])
      BY <3>1
    <3>3. h \in active /\ Unfounded(P) # {} /\ Cardinality(Members(P, h)) >= SplitSize
      BY DEF Divided
    <3>4. wc[1] \subseteq Members(P, h) \cap Adult /\ wc[2] \in wc[1]
      BY DEF Dissidents
    <3>5. Min(Unfounded(P)) \in Unfounded(P)
      BY <3>3, NextHouse
    <3> QED  BY <3>2, <3>3, <3>4, <3>5 DEF Transition, Parts
  <2>4. CASE t \in Foundations(P, S)
    <3>1. Unfounded(P) # {}
      BY <2>4 DEF Foundations
    <3>2. PICK wl \in Founders(P, S) : t = Transition("found", 0, Min(Unfounded(P)), wl[1], wl[2])
      BY <2>4, <3>1 DEF Foundations
    <3>3. /\ wl[1] \subseteq P.loose \cap Adult /\ wl[1] \cap P.dead = {} /\ wl[2] \in wl[1]
          /\ SumFunctionOnSet(S.purse, wl[1]) >= Startup * Cardinality(wl[1])
      BY DEF Founders, Alive
    <3>4. Min(Unfounded(P)) \in Unfounded(P)
      BY <3>1, NextHouse
    <3> QED  BY <3>2, <3>3, <3>4 DEF Transition, Founds
  <2> QED  BY <2>1, <2>2, <2>3, <2>4
<1> QED  BY <1>1, <1>2

\* The share of a house that some of its members take with them.
LEMMA ShareOf ==
  ASSUME NEW T \in Nat, NEW w \in Nat, NEW m \in Nat, w <= m, 0 < m
  PROVE  (T * w) \div m \in Nat /\ (T * w) \div m <= T
<1> DEFINE p == T * w
           q == p \div m
<1>1. p \in Nat /\ p <= T * m
  <2>1. PICK k \in Nat : m = w + k
    <3>1. m - w \in Nat
      OBVIOUS
    <3> QED  BY <3>1
  <2>2. T * w \in Nat /\ T * k \in Nat
    OBVIOUS
  <2>3. T * m = T * w + T * k
    BY <2>1
  <2> QED  BY <2>2, <2>3
<1> HIDE DEF p
<1>2. q \in Int /\ m * q <= p /\ p < m * (q + 1)
  BY <1>1
<1> HIDE DEF q
<1>3. q >= 0
  <2> SUFFICES ASSUME q + 1 <= 0 PROVE FALSE
    BY <1>2
  <2>1. m * (q + 1) <= 0
    BY <1>2
  <2> QED  BY <1>1, <1>2, <2>1
<1>4. q <= T
  <2> SUFFICES ASSUME q >= T + 1 PROVE FALSE
    BY <1>2, <1>3
  <2>1. PICK k \in Nat : q = T + 1 + k
    <3>1. q - (T + 1) \in Nat
      BY <1>2, <1>3
    <3> QED  BY <1>2, <3>1
  <2>2. m * q = m * T + m + m * k /\ m * k \in Nat
    BY <2>1
  <2>3. m * q > m * T
    BY <2>2
  <2> QED  BY <1>1, <1>2, <2>3
<1> QED  BY <1>2, <1>3, <1>4 DEF q, p

\* What the founders pay is what the house costs, and nobody pays more than he has.
LEMMA FoundersPay ==
  ASSUME NEW S, SilverRecord(S), NEW who, who \subseteq Soul,
         SumFunctionOnSet(S.purse, who) >= Startup * Cardinality(who)
  PROVE  /\ PursesAfter(S, who) \in [Soul -> Nat]
         /\ Startup * Cardinality(who) \in Nat
         /\ SumFunction(PursesAfter(S, who)) = SumFunction(S.purse) - Startup * Cardinality(who)
<1> DEFINE n == Adults + Kids
           T == Startup * Cardinality(who)
           f == S.purse
           b == [x \in Soul |-> SumFunctionOnSet(f, {y \in who : y < x})]
           g == [x \in Soul |-> IF x \in who THEN Share(S, who, x) ELSE 0]
           U == PursesAfter(S, who)
<1>1. n \in Nat /\ Startup \in Nat /\ Soul = 1 .. n
  BY LifeAssumption DEF Soul
<1>2. f \in [Soul -> Nat] /\ f \in [Soul -> Int] /\ SumFunction(f) \in Int
  BY Accounts
<1>3. T \in Nat
  <2>1. Cardinality(who) \in Nat
    BY FiniteWorld, FS_Subset, FS_CardinalityType
  <2>2. PICK c \in Nat : c = Cardinality(who)
    BY <2>1
  <2> QED  BY <1>1, <2>2
<1> HIDE DEF T, f
<1>4. \A x \in Soul : b[x] = SumFunctionOnSet(f, Under(who, x))
  BY DEF Under
<1>5. \A x \in Soul : b[x] \in Int
  <2> SUFFICES ASSUME NEW x \in Soul PROVE b[x] \in Int
    OBVIOUS
  <2>1. who \subseteq 1 .. n /\ f \in [1 .. n -> Int] /\ x \in 1 .. (n + 1)
    BY <1>1, <1>2
  <2>2. SumFunctionOnSet(f, Under(who, x)) = SumFunction(Below(f, n, who, x))
    BY <1>1, <2>1, BelowAll
  <2>3. SumFunction(Below(f, n, who, x)) \in Int
    BY <1>1, <2>1, BelowAll
  <2> QED  BY <1>4, <2>2, <2>3
<1>6. \A x \in Soul : g[x] = IF x \notin who \/ T - b[x] <= 0 THEN 0
                             ELSE IF f[x] <= T - b[x] THEN f[x] ELSE T - b[x]
  <2> SUFFICES ASSUME NEW x \in Soul
               PROVE  g[x] = IF x \notin who \/ T - b[x] <= 0 THEN 0
                             ELSE IF f[x] <= T - b[x] THEN f[x] ELSE T - b[x]
    OBVIOUS
  <2>1. b[x] \in Int /\ f[x] \in Nat
    BY <1>2, <1>5
  <2>2. Share(S, who, x) = IF T - b[x] <= 0 THEN 0 ELSE Min({f[x], T - b[x]})
    BY DEF Share, T, f
  <2>3. g[x] = IF x \in who THEN Share(S, who, x) ELSE 0
    OBVIOUS
  <2> HIDE DEF b, g
  <2>4. CASE T - b[x] <= 0
    BY <2>2, <2>3, <2>4
  <2>5. CASE ~(T - b[x] <= 0)
    <3>1. T - b[x] \in Nat
      BY <1>3, <2>1, <2>5
    <3>2. {f[x], T - b[x]} = {T - b[x], f[x]}
      OBVIOUS
    <3>3. Min({T - b[x], f[x]}) = IF f[x] <= T - b[x] THEN f[x] ELSE T - b[x]
      BY <2>1, <3>1, LesserOf
    <3> QED  BY <2>2, <2>3, <2>5, <3>2, <3>3
  <2> QED  BY <2>4, <2>5
<1>7. g = [x \in Soul |-> g[x]] /\ b \in [Soul -> Int]
  BY <1>5
<1>8. U = [x \in Soul |-> IF x \in who THEN f[x] - Share(S, who, x) ELSE f[x]]
  BY DEF PursesAfter, f
<1>9. \A x \in Soul : U[x] = f[x] - g[x]
  BY <1>2, <1>8
<1> HIDE DEF b, g, U
<1>10. \A x \in Soul : g[x] \in Nat /\ g[x] <= f[x]
  <2> SUFFICES ASSUME NEW x \in Soul PROVE g[x] \in Nat /\ g[x] <= f[x]
    OBVIOUS
  <2>1. b[x] \in Int /\ f[x] \in Nat
    BY <1>2, <1>5
  <2> QED  BY <1>3, <1>6, <2>1
<1>11. g \in [Soul -> Int]
  BY <1>7, <1>10
<1> HIDE DEF n
<1>12. InTurn(g, f, who, T, n)
  BY <1>1, <1>2, <1>3, <1>4, <1>6, <1>7, <1>11 DEF InTurn
<1>13. SumFunction(g) = T
  <2>1. SumFunction(g) = IF SumFunctionOnSet(f, who) <= T THEN SumFunctionOnSet(f, who) ELSE T
    BY <1>12, PaidInOrder
  <2>2. SumFunctionOnSet(f, who) \in Nat
    BY <1>12, PaidInOrder
  <2>3. SumFunctionOnSet(f, who) >= T
    BY DEF f, T
  <2> QED  BY <1>3, <2>1, <2>2, <2>3
<1>14. U \in [Soul -> Nat] /\ U \in [Soul -> Int]
  <2>1. \A x \in Soul : U[x] \in Nat
    BY <1>2, <1>9, <1>10
  <2>2. U = [x \in Soul |-> U[x]]
    BY <1>8
  <2> QED  BY <2>1, <2>2
<1>15. SumFunction(f) = SumFunction(U) + SumFunction(g)
  <2>1. \A x \in Soul : f[x] = U[x] + g[x]
    BY <1>2, <1>9, <1>10
  <2> QED  BY <1>2, <1>11, <1>14, <2>1, FiniteWorld, SumOfTwo
<1>16. SumFunction(U) = SumFunction(f) - T
  <2>1. SumFunction(U) \in Int
    BY <1>14, FiniteWorld, SumType
  <2> QED  BY <1>2, <1>3, <1>13, <1>15, <2>1
<1> QED  BY <1>3, <1>14, <1>16 DEF U, T, f

\* The silver of a transition, by kind, where the new house has no treasury yet.
LEMMA TransitionIsBooked ==
  ASSUME active \subseteq House, NEW S, SilverRecord(S), NEW P, PeopleRecord(P),
         active \subseteq P.known, \A h \in House \ P.known : S.treasury[h] = 0,
         NEW t \in Proposals(P, S)
  PROVE  Booked(S, TransitionSilver(S, P, t), TouchedRosters(t) \cap House)
<1> DEFINE R == TransitionSilver(S, P, t)
<1>1. S = [treasury |-> S.treasury, purse |-> S.purse, pool |-> S.pool]
  BY DEF SilverRecord
<1>2. /\ S.treasury \in [House -> Nat] /\ S.purse \in [Soul -> Nat] /\ S.pool \in Nat
      /\ S.treasury \in [House -> Int] /\ S.purse \in [Soul -> Int]
      /\ SumFunction(S.treasury) \in Int /\ SumFunction(S.purse) \in Int
  BY Accounts
<1>3. CASE Dissolves(P, t)
  <2>1. R = S
    BY <1>3 DEF Dissolves, TransitionSilver
  <2> HIDE DEF R
  <2> QED  BY <2>1 DEF Booked, R
<1>4. CASE Merges(P, t)
  <2> DEFINE T == [S.treasury EXCEPT ![t.to] = @ + S.treasury[t.from], ![t.from] = 0]
  <2>1. t.to \in House /\ t.from \in House /\ t.to # t.from
    BY <1>4 DEF Merges
  <2>2. R = [S EXCEPT !.treasury = T]
    BY <1>1, <1>4 DEF Merges, TransitionSilver
  <2>3. /\ T \in [House -> Nat] /\ T[t.from] = 0 /\ T[t.to] = S.treasury[t.to] + S.treasury[t.from]
        /\ \A g \in House \ {t.to, t.from} : T[g] = S.treasury[g]
    BY <1>2, <2>1
  <2> HIDE DEF T, R
  <2>4. T \in [House -> Int] /\ S.treasury[t.to] \in Nat /\ S.treasury[t.from] \in Nat
    BY <1>2, <2>1, <2>3
  <2>5. SumFunction(T) = SumFunction(S.treasury) - S.treasury[t.to] + T[t.to]
                           - S.treasury[t.from] + T[t.from]
    BY <1>2, <2>1, <2>3, <2>4, FiniteWorld, SumTransfer
  <2>6. SumFunction(T) = SumFunction(S.treasury)
    BY <1>2, <2>3, <2>4, <2>5
  <2>7. R = [treasury |-> T, purse |-> S.purse, pool |-> S.pool]
    BY <1>1, <2>2
  <2>8. \A g \in House \ TouchedRosters(t) : R.treasury[g] = S.treasury[g]
    BY <2>1, <2>3, <2>7, Numbers DEF TouchedRosters
  <2> QED  BY <1>2, <2>3, <2>6, <2>7, <2>8 DEF Booked, SilverRecord, Worth, R
<1>5. CASE Parts(P, t)
  <2> DEFINE cash == (S.treasury[t.from] * Cardinality(t.who)) \div Cardinality(Members(P, t.from))
             T == [S.treasury EXCEPT ![t.from] = @ - cash, ![t.to] = cash]
  <2>1. /\ t.from \in House /\ t.to \in House /\ t.to # t.from /\ S.treasury[t.to] = 0
    BY <1>5 DEF Parts, Unfounded
  <2>2. cash \in Nat /\ cash <= S.treasury[t.from]
    <3>1. Members(P, t.from) \subseteq Soul
      BY <2>1 DEF Members, Alive, PeopleRecord
    <3>2. IsFiniteSet(Members(P, t.from))
      BY <3>1, FiniteWorld, FS_Subset
    <3>3. t.who \subseteq Members(P, t.from)
      BY <1>5 DEF Parts
    <3>4. /\ Cardinality(t.who) \in Nat /\ Cardinality(Members(P, t.from)) \in Nat
          /\ Cardinality(t.who) <= Cardinality(Members(P, t.from))
      BY <3>2, <3>3, FS_Subset, FS_CardinalityType
    <3>5. 0 < Cardinality(Members(P, t.from))
      BY <1>5, <3>4, LifeAssumption DEF Parts
    <3>6. S.treasury[t.from] \in Nat
      BY <1>2, <2>1
    <3> HIDE DEF cash
    <3> QED  BY <3>4, <3>5, <3>6, ShareOf DEF cash
  <2>3. R = [S EXCEPT !.treasury = T]
    BY <1>1, <1>5 DEF Parts, TransitionSilver
  <2> HIDE DEF cash
  <2>4. /\ T \in [House -> Nat] /\ T[t.from] = S.treasury[t.from] - cash /\ T[t.to] = cash
        /\ \A g \in House \ {t.to, t.from} : T[g] = S.treasury[g]
    BY <1>2, <2>1, <2>2
  <2> HIDE DEF T, R
  <2>5. T \in [House -> Int] /\ S.treasury[t.from] \in Nat
    BY <1>2, <2>1, <2>4
  <2>6. SumFunction(T) = SumFunction(S.treasury) - S.treasury[t.to] + T[t.to]
                           - S.treasury[t.from] + T[t.from]
    BY <1>2, <2>1, <2>4, <2>5, FiniteWorld, SumTransfer
  <2>7. SumFunction(T) = SumFunction(S.treasury)
    BY <1>2, <2>1, <2>2, <2>4, <2>5, <2>6
  <2>8. R = [treasury |-> T, purse |-> S.purse, pool |-> S.pool]
    BY <1>1, <2>3
  <2>9. \A g \in House \ TouchedRosters(t) : R.treasury[g] = S.treasury[g]
    BY <2>1, <2>4, <2>8, Numbers DEF TouchedRosters
  <2> QED  BY <1>2, <2>4, <2>7, <2>8, <2>9 DEF Booked, SilverRecord, Worth, R
<1>6. CASE Founds(P, S, t)
  <2> DEFINE cost == Startup * Cardinality(t.who)
             T == [S.treasury EXCEPT ![t.to] = cost]
             U == PursesAfter(S, t.who)
  <2>1. /\ t.to \in House /\ S.treasury[t.to] = 0
        /\ t.who \subseteq Soul /\ SumFunctionOnSet(S.purse, t.who) >= cost
    BY <1>6, Numbers DEF Founds, Unfounded
  <2>2. R = [S EXCEPT !.treasury = T, !.purse = U]
    BY <1>1, <1>6 DEF Founds, TransitionSilver
  <2>3. /\ U \in [Soul -> Nat] /\ cost \in Nat
        /\ SumFunction(U) = SumFunction(S.purse) - cost
    BY <2>1, FoundersPay
  <2> HIDE DEF cost, U
  <2>4. /\ T \in [House -> Nat] /\ T[t.to] = cost
        /\ \A g \in House \ {t.to} : T[g] = S.treasury[g]
    BY <1>2, <2>1, <2>3
  <2> HIDE DEF T, R
  <2>5. T \in [House -> Int]
    BY <2>4
  <2>6. SumFunction(T) = SumFunction(S.treasury) - S.treasury[t.to] + T[t.to]
    BY <1>2, <2>1, <2>4, <2>5, FiniteWorld, SumUpdate
  <2>7. SumFunction(T) = SumFunction(S.treasury) + cost
    BY <1>2, <2>1, <2>3, <2>4, <2>6
  <2>8. R = [treasury |-> T, purse |-> U, pool |-> S.pool]
    BY <1>1, <2>2
  <2>9. \A g \in House \ TouchedRosters(t) : R.treasury[g] = S.treasury[g]
    BY <2>1, <2>4, <2>8, Numbers DEF TouchedRosters
  <2>10. Worth(R) = Worth(S)
    BY <1>2, <2>3, <2>7, <2>8 DEF Worth
  <2>11. SilverRecord(R)
    BY <1>2, <2>3, <2>4, <2>8 DEF SilverRecord
  <2> QED  BY <2>9, <2>10, <2>11 DEF Booked, R
<1> QED  BY <1>3, <1>4, <1>5, <1>6, Proposed

\* What the registry writes back keeps the accounts' shape; without a house that another
\* judgment loaded it changes nothing.
LEMMA WrittenBackShape ==
  ASSUME NEW S, SilverRecord(S), NEW before, SilverRecord(before), NEW t, NEW cached
  PROVE  /\ SilverRecord(Reconciled(S, before, t, cached))
         /\ \A h \in House : Reconciled(S, before, t, cached).treasury[h]
                               \in {S.treasury[h], before.treasury[h]}
         /\ cached \cap TouchedRosters(t) = {} => Reconciled(S, before, t, cached) = S
<1> DEFINE X == cached \cap TouchedRosters(t)
           T == WrittenBack(S.treasury, before.treasury, X)
           R == Reconciled(S, before, t, cached)
<1>1. S = [treasury |-> S.treasury, purse |-> S.purse, pool |-> S.pool]
  BY DEF SilverRecord
<1>2. /\ S.treasury \in [House -> Nat] /\ S.purse \in [Soul -> Nat] /\ S.pool \in Nat
      /\ before.treasury \in [House -> Nat]
  BY Accounts
<1>3. R = [S EXCEPT !.treasury = T]
  BY <1>1 DEF Reconciled
<1>4. T = [h \in House |-> IF h \in X THEN before.treasury[h] ELSE S.treasury[h]]
  BY DEF WrittenBack
<1> HIDE DEF X, T, R
<1>5. T \in [House -> Nat] /\ \A h \in House : T[h] \in {S.treasury[h], before.treasury[h]}
  BY <1>2, <1>4
<1>6. X = {} => T = S.treasury
  <2> SUFFICES ASSUME X = {} PROVE T = S.treasury
    OBVIOUS
  <2>1. T = [h \in House |-> S.treasury[h]]
    BY <1>4
  <2> QED  BY <1>2, <2>1
<1>7. R = [treasury |-> T, purse |-> S.purse, pool |-> S.pool]
  BY <1>1, <1>3
<1>8. SilverRecord(R)
  BY <1>2, <1>5, <1>7 DEF SilverRecord
<1>9. X = {} => R = S
  BY <1>1, <1>6, <1>7
<1> QED  BY <1>5, <1>7, <1>8, <1>9 DEF R, X

\* The rows after a transition.
RowsMoved(P, Q, t) ==
  /\ Q = [roster |-> Q.roster, loose |-> Q.loose, dead |-> P.dead,
          leaders |-> Q.leaders, known |-> Q.known]
  /\ DOMAIN Q.roster = House /\ Q.roster = [h \in House |-> Q.roster[h]]
  /\ \A h \in House :
       /\ h = t.to => Q.roster[h] = P.roster[h] \cup t.who
       /\ h = t.from /\ h # t.to => Q.roster[h] = P.roster[h] \ t.who
       /\ h # t.from /\ h # t.to => Q.roster[h] = P.roster[h]
  /\ Q.loose = IF t.from = 0 THEN P.loose \ t.who
               ELSE IF t.to = 0 THEN P.loose \cup t.who ELSE P.loose
  /\ Q.leaders = IF t.leader = 0 THEN P.leaders \ t.who ELSE (P.leaders \ t.who) \cup {t.leader}
  /\ Q.known = P.known \cup ({t.to} \ {0}) /\ Q.dead = P.dead

\* A transition moves rows as RowsMoved says.
LEMMA TransitionRows ==
  ASSUME NEW P, PeopleRecord(P), NEW t
  PROVE  RowsMoved(P, TransitionPeople(P, t), t)
<1> DEFINE Q == TransitionPeople(P, t)
           R == RostersAfter(P.roster, t.who, t.from, t.to)
           L == IF t.from = 0 THEN P.loose \ t.who
                ELSE IF t.to = 0 THEN P.loose \cup t.who ELSE P.loose
           M == MoveHouse(P, t.who, t.from, t.to)
           N == IF t.leader = 0 THEN P.leaders \ t.who ELSE (P.leaders \ t.who) \cup {t.leader}
           K == P.known \cup ({t.to} \ {0})
<1>1. P = [roster |-> P.roster, loose |-> P.loose, dead |-> P.dead, leaders |-> P.leaders,
           known |-> P.known]
  BY DEF PeopleRecord
<1>2. M = [roster |-> R, loose |-> L, dead |-> P.dead, leaders |-> P.leaders \ t.who,
           known |-> P.known]
  <2>1. M = [P EXCEPT !.roster = R, !.loose = L, !.leaders = P.leaders \ t.who]
    BY DEF MoveHouse
  <2> HIDE DEF R, L, M
  <2>2. PICK leaders : leaders = P.leaders \ t.who
    OBVIOUS
  <2>3. M = [P EXCEPT !.roster = R, !.loose = L, !.leaders = leaders]
    BY <2>1, <2>2
  <2> QED  BY <1>1, <2>2, <2>3
<1>3. R = [h \in House |-> CASE h = t.to -> P.roster[h] \cup t.who
                             [] h = t.from /\ h # t.to -> P.roster[h] \ t.who
                             [] OTHER -> P.roster[h]]
  BY DEF RostersAfter
<1>4. Q = [M EXCEPT !.leaders = IF t.leader = 0 THEN @ ELSE @ \cup {t.leader},
                    !.known = @ \cup ({t.to} \ {0})]
  BY DEF TransitionPeople
<1> HIDE DEF R, L, M, Q
<1>5. /\ M.leaders = P.leaders \ t.who /\ M.known = P.known
  BY <1>2
<1>6. Q = [M EXCEPT !.leaders = N, !.known = K]
  BY <1>4, <1>5
<1>7. Q = [roster |-> R, loose |-> L, dead |-> P.dead, leaders |-> N, known |-> K]
  BY <1>2, <1>6
<1>8. DOMAIN R = House /\ R = [h \in House |-> R[h]]
  BY <1>3
<1>9. \A h \in House :
        /\ h = t.to => R[h] = P.roster[h] \cup t.who
        /\ h = t.from /\ h # t.to => R[h] = P.roster[h] \ t.who
        /\ h # t.from /\ h # t.to => R[h] = P.roster[h]
  BY <1>3
<1>10. Q.roster = R /\ Q.loose = L /\ Q.dead = P.dead /\ Q.leaders = N /\ Q.known = K
  BY <1>7
<1>11. RowsMoved(P, Q, t)
  <2>1. /\ Q.loose = L /\ Q.leaders = N /\ Q.known = K /\ Q.dead = P.dead /\ Q.roster = R
    BY <1>10
  <2>2. Q = [roster |-> Q.roster, loose |-> Q.loose, dead |-> P.dead,
             leaders |-> Q.leaders, known |-> Q.known]
    BY <1>7, <1>10
  <2> QED  BY <1>8, <1>9, <2>1, <2>2 DEF RowsMoved, L
<1> QED  BY <1>11 DEF Q

\* Everybody still has one row, a new house starts with those who moved, and a house that
\* leaves the registry has nobody left.
RowsKept(P, Q, F, t) ==
  /\ PeopleRecord(Q) /\ Placed(Q, F) /\ Q.dead = P.dead /\ P.known \subseteq Q.known
  /\ \A h \in House \ Q.known : h \in House \ P.known /\ Q.roster[h] = {}
  /\ StillHouses(TransitionHouses(active, t), Q) \subseteq Q.known
  /\ \A h \in House \ StillHouses(TransitionHouses(active, t), Q) : Members(Q, h) \cap Adult = {}

\* A house the registry drops because nobody lives there has no adults.
LEMMA NobodyLeft ==
  ASSUME NEW Q, NEW A, \A h \in House \ A : Members(Q, h) \cap Adult = {}
  PROVE  /\ \A h \in House \ StillHouses(A, Q) : Members(Q, h) \cap Adult = {}
         /\ StillHouses(A, Q) \subseteq A
<1>1. ASSUME NEW h \in House \ StillHouses(A, Q) PROVE Members(Q, h) \cap Adult = {}
  <2>1. CASE h \in A
    <3>1. Members(Q, h) = {}
      BY <1>1, <2>1 DEF StillHouses
    <3> QED  BY <3>1
  <2>2. CASE h \notin A
    BY <2>2
  <2> QED  BY <2>1, <2>2
<1> QED  BY <1>1 DEF StillHouses

\* The last members of a house become independents.
LEMMA RowsDissolved ==
  ASSUME NEW P, PeopleRecord(P), active \subseteq P.known, NEW F, Placed(P, F),
         NEW T, Empty(P, T, active), NEW t, Dissolves(P, t)
  PROVE  RowsKept(P, TransitionPeople(P, t), F, t)
<1> DEFINE Q == TransitionPeople(P, t)
<1>0. RowsMoved(P, Q, t)
  BY TransitionRows
<1> HIDE DEF Q
<1>1. /\ P.roster \in [House -> SUBSET Soul] /\ P.loose \subseteq Soul /\ P.dead \subseteq Soul
      /\ P.leaders \subseteq Adult /\ P.known \subseteq House
  BY DEF PeopleRecord
<1>2. /\ \A h, g \in House : h # g => P.roster[h] \cap P.roster[g] = {}
      /\ \A h \in House : P.roster[h] \cap P.loose = {}
      /\ \A x \in Soul : x \in Adult \cup DOMAIN F.parents
                           <=> x \in P.loose \/ \E h \in House : x \in P.roster[h]
      /\ \A h \in House : \A x, y \in P.roster[h] \cap P.leaders : x = y
  BY DEF Placed
<1>3. /\ \A h \in House \ P.known : P.roster[h] = {}
      /\ \A h \in House \ active : Members(P, h) \cap Adult = {}
  BY DEF Empty
<1>4. /\ Q = [roster |-> Q.roster, loose |-> Q.loose, dead |-> P.dead,
              leaders |-> Q.leaders, known |-> Q.known]
      /\ DOMAIN Q.roster = House /\ Q.roster = [h \in House |-> Q.roster[h]]
      /\ Q.dead = P.dead
  BY <1>0 DEF RowsMoved
<1>5. \A h \in House :
        /\ h = t.to => Q.roster[h] = P.roster[h] \cup t.who
        /\ h = t.from /\ h # t.to => Q.roster[h] = P.roster[h] \ t.who
        /\ h # t.from /\ h # t.to => Q.roster[h] = P.roster[h]
  BY <1>0 DEF RowsMoved
<1>6. /\ Q.loose = IF t.from = 0 THEN P.loose \ t.who
                    ELSE IF t.to = 0 THEN P.loose \cup t.who ELSE P.loose
      /\ Q.leaders = IF t.leader = 0 THEN P.leaders \ t.who
                      ELSE (P.leaders \ t.who) \cup {t.leader}
      /\ Q.known = P.known \cup ({t.to} \ {0})
  BY <1>0 DEF RowsMoved
<1>a. /\ t.from \in House /\ t.to = 0 /\ t.leader = 0 /\ t.from # 0
      /\ t.who = P.roster[t.from] \ P.dead /\ TransitionHouses(active, t) = active \ {t.from}
  BY <1>1, Numbers DEF Dissolves, Members, Alive, TransitionHouses
<1>b. /\ \A h \in House \ {t.from} : Q.roster[h] = P.roster[h]
      /\ Q.roster[t.from] = P.roster[t.from] \ t.who /\ Q.loose = P.loose \cup t.who
      /\ Q.leaders = P.leaders \ t.who /\ Q.known = P.known
  <2>1. \A h \in House : h # t.to
    BY <1>a, Numbers
  <2>2. \A h \in House \ {t.from} : Q.roster[h] = P.roster[h]
    BY <1>5, <2>1
  <2>3. Q.roster[t.from] = P.roster[t.from] \ t.who
    BY <1>a, <1>5, <2>1
  <2>4. Q.known = P.known
    BY <1>a, <1>6
  <2> QED  BY <1>a, <1>6, <2>2, <2>3, <2>4
<1>7. /\ \A h \in House : Q.roster[h] \in SUBSET Soul
      /\ Q.loose \subseteq Soul /\ Q.leaders \subseteq Adult
      /\ Q.known \subseteq House /\ P.known \subseteq Q.known
      /\ \A h \in House \ Q.known : h \in House \ P.known /\ Q.roster[h] = {}
      /\ TransitionHouses(active, t) \subseteq Q.known
  BY <1>1, <1>3, <1>a, <1>b
<1>8. \A h \in House : \A x, y \in Q.roster[h] \cap Q.leaders : x = y
  <2>1. \A h \in House : Q.roster[h] \subseteq P.roster[h]
    BY <1>b
  <2> QED  BY <1>2, <1>b, <2>1
<1>9. /\ \A h, g \in House : h # g => Q.roster[h] \cap Q.roster[g] = {}
      /\ \A h \in House : Q.roster[h] \cap Q.loose = {}
  <2>1. \A h \in House : Q.roster[h] \subseteq P.roster[h]
    BY <1>b
  <2>2. \A h \in House \ {t.from} : P.roster[h] \cap t.who = {}
    BY <1>2, <1>a
  <2>3. Q.roster[t.from] \cap t.who = {}
    BY <1>b
  <2> QED  BY <1>2, <1>a, <1>b, <2>1, <2>2, <2>3
<1>10. \A x \in Soul : x \in Adult \cup DOMAIN F.parents
                         <=> x \in Q.loose \/ \E h \in House : x \in Q.roster[h]
  BY <1>2, <1>a, <1>b
<1>11. \A h \in House \ TransitionHouses(active, t) : Members(Q, h) \cap Adult = {}
  BY <1>3, <1>4, <1>a, <1>b DEF Members, Alive
<1>12. PeopleRecord(Q)
  <2>1. Q.roster \in [House -> SUBSET Soul]
    BY <1>4, <1>7
  <2> QED  BY <1>1, <1>4, <1>7, <2>1 DEF PeopleRecord
<1>13. Placed(Q, F)
  BY <1>8, <1>9, <1>10 DEF Placed
<1>14. /\ \A h \in House \ StillHouses(TransitionHouses(active, t), Q) : Members(Q, h) \cap Adult = {}
       /\ StillHouses(TransitionHouses(active, t), Q) \subseteq TransitionHouses(active, t)
  BY <1>11, NobodyLeft
<1> QED  BY <1>4, <1>7, <1>11, <1>12, <1>13, <1>14 DEF RowsKept, Q

\* The members of the smaller house join the other.
LEMMA RowsMerged ==
  ASSUME NEW P, PeopleRecord(P), active \subseteq P.known, NEW F, Placed(P, F),
         NEW T, Empty(P, T, active), NEW t, Merges(P, t)
  PROVE  RowsKept(P, TransitionPeople(P, t), F, t)
<1> DEFINE Q == TransitionPeople(P, t)
<1>0. RowsMoved(P, Q, t)
  BY TransitionRows
<1> HIDE DEF Q
<1>1. /\ P.roster \in [House -> SUBSET Soul] /\ P.loose \subseteq Soul /\ P.dead \subseteq Soul
      /\ P.leaders \subseteq Adult /\ P.known \subseteq House
  BY DEF PeopleRecord
<1>2. /\ \A h, g \in House : h # g => P.roster[h] \cap P.roster[g] = {}
      /\ \A h \in House : P.roster[h] \cap P.loose = {}
      /\ \A x \in Soul : x \in Adult \cup DOMAIN F.parents
                           <=> x \in P.loose \/ \E h \in House : x \in P.roster[h]
      /\ \A h \in House : \A x, y \in P.roster[h] \cap P.leaders : x = y
  BY DEF Placed
<1>3. /\ \A h \in House \ P.known : P.roster[h] = {}
      /\ \A h \in House \ active : Members(P, h) \cap Adult = {}
  BY DEF Empty
<1>4. /\ Q = [roster |-> Q.roster, loose |-> Q.loose, dead |-> P.dead,
              leaders |-> Q.leaders, known |-> Q.known]
      /\ DOMAIN Q.roster = House /\ Q.roster = [h \in House |-> Q.roster[h]]
      /\ Q.dead = P.dead
  BY <1>0 DEF RowsMoved
<1>5. \A h \in House :
        /\ h = t.to => Q.roster[h] = P.roster[h] \cup t.who
        /\ h = t.from /\ h # t.to => Q.roster[h] = P.roster[h] \ t.who
        /\ h # t.from /\ h # t.to => Q.roster[h] = P.roster[h]
  BY <1>0 DEF RowsMoved
<1>6. /\ Q.loose = IF t.from = 0 THEN P.loose \ t.who
                    ELSE IF t.to = 0 THEN P.loose \cup t.who ELSE P.loose
      /\ Q.leaders = IF t.leader = 0 THEN P.leaders \ t.who
                      ELSE (P.leaders \ t.who) \cup {t.leader}
      /\ Q.known = P.known \cup ({t.to} \ {0})
  BY <1>0 DEF RowsMoved
<1>a. /\ t.from \in House /\ t.to \in House /\ t.to # t.from /\ t.leader = 0
      /\ t.from # 0 /\ t.to # 0 /\ t.to \in P.known /\ t.to \in active
      /\ t.who = P.roster[t.from] \ P.dead /\ TransitionHouses(active, t) = active \ {t.from}
  BY <1>1, Numbers DEF Merges, Members, Alive, TransitionHouses
<1>b. /\ \A h \in House \ {t.from, t.to} : Q.roster[h] = P.roster[h]
      /\ Q.roster[t.from] = P.roster[t.from] \ t.who /\ Q.roster[t.to] = P.roster[t.to] \cup t.who
      /\ Q.loose = P.loose /\ Q.leaders = P.leaders \ t.who /\ Q.known = P.known
  BY <1>a, <1>5, <1>6
<1>c. t.who \subseteq Soul /\ t.who \subseteq P.roster[t.from]
  BY <1>1, <1>a
<1>7. /\ \A h \in House : Q.roster[h] \in SUBSET Soul
      /\ Q.loose \subseteq Soul /\ Q.leaders \subseteq Adult
      /\ Q.known \subseteq House /\ P.known \subseteq Q.known
      /\ \A h \in House \ Q.known : h \in House \ P.known /\ Q.roster[h] = {}
      /\ TransitionHouses(active, t) \subseteq Q.known
  <2>1. \A h \in House : Q.roster[h] \subseteq Soul
    BY <1>1, <1>a, <1>b, <1>c
  <2>2. \A h \in House \ P.known : Q.roster[h] = {}
    BY <1>3, <1>a, <1>b
  <2> QED  BY <1>1, <1>a, <1>b, <2>1, <2>2
<1>8. \A h \in House : \A x, y \in Q.roster[h] \cap Q.leaders : x = y
  <2>1. \A h \in House : Q.roster[h] \cap Q.leaders \subseteq P.roster[h] \cap P.leaders
    BY <1>a, <1>b
  <2> QED  BY <1>2, <2>1
<1>9. /\ \A h, g \in House : h # g => Q.roster[h] \cap Q.roster[g] = {}
      /\ \A h \in House : Q.roster[h] \cap Q.loose = {}
  <2>1. \A h \in House \ {t.from} : P.roster[h] \cap t.who = {}
    BY <1>2, <1>a, <1>c
  <2>2. P.loose \cap t.who = {}
    BY <1>2, <1>a, <1>c
  <2>3. \A h \in House : Q.roster[h] \cap Q.loose = {}
    BY <1>2, <1>a, <1>b, <2>2
  <2>4. \A h \in House \ {t.to} : Q.roster[h] \subseteq P.roster[h] /\ Q.roster[h] \cap t.who = {}
    BY <1>a, <1>b, <2>1
  <2>5. \A h, g \in House \ {t.to} : h # g => Q.roster[h] \cap Q.roster[g] = {}
    BY <1>2, <2>4
  <2>6. \A h \in House \ {t.to} : Q.roster[h] \cap Q.roster[t.to] = {}
    BY <1>2, <1>a, <1>b, <2>4
  <2> QED  BY <2>3, <2>5, <2>6
<1>10. \A x \in Soul : x \in Adult \cup DOMAIN F.parents
                         <=> x \in Q.loose \/ \E h \in House : x \in Q.roster[h]
  <2>1. \A x \in Soul : (\E h \in House : x \in Q.roster[h]) <=> (\E h \in House : x \in P.roster[h])
    <3> SUFFICES ASSUME NEW x \in Soul
                 PROVE  (\E h \in House : x \in Q.roster[h]) <=> (\E h \in House : x \in P.roster[h])
      OBVIOUS
    <3>1. ASSUME NEW h \in House, x \in Q.roster[h] PROVE \E g \in House : x \in P.roster[g]
      BY <1>a, <1>b, <1>c, <3>1
    <3>2. ASSUME NEW h \in House, x \in P.roster[h] PROVE \E g \in House : x \in Q.roster[g]
      BY <1>a, <1>b, <3>2
    <3> QED  BY <3>1, <3>2
  <2> QED  BY <1>2, <1>b, <2>1
<1>11. \A h \in House \ TransitionHouses(active, t) : Members(Q, h) \cap Adult = {}
  BY <1>3, <1>4, <1>a, <1>b DEF Members, Alive
<1>12. PeopleRecord(Q)
  <2>1. Q.roster \in [House -> SUBSET Soul]
    BY <1>4, <1>7
  <2> QED  BY <1>1, <1>4, <1>7, <2>1 DEF PeopleRecord
<1>13. Placed(Q, F)
  BY <1>8, <1>9, <1>10 DEF Placed
<1>14. /\ \A h \in House \ StillHouses(TransitionHouses(active, t), Q) : Members(Q, h) \cap Adult = {}
       /\ StillHouses(TransitionHouses(active, t), Q) \subseteq TransitionHouses(active, t)
  BY <1>11, NobodyLeft
<1> QED  BY <1>4, <1>7, <1>11, <1>12, <1>13, <1>14 DEF RowsKept, Q

\* Some members leave a house and found another.
LEMMA RowsParted ==
  ASSUME NEW P, PeopleRecord(P), active \subseteq P.known, NEW F, Placed(P, F),
         NEW T, Empty(P, T, active), NEW t, Parts(P, t)
  PROVE  RowsKept(P, TransitionPeople(P, t), F, t)
<1> DEFINE Q == TransitionPeople(P, t)
<1>0. RowsMoved(P, Q, t)
  BY TransitionRows
<1> HIDE DEF Q
<1>1. /\ P.roster \in [House -> SUBSET Soul] /\ P.loose \subseteq Soul /\ P.dead \subseteq Soul
      /\ P.leaders \subseteq Adult /\ P.known \subseteq House
  BY DEF PeopleRecord
<1>2. /\ \A h, g \in House : h # g => P.roster[h] \cap P.roster[g] = {}
      /\ \A h \in House : P.roster[h] \cap P.loose = {}
      /\ \A x \in Soul : x \in Adult \cup DOMAIN F.parents
                           <=> x \in P.loose \/ \E h \in House : x \in P.roster[h]
      /\ \A h \in House : \A x, y \in P.roster[h] \cap P.leaders : x = y
  BY DEF Placed
<1>3. /\ \A h \in House \ P.known : P.roster[h] = {}
      /\ \A h \in House \ active : Members(P, h) \cap Adult = {}
  BY DEF Empty
<1>4. /\ Q = [roster |-> Q.roster, loose |-> Q.loose, dead |-> P.dead,
              leaders |-> Q.leaders, known |-> Q.known]
      /\ DOMAIN Q.roster = House /\ Q.roster = [h \in House |-> Q.roster[h]]
      /\ Q.dead = P.dead
  BY <1>0 DEF RowsMoved
<1>5. \A h \in House :
        /\ h = t.to => Q.roster[h] = P.roster[h] \cup t.who
        /\ h = t.from /\ h # t.to => Q.roster[h] = P.roster[h] \ t.who
        /\ h # t.from /\ h # t.to => Q.roster[h] = P.roster[h]
  BY <1>0 DEF RowsMoved
<1>6. /\ Q.loose = IF t.from = 0 THEN P.loose \ t.who
                    ELSE IF t.to = 0 THEN P.loose \cup t.who ELSE P.loose
      /\ Q.leaders = IF t.leader = 0 THEN P.leaders \ t.who
                      ELSE (P.leaders \ t.who) \cup {t.leader}
      /\ Q.known = P.known \cup ({t.to} \ {0})
  BY <1>0 DEF RowsMoved
<1>a. /\ t.from \in House /\ t.to \in House /\ t.to # t.from /\ t.leader \in t.who
      /\ t.leader \in Adult /\ t.leader # 0 /\ t.from # 0 /\ t.to # 0 /\ t.to \notin P.known
      /\ t.who \subseteq P.roster[t.from] \ P.dead
      /\ TransitionHouses(active, t) = active \cup {t.to}
  BY <1>1, Numbers DEF Parts, Members, Alive, TransitionHouses, Unfounded
<1>b. /\ \A h \in House \ {t.from, t.to} : Q.roster[h] = P.roster[h]
      /\ Q.roster[t.from] = P.roster[t.from] \ t.who /\ Q.roster[t.to] = t.who
      /\ Q.loose = P.loose /\ Q.leaders = (P.leaders \ t.who) \cup {t.leader}
      /\ Q.known = P.known \cup {t.to}
  <2>1. P.roster[t.to] = {}
    BY <1>3, <1>a
  <2>2. Q.roster[t.to] = P.roster[t.to] \cup t.who
    BY <1>a, <1>5
  <2>3. Q.roster[t.to] = t.who
    BY <2>1, <2>2
  <2> QED  BY <1>a, <1>5, <1>6, <2>3
<1>c. t.who \subseteq Soul /\ t.who \subseteq P.roster[t.from]
  BY <1>1, <1>a
<1>7. /\ \A h \in House : Q.roster[h] \in SUBSET Soul
      /\ Q.loose \subseteq Soul /\ Q.leaders \subseteq Adult
      /\ Q.known \subseteq House /\ P.known \subseteq Q.known
      /\ \A h \in House \ Q.known : h \in House \ P.known /\ Q.roster[h] = {}
      /\ TransitionHouses(active, t) \subseteq Q.known
  <2>1. \A h \in House : Q.roster[h] \subseteq Soul
    BY <1>1, <1>a, <1>b, <1>c
  <2>2. \A h \in House \ Q.known : Q.roster[h] = {}
    BY <1>3, <1>a, <1>b
  <2> QED  BY <1>1, <1>a, <1>b, <2>1, <2>2
<1>8. \A h \in House : \A x, y \in Q.roster[h] \cap Q.leaders : x = y
  <2>1. \A h \in House \ {t.to} : Q.roster[h] \cap Q.leaders \subseteq P.roster[h] \cap P.leaders
    BY <1>2, <1>a, <1>b
  <2>2. Q.roster[t.to] \cap Q.leaders = {t.leader}
    BY <1>a, <1>b
  <2> QED  BY <1>2, <2>1, <2>2
<1>9. /\ \A h, g \in House : h # g => Q.roster[h] \cap Q.roster[g] = {}
      /\ \A h \in House : Q.roster[h] \cap Q.loose = {}
  <2>1. \A h \in House \ {t.from} : P.roster[h] \cap t.who = {}
    BY <1>2, <1>a, <1>c
  <2>2. P.loose \cap t.who = {}
    BY <1>2, <1>a, <1>c
  <2>3. \A h \in House : Q.roster[h] \cap Q.loose = {}
    BY <1>2, <1>a, <1>b, <2>2
  <2>4. \A h \in House \ {t.to} : Q.roster[h] \subseteq P.roster[h] /\ Q.roster[h] \cap t.who = {}
    BY <1>a, <1>b, <2>1
  <2>5. \A h, g \in House \ {t.to} : h # g => Q.roster[h] \cap Q.roster[g] = {}
    BY <1>2, <2>4
  <2>6. \A h \in House \ {t.to} : Q.roster[h] \cap Q.roster[t.to] = {}
    BY <1>b, <2>4
  <2> QED  BY <2>3, <2>5, <2>6
<1>10. \A x \in Soul : x \in Adult \cup DOMAIN F.parents
                         <=> x \in Q.loose \/ \E h \in House : x \in Q.roster[h]
  <2>1. \A x \in Soul : (\E h \in House : x \in Q.roster[h]) <=> (\E h \in House : x \in P.roster[h])
    <3> SUFFICES ASSUME NEW x \in Soul
                 PROVE  (\E h \in House : x \in Q.roster[h]) <=> (\E h \in House : x \in P.roster[h])
      OBVIOUS
    <3>1. ASSUME NEW h \in House, x \in Q.roster[h] PROVE \E g \in House : x \in P.roster[g]
      BY <1>a, <1>b, <1>c, <3>1
    <3>2. ASSUME NEW h \in House, x \in P.roster[h] PROVE \E g \in House : x \in Q.roster[g]
      <4>1. h # t.to
        BY <1>3, <1>a, <3>2
      <4> QED  BY <1>a, <1>b, <3>2, <4>1
    <3> QED  BY <3>1, <3>2
  <2> QED  BY <1>2, <1>b, <2>1
<1>11. \A h \in House \ TransitionHouses(active, t) : Members(Q, h) \cap Adult = {}
  BY <1>3, <1>4, <1>a, <1>b DEF Members, Alive
<1>12. PeopleRecord(Q)
  <2>1. Q.roster \in [House -> SUBSET Soul]
    BY <1>4, <1>7
  <2> QED  BY <1>1, <1>4, <1>7, <2>1 DEF PeopleRecord
<1>13. Placed(Q, F)
  BY <1>8, <1>9, <1>10 DEF Placed
<1>14. /\ \A h \in House \ StillHouses(TransitionHouses(active, t), Q) : Members(Q, h) \cap Adult = {}
       /\ StillHouses(TransitionHouses(active, t), Q) \subseteq TransitionHouses(active, t)
  BY <1>11, NobodyLeft
<1> QED  BY <1>4, <1>7, <1>11, <1>12, <1>13, <1>14 DEF RowsKept, Q

\* Independents found a house.
LEMMA RowsFounded ==
  ASSUME NEW P, PeopleRecord(P), active \subseteq P.known, NEW F, Placed(P, F),
         NEW T, Empty(P, T, active), NEW t, NEW S, Founds(P, S, t)
  PROVE  RowsKept(P, TransitionPeople(P, t), F, t)
<1> DEFINE Q == TransitionPeople(P, t)
<1>0. RowsMoved(P, Q, t)
  BY TransitionRows
<1> HIDE DEF Q
<1>1. /\ P.roster \in [House -> SUBSET Soul] /\ P.loose \subseteq Soul /\ P.dead \subseteq Soul
      /\ P.leaders \subseteq Adult /\ P.known \subseteq House
  BY DEF PeopleRecord
<1>2. /\ \A h, g \in House : h # g => P.roster[h] \cap P.roster[g] = {}
      /\ \A h \in House : P.roster[h] \cap P.loose = {}
      /\ \A x \in Soul : x \in Adult \cup DOMAIN F.parents
                           <=> x \in P.loose \/ \E h \in House : x \in P.roster[h]
      /\ \A h \in House : \A x, y \in P.roster[h] \cap P.leaders : x = y
  BY DEF Placed
<1>3. /\ \A h \in House \ P.known : P.roster[h] = {}
      /\ \A h \in House \ active : Members(P, h) \cap Adult = {}
  BY DEF Empty
<1>4. /\ Q = [roster |-> Q.roster, loose |-> Q.loose, dead |-> P.dead,
              leaders |-> Q.leaders, known |-> Q.known]
      /\ DOMAIN Q.roster = House /\ Q.roster = [h \in House |-> Q.roster[h]]
      /\ Q.dead = P.dead
  BY <1>0 DEF RowsMoved
<1>5. \A h \in House :
        /\ h = t.to => Q.roster[h] = P.roster[h] \cup t.who
        /\ h = t.from /\ h # t.to => Q.roster[h] = P.roster[h] \ t.who
        /\ h # t.from /\ h # t.to => Q.roster[h] = P.roster[h]
  BY <1>0 DEF RowsMoved
<1>6. /\ Q.loose = IF t.from = 0 THEN P.loose \ t.who
                    ELSE IF t.to = 0 THEN P.loose \cup t.who ELSE P.loose
      /\ Q.leaders = IF t.leader = 0 THEN P.leaders \ t.who
                      ELSE (P.leaders \ t.who) \cup {t.leader}
      /\ Q.known = P.known \cup ({t.to} \ {0})
  BY <1>0 DEF RowsMoved
<1>a. /\ t.from = 0 /\ t.to \in House /\ t.leader \in t.who /\ t.from \notin House
      /\ t.leader \in Adult /\ t.leader # 0 /\ t.to # 0 /\ t.to \notin P.known
      /\ t.who \subseteq P.loose /\ TransitionHouses(active, t) = active \cup {t.to}
  BY Numbers DEF Founds, TransitionHouses, Unfounded
<1>b. /\ \A h \in House \ {t.to} : Q.roster[h] = P.roster[h]
      /\ Q.roster[t.to] = t.who
      /\ Q.loose = P.loose \ t.who /\ Q.leaders = (P.leaders \ t.who) \cup {t.leader}
      /\ Q.known = P.known \cup {t.to}
  <2>1. P.roster[t.to] = {}
    BY <1>3, <1>a
  <2>2. Q.roster[t.to] = P.roster[t.to] \cup t.who
    BY <1>a, <1>5
  <2>3. Q.roster[t.to] = t.who
    BY <2>1, <2>2
  <2> QED  BY <1>a, <1>5, <1>6, <2>3
<1>7. /\ \A h \in House : Q.roster[h] \in SUBSET Soul
      /\ Q.loose \subseteq Soul /\ Q.leaders \subseteq Adult
      /\ Q.known \subseteq House /\ P.known \subseteq Q.known
      /\ \A h \in House \ Q.known : h \in House \ P.known /\ Q.roster[h] = {}
      /\ TransitionHouses(active, t) \subseteq Q.known
  <2>1. \A h \in House : Q.roster[h] \subseteq Soul
    BY <1>1, <1>a, <1>b
  <2>2. \A h \in House \ Q.known : Q.roster[h] = {}
    BY <1>3, <1>a, <1>b
  <2> QED  BY <1>1, <1>a, <1>b, <2>1, <2>2
<1>c. \A h \in House : P.roster[h] \cap t.who = {}
  BY <1>2, <1>a
<1>8. \A h \in House : \A x, y \in Q.roster[h] \cap Q.leaders : x = y
  <2>1. \A h \in House \ {t.to} : Q.roster[h] \cap Q.leaders \subseteq P.roster[h] \cap P.leaders
    BY <1>a, <1>b, <1>c
  <2>2. Q.roster[t.to] \cap Q.leaders = {t.leader}
    BY <1>a, <1>b
  <2> QED  BY <1>2, <2>1, <2>2
<1>9. /\ \A h, g \in House : h # g => Q.roster[h] \cap Q.roster[g] = {}
      /\ \A h \in House : Q.roster[h] \cap Q.loose = {}
  <2>1. \A h \in House : Q.roster[h] \cap Q.loose = {}
    BY <1>2, <1>a, <1>b
  <2>2. \A h, g \in House \ {t.to} : h # g => Q.roster[h] \cap Q.roster[g] = {}
    BY <1>2, <1>b
  <2>3. \A h \in House \ {t.to} : Q.roster[h] \cap Q.roster[t.to] = {}
    BY <1>b, <1>c
  <2> QED  BY <2>1, <2>2, <2>3
<1>10. \A x \in Soul : x \in Adult \cup DOMAIN F.parents
                         <=> x \in Q.loose \/ \E h \in House : x \in Q.roster[h]
  <2> SUFFICES ASSUME NEW x \in Soul
               PROVE  x \in P.loose \/ (\E h \in House : x \in P.roster[h])
                        <=> x \in Q.loose \/ \E h \in House : x \in Q.roster[h]
    BY <1>2
  <2>1. ASSUME NEW h \in House, x \in Q.roster[h]
        PROVE x \in P.loose \/ \E g \in House : x \in P.roster[g]
    BY <1>a, <1>b, <2>1
  <2>2. ASSUME NEW h \in House, x \in P.roster[h] PROVE \E g \in House : x \in Q.roster[g]
    <3>1. h # t.to
      BY <1>3, <1>a, <2>2
    <3> QED  BY <1>b, <2>2, <3>1
  <2>3. x \in P.loose => x \in Q.loose \/ x \in Q.roster[t.to]
    BY <1>b
  <2>4. x \in Q.loose => x \in P.loose
    BY <1>b
  <2> QED  BY <1>a, <2>1, <2>2, <2>3, <2>4
<1>11. \A h \in House \ TransitionHouses(active, t) : Members(Q, h) \cap Adult = {}
  BY <1>3, <1>4, <1>a, <1>b DEF Members, Alive
<1>12. PeopleRecord(Q)
  <2>1. Q.roster \in [House -> SUBSET Soul]
    BY <1>4, <1>7
  <2> QED  BY <1>1, <1>4, <1>7, <2>1 DEF PeopleRecord
<1>13. Placed(Q, F)
  BY <1>8, <1>9, <1>10 DEF Placed
<1>14. /\ \A h \in House \ StillHouses(TransitionHouses(active, t), Q) : Members(Q, h) \cap Adult = {}
       /\ StillHouses(TransitionHouses(active, t), Q) \subseteq TransitionHouses(active, t)
  BY <1>11, NobodyLeft
<1> QED  BY <1>4, <1>7, <1>11, <1>12, <1>13, <1>14 DEF RowsKept, Q

\* Whatever the transition, everybody keeps one row.
LEMMA TransitionKeepsRows ==
  ASSUME NEW P, PeopleRecord(P), active \subseteq P.known, NEW F, Placed(P, F),
         NEW T, Empty(P, T, active), NEW S, NEW t \in Proposals(P, S)
  PROVE  RowsKept(P, TransitionPeople(P, t), F, t)
<1>1. active \subseteq House
  BY DEF PeopleRecord
<1> QED  BY <1>1, Proposed, RowsDissolved, RowsMerged, RowsParted, RowsFounded

-----------------------------------------------------------------------------
(* Families after judgments *)

\* G binds the same people as F and knows the same parents.
SameBonds(F, G) ==
  /\ FamilyRecord(G) /\ G.parents = F.parents /\ G.courting = F.courting
  /\ DOMAIN G.marriages = DOMAIN F.marriages
  /\ \A p \in DOMAIN F.marriages : /\ G.marriages[p].status = F.marriages[p].status
                                   /\ G.marriages[p].child = F.marriages[p].child

\* Bonds that are the same stay in order.
LEMMA BondsCarryOver ==
  ASSUME NEW F, NEW G, SameBonds(F, G), NEW P, NEW Q, Q.dead = P.dead, Bonds(F, P),
         NEW B, Expected(F, B)
  PROVE  Bonds(G, Q) /\ Expected(G, B)
<1>1. Married(G) = Married(F)
  BY DEF Married, SameBonds
<1> QED  BY <1>1 DEF Bonds, Expected, SameBonds

\* Affiliations and households follow a transition, bonds stay.
LEMMA ReconciledBonds ==
  ASSUME NEW F, FamilyRecord(F), NEW moved, NEW source \in House \cup {0},
         NEW target \in House \cup {0}
  PROVE  SameBonds(F, ReconcileFamily(F, moved, source, target))
<1> DEFINE M == Affiliated(F.marriages, moved, source, target)
           H == HomesDivided(F.homes, moved, source, target)
           G == ReconcileFamily(F, moved, source, target)
<1>1. /\ F = [marriages |-> F.marriages, homes |-> F.homes, parents |-> F.parents,
              courting |-> F.courting]
      /\ DOMAIN F.marriages \subseteq Pairs
      /\ F.marriages \in [DOMAIN F.marriages -> MarriageRow]
  BY DEF FamilyRecord
<1>2. G = [F EXCEPT !.marriages = M, !.homes = H]
  BY DEF ReconcileFamily
<1>3. /\ DOMAIN M = DOMAIN F.marriages
      /\ \A p \in DOMAIN F.marriages :
           M[p] = [F.marriages[p] EXCEPT
                     !.houses = Affiliation(F.marriages[p], p, moved, source, target)]
  BY DEF Affiliated
<1>4. ASSUME NEW p \in DOMAIN F.marriages
      PROVE  /\ M[p] \in MarriageRow
             /\ M[p].status = F.marriages[p].status /\ M[p].child = F.marriages[p].child
  <2> DEFINE m == F.marriages[p]
             X == Affiliation(m, p, moved, source, target)
  <2>1. m \in MarriageRow
    BY <1>1
  <2>2. m.houses \subseteq House
    BY <2>1 DEF MarriageRow
  <2>3. X \subseteq House
    <3>1. CASE source \notin m.houses \/ p \cap moved = {}
      BY <2>2, <3>1 DEF Affiliation
    <3>2. CASE ~(source \notin m.houses \/ p \cap moved = {})
      <4>1. source \in House
        BY <2>2, <3>2
      <4>2. X \in {{target}, {}, {source, target}, {source}} /\ (target = 0 => X \in {{}, {source}})
        BY <3>2 DEF Affiliation
      <4> QED  BY <4>1, <4>2
    <3> QED  BY <3>1, <3>2
  <2>4. M[p] = [m EXCEPT !.houses = X]
    BY <1>3
  <2> HIDE DEF m, X, M
  <2>5. /\ M[p] = [status |-> m.status, child |-> m.child, houses |-> X]
        /\ m.status \in {"married", "widowed"} /\ m.child \in 0 .. (Adults + Kids)
    BY <2>1, <2>4 DEF MarriageRow
  <2>6. M[p] \in MarriageRow /\ M[p].status = m.status /\ M[p].child = m.child
    BY <2>3, <2>5 DEF MarriageRow
  <2> QED  BY <2>6 DEF m
<1>5. M \in [DOMAIN F.marriages -> MarriageRow]
  <2>1. M = [p \in DOMAIN F.marriages |-> M[p]]
    BY DEF Affiliated
  <2> HIDE DEF M
  <2> QED  BY <1>4, <2>1
<1> HIDE DEF M, H, G
<1>6. G = [marriages |-> M, homes |-> H, parents |-> F.parents, courting |-> F.courting]
  BY <1>1, <1>2
<1>7. G.marriages = M /\ G.homes = H /\ G.parents = F.parents /\ G.courting = F.courting
  BY <1>6
<1>8. FamilyRecord(G)
  BY <1>3, <1>5, <1>6, <1>7 DEF FamilyRecord
<1>9. SameBonds(F, G)
  BY <1>3, <1>4, <1>7, <1>8 DEF SameBonds
<1> QED  BY <1>9 DEF G

\* What can be settled is a marriage of a courting couple or a new courtship of two who
\* court nobody, among the living and unmarried.
LEMMA ValidPairs ==
  ASSUME ~Raises, Pleas(asked \cup committed), FamilyRecord(family)
  PROVE  /\ \A p \in Couples : /\ p \in family.courting /\ p \cap people.dead = {}
                               /\ p \cap MarriedPeople(family) = {} /\ p \in Pairs
         /\ \A p \in Begun : /\ p \cap UNION family.courting = {} /\ p \cap people.dead = {}
                             /\ p \in Pairs
         /\ \A p, q \in Begun : p = q
         /\ \A w \in Weddings : w.house \in House
<1>1. \A c \in committed : ~StalePair(c)
  BY DEF Raises
<1>2. ASSUME NEW c \in Weddings
      PROVE  /\ c.who \in family.courting /\ c.who \cap people.dead = {}
             /\ c.who \cap MarriedPeople(family) = {} /\ c.house \in House /\ c.who \in Pairs
  <2>1. c \in committed /\ c.kind = "marriage"
    BY DEF Weddings, Chosen
  <2>2. ~StalePair(c)
    BY <1>1, <2>1
  <2>3. InReach(people, c.house, c.who) /\ c.who \cap MarriedPeople(family) = {}
        /\ c.who \in family.courting
    BY <2>1, <2>2 DEF StalePair
  <2> QED  BY <2>1, <2>3 DEF InReach, Members, Alive, Pleas
<1>3. ASSUME NEW c \in Chosen("courtship", "start")
      PROVE  /\ c.who \cap UNION family.courting = {} /\ c.who \cap people.dead = {}
             /\ c.who \in Pairs /\ c \in committed /\ c.kind = "courtship"
  <2>1. c \in committed /\ c.kind = "courtship" /\ c.option = "start"
    BY DEF Chosen
  <2>2. ~StalePair(c)
    BY <1>1, <2>1
  <2>3. InReach(people, c.house, c.who) /\ c.who \cap UNION family.courting = {}
    BY <2>1, <2>2 DEF StalePair
  <2> QED  BY <2>1, <2>3 DEF InReach, Members, Alive, Pleas
<1>4. \A p \in Couples : /\ p \in family.courting /\ p \cap people.dead = {}
                         /\ p \cap MarriedPeople(family) = {} /\ p \in Pairs
  BY <1>2 DEF Couples
<1>5. \A p \in Begun : /\ p \cap UNION family.courting = {} /\ p \cap people.dead = {}
                       /\ p \in Pairs
  BY <1>3 DEF Begun
<1>6. \A p, q \in Begun : p = q
  <2>1. \A c, d \in Chosen("courtship", "start") : c.who = d.who
    BY <1>3 DEF Pleas
  <2> QED  BY <2>1 DEF Begun
<1> QED  BY <1>2, <1>4, <1>5, <1>6

\* What judgments of bonds make of the family.
LEMMA RelatedBonds ==
  ASSUME ~Raises, Pleas(asked \cup committed), FamilyRecord(family), Bonds(family, people),
         Expected(family, births)
  PROVE  /\ FamilyRecord(Related(family)) /\ Related(family).parents = family.parents
         /\ DOMAIN family.marriages \subseteq DOMAIN Related(family).marriages
         /\ Bonds(Related(family), people) /\ Expected(Related(family), births)
<1> DEFINE F == family
           M == WithWeddings(F.marriages)
           H == WithNewHomes(F.homes)
           C == (F.courting \ Ended) \cup Begun
           G == Related(F)
<1>1. /\ F = [marriages |-> F.marriages, homes |-> F.homes, parents |-> F.parents,
              courting |-> F.courting]
      /\ DOMAIN F.marriages \subseteq Pairs /\ F.courting \subseteq Pairs
      /\ F.marriages \in [DOMAIN F.marriages -> MarriageRow]
      /\ DOMAIN F.parents \subseteq Soul \ Adult
  BY DEF FamilyRecord
<1>2. /\ \A p \in Couples : /\ p \in F.courting /\ p \cap people.dead = {}
                            /\ p \cap MarriedPeople(F) = {} /\ p \in Pairs
      /\ \A p \in Begun : /\ p \cap UNION F.courting = {} /\ p \cap people.dead = {}
                          /\ p \in Pairs
      /\ \A p, q \in Begun : p = q
      /\ \A w \in Weddings : w.house \in House
  BY ValidPairs
<1>3. /\ DOMAIN M = DOMAIN F.marriages \cup Couples
      /\ \A p \in Couples : /\ M[p].status = "married" /\ M[p].child = 0 /\ M[p] \in MarriageRow
      /\ \A p \in DOMAIN F.marriages \ Couples : M[p] = F.marriages[p]
      /\ M = [p \in DOMAIN M |-> M[p]]
  <2>1. DOMAIN M = DOMAIN F.marriages \cup Couples /\ M = [p \in DOMAIN M |-> M[p]]
    BY DEF WithWeddings
  <2>2. \A p \in DOMAIN F.marriages \ Couples : M[p] = F.marriages[p]
    BY DEF WithWeddings
  <2>3. ASSUME NEW p \in Couples
        PROVE  M[p].status = "married" /\ M[p].child = 0 /\ M[p] \in MarriageRow
    <3> DEFINE X == {c.house : c \in {w \in Weddings : w.who = p}}
    <3>1. M[p] = [status |-> "married", child |-> 0, houses |-> X]
      BY DEF WithWeddings
    <3>2. X \subseteq House
      BY <1>2
    <3>3. 0 \in 0 .. (Adults + Kids)
      BY LifeAssumption
    <3> HIDE DEF X, M
    <3> QED  BY <3>1, <3>2, <3>3 DEF MarriageRow
  <2> QED  BY <2>1, <2>2, <2>3
<1>4. G = [F EXCEPT !.marriages = M, !.homes = H, !.courting = C]
  BY DEF Related
<1> HIDE DEF M, H, G, F
<1>5. M \in [DOMAIN M -> MarriageRow] /\ DOMAIN M \subseteq Pairs
  <2>1. \A p \in DOMAIN M : M[p] \in MarriageRow /\ p \in Pairs
    BY <1>1, <1>2, <1>3
  <2> QED  BY <1>3, <2>1
<1>6. C \subseteq Pairs
  BY <1>1, <1>2
<1>7. \A p, q \in C : p # q => p \cap q = {}
  <2>1. \A p, q \in F.courting : p # q => p \cap q = {}
    BY DEF Bonds, F
  <2>2. \A p \in Begun, q \in F.courting : p \cap q = {} /\ q \cap p = {}
    BY <1>2
  <2> QED  BY <1>2, <2>1, <2>2
<1>8. \A p \in C : p \cap people.dead = {}
  BY <1>2 DEF Bonds, F
<1> HIDE DEF C
<1>9. G = [marriages |-> M, homes |-> H, parents |-> F.parents, courting |-> C]
  BY <1>1, <1>4
<1>10. G.marriages = M /\ G.homes = H /\ G.parents = F.parents /\ G.courting = C
  BY <1>9
<1>11. FamilyRecord(G)
  BY <1>1, <1>5, <1>6, <1>9, <1>10 DEF FamilyRecord
<1>12. \A p \in Married(G) : p \in Couples \/ p \in Married(F)
  BY <1>3, <1>10 DEF Married
<1>13. Bonds(G, people)
  <2>1. \A p, q \in Couples : p # q => p \cap q = {}
    BY <1>2 DEF Bonds, F
  <2>2. \A p \in Couples, q \in Married(F) : p \cap q = {} /\ q \cap p = {}
    BY <1>2 DEF MarriedPeople
  <2>3. \A p, q \in Married(F) : p # q => p \cap q = {}
    BY DEF Bonds, F
  <2>4. \A p, q \in Married(G) : p # q => p \cap q = {}
    BY <1>12, <2>1, <2>2, <2>3
  <2>5. \A p \in Married(G) : p \cap people.dead = {}
    BY <1>2, <1>12 DEF Bonds, F
  <2> QED  BY <1>7, <1>8, <1>10, <2>4, <2>5 DEF Bonds
<1>14. Expected(G, births)
  <2> SUFFICES ASSUME NEW p \in DOMAIN M, M[p].child # 0
               PROVE  /\ M[p].status = "married"
                      /\ \E b \in births : b.couple = p /\ b.child = M[p].child
    BY <1>10 DEF Expected
  <2>1. p \in DOMAIN F.marriages \ Couples
    BY <1>3
  <2>2. M[p] = F.marriages[p]
    BY <1>3, <2>1
  <2> QED  BY <2>1, <2>2 DEF Expected, F
<1> QED  BY <1>3, <1>10, <1>11, <1>13, <1>14 DEF F, G

-----------------------------------------------------------------------------
(* Steps *)

\* Who goes and comes back, and the month, bind nobody.
LEMMA IdleSteps ==
  ASSUME LifeInv, NextMonth \/ (\E x \in Soul : GoOrReturn(x))
  PROVE  LifeInv' /\ UNCHANGED silver
<1>1. /\ UNCHANGED <<active, people, silver, family, births, asked, committed>>
      /\ away' \subseteq Adult /\ ClockRecord(clock)'
  <2>1. CASE NextMonth
    <3>1. clock' = [clock EXCEPT !.month = @ + 1, !.reviewed = {}, !.annual = FALSE]
          /\ UNCHANGED <<active, people, away, silver, family, births, asked, committed>>
      BY <2>1 DEF NextMonth
    <3>2. ClockRecord(clock')
      <4>1. ClockRecord(clock)
        BY DEF LifeInv, Shape
      <4>2. PICK m, r, a, f : clock = [month |-> m, reviewed |-> r, annual |-> a, falls |-> f]
                              /\ m \in Nat
        BY <4>1 DEF ClockRecord
      <4>3. clock' = [month |-> m + 1, reviewed |-> {}, annual |-> FALSE, falls |-> f]
        BY <3>1, <4>2
      <4>4. m + 1 \in Nat
        BY <4>2
      <4> QED  BY <4>3, <4>4 DEF ClockRecord
    <3> QED  BY <3>1, <3>2 DEF LifeInv, Shape, ClockRecord
  <2>2. CASE \E x \in Soul : GoOrReturn(x)
    BY <2>2 DEF GoOrReturn, LifeInv, Shape
  <2> QED  BY <2>1, <2>2
<1>2. Shape'
  BY <1>1 DEF LifeInv, Shape
<1>3. /\ Placed(people, family)' /\ Empty(people, silver.treasury, active)'
      /\ Awaited(family, births, people)' /\ Bonds(family, people)' /\ Expected(family, births)'
      /\ Pleas(asked \cup committed)'
  BY <1>1 DEF LifeInv, Empty, Members, Alive
<1> QED  BY <1>1, <1>2, <1>3 DEF LifeInv

\* An answer is about what was asked.
LEMMA AnswerStep ==
  ASSUME LifeInv, Answer PROVE LifeInv' /\ UNCHANGED silver
<1>1. PICK j \in asked : \E option \in j.options :
        /\ asked' = asked \ {j}
        /\ committed' = committed \cup
             {[kind |-> j.kind, house |-> j.house, who |-> j.who, about |-> j.about,
               option |-> option]}
  BY DEF Answer
<1>1a. PICK option \in j.options :
        /\ asked' = asked \ {j}
        /\ committed' = committed \cup
             {[kind |-> j.kind, house |-> j.house, who |-> j.who, about |-> j.about,
               option |-> option]}
  BY <1>1
<1>2. UNCHANGED <<active, people, away, silver, family, births, clock>>
  BY DEF Answer
<1> DEFINE new == [kind |-> j.kind, house |-> j.house, who |-> j.who, about |-> j.about,
                   option |-> option]
<1>3. new.kind = j.kind /\ new.house = j.house /\ new.who = j.who
  OBVIOUS
<1> HIDE DEF new
<1>4. Pleas(asked \cup committed)'
  <2>1. \A i \in asked' \cup committed' : \E k \in asked \cup committed :
          i.kind = k.kind /\ i.house = k.house /\ i.who = k.who
    BY <1>1a, <1>3 DEF new
  <2>2. Pleas(asked \cup committed)
    BY DEF LifeInv
  <2> QED  BY <2>1, <2>2 DEF Pleas
<1>5. Shape'
  BY <1>2 DEF LifeInv, Shape
<1>6. /\ Placed(people, family)' /\ Empty(people, silver.treasury, active)'
      /\ Awaited(family, births, people)' /\ Bonds(family, people)' /\ Expected(family, births)'
  BY <1>2 DEF LifeInv, Empty, Members, Alive
<1> QED  BY <1>2, <1>4, <1>5, <1>6 DEF LifeInv

\* The settlement of judgments, with the transition that may be one of them.
LEMMA SettleStep ==
  ASSUME LifeInv, Settle
  PROVE  LifeInv' /\ (Total' = Total \/ (committed # {} /\ committed' = {} /\ SettledTogether))
<1> DEFINE F == Related(family)
           loaded == {c.house : c \in {b \in committed : b.kind # "evolution"}}
<1>1. /\ asked = {} /\ committed # {} /\ ~Raises /\ committed' = {}
      /\ UNCHANGED <<away, births, asked, clock>>
  BY DEF Settle
<1>2. /\ active \subseteq people.known /\ PeopleRecord(people) /\ SilverRecord(silver)
      /\ FamilyRecord(family) /\ births \subseteq BirthRow /\ ClockRecord(clock)
      /\ away \subseteq Adult
  BY DEF LifeInv, Shape
<1>3. /\ FamilyRecord(F) /\ F.parents = family.parents
      /\ DOMAIN family.marriages \subseteq DOMAIN F.marriages
      /\ Bonds(F, people) /\ Expected(F, births)
  BY <1>1, <1>2, RelatedBonds DEF LifeInv
<1> HIDE DEF F
<1>4. Pleas(asked \cup committed)'
  BY <1>1 DEF Pleas
<1>5. CASE Evolutions = {}
  <2>1. family' = F /\ UNCHANGED <<active, people, silver>>
    BY <1>5 DEF Settle, F
  <2>2. Shape'
    BY <1>1, <1>2, <1>3, <2>1 DEF Shape
  <2>3. Placed(people, family)'
    BY <1>3, <2>1 DEF LifeInv, Placed
  <2>4. Awaited(family, births, people)'
    BY <1>1, <1>3, <2>1 DEF LifeInv, Awaited
  <2>5. Bonds(family, people)' /\ Expected(family, births)'
    BY <1>1, <1>3, <2>1
  <2>6. Empty(people, silver.treasury, active)'
    BY <2>1 DEF LifeInv, Empty, Members, Alive
  <2>7. Total' = Total
    BY <2>1 DEF Total
  <2> QED  BY <1>4, <2>2, <2>3, <2>4, <2>5, <2>6, <2>7 DEF LifeInv
<1>6. CASE Evolutions # {}
  <2>1. PICK c \in Evolutions :
          /\ people' = TransitionPeople(people, c.about)
          /\ silver' = Reconciled(TransitionSilver(silver, people, c.about), silver, c.about, loaded)
          /\ family' = ReconcileFamily(F, c.about.who, c.about.from, c.about.to)
          /\ active' = StillHouses(TransitionHouses(active, c.about), people')
    BY <1>6 DEF Settle, F
  <2> DEFINE t == c.about
             R == TransitionSilver(silver, people, t)
  <2>2. t \in Proposals(people, silver)
    BY <1>1 DEF Raises, Drifted, Evolutions
  <2>3. active \subseteq House /\ \A h \in House \ people.known : silver.treasury[h] = 0
    BY <1>2 DEF LifeInv, Empty, PeopleRecord
  <2>4. Booked(silver, R, TouchedRosters(t) \cap House)
    BY <1>2, <2>2, <2>3, TransitionIsBooked
  <2>5. RowsKept(people, people', family, t)
    <3>1. Placed(people, family) /\ Empty(people, silver.treasury, active)
      BY DEF LifeInv
    <3> QED  BY <1>2, <2>1, <2>2, <3>1, TransitionKeepsRows
  <2>6. t.from \in House \cup {0} /\ t.to \in House \cup {0}
    BY <2>2, <2>3, Proposed DEF Dissolves, Merges, Parts, Founds, Unfounded
  <2>7. t.to # 0 => t.to \in people.known'
    <3>1. RowsMoved(people, people', t)
      BY <1>2, <2>1, TransitionRows
    <3> QED  BY <3>1 DEF RowsMoved
  <2> HIDE DEF R, t
  <2>8. SameBonds(F, family')
    BY <1>3, <2>1, <2>6, ReconciledBonds DEF t
  <2>9. SilverRecord(R) /\ Worth(R) = Worth(silver)
        /\ \A g \in House \ TouchedRosters(t) : R.treasury[g] = silver.treasury[g]
    BY <2>4 DEF Booked
  <2>10. /\ SilverRecord(silver')
         /\ \A h \in House : silver'.treasury[h] \in {R.treasury[h], silver.treasury[h]}
         /\ loaded \cap TouchedRosters(t) = {} => silver' = R
    BY <1>2, <2>1, <2>9, WrittenBackShape DEF R, t
  <2>11. people'.dead = people.dead /\ PeopleRecord(people') /\ people.known \subseteq people'.known
         /\ active' \subseteq people'.known
    BY <2>1, <2>5 DEF RowsKept, t
  <2>12. Shape'
    BY <1>1, <1>2, <2>8, <2>10, <2>11 DEF Shape, SameBonds
  <2>13. Placed(people, family)'
    <3>1. Placed(people', family)
      BY <2>5 DEF RowsKept
    <3>2. family'.parents = family.parents
      BY <1>3, <2>8 DEF SameBonds
    <3> QED  BY <3>1, <3>2 DEF Placed
  <2>14. Empty(people, silver.treasury, active)'
    <3>1. \A h \in House \ people'.known : h \in House \ people.known /\ people'.roster[h] = {}
      BY <2>5 DEF RowsKept
    <3>2. \A h \in House \ people'.known : h \notin TouchedRosters(t) /\ silver.treasury[h] = 0
      <4>1. t.from \in House => t.from \in people.known
        <5>1. \/ Dissolves(people, t) \/ Merges(people, t)
              \/ Parts(people, t) \/ Founds(people, silver, t)
          BY <2>2, <2>3, Proposed
        <5>2. t.from \in active \/ t.from = 0
          BY <5>1 DEF Dissolves, Merges, Parts, Founds
        <5> QED  BY <1>2, <5>2, Numbers
      <4> QED  BY <2>3, <2>7, <3>1, <4>1, <2>11 DEF TouchedRosters
    <3>3. \A h \in House \ people'.known : silver'.treasury[h] = 0
      BY <2>9, <2>10, <3>2
    <3>4. \A h \in House \ active' : Members(people', h) \cap Adult = {}
      BY <2>1, <2>5 DEF RowsKept, t
    <3> QED  BY <3>1, <3>3, <3>4 DEF Empty, Members, Alive
  <2>15. Awaited(family, births, people)'
    <3>1. DOMAIN family.marriages \subseteq DOMAIN family'.marriages /\ family'.parents = family.parents
      BY <1>3, <2>8 DEF SameBonds
    <3> QED  BY <1>1, <2>11, <3>1 DEF LifeInv, Awaited
  <2>16. Bonds(family', people') /\ Expected(family', births)
    BY <1>3, <2>8, <2>11, BondsCarryOver
  <2>17. Bonds(family, people)' /\ Expected(family, births)'
    BY <1>1, <2>16
  <2>18. Total' = Total \/ SettledTogether
    <3>1. CASE SettledTogether
      BY <3>1
    <3>2. CASE ~SettledTogether
      <4>1. \A b \in committed : b.kind # "evolution" => b.house \notin TouchedRosters(t)
        BY <3>2 DEF SettledTogether, t
      <4>2. loaded \cap TouchedRosters(t) = {}
        BY <4>1
      <4>3. silver' = R
        BY <2>10, <4>2
      <4>4. Worth(silver') = Worth(silver)
        BY <2>9, <4>3
      <4> QED  BY <4>4 DEF Total, Worth
    <3> QED  BY <3>1, <3>2
  <2> QED  BY <1>1, <1>4, <2>12, <2>13, <2>14, <2>15, <2>17, <2>18 DEF LifeInv
<1> QED  BY <1>5, <1>6

\* Judgments of offices, departures and transitions bind nobody.
Unbinding(J) == \A j \in J : j.kind \notin {"marriage", "courtship"}

\* Judgments that bind nobody can be added.
LEMMA PleasGrow ==
  ASSUME NEW J, Pleas(J), NEW K, Unbinding(K) PROVE Pleas(J \cup K)
  BY DEF Pleas, Unbinding

\* The judgments about vacant offices bind nobody.
LEMMA OfficesBindNobody ==
  ASSUME NEW P, NEW X
  PROVE  Unbinding(UNION {OfficeJudgments(P, h) : h \in X})
<1>1. ASSUME NEW h \in X, NEW j \in OfficeJudgments(P, h) PROVE j.kind = "office"
  BY DEF OfficeJudgments, Judgment
<1>2. \A h \in X : \A j \in OfficeJudgments(P, h) : j.kind = "office"
  BY <1>1
<1> QED  BY <1>2 DEF Unbinding

\* Nor do those about departures.
LEMMA DeparturesBindNobody ==
  ASSUME NEW P, NEW F, NEW h, NEW J \in DepartureJudgments(P, F, h)
  PROVE  Unbinding(J)
<1>1. ASSUME NEW j \in J PROVE j.kind = "leave"
  BY DEF DepartureJudgments, Judgment
<1> QED  BY <1>1 DEF Unbinding

\* What a review asks of the couples of a house.
LEMMA ReviewPleas ==
  ASSUME NEW P, NEW F, F.courting \subseteq Pairs, NEW h \in House,
         NEW J \in RelationshipJudgments(P, F, h)
  PROVE  Pleas(J)
<1>1. CASE MarriageJudgments(P, F, h) # {}
  <2>1. J = MarriageJudgments(P, F, h)
    BY <1>1 DEF RelationshipJudgments
  <2>2. ASSUME NEW j \in J PROVE j.kind = "marriage" /\ j.who \in Pairs /\ j.house \in House
    <3>1. PICK p \in {q \in Courtships(F) : InReach(P, h, q)} :
            j = Judgment("marriage", h, p, NoTransition, {"marry", "continue", "end"})
      BY <2>1 DEF MarriageJudgments
    <3>2. p \in Pairs
      BY DEF Courtships
    <3> QED  BY <3>1, <3>2 DEF Judgment
  <2> QED  BY <2>2 DEF Pleas
<1>2. CASE MarriageJudgments(P, F, h) = {}
  <2>1. J = {} \/ \E p \in Suited(P, F, h) :
                     J = {Judgment("courtship", h, p, NoTransition, {"start", "decline"})}
    BY <1>2 DEF RelationshipJudgments
  <2>2. CASE J = {}
    BY <2>2 DEF Pleas
  <2>3. CASE J # {}
    <3>1. PICK p \in Suited(P, F, h) :
            J = {Judgment("courtship", h, p, NoTransition, {"start", "decline"})}
      BY <2>1, <2>3
    <3>2. p \in Pairs
      BY DEF Suited
    <3>3. \A j \in J : j.who = p /\ j.house = h
      BY <3>1 DEF Judgment
    <3> QED  BY <3>2, <3>3 DEF Pleas
  <2> QED  BY <2>2, <2>3
<1> QED  BY <1>1, <1>2

\* A courtship whose party married elsewhere ends.
LEMMA CourtshipsEnd ==
  ASSUME NEW F, FamilyRecord(F), NEW G, G = [F EXCEPT !.courting = Courtships(F)]
  PROVE  /\ FamilyRecord(G) /\ G.parents = F.parents /\ G.marriages = F.marriages
         /\ G.courting \subseteq F.courting /\ Married(G) = Married(F)
<1>1. PICK C : C = Courtships(F)
  OBVIOUS
<1>2. C \subseteq F.courting
  BY <1>1 DEF Courtships
<1>3. G = [F EXCEPT !.courting = C]
  BY <1>1
<1>4. F = [marriages |-> F.marriages, homes |-> F.homes, parents |-> F.parents,
           courting |-> F.courting]
  BY DEF FamilyRecord
<1>5. G = [marriages |-> F.marriages, homes |-> F.homes, parents |-> F.parents, courting |-> C]
  BY <1>3, <1>4
<1>6. G.marriages = F.marriages /\ G.homes = F.homes /\ G.parents = F.parents /\ G.courting = C
  BY <1>5
<1>7. FamilyRecord(G)
  BY <1>2, <1>5, <1>6 DEF FamilyRecord
<1> QED  BY <1>2, <1>6, <1>7 DEF Married

\* A marriage takes up a pregnancy or ends one.
ChildOf(F, G, p, k) ==
  /\ FamilyRecord(G) /\ G.parents = F.parents /\ G.courting = F.courting /\ G.homes = F.homes
  /\ DOMAIN G.marriages = DOMAIN F.marriages
  /\ \A q \in DOMAIN F.marriages \ {p} : G.marriages[q] = F.marriages[q]
  /\ G.marriages[p].status = F.marriages[p].status /\ G.marriages[p].child = k

\* Writing the child of a marriage changes nothing else.
LEMMA ChildIsSet ==
  ASSUME NEW F, FamilyRecord(F), NEW p \in DOMAIN F.marriages, NEW k \in 0 .. (Adults + Kids),
         NEW G, G = [F EXCEPT !.marriages[p].child = k]
  PROVE  ChildOf(F, G, p, k)
<1>1. /\ F = [marriages |-> F.marriages, homes |-> F.homes, parents |-> F.parents,
              courting |-> F.courting]
      /\ DOMAIN F.marriages \subseteq Pairs
      /\ F.marriages \in [DOMAIN F.marriages -> MarriageRow]
      /\ DOMAIN F.parents \subseteq Soul \ Adult /\ F.courting \subseteq Pairs
  BY DEF FamilyRecord
<1>2. PICK N : N = F.marriages
  OBVIOUS
<1>3. PICK m : m = N[p]
  OBVIOUS
<1>4. m \in MarriageRow
  BY <1>1, <1>2, <1>3
<1>5. PICK n : n = [m EXCEPT !.child = k]
  OBVIOUS
<1>6. n \in MarriageRow /\ n.status = m.status /\ n.child = k
  BY <1>4, <1>5 DEF MarriageRow
<1>7. PICK M : M = [N EXCEPT ![p] = n]
  OBVIOUS
<1>8. G = [F EXCEPT !.marriages = M]
  BY <1>2, <1>3, <1>5, <1>7
<1>9. /\ DOMAIN M = DOMAIN N /\ M \in [DOMAIN N -> MarriageRow]
      /\ \A q \in DOMAIN N \ {p} : M[q] = N[q]
      /\ M[p] = n
  BY <1>1, <1>2, <1>6, <1>7
<1>10. G = [marriages |-> M, homes |-> F.homes, parents |-> F.parents, courting |-> F.courting]
  BY <1>1, <1>8
<1>11. G.marriages = M /\ G.homes = F.homes /\ G.parents = F.parents /\ G.courting = F.courting
  BY <1>10
<1>12. FamilyRecord(G)
  BY <1>1, <1>2, <1>9, <1>10, <1>11 DEF FamilyRecord
<1> QED  BY <1>2, <1>3, <1>6, <1>9, <1>11, <1>12 DEF ChildOf

\* A pregnancy changes no bond.
LEMMA ChildChangesNoBond ==
  ASSUME NEW F, NEW G, NEW p, NEW k, ChildOf(F, G, p, k), NEW P, Bonds(F, P)
  PROVE  Bonds(G, P) /\ Married(G) = Married(F)
<1>1. Married(G) = Married(F)
  BY DEF Married, ChildOf
<1> QED  BY <1>1 DEF Bonds, ChildOf

\* The families F, with the births B that are awaited among the people P, are in order.
InOrder(F, B, P) ==
  /\ FamilyRecord(F) /\ B \subseteq BirthRow
  /\ Awaited(F, B, P) /\ Bonds(F, P) /\ Expected(F, B)

\* Who may conceive, whom, and reviewed by which house.
MayBear(F, B, P, p, k, h) ==
  /\ p \in Married(F) /\ F.marriages[p].child = 0
  /\ k \in Soul \ Adult /\ k \notin DOMAIN F.parents /\ \A b \in B : b.child # k
  /\ h \in House /\ h \in P.known

Bearing(F, p, k) == [F EXCEPT !.marriages[p].child = k]
Expecting(B, p, k, h, due) == B \cup {[couple |-> p, child |-> k, house |-> h, due |-> due]}

\* A conception is awaited by its birth.
LEMMA Conceived ==
  ASSUME NEW F, NEW B, NEW P, InOrder(F, B, P), NEW p, NEW k, NEW h, MayBear(F, B, P, p, k, h),
         NEW due \in Nat
  PROVE  /\ InOrder(Bearing(F, p, k), Expecting(B, p, k, h, due), P)
         /\ Bearing(F, p, k).parents = F.parents
<1> DEFINE G == Bearing(F, p, k)
           C == Expecting(B, p, k, h, due)
<1>a. /\ FamilyRecord(F) /\ B \subseteq BirthRow
      /\ Awaited(F, B, P) /\ Bonds(F, P) /\ Expected(F, B)
  BY DEF InOrder
<1>b. /\ p \in Married(F) /\ F.marriages[p].child = 0
      /\ k \in Soul \ Adult /\ k \notin DOMAIN F.parents /\ \A b \in B : b.child # k
      /\ h \in House /\ h \in P.known
  BY DEF MayBear
<1>c. G = [F EXCEPT !.marriages[p].child = k]
  BY DEF Bearing
<1>d. C = B \cup {[couple |-> p, child |-> k, house |-> h, due |-> due]}
  BY DEF Expecting
<1> HIDE DEF G, C
<1>1. p \in DOMAIN F.marriages /\ F.marriages[p].status = "married" /\ p \in Pairs
  BY <1>a, <1>b DEF Married, FamilyRecord
<1>2. k \in 0 .. (Adults + Kids)
  BY <1>b, LifeAssumption DEF Soul
<1>3. ChildOf(F, G, p, k)
  BY <1>a, <1>c, <1>1, <1>2, ChildIsSet
<1>4. PICK c : c = [couple |-> p, child |-> k, house |-> h, due |-> due]
  OBVIOUS
<1>5. c.couple = p /\ c.child = k /\ c.house = h /\ c \in BirthRow
  BY <1>b, <1>1, <1>4 DEF BirthRow
<1>6. C = B \cup {c}
  BY <1>d, <1>4
<1>7. Awaited(G, C, P)
  BY <1>a, <1>b, <1>1, <1>3, <1>5, <1>6 DEF Awaited, ChildOf
<1>8. Expected(G, C)
  <2> SUFFICES ASSUME NEW q \in DOMAIN F.marriages, G.marriages[q].child # 0
               PROVE  /\ G.marriages[q].status = "married"
                      /\ \E b \in C : b.couple = q /\ b.child = G.marriages[q].child
    BY <1>3 DEF Expected, ChildOf
  <2>1. CASE q = p
    BY <1>1, <1>3, <1>5, <1>6, <2>1 DEF ChildOf
  <2>2. CASE q # p
    <3>1. G.marriages[q] = F.marriages[q]
      BY <1>3, <2>2 DEF ChildOf
    <3>2. F.marriages[q].child # 0
      BY <3>1
    <3>3. /\ F.marriages[q].status = "married"
          /\ \E b \in B : b.couple = q /\ b.child = F.marriages[q].child
      BY <1>a, <3>2 DEF Expected
    <3>4. B \subseteq C
      BY <1>6
    <3> QED  BY <3>1, <3>3, <3>4
  <2> QED  BY <2>1, <2>2
<1>9. Bonds(G, P)
  BY <1>a, <1>3, ChildChangesNoBond
<1>10. C \subseteq BirthRow
  BY <1>a, <1>5, <1>6
<1> QED  BY <1>3, <1>7, <1>8, <1>9, <1>10 DEF ChildOf, InOrder, G, C

\* The accounts of a month: upkeep, or upkeep and stipends.
LEMMA MonthIsBooked ==
  ASSUME NEW S, SilverRecord(S), NEW P, PeopleRecord(P), NEW h \in House
  PROVE  /\ Booked(S, Maintained(S, h), {h})
         /\ Booked(S, Compensated(Maintained(S, h), P, h), {h})
<1>1. PICK K : K = Maintained(S, h)
  OBVIOUS
<1>2. Booked(S, K, {h})
  BY <1>1, UpkeepIsBooked
<1>3. Booked(K, Compensated(K, P, h), {h})
  BY <1>2, PayIsBooked DEF Booked
<1>4. Booked(S, Compensated(K, P, h), {h})
  BY <1>2, <1>3 DEF Booked
<1> QED  BY <1>1, <1>2, <1>4

\* Accounts of houses that exist leave the others empty.
LEMMA StillEmpty ==
  ASSUME NEW P, NEW S, NEW A, Empty(P, S.treasury, A), NEW R, NEW H, H \subseteq P.known,
         Booked(S, R, H)
  PROVE  Empty(P, R.treasury, A)
  BY DEF Empty, Booked

\* The monthly review of a house.
LEMMA MonthlyStep ==
  ASSUME LifeInv, NEW h \in House, MonthlyCycle(h)
  PROVE  LifeInv' /\ Total' = Total
<1> DEFINE gone == people.roster[h] \cap people.dead
           alone == CloseFamily(family, people, gone)
           closed == [alone EXCEPT !.courting = Courtships(alone)]
<1>1. /\ asked = {} /\ committed = {} /\ h \in active
      /\ UNCHANGED <<active, people, away, committed>>
      /\ clock' = [clock EXCEPT !.reviewed = @ \cup {h}]
  BY DEF MonthlyCycle, Quiet, Pending
<1>2. /\ silver' = Maintained(silver, h) \/ silver' = Compensated(Maintained(silver, h), people, h)
  BY DEF MonthlyCycle
<1>3. PICK leaving, relations :
        /\ leaving = {} \/ leaving \in DepartureJudgments(people, closed, h)
        /\ relations \in RelationshipJudgments(people, closed, h)
        /\ asked' = leaving \cup relations \cup (IF gone = {} THEN {} ELSE OfficeJudgments(people, h))
  BY DEF MonthlyCycle
<1>4. \/ family' = closed /\ UNCHANGED births
      \/ \E p \in MayConceive(people, closed, h) :
           /\ Unborn(closed) # {}
           /\ family' = [closed EXCEPT !.marriages[p].child = Min(Unborn(closed))]
           /\ births' = births \cup
                {[couple |-> p, child |-> Min(Unborn(closed)), house |-> h,
                  due |-> clock.month + BirthMonths]}
  BY DEF MonthlyCycle
<1>5. /\ active \subseteq people.known /\ PeopleRecord(people) /\ SilverRecord(silver)
      /\ FamilyRecord(family) /\ births \subseteq BirthRow /\ ClockRecord(clock)
      /\ away \subseteq Adult /\ h \in people.known
  BY <1>1 DEF LifeInv, Shape
<1>6. /\ FamilyRecord(alone) /\ alone.parents = family.parents
      /\ DOMAIN alone.marriages = DOMAIN family.marriages
  BY <1>5, ClosedFamily
<1>7. Bonds(alone, people) /\ Expected(alone, births)
  <2>1. people.dead \subseteq people.dead \cup gone
    OBVIOUS
  <2> QED  BY <1>5, <2>1, BondsAfterDeaths DEF LifeInv
<1> HIDE DEF alone
<1>8. /\ FamilyRecord(closed) /\ closed.parents = alone.parents
      /\ closed.marriages = alone.marriages
      /\ closed.courting \subseteq alone.courting /\ Married(closed) = Married(alone)
  BY <1>6, CourtshipsEnd
<1> HIDE DEF closed, gone
<1>9. Bonds(closed, people) /\ Expected(closed, births)
  BY <1>7, <1>8 DEF Bonds, Expected
<1>10. Awaited(closed, births, people)
  BY <1>6, <1>8 DEF LifeInv, Awaited
<1>11. Pleas(asked \cup committed)'
  <2>1. Pleas(relations)
    BY <1>3, <1>8, ReviewPleas DEF FamilyRecord
  <2>2. Unbinding(leaving)
    BY <1>3, DeparturesBindNobody DEF Unbinding
  <2>3. Unbinding(IF gone = {} THEN {} ELSE OfficeJudgments(people, h))
    BY DEF Unbinding, OfficeJudgments, Judgment
  <2>4. PICK K : K = IF gone = {} THEN {} ELSE OfficeJudgments(people, h)
    OBVIOUS
  <2>5. Unbinding(leaving \cup K)
    BY <2>2, <2>3, <2>4 DEF Unbinding
  <2>6. asked' \cup committed' = relations \cup (leaving \cup K)
    BY <1>1, <1>3, <2>4
  <2>7. Pleas(relations \cup (leaving \cup K))
    BY <2>1, <2>5, PleasGrow
  <2> QED  BY <2>6, <2>7
<1>12. /\ FamilyRecord(family') /\ family'.parents = family.parents /\ births' \subseteq BirthRow
       /\ Awaited(family', births', people) /\ Bonds(family', people)
       /\ Expected(family', births')
  <2>1. CASE family' = closed /\ UNCHANGED births
    BY <1>5, <1>6, <1>8, <1>9, <1>10, <2>1
  <2>2. CASE \E p \in MayConceive(people, closed, h) :
           /\ Unborn(closed) # {}
           /\ family' = [closed EXCEPT !.marriages[p].child = Min(Unborn(closed))]
           /\ births' = births \cup
                {[couple |-> p, child |-> Min(Unborn(closed)), house |-> h,
                  due |-> clock.month + BirthMonths]}
    <3>1. PICK p \in MayConceive(people, closed, h) :
           /\ Unborn(closed) # {}
           /\ family' = [closed EXCEPT !.marriages[p].child = Min(Unborn(closed))]
           /\ births' = births \cup
                {[couple |-> p, child |-> Min(Unborn(closed)), house |-> h,
                  due |-> clock.month + BirthMonths]}
      BY <2>2
    <3>2. PICK k : k = Min(Unborn(closed))
      OBVIOUS
    <3>3. PICK due : due = clock.month + BirthMonths
      OBVIOUS
    <3>4. due \in Nat
      <4>1. clock.month \in Nat /\ BirthMonths \in Nat
        BY <1>5, LifeAssumption DEF ClockRecord
      <4> QED  BY <3>3, <4>1
    <3>5. k \in Unborn(closed)
      <4>1. Unborn(closed) \subseteq Nat
        BY Numbers DEF Unborn
      <4> QED  BY <3>1, <3>2, <4>1, LeastOf
    <3>6. k \in Soul \ Adult /\ k \notin DOMAIN closed.parents /\ \A b \in births : b.child # k
      BY <3>5 DEF Unborn
    <3>7. p \in Married(closed) /\ closed.marriages[p].child = 0
      BY <3>1 DEF MayConceive
    <3>8. family' = Bearing(closed, p, k)
      BY <3>1, <3>2 DEF Bearing
    <3>9. births' = Expecting(births, p, k, h, due)
      BY <3>1, <3>2, <3>3 DEF Expecting
    <3>10. MayBear(closed, births, people, p, k, h)
      BY <1>5, <3>6, <3>7 DEF MayBear
    <3>11. InOrder(closed, births, people)
      BY <1>5, <1>8, <1>9, <1>10 DEF InOrder
    <3>12. InOrder(family', births', people) /\ family'.parents = closed.parents
      BY <3>4, <3>8, <3>9, <3>10, <3>11, Conceived
    <3> QED  BY <1>6, <1>8, <3>12 DEF InOrder
  <2> QED  BY <1>4, <2>1, <2>2
<1>13. Booked(silver, silver', {h})
  BY <1>2, <1>5, MonthIsBooked
<1>14. Empty(people, silver'.treasury, active)
  <2>1. Empty(people, silver.treasury, active) /\ {h} \subseteq people.known
    BY <1>5 DEF LifeInv
  <2> QED  BY <1>13, <2>1, StillEmpty
<1>15. Placed(people, family')
  BY <1>12 DEF LifeInv, Placed
<1>16. ClockRecord(clock')
  <2>1. PICK m, r, a, f : clock = [month |-> m, reviewed |-> r, annual |-> a, falls |-> f]
                          /\ m \in Nat
    BY <1>5 DEF ClockRecord
  <2>2. clock' = [month |-> m, reviewed |-> r \cup {h}, annual |-> a, falls |-> f]
    BY <1>1, <2>1
  <2> QED  BY <2>1, <2>2 DEF ClockRecord
<1>17. Shape'
  <2>1. SilverRecord(silver')
    BY <1>13 DEF Booked
  <2> QED  BY <1>1, <1>5, <1>12, <1>16, <2>1 DEF Shape, ClockRecord, PeopleRecord, SilverRecord, FamilyRecord
<1>18. Total' = Total
  BY <1>13 DEF Booked, Worth, Total
<1>19. /\ Placed(people, family)' /\ Awaited(family, births, people)' /\ Bonds(family, people)'
       /\ Expected(family, births)' /\ Empty(people, silver.treasury, active)'
  <2>1. people' = people /\ active' = active
    BY <1>1
  <2> QED  BY <1>12, <1>14, <1>15, <2>1 DEF Empty, Members, Alive
<1> QED  BY <1>11, <1>17, <1>18, <1>19 DEF LifeInv

\* A pregnancy that ends leaves the others expected.
LEMMA PregnancyEnds ==
  ASSUME NEW F, FamilyRecord(F), NEW B, Expected(F, B), NEW b \in B,
         b.couple \in DOMAIN F.marriages, NEW G, ChildOf(F, G, b.couple, 0)
  PROVE  Expected(G, B \ {b})
<1> SUFFICES ASSUME NEW p \in DOMAIN G.marriages, G.marriages[p].child # 0
             PROVE  /\ G.marriages[p].status = "married"
                    /\ \E a \in B \ {b} : a.couple = p /\ a.child = G.marriages[p].child
  BY DEF Expected
<1>1. p \in DOMAIN F.marriages /\ p # b.couple
  BY DEF ChildOf
<1>2. G.marriages[p] = F.marriages[p]
  BY <1>1 DEF ChildOf
<1>3. /\ F.marriages[p].status = "married"
      /\ \E a \in B : a.couple = p /\ a.child = F.marriages[p].child
  BY <1>1, <1>2 DEF Expected
<1>4. PICK a \in B : a.couple = p /\ a.child = F.marriages[p].child
  BY <1>3
<1>5. a \in B \ {b}
  BY <1>1, <1>4
<1> QED  BY <1>2, <1>3, <1>4, <1>5

\* The house a child is born into exists.
Nursery(P, b) ==
  LET mother == Mother(b.couple)
      father == Min(b.couple \ {mother})
      hers == HousesOf(P, mother)
      his == HousesOf(P, father)
  IN  CASE hers # {} -> Min(hers)
        [] hers = {} /\ his # {} -> Min(his)
        [] OTHER -> b.house

\* It is a house with a row of a parent, or the one that reviewed the couple.
LEMMA NurseryExists ==
  ASSUME NEW P, NEW T, NEW act, Empty(P, T, act), NEW b \in BirthRow, b.house \in P.known
  PROVE  Nursery(P, b) \in House /\ Nursery(P, b) \in P.known
<1> DEFINE mother == Mother(b.couple)
           father == Min(b.couple \ {mother})
           hers == HousesOf(P, mother)
           his == HousesOf(P, father)
<1>1. b.house \in House
  BY DEF BirthRow
<1>2. ASSUME NEW x, HousesOf(P, x) # {}
      PROVE  Min(HousesOf(P, x)) \in House /\ Min(HousesOf(P, x)) \in P.known
  <2>1. Min(HousesOf(P, x)) \in HousesOf(P, x) /\ Min(HousesOf(P, x)) \in House
    BY <1>2, FirstHouse
  <2>2. P.roster[Min(HousesOf(P, x))] # {}
    BY <2>1 DEF HousesOf
  <2> QED  BY <2>1, <2>2 DEF Empty
<1>3. Nursery(P, b) = CASE hers # {} -> Min(hers)
                        [] hers = {} /\ his # {} -> Min(his)
                        [] OTHER -> b.house
  BY DEF Nursery
<1>4. CASE hers # {}
  <2>1. Nursery(P, b) = Min(hers)
    BY <1>3, <1>4
  <2> QED  BY <1>2, <1>4, <2>1
<1>5. CASE hers = {} /\ his # {}
  <2>1. Nursery(P, b) = Min(his)
    BY <1>3, <1>5
  <2> QED  BY <1>2, <1>5, <2>1
<1>6. CASE hers = {} /\ his = {}
  <2>1. Nursery(P, b) = b.house
    BY <1>3, <1>6
  <2> QED  BY <1>1, <2>1
<1> QED  BY <1>4, <1>5, <1>6

\* A child that was in no roster joins one.
LEMMA ChildJoins ==
  ASSUME NEW P, PeopleRecord(P), NEW F, Placed(P, F), NEW T, NEW act, Empty(P, T, act),
         NEW h \in House, h \in P.known, NEW k \in Soul \ Adult, k \notin DOMAIN F.parents,
         NEW Q, Q = [P EXCEPT !.roster[h] = @ \cup {k}],
         NEW G, DOMAIN G.parents = DOMAIN F.parents \cup {k}
  PROVE  /\ PeopleRecord(Q) /\ Placed(Q, G) /\ Empty(Q, T, act)
         /\ Q.dead = P.dead /\ Q.known = P.known
<1>1. PICK R : R = [P.roster EXCEPT ![h] = @ \cup {k}]
  OBVIOUS
<1>2. /\ P.roster \in [House -> SUBSET Soul] /\ P.loose \subseteq Soul /\ P.dead \subseteq Soul
      /\ P.leaders \subseteq Adult /\ P.known \subseteq House
      /\ P = [roster |-> P.roster, loose |-> P.loose, dead |-> P.dead, leaders |-> P.leaders,
              known |-> P.known]
  BY DEF PeopleRecord
<1>3. /\ R \in [House -> SUBSET Soul] /\ R[h] = P.roster[h] \cup {k}
      /\ \A g \in House \ {h} : R[g] = P.roster[g]
  BY <1>1, <1>2
<1>4. Q = [P EXCEPT !.roster = R]
  BY <1>1, <1>2
<1>5. Q = [roster |-> R, loose |-> P.loose, dead |-> P.dead, leaders |-> P.leaders,
           known |-> P.known]
  BY <1>2, <1>4
<1>6. /\ Q.roster = R /\ Q.loose = P.loose /\ Q.dead = P.dead /\ Q.leaders = P.leaders
      /\ Q.known = P.known
  BY <1>5
<1>7. PeopleRecord(Q)
  BY <1>2, <1>3, <1>5 DEF PeopleRecord
<1>8. k \notin P.loose /\ \A g \in House : k \notin P.roster[g]
  BY DEF Placed
<1>9. \A g \in House : /\ P.roster[g] \subseteq R[g] /\ R[g] \subseteq P.roster[g] \cup {k}
                       /\ g # h => R[g] = P.roster[g]
  BY <1>3
<1>10. Placed(Q, G)
  <2>1. \A f, g \in House : f # g => R[f] \cap R[g] = {}
    <3> SUFFICES ASSUME NEW f \in House, NEW g \in House, f # g PROVE R[f] \cap R[g] = {}
      OBVIOUS
    <3>1. P.roster[f] \cap P.roster[g] = {}
      BY DEF Placed
    <3>2. R[f] = P.roster[f] \/ R[g] = P.roster[g]
      BY <1>9
    <3> QED  BY <1>8, <1>9, <3>1, <3>2
  <2>2. \A g \in House : R[g] \cap P.loose = {}
    BY <1>8, <1>9 DEF Placed
  <2>3. \A x \in Soul : x \in Adult \cup DOMAIN G.parents
                          <=> x \in P.loose \/ \E g \in House : x \in R[g]
    <3> SUFFICES ASSUME NEW x \in Soul
                 PROVE  x \in Adult \cup DOMAIN G.parents
                          <=> x \in P.loose \/ \E g \in House : x \in R[g]
      OBVIOUS
    <3>1. CASE x = k
      BY <1>3, <3>1
    <3>2. CASE x # k
      <4>1. (\E g \in House : x \in R[g]) <=> (\E g \in House : x \in P.roster[g])
        BY <1>9, <3>2
      <4>2. x \in Adult \cup DOMAIN F.parents
              <=> x \in P.loose \/ \E g \in House : x \in P.roster[g]
        BY DEF Placed
      <4> QED  BY <3>2, <4>1, <4>2
    <3> QED  BY <3>1, <3>2
  <2>4. \A g \in House : \A x, y \in R[g] \cap P.leaders : x = y
    <3>1. k \notin P.leaders
      BY <1>2
    <3>2. \A g \in House : R[g] \cap P.leaders \subseteq P.roster[g] \cap P.leaders
      BY <1>9, <3>1
    <3> QED  BY <3>2 DEF Placed
  <2>5. \A f, g \in House : f # g => Q.roster[f] \cap Q.roster[g] = {}
    BY <1>6, <2>1
  <2>6. \A g \in House : Q.roster[g] \cap Q.loose = {}
    BY <1>6, <2>2
  <2>7. \A x \in Soul : x \in Adult \cup DOMAIN G.parents
                          <=> x \in Q.loose \/ \E g \in House : x \in Q.roster[g]
    BY <1>6, <2>3
  <2>8. \A g \in House : \A x, y \in Q.roster[g] \cap Q.leaders : x = y
    <3> SUFFICES ASSUME NEW g \in House, NEW x \in Q.roster[g] \cap Q.leaders,
                        NEW y \in Q.roster[g] \cap Q.leaders
                 PROVE  x = y
      OBVIOUS
    <3>1. x \in R[g] \cap P.leaders /\ y \in R[g] \cap P.leaders
      BY <1>6
    <3> QED  BY <2>4, <3>1
  <2> QED  BY <2>5, <2>6, <2>7, <2>8 DEF Placed
<1>11. Empty(Q, T, act)
  <2>1. \A g \in House \ P.known : R[g] = {} /\ T[g] = 0
    BY <1>9 DEF Empty
  <2>2. \A g \in House \ act : Members(Q, g) \cap Adult = {}
    <3> SUFFICES ASSUME NEW g \in House \ act PROVE Members(Q, g) \cap Adult = {}
      OBVIOUS
    <3>1. Members(P, g) \cap Adult = {}
      BY DEF Empty
    <3>2. Members(Q, g) = R[g] \ P.dead /\ Members(P, g) = P.roster[g] \ P.dead
      BY <1>6 DEF Members, Alive
    <3> QED  BY <1>9, <3>1, <3>2
  <2> QED  BY <1>6, <2>1, <2>2 DEF Empty
<1> QED  BY <1>6, <1>7, <1>10, <1>11

\* A child is born, or its birth comes to nothing.
LEMMA BirthStep ==
  ASSUME LifeInv, Birth PROVE LifeInv' /\ UNCHANGED silver
<1>1. UNCHANGED <<active, away, silver, asked, committed, clock>>
  BY DEF Birth
<1>2. PICK b \in births :
       LET m == family.marriages[b.couple]
           ended == [family EXCEPT !.marriages[b.couple].child = 0]
           home == {g \in family.homes : g.house = Nursery(people, b) /\ g.members \cap b.couple # {}}
       IN  /\ births' = births \ {b}
           /\ \/ m.child # b.child /\ UNCHANGED <<family, people>>
              \/ m.child = b.child /\ family' = ended /\ UNCHANGED people
              \/ /\ m.child = b.child
                 /\ people' = [people EXCEPT !.roster[Nursery(people, b)] = @ \cup {b.child}]
                 /\ \E g \in IF home = {} THEN {{}} ELSE home :
                      family' = [ended EXCEPT !.parents = WithChild(@, b),
                                              !.homes = IF home = {} THEN @
                                                        ELSE Grown(@, g, b.child)]
  BY DEF Birth, Nursery
<1> DEFINE ended == [family EXCEPT !.marriages[b.couple].child = 0]
           home == {g \in family.homes : g.house = Nursery(people, b) /\ g.members \cap b.couple # {}}
           to == Nursery(people, b)
<1>3. births' = births \ {b}
  BY <1>2
<1>4. /\ active \subseteq people.known /\ PeopleRecord(people) /\ SilverRecord(silver)
      /\ FamilyRecord(family) /\ births \subseteq BirthRow /\ ClockRecord(clock)
      /\ away \subseteq Adult
  BY DEF LifeInv, Shape
<1>5. /\ b \in BirthRow /\ b.child \notin DOMAIN family.parents /\ b.child \in Soul \ Adult
      /\ b.couple \in DOMAIN family.marriages /\ b.house \in people.known
      /\ \A a \in births \ {b} : a.child # b.child
  BY <1>4 DEF LifeInv, Awaited, BirthRow
<1>6. ChildOf(family, ended, b.couple, 0)
  <2>1. 0 \in 0 .. (Adults + Kids)
    BY LifeAssumption
  <2> QED  BY <1>4, <1>5, <2>1, ChildIsSet
<1> HIDE DEF ended, home, to
<1>7. Expected(ended, births') /\ Bonds(ended, people)
  BY <1>3, <1>4, <1>5, <1>6, PregnancyEnds, ChildChangesNoBond DEF LifeInv
<1>8. CASE family.marriages[b.couple].child # b.child /\ UNCHANGED <<family, people>>
  <2>1. Shape'
    BY <1>1, <1>3, <1>4, <1>8 DEF Shape
  <2>2. Expected(family, births)'
    <3> SUFFICES ASSUME NEW p \in DOMAIN family.marriages, family.marriages[p].child # 0
                 PROVE  /\ family.marriages[p].status = "married"
                        /\ \E a \in births \ {b} : a.couple = p /\ a.child = family.marriages[p].child
      BY <1>3, <1>8 DEF Expected
    <3>1. PICK a \in births : a.couple = p /\ a.child = family.marriages[p].child
      BY DEF LifeInv, Expected
    <3>2. a # b
      BY <1>8, <3>1
    <3> QED  BY <3>1, <3>2 DEF LifeInv, Expected
  <2>3. /\ Placed(people, family)' /\ Empty(people, silver.treasury, active)'
        /\ Awaited(family, births, people)' /\ Bonds(family, people)'
        /\ Pleas(asked \cup committed)'
    BY <1>1, <1>3, <1>8 DEF LifeInv, Awaited, Empty, Members, Alive
  <2> QED  BY <1>1, <2>1, <2>2, <2>3 DEF LifeInv
<1>9. CASE family' = ended /\ UNCHANGED people
  <2>1. /\ FamilyRecord(family') /\ family'.parents = family.parents
        /\ DOMAIN family'.marriages = DOMAIN family.marriages
    BY <1>6, <1>9 DEF ChildOf
  <2>2. Shape'
    BY <1>1, <1>3, <1>4, <1>9, <2>1 DEF Shape
  <2>3. Placed(people, family)' /\ Awaited(family, births, people)'
    BY <1>3, <1>9, <2>1 DEF LifeInv, Placed, Awaited
  <2>4. Empty(people, silver.treasury, active)' /\ Pleas(asked \cup committed)'
    BY <1>1, <1>9 DEF LifeInv, Empty, Members, Alive
  <2>5. Bonds(family, people)' /\ Expected(family, births)'
    BY <1>7, <1>9
  <2> QED  BY <1>1, <2>2, <2>3, <2>4, <2>5 DEF LifeInv
<1>10. CASE /\ people' = [people EXCEPT !.roster[to] = @ \cup {b.child}]
            /\ \E g \in IF home = {} THEN {{}} ELSE home :
                 family' = [ended EXCEPT !.parents = WithChild(@, b),
                                         !.homes = IF home = {} THEN @
                                                   ELSE Grown(@, g, b.child)]
  <2>1. PICK H : family' = [ended EXCEPT !.parents = WithChild(@, b), !.homes = H]
    <3>1. PICK g \in IF home = {} THEN {{}} ELSE home :
             family' = [ended EXCEPT !.parents = WithChild(@, b),
                                     !.homes = IF home = {} THEN @ ELSE Grown(@, g, b.child)]
      BY <1>10
    <3>2. PICK H : H = IF home = {} THEN ended.homes ELSE Grown(ended.homes, g, b.child)
      OBVIOUS
    <3>3. family' = [ended EXCEPT !.parents = WithChild(@, b), !.homes = H]
      BY <3>1, <3>2
    <3> QED  BY <3>3
  <2>2. PICK W : W = WithChild(family.parents, b)
    OBVIOUS
  <2>3. DOMAIN W = DOMAIN family.parents \cup {b.child}
    BY <2>2 DEF WithChild
  <2>4. FamilyRecord(ended) /\ ended.parents = family.parents
    BY <1>6 DEF ChildOf
  <2>5. /\ ended = [marriages |-> ended.marriages, homes |-> ended.homes,
                    parents |-> ended.parents, courting |-> ended.courting]
    BY <2>4 DEF FamilyRecord
  <2>6. family' = [ended EXCEPT !.parents = W, !.homes = H]
    BY <2>1, <2>2, <2>4
  <2>7. family' = [marriages |-> ended.marriages, homes |-> H, parents |-> W,
                   courting |-> ended.courting]
    BY <2>5, <2>6
  <2>8. /\ family'.marriages = ended.marriages /\ family'.parents = W /\ family'.homes = H
        /\ family'.courting = ended.courting
    BY <2>7
  <2>9. FamilyRecord(family')
    BY <1>5, <2>3, <2>4, <2>7, <2>8 DEF FamilyRecord
  <2>10. to \in House /\ to \in people.known
    BY <1>5, NurseryExists DEF LifeInv, to
  <2>11. /\ PeopleRecord(people') /\ Placed(people', family')
         /\ Empty(people', silver.treasury, active)
         /\ people'.dead = people.dead /\ people'.known = people.known
    <3>1. /\ DOMAIN family'.parents = DOMAIN family.parents \cup {b.child}
          /\ people' = [people EXCEPT !.roster[to] = @ \cup {b.child}]
          /\ Placed(people, family) /\ Empty(people, silver.treasury, active)
      BY <1>10, <2>3, <2>8 DEF LifeInv
    <3> QED  BY <1>4, <1>5, <2>10, <3>1, ChildJoins
  <2>12. Shape'
    BY <1>1, <1>3, <1>4, <2>9, <2>11 DEF Shape
  <2>13. Awaited(family, births, people)'
    <3>1. DOMAIN family'.marriages = DOMAIN family.marriages
      BY <1>6, <2>8 DEF ChildOf
    <3> QED  BY <1>3, <1>5, <2>3, <2>8, <2>11, <3>1 DEF LifeInv, Awaited
  <2>14. Bonds(family, people)' /\ Expected(family, births)'
    <3>1. Married(family') = Married(ended)
      BY <2>8 DEF Married
    <3> QED  BY <1>7, <2>8, <2>11, <3>1 DEF Bonds, Expected
  <2>15. Empty(people, silver.treasury, active)' /\ Pleas(asked \cup committed)'
    BY <1>1, <2>11 DEF LifeInv, Empty, Members, Alive
  <2> QED  BY <1>1, <2>11, <2>12, <2>13, <2>14, <2>15 DEF LifeInv
<1> QED  BY <1>2, <1>8, <1>9, <1>10 DEF ended, home, to

\* The rows of the dead stay where they are, their offices end.
LEMMA RowsOfTheDead ==
  ASSUME NEW P, PeopleRecord(P), NEW F, Placed(P, F), NEW T, NEW act, Empty(P, T, act),
         NEW d \in Soul
  PROVE  LET Q == Die(P, d)
         IN  /\ PeopleRecord(Q) /\ Placed(Q, F) /\ Empty(Q, T, StillHouses(act, Q))
             /\ Q.dead = P.dead \cup {d} /\ Q.known = P.known /\ Q.roster = P.roster
             /\ StillHouses(act, Q) \subseteq act
             /\ HousesOf(Q, d) = HousesOf(P, d) /\ HousesOf(P, d) \subseteq P.known
<1> DEFINE Q == Die(P, d)
<1>1. PICK D, L : D = P.dead \cup {d} /\ L = P.leaders \ {d}
  OBVIOUS
<1>2. /\ P = [roster |-> P.roster, loose |-> P.loose, dead |-> P.dead, leaders |-> P.leaders,
              known |-> P.known]
      /\ P.roster \in [House -> SUBSET Soul] /\ P.loose \subseteq Soul /\ P.dead \subseteq Soul
      /\ P.leaders \subseteq Adult /\ P.known \subseteq House
  BY DEF PeopleRecord
<1>3. Q = [P EXCEPT !.dead = D, !.leaders = L]
  BY <1>1 DEF Die
<1> HIDE DEF Q
<1>4. Q = [roster |-> P.roster, loose |-> P.loose, dead |-> D, leaders |-> L, known |-> P.known]
  BY <1>2, <1>3
<1>5. /\ Q.roster = P.roster /\ Q.loose = P.loose /\ Q.dead = D /\ Q.leaders = L
      /\ Q.known = P.known
  BY <1>4
<1>6. PeopleRecord(Q)
  BY <1>1, <1>2, <1>4 DEF PeopleRecord
<1>7. Placed(Q, F)
  <2>1. L \subseteq P.leaders
    BY <1>1
  <2>2. \A h \in House : \A x, y \in P.roster[h] \cap L : x = y
    BY <2>1 DEF Placed
  <2>3. /\ \A h, g \in House : h # g => P.roster[h] \cap P.roster[g] = {}
        /\ \A h \in House : P.roster[h] \cap P.loose = {}
        /\ \A x \in Soul : x \in Adult \cup DOMAIN F.parents
                             <=> x \in P.loose \/ \E h \in House : x \in P.roster[h]
    BY DEF Placed
  <2> QED  BY <1>5, <2>2, <2>3 DEF Placed
<1>8. \A h \in House : Members(Q, h) \subseteq Members(P, h)
  BY <1>1, <1>5 DEF Members, Alive
<1>9. \A h \in House \ act : Members(Q, h) \cap Adult = {}
  BY <1>8 DEF Empty
<1>10. /\ \A h \in House \ StillHouses(act, Q) : Members(Q, h) \cap Adult = {}
       /\ StillHouses(act, Q) \subseteq act
  BY <1>9, NobodyLeft
<1>11. Empty(Q, T, StillHouses(act, Q))
  BY <1>5, <1>10 DEF Empty
<1>12. HousesOf(Q, d) = HousesOf(P, d) /\ HousesOf(P, d) \subseteq P.known
  BY <1>5 DEF HousesOf, Empty
<1> QED  BY <1>1, <1>5, <1>6, <1>7, <1>10, <1>11, <1>12 DEF Q

\* Families, births and people after the clean-up of the dead.
LEMMA DeathsInOrder ==
  ASSUME NEW F, NEW B, NEW P, InOrder(F, B, P), NEW X, NEW D,
         NEW Q, Q.dead \subseteq P.dead \cup D, Q.known = P.known
  PROVE  /\ InOrder(CloseFamily(F, X, D), B, Q)
         /\ CloseFamily(F, X, D).parents = F.parents
<1> DEFINE G == CloseFamily(F, X, D)
<1>1. /\ FamilyRecord(F) /\ B \subseteq BirthRow
      /\ Awaited(F, B, P) /\ Bonds(F, P) /\ Expected(F, B)
  BY DEF InOrder
<1>2. /\ FamilyRecord(G) /\ G.parents = F.parents /\ DOMAIN G.marriages = DOMAIN F.marriages
  BY <1>1, ClosedFamily
<1>3. Bonds(G, Q) /\ Expected(G, B)
  BY <1>1, BondsAfterDeaths
<1> HIDE DEF G
<1>4. Awaited(G, B, Q)
  BY <1>1, <1>2 DEF Awaited
<1> QED  BY <1>1, <1>2, <1>3, <1>4 DEF InOrder, G

\* A sudden death.
LEMMA FallStep ==
  ASSUME LifeInv, NEW d \in Soul, Fall(d)
  PROVE  LifeInv' /\ Total' = Total
<1> DEFINE after == Die(people, d)
           offices == UNION {OfficeJudgments(after, h) :
                               h \in {g \in HousesOf(people, d) : Members(after, g) # {}}}
<1>1. /\ people' = after /\ family' = CloseFamily(family, people, {d})
      /\ silver' = Bequeath(silver, family, after, d)
      /\ active' = StillHouses(active, after)
      /\ asked' = asked \cup offices
      /\ away' = away \ {d} /\ clock' = [clock EXCEPT !.falls = @ + 1]
      /\ UNCHANGED <<births, committed>>
  BY DEF Fall
<1>2. /\ active \subseteq people.known /\ PeopleRecord(people) /\ SilverRecord(silver)
      /\ FamilyRecord(family) /\ births \subseteq BirthRow /\ ClockRecord(clock)
      /\ away \subseteq Adult
  BY DEF LifeInv, Shape
<1>3. Unbinding(offices)
  BY OfficesBindNobody
<1> HIDE DEF offices
<1>4. /\ PeopleRecord(after) /\ Placed(after, family)
      /\ Empty(after, silver.treasury, StillHouses(active, after))
      /\ after.dead = people.dead \cup {d} /\ after.known = people.known
      /\ StillHouses(active, after) \subseteq active
      /\ HousesOf(after, d) = HousesOf(people, d) /\ HousesOf(people, d) \subseteq people.known
  BY <1>2, RowsOfTheDead DEF LifeInv
<1>5. Booked(silver, silver', HousesOf(after, d))
  <2>1. d \in after.dead
    BY <1>4
  <2> QED  BY <1>1, <1>2, <2>1, EstateIsBooked
<1> HIDE DEF after
<1>6. Empty(people', silver'.treasury, active')
  <2>1. HousesOf(after, d) \subseteq after.known
    BY <1>4
  <2>2. Empty(after, silver'.treasury, StillHouses(active, after))
    BY <1>4, <1>5, <2>1, StillEmpty
  <2> QED  BY <1>1, <2>2
<1>7. InOrder(family', births, people') /\ family'.parents = family.parents
  <2>1. InOrder(family, births, people)
    BY <1>2 DEF LifeInv, InOrder
  <2> QED  BY <1>1, <1>4, <2>1, DeathsInOrder
<1>8. Placed(people', family')
  BY <1>1, <1>4, <1>7 DEF Placed
<1>9. ClockRecord(clock')
  <2>1. PICK m, r, a, f : clock = [month |-> m, reviewed |-> r, annual |-> a, falls |-> f]
                          /\ m \in Nat
    BY <1>2 DEF ClockRecord
  <2>2. clock' = [month |-> m, reviewed |-> r, annual |-> a, falls |-> f + 1]
    BY <1>1, <2>1
  <2> QED  BY <2>1, <2>2 DEF ClockRecord
<1>10. Pleas(asked \cup committed)'
  <2>1. Pleas((asked \cup committed) \cup offices)
    BY <1>3, PleasGrow DEF LifeInv
  <2>2. asked' \cup committed' = (asked \cup committed) \cup offices
    BY <1>1
  <2>3. Pleas(asked' \cup committed')
    BY <2>1, <2>2
  <2> QED  BY <2>3
<1>11. Shape'
  <2>1. SilverRecord(silver') /\ PeopleRecord(people') /\ FamilyRecord(family')
    BY <1>1, <1>4, <1>5, <1>7 DEF Booked, InOrder
  <2>2. active' \subseteq people'.known /\ away' \subseteq Adult /\ births' \subseteq BirthRow
    BY <1>1, <1>2, <1>4
  <2> QED  BY <1>9, <2>1, <2>2
        DEF Shape, ClockRecord, PeopleRecord, SilverRecord, FamilyRecord
<1>12. Total' = Total
  BY <1>5 DEF Booked, Worth, Total
<1>13. /\ Placed(people, family)' /\ Awaited(family, births, people)' /\ Bonds(family, people)'
       /\ Expected(family, births)' /\ Empty(people, silver.treasury, active)'
  <2>1. births' = births
    BY <1>1
  <2> QED  BY <1>6, <1>7, <1>8, <2>1 DEF InOrder, Empty, Members, Alive
<1> QED  BY <1>10, <1>11, <1>12, <1>13 DEF LifeInv

\* The annual review: a death of age, its estate, and what the houses are asked.
LEMMA AnnualStep ==
  ASSUME LifeInv, AnnualReview
  PROVE  LifeInv' /\ Total' = Total
<1>1. /\ asked = {} /\ committed = {}
      /\ clock' = [clock EXCEPT !.annual = TRUE]
      /\ UNCHANGED <<away, births, committed>>
  BY DEF AnnualReview, Quiet, Pending
<1>2. PICK D \in {{}} \cup {{x} : x \in {y \in Adult \ people.dead : Free(y)}} :
       LET back == /\ D # {} /\ ~Forgotten(silver, D)
                   /\ \E d \in D : HousesOf(people, d) # {}
           d == Min(D)
           P == IF D = {} \/ back THEN people ELSE Die(people, d)
           F == CloseFamily(family, people, D)
           S == IF D = {} THEN silver ELSE Bequeath(silver, F, Die(people, d), d)
           left == IF D = {} THEN {} ELSE HousesOf(P, d)
           offices == UNION {OfficeJudgments(P, h) : h \in {g \in left : Members(P, g) # {}}}
       IN  /\ people' = P /\ family' = F /\ silver' = S
           /\ active' = StillHouses(active, P)
           /\ \E leaving \in UNION {DepartureJudgments(P, F, h) : h \in active},
                 evolving \in {{}} \cup
                   {{Judgment("evolution", IF t.from = 0 THEN t.to ELSE t.from, {}, t,
                              {"accept", "defer"})} :
                      t \in {u \in Proposals(P, S) : HasActor(P, u)}} :
                asked' = offices \cup leaving \cup evolving
  BY DEF AnnualReview
<1> DEFINE d == Min(D)
           P == people'
           F == CloseFamily(family, people, D)
<1>3. /\ family' = F /\ active' = StillHouses(active, P)
      /\ P = people \/ (D # {} /\ P = Die(people, d))
      /\ silver' = IF D = {} THEN silver ELSE Bequeath(silver, F, Die(people, d), d)
  BY <1>2
<1>4. /\ active \subseteq people.known /\ PeopleRecord(people) /\ SilverRecord(silver)
      /\ FamilyRecord(family) /\ births \subseteq BirthRow /\ ClockRecord(clock)
      /\ away \subseteq Adult
      /\ Placed(people, family) /\ Empty(people, silver.treasury, active)
  BY DEF LifeInv, Shape
<1>5. D # {} => d \in Soul /\ D = {d}
  <2> SUFFICES ASSUME D # {} PROVE d \in Soul /\ D = {d}
    OBVIOUS
  <2>1. PICK x \in Adult : D = {x}
    OBVIOUS
  <2>2. D \subseteq Nat
    BY <2>1, Numbers
  <2>3. d \in D
    BY <2>2, LeastOf
  <2> QED  BY <2>1, <2>3, Numbers
<1>6. Unbinding(asked')
  <2> DEFINE back == /\ D # {} /\ ~Forgotten(silver, D)
                     /\ \E e \in D : HousesOf(people, e) # {}
             R == IF D = {} \/ back THEN people ELSE Die(people, Min(D))
             S == IF D = {} THEN silver ELSE Bequeath(silver, F, Die(people, Min(D)), Min(D))
             X == {g \in (IF D = {} THEN {} ELSE HousesOf(R, Min(D))) : Members(R, g) # {}}
             offices == UNION {OfficeJudgments(R, h) : h \in X}
             departures == UNION {DepartureJudgments(R, F, h) : h \in active}
             changes == {Judgment("evolution", IF t.from = 0 THEN t.to ELSE t.from, {}, t,
                                  {"accept", "defer"}) :
                           t \in {u \in Proposals(R, S) : HasActor(R, u)}}
  <2>1. \E leaving \in departures,
           evolving \in {{}} \cup
             {{Judgment("evolution", IF t.from = 0 THEN t.to ELSE t.from, {}, t,
                        {"accept", "defer"})} :
                t \in {u \in Proposals(R, S) : HasActor(R, u)}} :
           asked' = offices \cup leaving \cup evolving
    BY <1>2
  <2>2. Unbinding(offices)
    <3> SUFFICES ASSUME NEW j \in offices PROVE j.kind = "office"
      BY DEF Unbinding
    <3> HIDE DEF R, X
    <3>1. PICK h \in X : j \in OfficeJudgments(R, h)
      OBVIOUS
    <3> QED  BY <3>1 DEF OfficeJudgments, Judgment
  <2>3. \A leaving \in departures : Unbinding(leaving)
    <3> SUFFICES ASSUME NEW leaving \in departures PROVE Unbinding(leaving)
      OBVIOUS
    <3>1. PICK h \in active : leaving \in DepartureJudgments(R, F, h)
      OBVIOUS
    <3> QED  BY <3>1, DeparturesBindNobody
  <2>4. Unbinding(changes)
    BY DEF Unbinding, Judgment
  <2> HIDE DEF offices, departures
  <2>5. PICK leaving \in departures, evolving \in SUBSET changes :
          asked' = offices \cup leaving \cup evolving
    BY <2>1
  <2>6. Unbinding(leaving) /\ Unbinding(evolving)
    BY <2>3, <2>4, <2>5 DEF Unbinding
  <2> QED  BY <2>2, <2>5, <2>6 DEF Unbinding
<1>7. Pleas(asked \cup committed)'
  <2>1. asked' \cup committed' = {} \cup asked'
    BY <1>1
  <2>2. Pleas({})
    BY DEF Pleas
  <2>3. Pleas({} \cup asked')
    BY <1>6, <2>2, PleasGrow
  <2>4. Pleas(asked' \cup committed')
    BY <2>1, <2>3
  <2> QED  BY <2>4
<1> HIDE DEF d
<1>8. D # {} =>
        LET Q == Die(people, d)
        IN  /\ PeopleRecord(Q) /\ Placed(Q, family)
            /\ Empty(Q, silver.treasury, StillHouses(active, Q))
            /\ Q.dead = people.dead \cup {d} /\ Q.known = people.known
            /\ StillHouses(active, Q) \subseteq active
            /\ HousesOf(Q, d) = HousesOf(people, d) /\ HousesOf(people, d) \subseteq people.known
  BY <1>4, <1>5, RowsOfTheDead
<1>9. /\ PeopleRecord(P) /\ Placed(P, family) /\ P.known = people.known
      /\ Empty(P, silver.treasury, StillHouses(active, P))
      /\ P.dead \subseteq people.dead \cup D /\ StillHouses(active, P) \subseteq active
  <2>1. CASE P = people
    <3>1. /\ \A h \in House \ StillHouses(active, people) : Members(people, h) \cap Adult = {}
          /\ StillHouses(active, people) \subseteq active
      BY <1>4, NobodyLeft DEF Empty
    <3>2. Empty(people, silver.treasury, StillHouses(active, people))
      BY <1>4, <3>1 DEF Empty
    <3> QED  BY <1>4, <2>1, <3>1, <3>2
  <2>2. CASE D # {} /\ P = Die(people, d)
    BY <1>5, <1>8, <2>2
  <2> QED  BY <1>3, <2>1, <2>2 DEF d
<1> HIDE DEF P, F
<1>10. InOrder(F, births, P) /\ F.parents = family.parents
  <2>1. InOrder(family, births, people)
    BY <1>4 DEF LifeInv, InOrder
  <2> QED  BY <1>9, <2>1, DeathsInOrder DEF F
<1>11. PICK H : H \subseteq people.known /\ Booked(silver, silver', H)
  <2>1. CASE D = {}
    <3>1. silver' = silver
      BY <1>3, <2>1
    <3> QED  BY <1>4, <3>1 DEF Booked
  <2>2. CASE D # {}
    <3>1. PICK Q : Q = Die(people, d)
      OBVIOUS
    <3>2. d \in Q.dead /\ HousesOf(Q, d) \subseteq people.known
      BY <1>8, <2>2, <3>1
    <3>3. silver' = Bequeath(silver, F, Q, d)
      BY <1>3, <2>2, <3>1 DEF F, d
    <3>4. FamilyRecord(F)
      BY <1>10 DEF InOrder
    <3>5. Booked(silver, silver', HousesOf(Q, d))
      BY <1>4, <1>5, <2>2, <3>2, <3>3, <3>4, EstateIsBooked
    <3> QED  BY <3>2, <3>5
  <2> QED  BY <2>1, <2>2
<1>12. Empty(P, silver'.treasury, active')
  <2>1. H \subseteq P.known
    BY <1>9, <1>11
  <2>2. Empty(P, silver'.treasury, StillHouses(active, P))
    BY <1>9, <1>11, <2>1, StillEmpty
  <2> QED  BY <1>3, <2>2 DEF P
<1>13. ClockRecord(clock')
  <2>1. PICK m, r, a, f : clock = [month |-> m, reviewed |-> r, annual |-> a, falls |-> f]
                          /\ m \in Nat
    BY <1>4 DEF ClockRecord
  <2>2. clock' = [month |-> m, reviewed |-> r, annual |-> TRUE, falls |-> f]
    BY <1>1, <2>1
  <2> QED  BY <2>1, <2>2 DEF ClockRecord
<1>14. Shape'
  <2>1. SilverRecord(silver') /\ PeopleRecord(people') /\ FamilyRecord(family')
    BY <1>3, <1>9, <1>10, <1>11 DEF Booked, InOrder, P, F
  <2>2. active' \subseteq people'.known /\ away' \subseteq Adult /\ births' \subseteq BirthRow
    BY <1>1, <1>3, <1>4, <1>9 DEF P
  <2> QED  BY <1>13, <2>1, <2>2
        DEF Shape, ClockRecord, PeopleRecord, SilverRecord, FamilyRecord
<1>15. Total' = Total
  BY <1>11 DEF Booked, Worth, Total
<1>16. /\ Placed(people, family)' /\ Awaited(family, births, people)' /\ Bonds(family, people)'
       /\ Expected(family, births)' /\ Empty(people, silver.treasury, active)'
  <2>1. births' = births /\ family' = F
    BY <1>1, <1>3 DEF F
  <2> QED  BY <1>9, <1>10, <1>12, <2>1 DEF InOrder, Placed, Empty, Members, Alive, P
<1> QED  BY <1>7, <1>14, <1>15, <1>16 DEF LifeInv

-----------------------------------------------------------------------------
(* The theorems *)

\* What a step may do to the silver.
Conserved == Total' = Total \/ (committed # {} /\ committed' = {} /\ SettledTogether)

\* Every step keeps the invariant and the silver.
LEMMA Steps ==
  ASSUME LifeInv, [Next]_vars
  PROVE  LifeInv' /\ Conserved
<1>1. CASE UNCHANGED vars
  <2>1. /\ UNCHANGED <<active, people, away, silver, family, births, asked, committed, clock>>
    BY <1>1 DEF vars
  <2>2. Shape'
    BY <2>1 DEF LifeInv, Shape
  <2>3. /\ Placed(people, family)' /\ Empty(people, silver.treasury, active)'
        /\ Awaited(family, births, people)' /\ Bonds(family, people)' /\ Expected(family, births)'
        /\ Pleas(asked \cup committed)'
    BY <2>1 DEF LifeInv, Empty, Members, Alive
  <2>4. Total' = Total
    BY <2>1 DEF Total
  <2> QED  BY <2>2, <2>3, <2>4 DEF LifeInv, Conserved
<1>2. CASE \E h \in House : MonthlyCycle(h)
  BY <1>2, MonthlyStep DEF Conserved
<1>3. CASE Birth
  <2>1. LifeInv' /\ UNCHANGED silver
    BY <1>3, BirthStep
  <2> QED  BY <2>1 DEF Conserved, Total
<1>4. CASE AnnualReview
  BY <1>4, AnnualStep DEF Conserved
<1>5. CASE Answer
  <2>1. LifeInv' /\ UNCHANGED silver
    BY <1>5, AnswerStep
  <2> QED  BY <2>1 DEF Conserved, Total
<1>6. CASE Settle
  BY <1>6, SettleStep DEF Conserved
<1>7. CASE NextMonth \/ \E x \in Soul : GoOrReturn(x)
  <2>1. LifeInv' /\ UNCHANGED silver
    BY <1>7, IdleSteps
  <2> QED  BY <2>1 DEF Conserved, Total
<1>8. CASE \E x \in Soul : Fall(x)
  BY <1>8, FallStep DEF Conserved
<1> QED  BY <1>1, <1>2, <1>3, <1>4, <1>5, <1>6, <1>7, <1>8 DEF Next

(***************************************************************************)
(* The houses and families keep the invariant: rows, bonds, births and     *)
(* judgments agree with each other after every frontier and every command. *)
(***************************************************************************)
THEOREM LifeInvariance == Spec => []LifeInv
<1>1. Init => LifeInv
  BY Begins
<1>2. LifeInv /\ [Next]_vars => LifeInv'
  BY Steps
<1> QED  BY <1>1, <1>2, PTL DEF Spec

(***************************************************************************)
(* The state of HouseLife has its shape.                                   *)
(***************************************************************************)
THEOREM LifeTypes == Spec => []HouseLifeTypeOK
<1>1. LifeInv => HouseLifeTypeOK
  <2> SUFFICES ASSUME LifeInv PROVE HouseLifeTypeOK
    OBVIOUS
  <2>1. /\ active \subseteq people.known /\ away \subseteq Adult
        /\ PeopleRecord(people) /\ SilverRecord(silver) /\ FamilyRecord(family)
    BY DEF LifeInv, Shape
  <2>2. people.known \subseteq House
    BY <2>1 DEF PeopleRecord
  <2> QED  BY <2>1, <2>2 DEF HouseLifeTypeOK, PeopleRecord, SilverRecord, FamilyRecord
<1> QED  BY <1>1, LifeInvariance, PTL

\* A set of at most one thing.
LEMMA AtMostOne ==
  ASSUME NEW X, \A x, y \in X : x = y PROVE Cardinality(X) <= 1 /\ Cardinality(X) \in Nat
<1>1. CASE X = {}
  BY <1>1, FS_EmptySet
<1>2. CASE X # {}
  <2>1. PICK x : X = {x}
    BY <1>2
  <2> QED  BY <2>1, FS_Singleton
<1> QED  BY <1>1, <1>2

(***************************************************************************)
(* Every person has one row, in a house of the registry or among the       *)
(* independents, and no house has two leaders ("exact_person_index" fails  *)
(* on a duplicate), whatever the number of people, houses and months.      *)
(***************************************************************************)
THEOREM RowsAreUnique == Spec => []OneRowPerPerson
<1>1. LifeInv => OneRowPerPerson
  <2> SUFFICES ASSUME LifeInv PROVE OneRowPerPerson
    OBVIOUS
  <2>1. /\ \A h, g \in House : h # g => people.roster[h] \cap people.roster[g] = {}
        /\ \A h \in House : people.roster[h] \cap people.loose = {}
        /\ \A x \in Soul : x \in Adult \cup DOMAIN family.parents
                             <=> x \in people.loose \/ \E h \in House : x \in people.roster[h]
        /\ \A h \in House : \A x, y \in people.roster[h] \cap people.leaders : x = y
    BY DEF LifeInv, Placed
  <2>2. \A x \in Adult \cup DOMAIN family.parents : x \in Soul
    BY Numbers DEF LifeInv, Shape, FamilyRecord
  <2>3. ASSUME NEW x \in Adult \cup DOMAIN family.parents
        PROVE  Cardinality(HousesOf(people, x)) + (IF x \in people.loose THEN 1 ELSE 0) = 1
    <3>1. x \in people.loose \/ \E h \in House : x \in people.roster[h]
      BY <2>1, <2>2
    <3>2. CASE x \in people.loose
      <4>1. HousesOf(people, x) = {}
        BY <2>1, <3>2 DEF HousesOf
      <4> QED  BY <3>2, <4>1, FS_EmptySet
    <3>3. CASE x \notin people.loose
      <4>1. PICK h \in House : x \in people.roster[h]
        BY <3>1, <3>3
      <4>2. HousesOf(people, x) = {h}
        BY <2>1, <4>1 DEF HousesOf
      <4>3. Cardinality(HousesOf(people, x)) = 1
        BY <4>2, FS_Singleton
      <4> QED  BY <3>3, <4>3
    <3> QED  BY <3>2, <3>3
  <2>4. \A h \in House : Cardinality(people.roster[h] \cap people.leaders) <= 1
    <3> SUFFICES ASSUME NEW h \in House
                 PROVE  Cardinality(people.roster[h] \cap people.leaders) <= 1
      OBVIOUS
    <3>1. \A x, y \in people.roster[h] \cap people.leaders : x = y
      BY <2>1
    <3> QED  BY <3>1, AtMostOne
  <2>5. \A h \in House \ active : Members(people, h) \cap Adult = {}
    BY DEF LifeInv, Empty
  <2> QED  BY <2>3, <2>4, <2>5 DEF OneRowPerPerson
<1> QED  BY <1>1, LifeInvariance, PTL

(***************************************************************************)
(* Marriages and courtships bind the living, nobody twice, and a pregnancy *)
(* of a marriage is awaited by exactly one birth.                          *)
(***************************************************************************)
THEOREM BondsAreOfTheLiving == Spec => []FamilyOfTheLiving
<1>1. LifeInv => FamilyOfTheLiving
  <2> SUFFICES ASSUME LifeInv PROVE FamilyOfTheLiving
    OBVIOUS
  <2>1. Bonds(family, people) /\ Expected(family, births) /\ Awaited(family, births, people)
    BY DEF LifeInv
  <2>2. MarriedPeople(family) \cap people.dead = {}
    <3>1. \A p \in Married(family) : p \cap people.dead = {}
      BY <2>1 DEF Bonds
    <3> QED  BY <3>1 DEF MarriedPeople
  <2>3. ASSUME NEW p \in DOMAIN family.marriages, family.marriages[p].child # 0
        PROVE  /\ p \in Married(family)
               /\ Cardinality({b \in births : b.couple = p /\ b.child = family.marriages[p].child}) = 1
    <3>1. family.marriages[p].status = "married"
      BY <2>1, <2>3 DEF Expected
    <3>2. PICK b \in births : b.couple = p /\ b.child = family.marriages[p].child
      BY <2>1, <2>3 DEF Expected
    <3>3. \A a \in births : a.child = b.child => a = b
      BY <2>1 DEF Awaited
    <3>4. {a \in births : a.couple = p /\ a.child = family.marriages[p].child} = {b}
      BY <3>2, <3>3
    <3>5. Cardinality({b}) = 1
      BY FS_Singleton
    <3> QED  BY <3>1, <3>4, <3>5 DEF Married
  <2> QED  BY <2>1, <2>2, <2>3 DEF FamilyOfTheLiving, Bonds
<1> QED  BY <1>1, LifeInvariance, PTL

(***************************************************************************)
(* Institutional change conserves silver: every step moves what there is   *)
(* between treasuries, purses and the market, except the settlement of a   *)
(* transition together with another judgment of a house it touches.        *)
(***************************************************************************)
THEOREM SilverMoves == Spec => SilverIsKept
<1>1. LifeInv /\ [Next]_vars =>
        [Total' = Total \/ (committed # {} /\ committed' = {} /\ SettledTogether)]_silver
  BY Steps DEF Conserved
<1> QED  BY <1>1, LifeInvariance, PTL DEF Spec, SilverIsKept
=============================================================================
