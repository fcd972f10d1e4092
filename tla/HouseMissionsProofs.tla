--------------------------- MODULE HouseMissionsProofs ---------------------------
(***************************************************************************)
(* Theorems about the missions of the player's House and their settlement.  *)
(*                                                                          *)
(* Two inductive invariants.  The first is about the archive and the money: *)
(* whatever is not paid is not entered, so that each payment enters exactly *)
(* what it moves, and the one open offer starts from the player's grade.    *)
(* The second is about the papers of those on the road: their commission is *)
(* taken, so that nobody accepts it again over them.  The settlement at the *)
(* end of each frontier is a recursive function; what one of its steps      *)
(* keeps is carried along it by the least step that would break it.         *)
(***************************************************************************)
EXTENDS HouseMissions, SumTheorems

-----------------------------------------------------------------------------
(* Types and the inductive invariants.                                      *)

Phases == {"proposed", "offered", "accepted", "briefed", "approved", "revision", "rejected",
           "mustering", "dispatched", "in_field", "returning"}

Offers == [status : {"none", "open", "deferred", "accepted", "declined"}, from : Int]

\* An approved mission has somebody in command.
DossierRow ==
  {x \in [phase : Phases, party : SUBSET House, lead : House \cup {Nobody}, backed : BOOLEAN] :
     x.phase = "approved" => x.lead \in House}
ClosedRow  == [lead : House \cup {Nobody}, back : SUBSET House, pay : {"none", "due", "paid"},
               paid : [House -> Int], reviewed : BOOLEAN, offer : Offers]

\* An operation, and an escort on the road.
OpRow     == [leg : {"mobilizing", "out", "back"}, party : SUBSET House, won : BOOLEAN,
              from : {Home, Origin, Abroad}]
ConvoyRow == [leg : {"out", "back", "report"}, party : SUBSET House]

\* A function on part of a set.
Partial(f, S, T) == DOMAIN f \subseteq S /\ f \in [DOMAIN f -> T]

PapersTyped ==
  /\ Partial(dossiers, Refs, DossierRow)
  /\ Partial(archive, Refs, ClosedRow)
  /\ contracts \in [Contracts -> {"open", "mine", "underway", "over", "expired"}]

RoadsTyped ==
  /\ Partial(field, Refs, OpRow)
  /\ Partial(convoys, Contracts, ConvoyRow)
  /\ Partial(musters, Refs, SUBSET House)

PeopleTyped ==
  /\ members \subseteq House
  /\ body \in [House -> {"fit", "dead"}]
  /\ at \in [House -> {Home, Origin, Abroad}]

MoneyTyped ==
  /\ treasury \in Int /\ outside \in Int /\ purse \in [House -> Int] /\ grade \in Int

\* Judgments asked for and decided.
Asked    == {<<what, R, g>> : what \in {"assignment", "career"}, R \in SUBSET Refs, g \in Int}
Answered == {Append(j, R) : j \in Asked, R \in SUBSET Refs}

JudgmentsTyped == pending \subseteq Asked /\ committed \subseteq Answered

MissionTypes == PapersTyped /\ RoadsTyped /\ PeopleTyped /\ MoneyTyped /\ JudgmentsTyped

\* The missions of the road are underway, and their commissions taken.
RoadsAreTaken ==
  /\ \A r \in DOMAIN field : Missions[r].kind # "escort"
  /\ \A r \in DOMAIN musters : Missions[r].kind = "escort" /\ contracts[Missions[r].link] # "open"
  /\ \A c \in DOMAIN convoys : contracts[c] \in {"underway", "over"}

\* What a person got by the rows of an archive.
Entered(A, p) == SumFunction([r \in DOMAIN A |-> A[r].paid[p]])

\* What is not paid is not entered.
Clean(A) == \A r \in DOMAIN A : A[r].pay # "paid" => A[r].paid = NoPay

\* There is at most one open offer, from the grade g.
OffersSound(A, g) ==
  \A r \in OpenOffers(A) : A[r].offer.from = g /\ \A q \in OpenOffers(A) : q = r

\* A mission filed before its end has no pay.
FiledUnpaid == \A r \in DOMAIN archive \cap DOMAIN dossiers : archive[r].pay = "none"

MoneyIsEntered ==
  /\ \A p \in House : purse[p] = Entered(archive, p)
  /\ treasury + Total(purse) + outside = Silver + Fee * Cardinality(Contracts)

LedgerInv ==
  /\ MissionTypes /\ Clean(archive) /\ FiledUnpaid /\ MoneyIsEntered /\ OffersSound(archive, grade)

\* The papers of those on the road.
RoadInv == RoadsAreTaken /\ FieldIsOnPaper

-----------------------------------------------------------------------------
(* Functions on part of a set.                                              *)

\* An entry is added or replaced.
LEMMA WithPartial ==
  ASSUME NEW f, NEW S, NEW T, Partial(f, S, T), NEW k \in S, NEW v \in T
  PROVE  Partial(With(f, k, v), S, T)
  BY DEF With, Partial

\* Entries are taken away.
LEMMA ExceptPartial ==
  ASSUME NEW f, NEW S, NEW T, Partial(f, S, T), NEW K
  PROVE  /\ Partial(Except(f, K), S, T)
         /\ DOMAIN Except(f, K) = DOMAIN f \ K
         /\ \A x \in DOMAIN f \ K : Except(f, K)[x] = f[x]
  BY DEF Except, Restrict, Partial

\* The domains are finite.
LEMMA RefsAreFinite == Refs = 1 .. Len(Missions) /\ Len(Missions) \in Nat /\ IsFiniteSet(Refs)
<1>1. Refs = 1 .. Len(Missions) /\ Len(Missions) \in Nat
  BY MissionAssumption DEF Refs
<1> QED  BY <1>1, FS_Interval

-----------------------------------------------------------------------------
(* Sums over the archive.                                                   *)

\* A new row in which nothing is entered, or one that replaces such a row.
LEMMA FilingEntersNothing ==
  ASSUME NEW A, Partial(A, Refs, ClosedRow), NEW r \in Refs, NEW row \in ClosedRow,
         row.paid = NoPay, r \in DOMAIN A => A[r].paid = NoPay, NEW p \in House
  PROVE  Entered(With(A, r, row), p) = Entered(A, p)
<1>0. PICK B : B = With(A, r, row)
  OBVIOUS
<1>1. /\ DOMAIN B = DOMAIN A \cup {r} /\ B[r] = row
      /\ \A x \in DOMAIN A : x # r => B[x] = A[x]
  BY <1>0 DEF With
<1> DEFINE D == DOMAIN A \cup {r}
           f == [x \in D |-> IF x \in DOMAIN A THEN A[x].paid[p] ELSE 0]
           g == [x \in DOMAIN A |-> A[x].paid[p]]
           h == [x \in DOMAIN B |-> B[x].paid[p]]
<1>2. D \subseteq Refs /\ IsFiniteSet(D)
  BY RefsAreFinite, FS_Subset DEF Partial
<1>3. /\ \A x \in DOMAIN A : A[x].paid \in [House -> Int]
      /\ NoPay[p] = 0
  BY DEF Partial, ClosedRow, NoPay
<1>4. h = f
  <2>1. \A x \in D : h[x] = f[x]
    BY <1>1, <1>3
  <2> QED  BY <2>1, <1>1
<1>5. f \in [D -> Int] /\ g \in [DOMAIN A -> Int]
  BY <1>3
<1>6. /\ DOMAIN A \subseteq D
      /\ \A x \in DOMAIN A : g[x] = f[x]
      /\ \A x \in D \ DOMAIN A : f[x] = 0
  OBVIOUS
<1> HIDE DEF f, g, h, D
<1>7. SumFunction(g) = SumFunction(f)
  BY <1>2, <1>5, <1>6, SumWithin
<1> QED  BY <1>0, <1>4, <1>7 DEF Entered, g, h

\* A payment enters what it pays.
LEMMA PaymentEnters ==
  ASSUME NEW D, IsFiniteSet(D), NEW A \in [D -> ClosedRow], NEW B \in [D -> ClosedRow],
         NEW r \in D, A[r].paid = NoPay, \A x \in D : x # r => B[x].paid = A[x].paid, NEW p \in House
  PROVE  Entered(B, p) = Entered(A, p) + B[r].paid[p]
<1> DEFINE f == [x \in DOMAIN A |-> A[x].paid[p]]
           g == [x \in DOMAIN B |-> B[x].paid[p]]
<1>1. DOMAIN A = D /\ DOMAIN B = D
  OBVIOUS
<1>2. \A x \in D : A[x].paid \in [House -> Int] /\ B[x].paid \in [House -> Int]
  BY DEF ClosedRow
<1>3. f \in [D -> Int] /\ g \in [D -> Int] /\ f[r] = 0 /\ g[r] = B[r].paid[p]
  BY <1>1, <1>2 DEF NoPay
<1>4. \A x \in D : x # r => g[x] = f[x]
  BY <1>1
<1> HIDE DEF f, g
<1>5. g[r] = f[r] + B[r].paid[p] /\ B[r].paid[p] \in Int
  BY <1>3
<1>6. SumFunction(g) = SumFunction(f) + B[r].paid[p]
  BY <1>3, <1>4, <1>5, SumAdd
<1> QED  BY <1>6 DEF Entered, f, g

\* A row changes in other things than what was paid.
LEMMA SamePayments ==
  ASSUME NEW A, NEW B, DOMAIN A = DOMAIN B, \A x \in DOMAIN A : B[x].paid = A[x].paid, NEW p
  PROVE  Entered(B, p) = Entered(A, p)
<1>1. [r \in DOMAIN B |-> B[r].paid[p]] = [r \in DOMAIN A |-> A[r].paid[p]]
  OBVIOUS
<1> QED  BY <1>1 DEF Entered

\* Shares are integers.
LEMMA SharesTyped ==
  ASSUME NEW S, IsFiniteSet(S), NEW amount \in Nat, NEW staff
  PROVE  Shares(S, amount, staff) \in [House -> Int]
<1> SUFFICES ASSUME NEW p \in House PROVE Shares(S, amount, staff)[p] \in Int
  BY DEF Shares
<1>1. CASE p \notin S \cap staff
  BY <1>1 DEF Shares
<1>2. CASE p \in S \cap staff
  <2>1. PICK c : c = Cardinality(S)
    OBVIOUS
  <2>2. c \in Nat /\ c # 0
    BY <1>2, <2>1, FS_CardinalityType, FS_EmptySet
  <2>3. amount \div c \in Int
    BY <2>2
  <2>4. Shares(S, amount, staff)[p]
          = amount \div c + IF Cardinality({q \in S : q < p}) < amount % c THEN 1 ELSE 0
    BY <1>2, <2>1 DEF Shares
  <2> QED  BY <2>3, <2>4
<1> QED  BY <1>1, <1>2

\* Money that moves from the treasury to purses stays the same in all.
LEMMA PursesGrow ==
  ASSUME NEW f \in [House -> Int], NEW g \in [House -> Int]
  PROVE  /\ Add(f, g) \in [House -> Int]
         /\ \A p \in House : Add(f, g)[p] = f[p] + g[p]
         /\ Total(Add(f, g)) = Total(f) + Total(g)
         /\ Total(f) \in Int /\ Total(g) \in Int
<1>1. Add(f, g) \in [House -> Int] /\ \A p \in House : Add(f, g)[p] = f[p] + g[p]
  BY DEF Add
<1>2. IsFiniteSet(House)
  BY MissionAssumption
<1> QED  BY <1>1, <1>2, SumOfTwo, SumType DEF Total

-----------------------------------------------------------------------------
(* The settlement of closed missions.                                       *)

\* A sheet of the settlement: the archive of the references D and the money.
Sheet(s, D) ==
  /\ s = [archive |-> s.archive, treasury |-> s.treasury, purse |-> s.purse,
          service |-> s.service, staff |-> s.staff, signed |-> s.signed,
          asks |-> s.asks, raised |-> s.raised]
  /\ s.archive \in [D -> ClosedRow] /\ Clean(s.archive)
  /\ s.treasury \in Int /\ s.purse \in [House -> Int] /\ s.asks \subseteq Asked

\* What a part of the settlement keeps.
Keeps(s, t, D) ==
  /\ Sheet(s, D) /\ Sheet(t, D)
  /\ t.treasury + Total(t.purse) = s.treasury + Total(s.purse)
  /\ \A p \in House : t.purse[p] - Entered(t.archive, p) = s.purse[p] - Entered(s.archive, p)
  /\ \A r \in D : s.archive[r].pay = "none" => t.archive[r].pay = "none"
  /\ OffersSound(s.archive, grade) => OffersSound(t.archive, grade)

\* What a person got by the rows of an archive is a number.
LEMMA EnteredTyped ==
  ASSUME NEW D, IsFiniteSet(D), NEW A \in [D -> ClosedRow], NEW p \in House
  PROVE  Entered(A, p) \in Int
<1> DEFINE f == [r \in DOMAIN A |-> A[r].paid[p]]
<1>1. f \in [D -> Int]
  BY DEF ClosedRow
<1> HIDE DEF f
<1>2. SumFunction(f) \in Int
  BY <1>1, SumType
<1> QED  BY <1>2 DEF Entered, f

\* Doing nothing keeps it.
LEMMA KeepsItself == ASSUME NEW s, NEW D, Sheet(s, D) PROVE Keeps(s, s, D)
  BY DEF Keeps

\* One part after the other keeps it.
LEMMA KeepsOn ==
  ASSUME NEW s, NEW t, NEW u, NEW D, Keeps(s, t, D), Keeps(t, u, D) PROVE Keeps(s, u, D)
  BY DEF Keeps

\* Rows that change in nothing that was paid and get no new offer.
LEMMA SameMoney ==
  ASSUME NEW s, NEW t, NEW D, Sheet(s, D), Sheet(t, D), t.treasury = s.treasury, t.purse = s.purse,
         \A x \in D : t.archive[x].paid = s.archive[x].paid /\ t.archive[x].pay = s.archive[x].pay,
         OffersSound(s.archive, grade) => OffersSound(t.archive, grade)
  PROVE  Keeps(s, t, D)
<1>1. DOMAIN s.archive = D /\ DOMAIN t.archive = D
  BY DEF Sheet
<1>2. \A p \in House : Entered(t.archive, p) = Entered(s.archive, p)
  BY <1>1, SamePayments
<1> QED  BY <1>2 DEF Keeps

\* A sheet on which a mission is paid.
PaidSheet(s, r, paid) ==
  [s EXCEPT !.archive[r] = Paid(s.archive[r], paid), !.treasury = @ - Total(paid),
            !.purse = Add(@, paid)]

\* A row that is paid.
LEMMA PaidKeeps ==
  ASSUME NEW D, D \subseteq Refs, NEW s, Sheet(s, D), NEW r \in D, s.archive[r].pay = "due",
         NEW paid \in [House -> Int]
  PROVE  Keeps(s, PaidSheet(s, r, paid), D)
<1>0. PICK t : t = PaidSheet(s, r, paid)
  OBVIOUS
<1>1. PICK a : a = s.archive[r]
  OBVIOUS
<1>2. a \in ClosedRow
  BY <1>1 DEF Sheet
<1>3. PICK row : row = Paid(a, paid)
  OBVIOUS
<1>4. /\ row \in ClosedRow /\ row.paid = paid /\ row.pay = "paid" /\ row.offer = a.offer
  BY <1>2, <1>3 DEF Paid, ClosedRow
<1>5. t = [s EXCEPT !.archive[r] = row, !.treasury = @ - Total(paid), !.purse = Add(@, paid)]
  BY <1>0, <1>1, <1>3 DEF PaidSheet
<1>6. PICK A : A = [s.archive EXCEPT ![r] = row]
  OBVIOUS
<1>7. PICK m : m = s.treasury - Total(paid)
  OBVIOUS
<1>8. PICK q : q = Add(s.purse, paid)
  OBVIOUS
<1>9. t = [archive |-> A, treasury |-> m, purse |-> q,
           service |-> s.service, staff |-> s.staff, signed |-> s.signed,
           asks |-> s.asks, raised |-> s.raised]
  BY <1>5, <1>6, <1>7, <1>8 DEF Sheet
<1>10. /\ A \in [D -> ClosedRow] /\ A[r] = row
       /\ \A x \in D : x # r => A[x] = s.archive[x]
  BY <1>4, <1>6 DEF Sheet
<1>11. s.archive[r].paid = NoPay /\ s.archive \in [D -> ClosedRow] /\ IsFiniteSet(D)
       /\ s.purse \in [House -> Int] /\ s.treasury \in Int
  BY RefsAreFinite, FS_Subset DEF Sheet, Clean
<1>12. /\ q \in [House -> Int] /\ Total(q) = Total(s.purse) + Total(paid)
       /\ Total(paid) \in Int /\ Total(s.purse) \in Int
       /\ \A p \in House : q[p] = s.purse[p] + paid[p]
  BY <1>8, <1>11, PursesGrow
<1>13. \A p \in House : Entered(A, p) = Entered(s.archive, p) + paid[p]
  BY <1>4, <1>10, <1>11, PaymentEnters
<1>14. \A p \in House : Entered(s.archive, p) \in Int
  BY <1>11, EnteredTyped
<1>15. Sheet(t, D)
  <2>1. Clean(A)
    BY <1>4, <1>10 DEF Clean, Sheet
  <2>2. m \in Int
    BY <1>7, <1>11, <1>12
  <2> QED  BY <1>9, <1>10, <1>12, <2>1, <2>2 DEF Sheet
<1>16. OffersSound(s.archive, grade) => OffersSound(A, grade)
  <2>1. \A x \in D : A[x].offer = s.archive[x].offer
    BY <1>1, <1>4, <1>10
  <2> QED  BY <1>10, <1>11, <2>1 DEF OffersSound, OpenOffers
<1>17. t.treasury + Total(t.purse) = s.treasury + Total(s.purse)
  BY <1>7, <1>9, <1>11, <1>12
<1>18. \A p \in House : t.purse[p] - Entered(t.archive, p) = s.purse[p] - Entered(s.archive, p)
  <2> SUFFICES ASSUME NEW p \in House
               PROVE  q[p] - Entered(A, p) = s.purse[p] - Entered(s.archive, p)
    BY <1>9
  <2>1. q[p] = s.purse[p] + paid[p] /\ Entered(A, p) = Entered(s.archive, p) + paid[p]
        /\ s.purse[p] \in Int /\ paid[p] \in Int /\ Entered(s.archive, p) \in Int
    BY <1>11, <1>12, <1>13, <1>14
  <2> QED  BY <2>1
<1>19. \A x \in D : s.archive[x].pay = "none" => t.archive[x].pay = "none"
  BY <1>9, <1>10
<1>20. t.archive = A
  BY <1>9
<1> QED  BY <1>0, <1>15, <1>16, <1>17, <1>18, <1>19, <1>20 DEF Keeps

\* Paying a mission.
LEMMA PayKeeps ==
  ASSUME NEW D, D \subseteq Refs, NEW s, Sheet(s, D), NEW r \in D
  PROVE  Keeps(s, Pay(s, r), D)
<1>1. PICK a : a = s.archive[r]
  OBVIOUS
<1>2. PICK to : to = Recipients(r, a)
  OBVIOUS
<1>3. PICK paid : paid = Shares(to, Promised(r), s.staff)
  OBVIOUS
<1>4. CASE ~(a.pay = "due" /\ to # {} /\ s.treasury >= Promised(r) /\ Total(paid) > 0)
  <2>1. Pay(s, r) = s
    BY <1>1, <1>2, <1>3, <1>4 DEF Pay
  <2> QED  BY <2>1, KeepsItself
<1>5. CASE a.pay = "due" /\ to # {} /\ s.treasury >= Promised(r) /\ Total(paid) > 0
  <2>1. IsFiniteSet(to)
    <3>1. to \subseteq House
      BY <1>1, <1>2 DEF Recipients, Sheet, ClosedRow
    <3> QED  BY <3>1, MissionAssumption, FS_Subset
  <2>2. Promised(r) \in Nat
    BY MissionAssumption DEF Promised
  <2>3. paid \in [House -> Int]
    BY <1>3, <2>1, <2>2, SharesTyped
  <2>4. Pay(s, r) = PaidSheet(s, r, paid)
    BY <1>1, <1>2, <1>3, <1>5 DEF Pay, PaidSheet
  <2> QED  BY <1>1, <1>5, <2>3, <2>4, PaidKeeps
<1> QED  BY <1>4, <1>5

\* Posting a mission on the records.
LEMMA PostKeeps ==
  ASSUME NEW D, NEW s, Sheet(s, D), NEW r \in D
  PROVE  Keeps(s, Post(s, r), D)
<1>1. CASE s.archive[r].reviewed
  BY <1>1, KeepsItself DEF Post
<1>2. CASE ~s.archive[r].reviewed
  <2>1. PICK t : t = Post(s, r)
    OBVIOUS
  <2>2. PICK v : v = Credit(s.service, s.archive[r], s.staff)
    OBVIOUS
  <2>3. PICK A : A = [s.archive EXCEPT ![r].reviewed = TRUE]
    OBVIOUS
  <2>4. t = [s EXCEPT !.service = Credit(@, s.archive[r], s.staff), !.archive[r].reviewed = TRUE]
    BY <1>2, <2>1 DEF Post
  <2>5. t = [archive |-> A, treasury |-> s.treasury, purse |-> s.purse,
             service |-> v, staff |-> s.staff, signed |-> s.signed,
             asks |-> s.asks, raised |-> s.raised]
    BY <2>2, <2>3, <2>4 DEF Sheet
  <2>6. /\ A \in [D -> ClosedRow]
        /\ \A x \in D : /\ A[x].paid = s.archive[x].paid /\ A[x].pay = s.archive[x].pay
                        /\ A[x].offer = s.archive[x].offer
    BY <2>3, ZenonT(60) DEF Sheet, ClosedRow
  <2>7. Sheet(t, D)
    BY <2>5, <2>6 DEF Sheet, Clean
  <2>8. OffersSound(s.archive, grade) => OffersSound(A, grade)
    BY <2>6 DEF OffersSound, OpenOffers, Sheet
  <2>9. t.archive = A /\ t.treasury = s.treasury /\ t.purse = s.purse
    BY <2>5
  <2> QED  BY <2>1, <2>6, <2>7, <2>8, <2>9, SameMoney
<1> QED  BY <1>1, <1>2

\* A row whose offer changes.
LEMMA OfferKeeps ==
  ASSUME NEW D, NEW s, Sheet(s, D), NEW r \in D, NEW offer \in Offers,
         offer.status = "open" => OpenOffers(s.archive) = {} /\ offer.from = grade,
         NEW t, t = [s EXCEPT !.archive[r].offer = offer]
  PROVE  Keeps(s, t, D)
<1>1. PICK A : A = [s.archive EXCEPT ![r].offer = offer]
  OBVIOUS
<1>2. t = [archive |-> A, treasury |-> s.treasury, purse |-> s.purse,
           service |-> s.service, staff |-> s.staff, signed |-> s.signed,
           asks |-> s.asks, raised |-> s.raised]
  BY <1>1 DEF Sheet
<1>3. /\ A \in [D -> ClosedRow] /\ A[r].offer = offer
      /\ \A x \in D : /\ A[x].paid = s.archive[x].paid /\ A[x].pay = s.archive[x].pay
                      /\ x # r => A[x].offer = s.archive[x].offer
  <2>1. PICK a : a = s.archive[r]
    OBVIOUS
  <2>2. PICK row : row = [a EXCEPT !.offer = offer]
    OBVIOUS
  <2>3. A = [s.archive EXCEPT ![r] = row]
    BY <1>1, <2>1, <2>2
  <2>4. s.archive \in [D -> ClosedRow] /\ a \in ClosedRow
    BY <2>1 DEF Sheet
  <2>5. row \in ClosedRow /\ row.offer = offer /\ row.paid = a.paid /\ row.pay = a.pay
    BY <2>2, <2>4 DEF ClosedRow
  <2>6. A \in [D -> ClosedRow] /\ A[r] = row /\ \A x \in D : x # r => A[x] = s.archive[x]
    BY <2>3, <2>4, <2>5
  <2> QED  BY <2>1, <2>5, <2>6
<1>4. Sheet(t, D)
  BY <1>2, <1>3, SMTT(30) DEF Sheet, Clean
<1>5. OffersSound(s.archive, grade) => OffersSound(A, grade)
  <2>1. DOMAIN A = D /\ DOMAIN s.archive = D
    BY <1>3 DEF Sheet
  <2>2. CASE offer.status = "open"
    <3>1. OpenOffers(A) \subseteq {r}
      BY <1>3, <2>1, <2>2 DEF OpenOffers
    <3> QED  BY <1>3, <2>2, <3>1 DEF OffersSound
  <2>3. CASE offer.status # "open"
    <3>1. OpenOffers(A) \subseteq OpenOffers(s.archive)
          /\ \A x \in OpenOffers(A) : A[x].offer = s.archive[x].offer
      BY <1>3, <2>1, <2>3 DEF OpenOffers
    <3> QED  BY <3>1 DEF OffersSound
  <2> QED  BY <2>2, <2>3
<1>6. t.archive = A /\ t.treasury = s.treasury /\ t.purse = s.purse
  BY <1>2
<1> QED  BY <1>3, <1>4, <1>5, <1>6, SameMoney

\* The House's answer on a promotion.
LEMMA CareerKeeps ==
  ASSUME NEW D, D \subseteq Refs, NEW s, Sheet(s, D), NEW r \in D, NEW done, grade \in Int
  PROVE  Keeps(s, Career(s, r, done), D)
<1> DEFINE mine == {x \in done : x[1] = "career" /\ x[2] = {r}}
<1>1. PICK e : e = CHOOSE x \in mine : TRUE
  OBVIOUS
<1>2. PICK t : t = Career(s, r, done)
  OBVIOUS
<1>3. PICK a : a = s.archive[r]
  OBVIOUS
<1>4. CASE ~MayBeAsked(s, r)
  BY <1>4, KeepsItself DEF Career
<1>5. CASE MayBeAsked(s, r)
  <2>1. a.offer = NoOffer /\ OpenOffers(s.archive) = {}
    BY <1>3, <1>5 DEF MayBeAsked, Unasked
  <2>2. CASE t = [s EXCEPT !.asks = @ \cup {<<"career", {r}, grade>>}]
    <3>1. PICK b : b = s.asks \cup {<<"career", {r}, grade>>}
      OBVIOUS
    <3>2. t = [archive |-> s.archive, treasury |-> s.treasury, purse |-> s.purse,
               service |-> s.service, staff |-> s.staff, signed |-> s.signed,
               asks |-> b, raised |-> s.raised]
      BY <2>2, <3>1 DEF Sheet
    <3>a. b \subseteq Asked
      <4>1. PICK R, g : R = {r} /\ g = grade
        OBVIOUS
      <4>2. <<"career", R, g>> \in Asked
        <5>1. R \in SUBSET Refs /\ g \in Int
          BY <4>1
        <5> HIDE DEF mine
        <5> QED  BY ONLY <5>1 DEF Asked
      <4> QED  BY <3>1, <4>1, <4>2 DEF Sheet
    <3>3. t.archive = s.archive /\ t.treasury = s.treasury /\ t.purse = s.purse /\ Sheet(t, D)
      BY <3>2, <3>a DEF Sheet
    <3> QED  BY <1>2, <3>3, SameMoney
  <2>3. CASE t = [s EXCEPT !.raised = TRUE]
    <3>1. t = [archive |-> s.archive, treasury |-> s.treasury, purse |-> s.purse,
               service |-> s.service, staff |-> s.staff, signed |-> s.signed,
               asks |-> s.asks, raised |-> TRUE]
      BY <2>3 DEF Sheet
    <3>2. t.archive = s.archive /\ t.treasury = s.treasury /\ t.purse = s.purse /\ Sheet(t, D)
      BY <3>1 DEF Sheet
    <3> QED  BY <1>2, <3>2, SameMoney
  <2>4. CASE t = [s EXCEPT !.archive[r].offer = [status |-> "open", from |-> grade]]
    <3>1. PICK o : o = [status |-> "open", from |-> grade]
      OBVIOUS
    <3>2. o \in Offers /\ o.from = grade
      BY <3>1 DEF Offers
    <3>3. t = [s EXCEPT !.archive[r].offer = o]
      BY <2>4, <3>1
    <3> QED  BY <1>2, <2>1, <3>2, <3>3, OfferKeeps
  <2>5. CASE t = [s EXCEPT !.archive[r].offer.status = "deferred"]
    <3>1. PICK o : o = [status |-> "deferred", from |-> 0]
      OBVIOUS
    <3>2. o \in Offers /\ o.status # "open"
      BY <3>1 DEF Offers
    <3>3. [a.offer EXCEPT !.status = "deferred"] = o
      BY <2>1, <3>1 DEF NoOffer
    <3>4. t = [s EXCEPT !.archive[r].offer = o]
      BY <1>3, <2>5, <3>3
    <3> QED  BY <1>2, <3>2, <3>4, OfferKeeps
  <2>6. \/ t = [s EXCEPT !.asks = @ \cup {<<"career", {r}, grade>>}]
        \/ t = [s EXCEPT !.archive[r].offer.status = "deferred"]
        \/ t = [s EXCEPT !.raised = TRUE]
        \/ t = [s EXCEPT !.archive[r].offer = [status |-> "open", from |-> grade]]
    BY <1>1, <1>2, <1>5 DEF Career
  <2> QED  BY <2>2, <2>3, <2>4, <2>5, <2>6
<1> QED  BY <1>4, <1>5

\* The first sheet, one step of the settlement, and the list of all its sheets.
Opened(a, staff, signed, income) ==
  [archive |-> a, treasury |-> treasury + income, purse |-> purse, service |-> service,
   staff |-> staff, signed |-> signed, asks |-> {}, raised |-> FALSE]
Onto(s, i, a, done) == IF i \in DOMAIN a THEN Career(Post(Pay(s, i), i), i, done) ELSE s
Sheets(s, n, base, a, done) == s = [i \in 0 .. n |-> IF i = 0 THEN base ELSE Onto(s[i - 1], i, a, done)]

\* The list of sheets exists, up to any reference.
LEMMA SheetsExist ==
  ASSUME NEW base, NEW a, NEW done
  PROVE  \A n \in Nat : \E s : Sheets(s, n, base, a, done)
<1> DEFINE N == {n \in Nat : ~\E s : Sheets(s, n, base, a, done)}
<1> SUFFICES ASSUME N # {} PROVE FALSE
  OBVIOUS
<1>1. PICK n \in N : \A m \in N : n <= m
  BY LeastNatural
<1>2. n # 0
  <2>1. PICK s : s = [i \in 0 .. 0 |-> base]
    OBVIOUS
  <2>2. \A i \in 0 .. 0 : i = 0
    OBVIOUS
  <2>3. s = [i \in 0 .. 0 |-> IF i = 0 THEN base ELSE Onto(s[i - 1], i, a, done)]
    BY <2>1, <2>2
  <2>4. Sheets(s, 0, base, a, done)
    BY <2>3 DEF Sheets
  <2> QED  BY <2>4
<1>3. n - 1 \in Nat /\ n - 1 \notin N /\ n \in Nat
  BY <1>1, <1>2
<1>4. PICK g : Sheets(g, n - 1, base, a, done)
  BY <1>3
<1>5. PICK h : h = [i \in 0 .. n |-> IF i < n THEN g[i] ELSE Onto(g[n - 1], n, a, done)]
  OBVIOUS
<1>6. \A i \in 0 .. n : h[i] = IF i = 0 THEN base ELSE Onto(h[i - 1], i, a, done)
  <2> SUFFICES ASSUME NEW i \in 0 .. n
               PROVE  h[i] = IF i = 0 THEN base ELSE Onto(h[i - 1], i, a, done)
    OBVIOUS
  <2>1. CASE i = n
    <3>1. h[n] = Onto(g[n - 1], n, a, done) /\ h[n - 1] = g[n - 1]
      BY <1>3, <1>5
    <3> QED  BY <1>2, <2>1, <3>1
  <2>2. CASE i # n
    <3>1. i \in 0 .. n - 1 /\ h[i] = g[i] /\ (i # 0 => h[i - 1] = g[i - 1])
      BY <1>3, <1>5, <2>2
    <3>2. g[i] = IF i = 0 THEN base ELSE Onto(g[i - 1], i, a, done)
      BY <1>4, <3>1 DEF Sheets
    <3> QED  BY <3>1, <3>2
  <2> QED  BY <2>1, <2>2
<1>7. Sheets(h, n, base, a, done)
  <2>1. DOMAIN h = 0 .. n
    BY <1>5
  <2> QED  BY <1>5, <1>6, <2>1 DEF Sheets
<1> QED  BY <1>1, <1>7

\* What a settlement does to the archive and the money.
LEMMA SettledKeeps ==
  ASSUME NEW a, DOMAIN a \subseteq Refs, NEW done, NEW staff, NEW signed, NEW income, grade \in Int,
         Sheet(Opened(a, staff, signed, income), DOMAIN a)
  PROVE  Keeps(Opened(a, staff, signed, income), Settled(a, done, staff, signed, income), DOMAIN a)
<1>1. PICK base : base = Opened(a, staff, signed, income)
  OBVIOUS
<1>2. PICK n : n = Len(Missions)
  OBVIOUS
<1>3. n \in Nat /\ Refs = 1 .. n
  BY <1>2, RefsAreFinite
<1>4. PICK s : s = CHOOSE x : Sheets(x, n, base, a, done)
  OBVIOUS
<1>5. Sheets(s, n, base, a, done)
  BY <1>3, <1>4, SheetsExist
<1>6. Settled(a, done, staff, signed, income) = s[n]
  BY <1>1, <1>2, <1>4 DEF Settled, Sheets, Onto, Opened
<1>0. PICK D : D = DOMAIN a
  OBVIOUS
<1> DEFINE N == {i \in 0 .. n : ~Keeps(base, s[i], D)}
<1>7. N = {}
  <2> SUFFICES ASSUME N # {} PROVE FALSE
    OBVIOUS
  <2>1. PICK i \in N : \A m \in N : i <= m
    BY LeastNatural, N \subseteq Nat, <1>3
  <2>2. i # 0
    <3>1. s[0] = base
      BY <1>3, <1>5 DEF Sheets
    <3>2. Keeps(base, base, D)
      BY <1>0, <1>1, KeepsItself
    <3> QED  BY <3>1, <3>2, <2>1
  <2>a. i \in 0 .. n /\ D \subseteq Refs
    BY <1>0
  <2>3. i - 1 \in 0 .. n /\ i \in 1 .. n /\ i - 1 \notin N
    <3> HIDE DEF N
    <3> QED  BY <1>3, <2>1, <2>2, <2>a
  <2>4. PICK t : t = s[i - 1]
    OBVIOUS
  <2>5. Keeps(base, t, D) /\ Sheet(t, D)
    BY <2>3, <2>4 DEF Keeps
  <2>6. s[i] = Onto(t, i, a, done)
    BY <1>3, <1>5, <2>2, <2>3, <2>4 DEF Sheets
  <2>7. Keeps(t, s[i], D)
    <3>1. CASE i \notin D
      BY <1>0, <2>5, <2>6, <3>1, KeepsItself DEF Onto
    <3>2. CASE i \in D
      <4>1. PICK u : u = Pay(t, i)
        OBVIOUS
      <4>2. PICK v : v = Post(u, i)
        OBVIOUS
      <4>3. Keeps(t, u, D) /\ Sheet(u, D)
        <5>1. Keeps(t, u, D)
          <6>1. Keeps(t, Pay(t, i), D)
            BY <2>5, <2>a, <3>2, PayKeeps
          <6> QED  BY <4>1, <6>1
        <5> QED  BY <5>1 DEF Keeps
      <4>4. Keeps(u, v, D) /\ Sheet(v, D)
        BY <3>2, <4>2, <4>3, PostKeeps DEF Keeps
      <4>5. s[i] = Career(v, i, done)
        BY <1>0, <2>6, <3>2, <4>1, <4>2 DEF Onto
      <4>6. Keeps(v, s[i], D)
        BY <2>a, <3>2, <4>4, <4>5, CareerKeeps
      <4> QED  BY <4>3, <4>4, <4>6, KeepsOn
    <3> QED  BY <3>1, <3>2
  <2>8. Keeps(base, s[i], D)
    BY <2>5, <2>7, KeepsOn
  <2> QED  BY <2>1, <2>8
<1>8. n \in 0 .. n
  BY <1>3
<1> QED  BY <1>0, <1>1, <1>6, <1>7, <1>8

-----------------------------------------------------------------------------
(* Steps and the ledger.                                                    *)

\* Dossiers d and archive a after an event: nothing is filed and no new dossier is on
\* file, or one mission is filed with nothing paid and nothing offered.
Filed(d, a) ==
  \/ a = archive /\ DOMAIN d \cap DOMAIN archive \subseteq DOMAIN dossiers
  \/ \E r \in DOMAIN dossiers, row \in ClosedRow :
        /\ a = With(archive, r, row) /\ row.paid = NoPay /\ row.pay # "paid" /\ row.offer = NoOffer
        /\ d = Except(dossiers, {r}) \/ (d = dossiers /\ row.pay = "none")

\* Filing moves no money and offers nothing.
LEMMA FilingKeeps ==
  ASSUME LedgerInv, NEW d, NEW a, Filed(d, a)
  PROVE  /\ Partial(a, Refs, ClosedRow) /\ Clean(a) /\ OffersSound(a, grade)
         /\ \A p \in House : Entered(a, p) = Entered(archive, p)
         /\ \A r \in DOMAIN a \cap DOMAIN d : a[r].pay = "none"
<1>1. Partial(archive, Refs, ClosedRow) /\ Partial(dossiers, Refs, DossierRow)
      /\ Clean(archive) /\ OffersSound(archive, grade) /\ FiledUnpaid
  BY DEF LedgerInv, MissionTypes, PapersTyped
<1>2. CASE a = archive /\ DOMAIN d \cap DOMAIN archive \subseteq DOMAIN dossiers
  BY <1>1, <1>2 DEF FiledUnpaid
<1>3. CASE \E r \in DOMAIN dossiers, row \in ClosedRow :
              /\ a = With(archive, r, row) /\ row.paid = NoPay /\ row.pay # "paid" /\ row.offer = NoOffer
              /\ d = Except(dossiers, {r}) \/ (d = dossiers /\ row.pay = "none")
  <2>1. PICK r \in DOMAIN dossiers, row \in ClosedRow :
              /\ a = With(archive, r, row) /\ row.paid = NoPay /\ row.pay # "paid" /\ row.offer = NoOffer
              /\ d = Except(dossiers, {r}) \/ (d = dossiers /\ row.pay = "none")
    BY <1>3
  <2>2. r \in Refs
    BY <1>1 DEF Partial
  <2>3. /\ Partial(a, Refs, ClosedRow) /\ DOMAIN a = DOMAIN archive \cup {r} /\ a[r] = row
        /\ \A x \in DOMAIN archive : x # r => a[x] = archive[x]
    <3>1. a = With(archive, r, row)
      BY <2>1
    <3>2. Partial(a, Refs, ClosedRow)
      BY <1>1, <2>2, <3>1, WithPartial
    <3>3. /\ DOMAIN a = DOMAIN archive \cup {r} /\ a[r] = row
          /\ \A x \in DOMAIN archive : x # r => a[x] = archive[x]
      BY <3>1 DEF With
    <3> QED  BY <3>2, <3>3
  <2>4. DOMAIN d \subseteq DOMAIN dossiers /\ (r \in DOMAIN d => row.pay = "none")
    <3>1. DOMAIN Except(dossiers, {r}) = DOMAIN dossiers \ {r}
      BY <1>1, ExceptPartial
    <3> QED  BY <2>1, <3>1
  <2>5. Clean(a)
    BY <1>1, <2>1, <2>3 DEF Clean
  <2>6. r \in DOMAIN archive => archive[r].paid = NoPay
    BY <1>1 DEF FiledUnpaid, Clean
  <2>7. \A p \in House : Entered(a, p) = Entered(archive, p)
    BY <1>1, <2>1, <2>2, <2>6, FilingEntersNothing
  <2>8. OffersSound(a, grade)
    <3>1. OpenOffers(a) \subseteq OpenOffers(archive)
          /\ \A x \in OpenOffers(a) : a[x] = archive[x]
      BY <2>1, <2>3 DEF OpenOffers, NoOffer
    <3> QED  BY <1>1, <3>1 DEF OffersSound
  <2>9. \A x \in DOMAIN a \cap DOMAIN d : a[x].pay = "none"
    BY <1>1, <2>3, <2>4 DEF FiledUnpaid
  <2> QED  BY <2>3, <2>5, <2>7, <2>8, <2>9
<1> QED  BY <1>2, <1>3 DEF Filed

\* The frontier after an event.
LEMMA FrontierKeeps ==
  ASSUME NEW d, NEW a, NEW done, NEW ask, NEW income \in Int, Frontier(d, a, done, ask, income),
         Partial(a, Refs, ClosedRow), Clean(a), treasury \in Int, purse \in [House -> Int], grade \in Int,
         ask \subseteq Asked
  PROVE  /\ dossiers' = d /\ Partial(archive', Refs, ClosedRow) /\ DOMAIN archive' = DOMAIN a
         /\ Clean(archive') /\ treasury' \in Int /\ purse' \in [House -> Int]
         /\ treasury' + Total(purse') = treasury + income + Total(purse)
         /\ \A p \in House : purse'[p] - Entered(archive', p) = purse[p] - Entered(a, p)
         /\ \A r \in DOMAIN a : a[r].pay = "none" => archive'[r].pay = "none"
         /\ OffersSound(a, grade) => OffersSound(archive', grade)
         /\ pending' \subseteq Asked
<1>1. PICK staff : staff = members'
  OBVIOUS
<1>2. PICK signed : signed = (Issuers("raid")' # {})
  OBVIOUS
<1>3. PICK s : s = Settled(a, done, staff, signed, income)
  OBVIOUS
<1>4. /\ dossiers' = d /\ archive' = s.archive /\ treasury' = s.treasury /\ purse' = s.purse
      /\ pending' = s.asks \cup ask
  BY <1>1, <1>2, <1>3 DEF Frontier
<1>5. PICK b : b = Opened(a, staff, signed, income)
  OBVIOUS
<1>6. /\ b = [archive |-> a, treasury |-> treasury + income, purse |-> purse, service |-> service,
              staff |-> staff, signed |-> signed, asks |-> {}, raised |-> FALSE]
  BY <1>5 DEF Opened
<1>7. b.archive = a /\ b.treasury = treasury + income /\ b.purse = purse
  BY <1>6
<1>8. Sheet(b, DOMAIN a)
  BY <1>6, <1>7 DEF Sheet, Partial
<1>9. Keeps(b, s, DOMAIN a)
  <2>1. DOMAIN a \subseteq Refs
    BY DEF Partial
  <2> QED  BY <1>3, <1>5, <1>8, <2>1, SettledKeeps
<1>10. Sheet(s, DOMAIN a)
  BY <1>9 DEF Keeps
<1>11. Partial(s.archive, Refs, ClosedRow) /\ DOMAIN s.archive = DOMAIN a /\ Clean(s.archive)
       /\ s.treasury \in Int /\ s.purse \in [House -> Int] /\ s.asks \subseteq Asked
  BY <1>10 DEF Sheet, Partial
<1>12. /\ s.treasury + Total(s.purse) = treasury + income + Total(purse)
       /\ \A p \in House : s.purse[p] - Entered(s.archive, p) = purse[p] - Entered(a, p)
       /\ \A r \in DOMAIN a : a[r].pay = "none" => s.archive[r].pay = "none"
       /\ OffersSound(a, grade) => OffersSound(s.archive, grade)
  BY <1>7, <1>9 DEF Keeps
<1> QED  BY <1>4, <1>11, <1>12

\* An event that files at most one dossier, with its frontier.
LEMMA EventKeepsLedger ==
  ASSUME LedgerInv, NEW d, NEW a, Filed(d, a), Partial(d, Refs, DossierRow),
         NEW done, NEW ask, ask \subseteq Asked, NEW income \in Int, Frontier(d, a, done, ask, income),
         committed' \subseteq Answered, outside' = outside - income, grade' = grade, RoadsTyped', PeopleTyped',
         contracts' \in [Contracts -> {"open", "mine", "underway", "over", "expired"}]
  PROVE  LedgerInv'
<1>1. /\ Partial(a, Refs, ClosedRow) /\ Clean(a) /\ OffersSound(a, grade)
      /\ \A p \in House : Entered(a, p) = Entered(archive, p)
      /\ \A r \in DOMAIN a \cap DOMAIN d : a[r].pay = "none"
  BY FilingKeeps
<1>2. treasury \in Int /\ purse \in [House -> Int] /\ grade \in Int /\ outside \in Int /\ MoneyIsEntered
  BY DEF LedgerInv, MissionTypes, MoneyTyped
<1>3. /\ dossiers' = d /\ Partial(archive', Refs, ClosedRow) /\ DOMAIN archive' = DOMAIN a
      /\ Clean(archive') /\ treasury' \in Int /\ purse' \in [House -> Int]
      /\ treasury' + Total(purse') = treasury + income + Total(purse)
      /\ \A p \in House : purse'[p] - Entered(archive', p) = purse[p] - Entered(a, p)
      /\ \A r \in DOMAIN a : a[r].pay = "none" => archive'[r].pay = "none"
      /\ OffersSound(a, grade) => OffersSound(archive', grade)
      /\ pending' \subseteq Asked
  BY <1>1, <1>2, FrontierKeeps
<1>4. MissionTypes'
  BY <1>2, <1>3 DEF MissionTypes, PapersTyped, MoneyTyped, JudgmentsTyped
<1>5. Clean(archive)' /\ OffersSound(archive, grade)'
  BY <1>1, <1>3
<1>6. FiledUnpaid'
  BY <1>1, <1>3 DEF FiledUnpaid
<1>7. MoneyIsEntered'
  <2>1. IsFiniteSet(House) /\ Total(purse) \in Int /\ Total(purse') \in Int
    BY <1>2, <1>3, MissionAssumption, SumType DEF Total
  <2>2. treasury + Total(purse) + outside = Silver + Fee * Cardinality(Contracts)
    BY <1>2 DEF MoneyIsEntered
  <2>3. treasury' + Total(purse') + outside' = treasury + Total(purse) + outside
    BY <1>2, <1>3, <2>1
  <2>4. ASSUME NEW p \in House PROVE purse'[p] = Entered(archive', p)
    <3>1. purse[p] = Entered(archive, p) /\ Entered(a, p) = Entered(archive, p)
      BY <1>1, <1>2 DEF MoneyIsEntered
    <3>2. purse'[p] \in Int /\ purse[p] \in Int /\ Entered(archive', p) \in Int
      <4>1. IsFiniteSet(DOMAIN archive') /\ archive' \in [DOMAIN archive' -> ClosedRow]
        BY <1>3, RefsAreFinite, FS_Subset DEF Partial
      <4> QED  BY <1>2, <1>3, <4>1, EnteredTyped
    <3>3. purse'[p] - Entered(archive', p) = purse[p] - Entered(a, p)
      BY <1>3
    <3> QED  BY <3>1, <3>2, <3>3
  <2> QED  BY <2>2, <2>3, <2>4 DEF MoneyIsEntered
<1> QED  BY <1>4, <1>5, <1>6, <1>7 DEF LedgerInv

\* A command that files at most one dossier and pays nobody of the House.
LEMMA CommandKeepsLedger ==
  ASSUME LedgerInv, Filed(dossiers', archive'), Partial(dossiers', Refs, DossierRow),
         purse' = purse, NEW n \in Int, treasury' = treasury - n, outside' = outside + n,
         pending' = pending, committed' = committed, grade' = grade, RoadsTyped', PeopleTyped',
         contracts' \in [Contracts -> {"open", "mine", "underway", "over", "expired"}]
  PROVE  LedgerInv'
<1>1. PICK d, a : d = dossiers' /\ a = archive'
  OBVIOUS
<1>2. /\ Partial(a, Refs, ClosedRow) /\ Clean(a) /\ OffersSound(a, grade)
      /\ \A p \in House : Entered(a, p) = Entered(archive, p)
      /\ \A r \in DOMAIN a \cap DOMAIN d : a[r].pay = "none"
  BY <1>1, FilingKeeps
<1>3. treasury \in Int /\ purse \in [House -> Int] /\ grade \in Int /\ outside \in Int /\ MoneyIsEntered
  BY DEF LedgerInv, MissionTypes, MoneyTyped
<1>4. MissionTypes'
  BY <1>1, <1>2, <1>3 DEF LedgerInv, MissionTypes, PapersTyped, MoneyTyped, JudgmentsTyped
<1>5. Clean(archive)' /\ OffersSound(archive, grade)' /\ FiledUnpaid'
  BY <1>1, <1>2 DEF FiledUnpaid
<1>6. MoneyIsEntered'
  <2>1. Total(purse) \in Int
    BY <1>3, MissionAssumption, SumType DEF Total
  <2>2. treasury' + Total(purse') + outside' = treasury + Total(purse) + outside
    <3>1. Total(purse') = Total(purse)
      OBVIOUS
    <3> QED  BY <1>3, <2>1, <3>1
  <2> QED  BY <1>1, <1>2, <1>3, <2>2 DEF MoneyIsEntered
<1> QED  BY <1>4, <1>5, <1>6 DEF LedgerInv

-----------------------------------------------------------------------------
(* What steps write.                                                        *)

\* The first dossier of a commission is one of its dossiers.
LEMMA FirstLinked ==
  ASSUME NEW d, DOMAIN d \subseteq Refs, NEW c, Linked(d, c) # {}
  PROVE  First(d, c) \in Linked(d, c)
<1>1. PICK L : L = Linked(d, c)
  OBVIOUS
<1>2. L \subseteq Nat
  BY <1>1, RefsAreFinite DEF Linked
<1>3. \E n \in L : \A m \in L : n <= m
  BY <1>1, <1>2, LeastNatural
<1>4. First(d, c) = CHOOSE x \in L : \A y \in L : x <= y
  BY <1>1 DEF First, Min
<1> QED  BY <1>1, <1>3, <1>4

\* The row of a mission that is closed.
LEMMA ClosedTyped ==
  ASSUME NEW r, NEW d \in DossierRow, NEW won \in BOOLEAN, NEW back \in SUBSET House
  PROVE  /\ Closed(r, d, won, back) \in ClosedRow /\ Closed(r, d, won, back).paid = NoPay
         /\ Closed(r, d, won, back).pay # "paid" /\ Closed(r, d, won, back).offer = NoOffer
<1>1. d.lead \in House \cup {Nobody} /\ d.party \in SUBSET House
  BY DEF DossierRow
<1>2. NoPay \in [House -> Int] /\ NoOffer \in Offers
  BY DEF NoPay, NoOffer, Offers
<1> QED  BY <1>1, <1>2 DEF Closed, ClosedRow

\* Closing a dossier files it.
LEMMA ArchivedFiles ==
  ASSUME LedgerInv, NEW r \in DOMAIN dossiers, NEW won \in BOOLEAN, NEW back \in SUBSET House
  PROVE  /\ Filed(Except(dossiers, {r}), Archived(archive, r, won, back))
         /\ Partial(Except(dossiers, {r}), Refs, DossierRow)
<1>1. Partial(dossiers, Refs, DossierRow)
  BY DEF LedgerInv, MissionTypes, PapersTyped
<1>2. PICK row : row = Closed(r, dossiers[r], won, back)
  OBVIOUS
<1>3. /\ row \in ClosedRow /\ row.paid = NoPay /\ row.pay # "paid" /\ row.offer = NoOffer
  <2>1. dossiers[r] \in DossierRow
    BY <1>1 DEF Partial
  <2> QED  BY <1>2, <2>1, ClosedTyped
<1>4. Archived(archive, r, won, back) = With(archive, r, row)
  BY <1>2 DEF Archived
<1> QED  BY <1>1, <1>3, <1>4, ExceptPartial DEF Filed

\* A dossier that changes, and archives nothing.
LEMMA ChangeFiles ==
  ASSUME LedgerInv, NEW r \in DOMAIN dossiers, NEW row \in DossierRow, NEW d,
         d = With(dossiers, r, row)
  PROVE  Filed(d, archive) /\ Partial(d, Refs, DossierRow)
<1>1. Partial(dossiers, Refs, DossierRow) /\ r \in Refs
  BY DEF LedgerInv, MissionTypes, PapersTyped, Partial
<1>2. DOMAIN d = DOMAIN dossiers
  BY DEF With
<1> QED  BY <1>1, <1>2, WithPartial DEF Filed

\* A new dossier of a mission that is not on file.
LEMMA OpeningFiles ==
  ASSUME LedgerInv, NEW r \in Refs, r \notin DOMAIN archive, NEW row \in DossierRow, NEW d,
         d = With(dossiers, r, row)
  PROVE  Filed(d, archive) /\ Partial(d, Refs, DossierRow)
<1>1. Partial(dossiers, Refs, DossierRow)
  BY DEF LedgerInv, MissionTypes, PapersTyped
<1>2. DOMAIN d = DOMAIN dossiers \cup {r}
  BY DEF With
<1> QED  BY <1>1, <1>2, WithPartial DEF Filed

\* Dossiers as they are.
LEMMA NothingFiles ==
  ASSUME LedgerInv PROVE Filed(dossiers, archive) /\ Partial(dossiers, Refs, DossierRow)
  BY DEF LedgerInv, MissionTypes, PapersTyped, Filed

\* A dossier that enters another phase than an approval.
LEMMA StagedFiles ==
  ASSUME LedgerInv, NEW r, NEW phase \in Phases \ {"approved"}
  PROVE  Filed(Staged(r, phase), archive) /\ Partial(Staged(r, phase), Refs, DossierRow)
<1>1. Partial(dossiers, Refs, DossierRow)
  BY DEF LedgerInv, MissionTypes, PapersTyped
<1>2. CASE r \in DOMAIN dossiers
  <2>1. PICK d : d = dossiers[r]
    OBVIOUS
  <2>2. PICK row : row = [d EXCEPT !.phase = phase]
    OBVIOUS
  <2>3. row \in DossierRow
    <3>1. d \in DossierRow
      BY <1>1, <1>2, <2>1 DEF Partial
    <3> QED  BY <2>2, <3>1 DEF DossierRow
  <2>4. Staged(r, phase) = With(dossiers, r, row)
    BY <1>1, <1>2, <2>1, <2>2 DEF Staged, With, Partial
  <2> QED  BY <1>2, <2>3, <2>4, ChangeFiles
<1>3. CASE r \notin DOMAIN dossiers
  BY <1>3, NothingFiles DEF Staged
<1> QED  BY <1>2, <1>3

\* The report of an operation.
LEMMA ReportedFiles ==
  ASSUME LedgerInv, NEW r, NEW won \in BOOLEAN, NEW back \in SUBSET House
  PROVE  /\ Filed(Reported(r, won, back)[1], Reported(r, won, back)[2])
         /\ Partial(Reported(r, won, back)[1], Refs, DossierRow)
<1>1. CASE r \in DOMAIN dossiers
  <2>1. Reported(r, won, back) = <<Except(dossiers, {r}), Archived(archive, r, won, back)>>
    BY <1>1 DEF Reported
  <2> QED  BY <1>1, <2>1, ArchivedFiles
<1>2. CASE r \notin DOMAIN dossiers
  <2>1. Reported(r, won, back) = <<dossiers, archive>>
    BY <1>2 DEF Reported
  <2> QED  BY <2>1, NothingFiles
<1> QED  BY <1>1, <1>2

\* The closure of a commission's dossier.
LEMMA CloseLinkedFiles ==
  ASSUME LedgerInv, NEW c, NEW won \in BOOLEAN, NEW back \in SUBSET House
  PROVE  /\ Filed(CloseLinked(c, won, back)[1], CloseLinked(c, won, back)[2])
         /\ Partial(CloseLinked(c, won, back)[1], Refs, DossierRow)
<1>1. CASE Linked(dossiers, c) # {}
  <2>1. PICK r : r = First(dossiers, c)
    OBVIOUS
  <2>2. r \in DOMAIN dossiers
    <3>1. DOMAIN dossiers \subseteq Refs
      BY DEF LedgerInv, MissionTypes, PapersTyped, Partial
    <3>2. r \in Linked(dossiers, c)
      BY <1>1, <2>1, <3>1, FirstLinked
    <3> QED  BY <3>2 DEF Linked
  <2>3. CloseLinked(c, won, back) = <<Except(dossiers, {r}), Archived(archive, r, won, back)>>
    BY <1>1, <2>1 DEF CloseLinked
  <2> QED  BY <2>2, <2>3, ArchivedFiles
<1>2. CASE Linked(dossiers, c) = {}
  <2>1. CloseLinked(c, won, back) = <<dossiers, archive>>
    BY <1>2 DEF CloseLinked
  <2> QED  BY <2>1, NothingFiles
<1> QED  BY <1>1, <1>2

-----------------------------------------------------------------------------
(* The ledger under the player's commands.                                  *)

\* A command that only changes dossiers and contracts.
LEMMA PaperKeepsLedger ==
  ASSUME LedgerInv, Filed(dossiers', archive'), Partial(dossiers', Refs, DossierRow),
         UNCHANGED <<roads, people, money, grade, pending, committed>>,
         contracts' \in [Contracts -> {"open", "mine", "underway", "over", "expired"}]
  PROVE  LedgerInv'
<1>1. RoadsTyped' /\ PeopleTyped'
  BY DEF LedgerInv, MissionTypes, RoadsTyped, PeopleTyped, roads, people
<1>2. treasury \in Int /\ outside \in Int /\ 0 \in Int
  BY DEF LedgerInv, MissionTypes, MoneyTyped
<1>3. /\ purse' = purse /\ grade' = grade /\ treasury' = treasury - 0 /\ outside' = outside + 0
      /\ pending' = pending /\ committed' = committed
      /\ treasury' \in Int /\ outside' \in Int
  BY <1>2 DEF money
<1> QED  BY <1>1, <1>2, <1>3, CommandKeepsLedger

\* The types of the papers.
LEMMA PapersAreTyped ==
  ASSUME LedgerInv
  PROVE  /\ DOMAIN dossiers \subseteq Refs /\ \A r \in DOMAIN dossiers : dossiers[r] \in DossierRow
         /\ DOMAIN archive \subseteq Refs /\ \A r \in DOMAIN archive : archive[r] \in ClosedRow
         /\ dossiers = [r \in DOMAIN dossiers |-> dossiers[r]]
         /\ archive = [r \in DOMAIN archive |-> archive[r]]
         /\ contracts \in [Contracts -> {"open", "mine", "underway", "over", "expired"}]
  BY DEF LedgerInv, MissionTypes, PapersTyped, Partial

\* A dossier that one field of changes, and archives nothing.
LEMMA NotedKeepsLedger ==
  ASSUME LedgerInv, NEW r \in DOMAIN dossiers, NEW row \in DossierRow, Note(r, row),
         UNCHANGED <<contracts, roads, people, money, grade, pending, committed>>
  PROVE  LedgerInv'
<1>1. dossiers' = With(dossiers, r, row) /\ archive' = archive
  BY DEF Note
<1>2. Filed(dossiers', archive') /\ Partial(dossiers', Refs, DossierRow)
  BY <1>1, ChangeFiles
<1>3. UNCHANGED <<roads, people, money, grade, pending, committed>>
      /\ contracts' \in [Contracts -> {"open", "mine", "underway", "over", "expired"}]
  BY PapersAreTyped DEF roads, people, money
<1> QED  BY <1>2, <1>3, PaperKeepsLedger

\* Proposing a mission.
LEMMA ProposeLedger == ASSUME LedgerInv, NEW r \in Refs, Propose(r) PROVE LedgerInv'
<1>1. PICK row : row = Dossier(r, "proposed")
  OBVIOUS
<1>2. row \in DossierRow
  BY <1>1 DEF Dossier, DossierRow, Phases
<1>3. dossiers' = With(dossiers, r, row) /\ archive' = archive /\ r \notin DOMAIN archive
  BY <1>1 DEF Propose, Note
<1>4. Filed(dossiers', archive') /\ Partial(dossiers', Refs, DossierRow)
  BY <1>2, <1>3, OpeningFiles
<1>5. UNCHANGED <<roads, people, money, grade, pending, committed>>
      /\ contracts' \in [Contracts -> {"open", "mine", "underway", "over", "expired"}]
  BY PapersAreTyped DEF Propose, Paper, roads, people, money
<1> QED  BY <1>4, <1>5, PaperKeepsLedger

\* The dossier of a commission that is accepted.
LEMMA AcceptedDossier ==
  ASSUME NEW d, Partial(d, Refs, DossierRow), NEW c,
         Linked(d, c) # {} \/ \E r \in Refs : Missions[r].source = "public" /\ Missions[r].link = c
  PROVE  \E r \in Refs, row \in DossierRow :
            /\ Accepted(d, c) = With(d, r, row) /\ row.phase = "accepted"
            /\ Missions[r].link = c
            /\ Linked(d, c) # {} => r \in Linked(d, c)
            /\ Linked(d, c) = {} => Missions[r].source = "public"
<1>1. PICK r : r = IF Linked(d, c) # {} THEN First(d, c)
                   ELSE CHOOSE x \in Refs : Missions[x].source = "public" /\ Missions[x].link = c
  OBVIOUS
<1>2. PICK row : row = [IF r \in DOMAIN d THEN d[r] ELSE Dossier(r, "accepted")
                          EXCEPT !.phase = "accepted", !.party = {Player}]
  OBVIOUS
<1>3. Accepted(d, c) = With(d, r, row)
  BY <1>1, <1>2 DEF Accepted
<1>4. /\ r \in Refs /\ Missions[r].link = c
      /\ Linked(d, c) # {} => r \in Linked(d, c)
      /\ Linked(d, c) = {} => Missions[r].source = "public"
  <2>1. CASE Linked(d, c) # {}
    <3>1. r \in Linked(d, c)
      BY <1>1, <2>1, FirstLinked DEF Partial
    <3> QED  BY <2>1, <3>1 DEF Linked, Partial
  <2>2. CASE Linked(d, c) = {}
    BY <1>1, <2>2
  <2> QED  BY <2>1, <2>2
<1>5. row \in DossierRow /\ row.phase = "accepted"
  <2>1. PICK old : old = IF r \in DOMAIN d THEN d[r] ELSE Dossier(r, "accepted")
    OBVIOUS
  <2>2. old \in DossierRow
    <3>1. Dossier(r, "accepted") \in DossierRow
      BY DEF Dossier, DossierRow, Phases
    <3> QED  BY <2>1, <3>1 DEF Partial
  <2>3. row = [old EXCEPT !.phase = "accepted", !.party = {Player}]
    BY <1>2, <2>1
  <2> QED  BY <2>2, <2>3, MissionAssumption DEF DossierRow, Phases
<1> QED  BY <1>3, <1>4, <1>5

\* Accepting what the House asks.
LEMMA AcceptAssignmentLedger == ASSUME LedgerInv, NEW r \in Refs, AcceptAssignment(r) PROVE LedgerInv'
<1>1. PICK d : d = [dossiers EXCEPT ![r].phase = "accepted"]
  OBVIOUS
<1>2. PICK row : row = [dossiers[r] EXCEPT !.phase = "accepted"]
  OBVIOUS
<1>3. r \in DOMAIN dossiers /\ archive' = archive
      /\ UNCHANGED <<roads, people, money, grade, pending, committed>>
  BY DEF AcceptAssignment, InPhase, roads, people, money
<1>4. row \in DossierRow
  <2>1. dossiers[r] \in DossierRow
    BY <1>3, PapersAreTyped
  <2> QED  BY <1>2, <2>1 DEF DossierRow, Phases
<1>5. d = With(dossiers, r, row)
  BY <1>1, <1>2, <1>3, PapersAreTyped DEF With
<1>6. Filed(d, archive) /\ Partial(d, Refs, DossierRow) /\ DOMAIN d = DOMAIN dossiers
  <2>1. DOMAIN d = DOMAIN dossiers
    BY <1>1
  <2> QED  BY <1>3, <1>4, <1>5, <2>1, ChangeFiles
<1>7. CASE Missions[r].link = Nobody
  <2>1. dossiers' = d /\ contracts' = contracts
    BY <1>1, <1>7 DEF AcceptAssignment
  <2> QED  BY <1>3, <1>6, <2>1, PapersAreTyped, PaperKeepsLedger
<1>8. CASE Missions[r].link # Nobody
  <2>1. PICK c : c = Missions[r].link
    OBVIOUS
  <2>2. dossiers' = Accepted(d, c) /\ contracts' = [contracts EXCEPT ![c] = "mine"]
    BY <1>1, <1>8, <2>1 DEF AcceptAssignment
  <2>3. r \in Linked(d, c)
    BY <1>3, <1>6, <2>1 DEF Linked
  <2>4. PICK q \in Refs, new \in DossierRow : Accepted(d, c) = With(d, q, new) /\ q \in Linked(d, c)
    BY <1>6, <2>3, AcceptedDossier
  <2>5. q \in DOMAIN d
    BY <2>4 DEF Linked
  <2>6. DOMAIN With(d, q, new) = DOMAIN dossiers
    BY <1>6, <2>5 DEF With
  <2>7. Filed(dossiers', archive')
    BY <1>3, <2>2, <2>4, <2>6 DEF Filed
  <2>8. Partial(dossiers', Refs, DossierRow)
    BY <1>6, <2>2, <2>4, WithPartial
  <2>9. contracts' \in [Contracts -> {"open", "mine", "underway", "over", "expired"}]
    BY <2>2, PapersAreTyped
  <2> QED  BY <1>3, <2>7, <2>8, <2>9, PaperKeepsLedger
<1> QED  BY <1>7, <1>8

\* Accepting a commission from its public notice.
LEMMA AcceptContractLedger == ASSUME LedgerInv, NEW c \in Contracts, AcceptContract(c) PROVE LedgerInv'
<1>1. PICK x \in Refs : Missions[x].source = "public" /\ Missions[x].link = c /\ x \notin DOMAIN archive
  BY DEF AcceptContract
<1>2. Partial(dossiers, Refs, DossierRow)
  BY DEF LedgerInv, MissionTypes, PapersTyped
<1>3. PICK r \in Refs, row \in DossierRow :
         /\ Accepted(dossiers, c) = With(dossiers, r, row)
         /\ Missions[r].link = c
         /\ Linked(dossiers, c) # {} => r \in Linked(dossiers, c)
         /\ Linked(dossiers, c) = {} => Missions[r].source = "public"
  BY <1>1, <1>2, AcceptedDossier
<1>4. dossiers' = With(dossiers, r, row) /\ archive' = archive
      /\ UNCHANGED <<roads, people, money, grade, pending, committed>>
      /\ contracts' = [contracts EXCEPT ![c] = "mine"]
  BY <1>3 DEF AcceptContract, roads, people, money
<1>5. Filed(dossiers', archive') /\ Partial(dossiers', Refs, DossierRow)
  <2>1. CASE Linked(dossiers, c) # {}
    <3>1. r \in DOMAIN dossiers
      BY <1>3, <2>1 DEF Linked
    <3> QED  BY <1>3, <1>4, <3>1, ChangeFiles
  <2>2. CASE Linked(dossiers, c) = {}
    <3>1. r = x
      BY <1>1, <1>3, <2>2, MissionAssumption DEF Refs
    <3> QED  BY <1>1, <1>3, <1>4, <3>1, OpeningFiles
  <2> QED  BY <2>1, <2>2
<1>6. contracts' \in [Contracts -> {"open", "mine", "underway", "over", "expired"}]
  BY <1>4, PapersAreTyped
<1> QED  BY <1>4, <1>5, <1>6, PaperKeepsLedger

\* A council.
LEMMA ConveneLedger ==
  ASSUME LedgerInv, NEW r \in Refs, NEW S \in SUBSET House, Convene(r, S) PROVE LedgerInv'
<1>1. PICK able : able = {p \in S : Authorized(p, Missions[r].kind)}
  OBVIOUS
<1>2. PICK row : row = [dossiers[r] EXCEPT !.phase = "briefed", !.backed = able # {}]
  OBVIOUS
<1>3. r \in DOMAIN dossiers /\ Note(r, row) /\ UNCHANGED <<contracts, roads, people, money, grade, pending, committed>>
  BY <1>1, <1>2 DEF Convene, InPhase, Paper
<1>4. row \in DossierRow
  <2>1. dossiers[r] \in DossierRow /\ (able # {}) \in BOOLEAN
    BY <1>3, PapersAreTyped
  <2> QED  BY <1>2, <2>1 DEF DossierRow, Phases
<1> QED  BY <1>3, <1>4, NotedKeepsLedger

\* A plan and its answer.
LEMMA SubmitPlanLedger ==
  ASSUME LedgerInv, NEW r \in Refs, NEW plan \in Rosters, SubmitPlan(r, plan) PROVE LedgerInv'
<1>1. PICK d : d = dossiers[r]
  OBVIOUS
<1>2. r \in DOMAIN dossiers /\ UNCHANGED <<contracts, roads, people, money, grade, pending, committed>>
  BY DEF SubmitPlan, InPhase, Paper
<1>3. \/ Note(r, [d EXCEPT !.phase = "revision"])
      \/ Note(r, [d EXCEPT !.phase = "rejected"])
      \/ Note(r, [d EXCEPT !.phase = "approved", !.party = plan.party, !.lead = plan.lead])
  BY <1>1 DEF SubmitPlan
<1>4. d \in DossierRow
  BY <1>1, <1>2, PapersAreTyped
<1>5. [d EXCEPT !.phase = "revision"] \in DossierRow /\ [d EXCEPT !.phase = "rejected"] \in DossierRow
  BY <1>4 DEF DossierRow, Phases
<1>6. [d EXCEPT !.phase = "approved", !.party = plan.party, !.lead = plan.lead] \in DossierRow
  <2>1. plan.party \in SUBSET House /\ plan.lead \in House
    BY MissionAssumption
  <2> QED  BY <1>4, <2>1 DEF DossierRow, Phases
<1> QED  BY <1>2, <1>3, <1>5, <1>6, NotedKeepsLedger

\* The types of the rest.
LEMMA WorldIsTyped ==
  ASSUME LedgerInv
  PROVE  /\ RoadsTyped /\ PeopleTyped
         /\ treasury \in Int /\ outside \in Int /\ purse \in [House -> Int] /\ grade \in Int
  BY DEF LedgerInv, MissionTypes, MoneyTyped

\* A party leaves.
LEMMA DispatchLedger == ASSUME LedgerInv, NEW r \in Refs, Dispatch(r) PROVE LedgerInv'
<1>1. PICK d : d = dossiers[r]
  OBVIOUS
<1>2. PICK row : row = [d EXCEPT !.phase = "dispatched"]
  OBVIOUS
<1>3. PICK op : op = [leg |-> "mobilizing", party |-> d.party, won |-> FALSE, from |-> at[d.lead]]
  OBVIOUS
<1>4. /\ r \in DOMAIN dossiers /\ d.phase = "approved" /\ field' = With(field, r, op)
      /\ dossiers' = With(dossiers, r, row) /\ archive' = archive
      /\ UNCHANGED <<contracts, convoys, musters, people, money, grade, pending, committed>>
  BY <1>1, <1>2, <1>3 DEF Dispatch, InPhase, Note
<1>5. d \in DossierRow
  BY <1>1, <1>4, PapersAreTyped
<1>6. row \in DossierRow
  BY <1>2, <1>5 DEF DossierRow, Phases
<1>7. Filed(dossiers', archive') /\ Partial(dossiers', Refs, DossierRow)
  BY <1>4, <1>6, ChangeFiles
<1>8. PeopleTyped'
  BY <1>4, WorldIsTyped DEF PeopleTyped, people
<1>9. RoadsTyped'
  <2>1. op \in OpRow
    <3>1. d.party \in SUBSET House /\ d.lead \in House
      BY <1>4, <1>5 DEF DossierRow
    <3>2. at[d.lead] \in {Home, Origin, Abroad}
      BY <3>1, WorldIsTyped DEF PeopleTyped
    <3> QED  BY <1>3, <3>1, <3>2 DEF OpRow
  <2>2. Partial(field, Refs, OpRow)
    BY WorldIsTyped DEF RoadsTyped
  <2>3. Partial(field', Refs, OpRow)
    BY <1>4, <2>1, <2>2, WithPartial
  <2> QED  BY <1>4, <2>3, WorldIsTyped DEF RoadsTyped
<1>10. /\ purse' = purse /\ grade' = grade /\ treasury' = treasury - 0 /\ outside' = outside + 0
       /\ pending' = pending /\ committed' = committed
       /\ contracts' \in [Contracts -> {"open", "mine", "underway", "over", "expired"}]
  BY <1>4, WorldIsTyped, PapersAreTyped DEF money
<1> QED  BY <1>7, <1>8, <1>9, <1>10, CommandKeepsLedger

\* The escort walks to the origin of its commission, and the House pays the toll.
LEMMA MusterLedger == ASSUME LedgerInv, NEW r \in Refs, Muster(r) PROVE LedgerInv'
<1>1. PICK d : d = dossiers[r]
  OBVIOUS
<1>2. PICK row : row = [d EXCEPT !.phase = "mustering"]
  OBVIOUS
<1>3. PICK n : n = IF at[d.lead] # Origin THEN Toll ELSE 0
  OBVIOUS
<1>4. /\ r \in DOMAIN dossiers
      /\ musters' = With(musters, r, d.party) \/ musters' = musters
      /\ dossiers' = With(dossiers, r, row) /\ archive' = archive
      /\ UNCHANGED <<contracts, field, convoys, people, purse, grade, pending, committed>>
  BY <1>1, <1>2 DEF Muster, InPhase, Note
<1>5. d \in DossierRow
  BY <1>1, <1>4, PapersAreTyped
<1>6. row \in DossierRow
  BY <1>2, <1>5 DEF DossierRow, Phases
<1>7. Filed(dossiers', archive') /\ Partial(dossiers', Refs, DossierRow)
  BY <1>4, <1>6, ChangeFiles
<1>8. PeopleTyped'
  BY <1>4, WorldIsTyped DEF PeopleTyped, people
<1>9. RoadsTyped'
  <2>1. d.party \in SUBSET House
    BY <1>5 DEF DossierRow
  <2>2. Partial(musters, Refs, SUBSET House)
    BY WorldIsTyped DEF RoadsTyped
  <2>3. Partial(musters', Refs, SUBSET House)
    BY <1>4, <2>1, <2>2, WithPartial
  <2> QED  BY <1>4, <2>3, WorldIsTyped DEF RoadsTyped
<1>10. n \in Int /\ treasury' = treasury - n /\ outside' = outside + n
  <2>1. CASE at[d.lead] # Origin
    BY <1>1, <1>3, <2>1, MissionAssumption DEF Muster
  <2>2. CASE at[d.lead] = Origin
    BY <1>1, <1>3, <2>2, WorldIsTyped DEF Muster
  <2> QED  BY <2>1, <2>2
<1>11. purse' = purse /\ grade' = grade /\ pending' = pending /\ committed' = committed
       /\ contracts' \in [Contracts -> {"open", "mine", "underway", "over", "expired"}]
  BY <1>4, PapersAreTyped
<1> QED  BY <1>7, <1>8, <1>9, <1>10, <1>11, CommandKeepsLedger

\* The roll that names an escort is one of the commission's dossiers.
LEMMA TheRoll ==
  ASSUME NEW c, LedgerInv, Cardinality(Rolls(c)) = 1
  PROVE  \E r \in Linked(dossiers, c) :
            /\ r = (CHOOSE x \in Rolls(c) : TRUE) /\ Rolls(c) = {r}
            /\ dossiers[r].phase \in {"approved", "mustering"} /\ Missions[r].kind = "escort"
<1>1. Rolls(c) \subseteq Refs
  BY PapersAreTyped DEF Rolls, Linked
<1>2. IsFiniteSet(Rolls(c))
  BY <1>1, RefsAreFinite, FS_Subset
<1>3. PICK r : Rolls(c) = {r}
  BY <1>2, FS_Singleton
<1>4. r = CHOOSE x \in Rolls(c) : TRUE
  BY <1>3
<1>5. r \in Rolls(c)
  BY <1>3
<1> QED  BY <1>3, <1>4, <1>5 DEF Rolls

\* The escort sets out.
LEMMA StartEscortLedger == ASSUME LedgerInv, NEW c \in Contracts, StartEscort(c) PROVE LedgerInv'
<1>1. PICK q : q = CHOOSE x \in Rolls(c) : TRUE
  OBVIOUS
<1>2. PICK d : d = dossiers[q]
  OBVIOUS
<1>3. PICK r : r = First(dossiers, c)
  OBVIOUS
<1>4. PICK old : old = dossiers[r]
  OBVIOUS
<1>5. PICK row : row = [old EXCEPT !.phase = "in_field", !.party = d.party, !.lead = d.lead]
  OBVIOUS
<1>6. PICK van : van = [leg |-> "out", party |-> d.party]
  OBVIOUS
<1>7. /\ Cardinality(Rolls(c)) = 1 /\ convoys' = With(convoys, c, van)
      /\ contracts' = [contracts EXCEPT ![c] = "underway"]
      /\ dossiers' = With(dossiers, r, row) /\ archive' = archive
      /\ UNCHANGED <<field, musters, people, money, grade, pending, committed>>
  BY <1>1, <1>2, <1>3, <1>4, <1>5, <1>6 DEF StartEscort, Note
<1>8. q \in Linked(dossiers, c) /\ r \in Linked(dossiers, c)
  BY <1>1, <1>3, <1>7, TheRoll, FirstLinked, PapersAreTyped
<1>9. d \in DossierRow /\ old \in DossierRow /\ r \in DOMAIN dossiers
  BY <1>2, <1>4, <1>8, PapersAreTyped DEF Linked
<1>10. row \in DossierRow
  BY <1>5, <1>9 DEF DossierRow, Phases
<1>11. Filed(dossiers', archive') /\ Partial(dossiers', Refs, DossierRow)
  BY <1>7, <1>9, <1>10, ChangeFiles
<1>12. PeopleTyped'
  BY <1>7, WorldIsTyped DEF PeopleTyped, people
<1>13. RoadsTyped'
  <2>1. van \in ConvoyRow
    BY <1>6, <1>9 DEF DossierRow, ConvoyRow
  <2>2. Partial(convoys, Contracts, ConvoyRow)
    BY WorldIsTyped DEF RoadsTyped
  <2>3. Partial(convoys', Contracts, ConvoyRow)
    BY <1>7, <2>1, <2>2, WithPartial
  <2> QED  BY <1>7, <2>3, WorldIsTyped DEF RoadsTyped
<1>14. /\ purse' = purse /\ grade' = grade /\ treasury' = treasury - 0 /\ outside' = outside + 0
       /\ pending' = pending /\ committed' = committed
       /\ contracts' \in [Contracts -> {"open", "mine", "underway", "over", "expired"}]
  BY <1>7, WorldIsTyped, PapersAreTyped DEF money
<1> QED  BY <1>11, <1>12, <1>13, <1>14, CommandKeepsLedger

\* Closing a dossier on paper.
LEMMA CloseLedger ==
  ASSUME LedgerInv, NEW r \in DOMAIN dossiers, NEW won \in BOOLEAN, NEW back \in SUBSET House,
         Close(r, won, back), Paper
  PROVE  LedgerInv'
<1>1. dossiers' = Except(dossiers, {r}) /\ archive' = Archived(archive, r, won, back)
  BY DEF Close
<1>2. Filed(dossiers', archive') /\ Partial(dossiers', Refs, DossierRow)
  BY <1>1, ArchivedFiles
<1>3. UNCHANGED <<roads, people, money, grade, pending, committed>>
      /\ contracts' \in [Contracts -> {"open", "mine", "underway", "over", "expired"}]
  BY PapersAreTyped DEF Paper
<1> QED  BY <1>2, <1>3, PaperKeepsLedger

\* Declining, cancelling and talks.
LEMMA DeclineLedger == ASSUME LedgerInv, NEW r \in Refs, Decline(r) PROVE LedgerInv'
<1>1. r \in DOMAIN dossiers /\ Close(r, FALSE, dossiers[r].party) /\ Paper
  BY DEF Decline, InPhase
<1>2. dossiers[r].party \in SUBSET House
  BY <1>1, PapersAreTyped DEF DossierRow
<1> QED  BY <1>1, <1>2, CloseLedger

\* The same for a cancellation.
LEMMA CancelLedger == ASSUME LedgerInv, NEW r \in Refs, Cancel(r) PROVE LedgerInv'
<1>1. r \in DOMAIN dossiers /\ Close(r, FALSE, dossiers[r].party) /\ Paper
  BY DEF Cancel, InPhase
<1>2. dossiers[r].party \in SUBSET House
  BY <1>1, PapersAreTyped DEF DossierRow
<1> QED  BY <1>1, <1>2, CloseLedger

\* Talks close a dossier, and may move silver to another House or from it.
LEMMA DiplomacyLedger ==
  ASSUME LedgerInv, NEW r \in Refs, NEW won \in BOOLEAN, NEW n \in Gifts \cup {0}, Diplomacy(r, won, n)
  PROVE  LedgerInv'
<1>1. PICK m : m = IF won THEN n ELSE 0
  OBVIOUS
<1>2. m \in Int
  BY <1>1, MissionAssumption
<1>3. /\ r \in DOMAIN dossiers /\ Close(r, won, {Player})
      /\ treasury' = treasury - m /\ outside' = outside + m
      /\ UNCHANGED <<contracts, roads, people, pending, committed, purse, grade>>
  BY <1>1 DEF Diplomacy, Exchange
<1>4. {Player} \in SUBSET House
  BY MissionAssumption
<1>5. Filed(dossiers', archive') /\ Partial(dossiers', Refs, DossierRow)
  BY <1>3, <1>4, ArchivedFiles DEF Close
<1>6. RoadsTyped' /\ PeopleTyped'
  BY <1>3, WorldIsTyped DEF RoadsTyped, PeopleTyped, roads, people
<1>7. /\ pending' = pending /\ committed' = committed /\ purse' = purse /\ grade' = grade
      /\ contracts' \in [Contracts -> {"open", "mine", "underway", "over", "expired"}]
  BY <1>3, PapersAreTyped
<1> QED  BY <1>2, <1>3, <1>5, <1>6, <1>7, CommandKeepsLedger

\* Talks that close nothing move only silver.
LEMMA SilverTalksLedger ==
  ASSUME LedgerInv, NEW n \in Gifts, SilverTalks(n) PROVE LedgerInv'
<1>1. /\ dossiers' = dossiers /\ archive' = archive
      /\ treasury' = treasury - n /\ outside' = outside + n
      /\ UNCHANGED <<contracts, roads, people, pending, committed, purse, grade>>
  BY DEF SilverTalks, Exchange
<1>2. n \in Int
  BY MissionAssumption
<1>3. Filed(dossiers', archive') /\ Partial(dossiers', Refs, DossierRow)
  BY <1>1, NothingFiles
<1>4. RoadsTyped' /\ PeopleTyped'
  BY <1>1, WorldIsTyped DEF RoadsTyped, PeopleTyped, roads, people
<1>5. /\ pending' = pending /\ committed' = committed /\ purse' = purse /\ grade' = grade
      /\ contracts' \in [Contracts -> {"open", "mine", "underway", "over", "expired"}]
  BY <1>1, PapersAreTyped
<1> QED  BY <1>1, <1>2, <1>3, <1>4, <1>5, CommandKeepsLedger

\* A command that changes rows of the archive as a settlement would.
LEMMA SheetKeepsLedger ==
  ASSUME LedgerInv, NEW s, NEW t, Keeps(s, t, DOMAIN archive),
         s.archive = archive, s.treasury = treasury, s.purse = purse,
         archive' = t.archive, treasury' = t.treasury, purse' = t.purse,
         UNCHANGED <<dossiers, contracts, roads, people, outside, grade, pending, committed>>
  PROVE  LedgerInv'
<1>1. Sheet(t, DOMAIN archive)
  BY DEF Keeps
<1>2. /\ archive' \in [DOMAIN archive -> ClosedRow] /\ DOMAIN archive' = DOMAIN archive
      /\ Clean(archive') /\ treasury' \in Int /\ purse' \in [House -> Int]
  BY <1>1 DEF Sheet
<1>3. Partial(archive', Refs, ClosedRow)
  BY <1>2, PapersAreTyped DEF Partial
<1>4. MissionTypes'
  BY <1>2, <1>3 DEF LedgerInv, MissionTypes, PapersTyped, RoadsTyped, PeopleTyped, MoneyTyped, JudgmentsTyped, roads, people
<1>5. FiledUnpaid'
  BY <1>2 DEF FiledUnpaid, LedgerInv, Keeps
<1>6. OffersSound(archive, grade)'
  BY DEF LedgerInv, Keeps
<1>7. MoneyIsEntered'
  <2>1. IsFiniteSet(House) /\ IsFiniteSet(DOMAIN archive) /\ archive \in [DOMAIN archive -> ClosedRow]
    BY MissionAssumption, RefsAreFinite, PapersAreTyped, FS_Subset
  <2>2. Total(purse) \in Int /\ Total(purse') \in Int /\ treasury \in Int /\ outside \in Int
        /\ purse \in [House -> Int]
    BY <1>2, <2>1, WorldIsTyped, SumType DEF Total
  <2>3. treasury' + Total(purse') = treasury + Total(purse)
    BY DEF Keeps
  <2>4. treasury' + Total(purse') + outside' = treasury + Total(purse) + outside
    BY <1>2, <2>2, <2>3
  <2>5. ASSUME NEW p \in House PROVE purse'[p] = Entered(archive', p)
    <3>1. purse'[p] - Entered(archive', p) = purse[p] - Entered(archive, p)
      BY DEF Keeps
    <3>2. Entered(archive', p) \in Int /\ purse'[p] \in Int
      BY <1>2, <2>1, EnteredTyped
    <3>3. purse[p] = Entered(archive, p) /\ purse[p] \in Int
      BY <2>2 DEF LedgerInv, MoneyIsEntered
    <3> QED  BY <3>1, <3>2, <3>3
  <2> QED  BY <2>4, <2>5 DEF LedgerInv, MoneyIsEntered
<1> QED  BY <1>2, <1>4, <1>5, <1>6, <1>7 DEF LedgerInv

\* The sheet of this moment.
LEMMA SheetNow ==
  ASSUME LedgerInv
  PROVE  \E s : /\ Sheet(s, DOMAIN archive) /\ s.archive = archive
                /\ s.treasury = treasury /\ s.purse = purse
<1>1. PICK s : s = [archive |-> archive, treasury |-> treasury, purse |-> purse, service |-> service,
                    staff |-> {}, signed |-> TRUE, asks |-> {}, raised |-> FALSE]
  OBVIOUS
<1>2. archive \in [DOMAIN archive -> ClosedRow] /\ Clean(archive)
  BY DEF LedgerInv, MissionTypes, PapersTyped, Partial
<1> QED  BY <1>1, <1>2, WorldIsTyped DEF Sheet

\* A payment by hand.
LEMMA SettleRewardLedger == ASSUME LedgerInv, NEW r \in Refs, SettleReward(r) PROVE LedgerInv'
<1>1. PICK s : Sheet(s, DOMAIN archive) /\ s.archive = archive
               /\ s.treasury = treasury /\ s.purse = purse
  BY SheetNow
<1>2. PICK a : a = archive[r]
  OBVIOUS
<1>3. PICK to : to = IF Missions[r].mode = "commander" /\ a.lead # Nobody THEN {a.lead} ELSE a.back
  OBVIOUS
<1>4. PICK paid : paid = Shares(to, Promised(r), members)
  OBVIOUS
<1>5. /\ r \in DOMAIN archive /\ a.pay = "due"
      /\ archive' = [archive EXCEPT ![r] = Paid(a, paid)]
      /\ treasury' = treasury - Total(paid) /\ purse' = Add(purse, paid)
      /\ UNCHANGED <<dossiers, contracts, roads, people, outside, grade, pending, committed>>
  BY <1>2, <1>3, <1>4 DEF SettleReward
<1>6. paid \in [House -> Int]
  <2>1. to \subseteq House
    BY <1>2, <1>3, <1>5, PapersAreTyped DEF ClosedRow
  <2>2. IsFiniteSet(to) /\ Promised(r) \in Nat
    BY <2>1, MissionAssumption, FS_Subset DEF Promised
  <2> QED  BY <1>4, <2>2, SharesTyped
<1>7. PICK t : t = PaidSheet(s, r, paid)
  OBVIOUS
<1>8. Keeps(s, t, DOMAIN archive)
  BY <1>1, <1>2, <1>5, <1>6, <1>7, PapersAreTyped, PaidKeeps
<1>9. archive' = t.archive /\ treasury' = t.treasury /\ purse' = t.purse
  BY <1>1, <1>2, <1>5, <1>7 DEF Sheet, PaidSheet
<1> QED  BY <1>1, <1>5, <1>8, <1>9, SheetKeepsLedger

\* A review at the player's word.
LEMMA ServiceReviewLedger == ASSUME LedgerInv, NEW r \in Refs, ServiceReview(r) PROVE LedgerInv'
<1>1. PICK s : Sheet(s, DOMAIN archive) /\ s.archive = archive
               /\ s.treasury = treasury /\ s.purse = purse
  BY SheetNow
<1>2. PICK A : A = [archive EXCEPT ![r].reviewed = TRUE]
  OBVIOUS
<1>3. /\ archive' = A /\ UNCHANGED <<dossiers, contracts, roads, people, money, grade, pending, committed>>
  BY <1>2 DEF ServiceReview
<1>4. /\ A \in [DOMAIN archive -> ClosedRow]
      /\ \A x \in DOMAIN archive : /\ A[x].paid = archive[x].paid /\ A[x].pay = archive[x].pay
                                   /\ A[x].offer = archive[x].offer
  <2>1. archive \in [DOMAIN archive -> ClosedRow]
    BY PapersAreTyped
  <2> QED  BY <1>2, <2>1, ZenonT(60) DEF ClosedRow
<1>5. PICK t : t = [s EXCEPT !.archive = A]
  OBVIOUS
<1>6. t = [archive |-> A, treasury |-> s.treasury, purse |-> s.purse,
           service |-> s.service, staff |-> s.staff, signed |-> s.signed,
           asks |-> s.asks, raised |-> s.raised]
  BY <1>1, <1>5 DEF Sheet
<1>7. Sheet(t, DOMAIN archive) /\ t.archive = A /\ t.treasury = s.treasury /\ t.purse = s.purse
  BY <1>1, <1>4, <1>6 DEF Sheet, Clean
<1>8. OffersSound(archive, grade) => OffersSound(A, grade)
  BY <1>4 DEF OffersSound, OpenOffers
<1>9. Keeps(s, t, DOMAIN archive)
  BY <1>1, <1>4, <1>7, <1>8, SameMoney
<1> QED  BY <1>1, <1>3, <1>7, <1>9, SheetKeepsLedger DEF money

\* The empty record of an early review.
LEMMA EarlyReviewLedger == ASSUME LedgerInv, NEW r \in Refs, EarlyReview(r) PROVE LedgerInv'
<1>1. PICK row : row = Stub
  OBVIOUS
<1>2. row \in ClosedRow /\ row.paid = NoPay /\ row.pay = "none" /\ row.offer = NoOffer
  BY <1>1 DEF Stub, ClosedRow, NoPay, NoOffer, Offers
<1>3. r \in DOMAIN dossiers /\ dossiers' = dossiers /\ archive' = With(archive, r, row)
  BY <1>1 DEF EarlyReview
<1>4. Filed(dossiers', archive')
  BY <1>2, <1>3 DEF Filed
<1>5. Partial(dossiers', Refs, DossierRow)
  BY <1>3 DEF LedgerInv, MissionTypes, PapersTyped
<1>6. UNCHANGED <<roads, people, money, grade, pending, committed>>
      /\ contracts' \in [Contracts -> {"open", "mine", "underway", "over", "expired"}]
  BY PapersAreTyped DEF EarlyReview, roads, people, money
<1> QED  BY <1>4, <1>5, <1>6, PaperKeepsLedger

\* The answer to an offer: the open one is gone, and only then the grade changes.
LEMMA AnswerCareerLedger ==
  ASSUME LedgerInv, NEW r \in Refs, NEW yes \in BOOLEAN, AnswerCareer(r, yes) PROVE LedgerInv'
<1>1. PICK o : o = [archive[r].offer EXCEPT !.status = IF yes THEN "accepted" ELSE "declined"]
  OBVIOUS
<1>2. PICK A : A = [archive EXCEPT ![r].offer.status = IF yes THEN "accepted" ELSE "declined"]
  OBVIOUS
<1>3. /\ r \in OpenOffers(archive) /\ r \in DOMAIN archive /\ archive' = A
      /\ grade' = (IF yes THEN grade + 1 ELSE grade)
      /\ UNCHANGED <<dossiers, contracts, roads, people, money, pending, committed>>
  BY <1>2 DEF AnswerCareer, OpenOffers
<1>4. o \in Offers /\ o.status # "open"
  <2>1. archive[r].offer \in Offers
    BY <1>3, PapersAreTyped DEF ClosedRow
  <2> QED  BY <1>1, <2>1 DEF Offers
<1>5. /\ A \in [DOMAIN archive -> ClosedRow] /\ A[r].offer = o
      /\ \A x \in DOMAIN archive : /\ A[x].paid = archive[x].paid /\ A[x].pay = archive[x].pay
                                   /\ x # r => A[x].offer = archive[x].offer
  <2>1. PICK a : a = archive[r]
    OBVIOUS
  <2>2. PICK row : row = [a EXCEPT !.offer = o]
    OBVIOUS
  <2>3. A = [archive EXCEPT ![r] = row]
    BY <1>1, <1>2, <2>1, <2>2
  <2>4. archive \in [DOMAIN archive -> ClosedRow] /\ a \in ClosedRow
    BY <1>3, <2>1, PapersAreTyped
  <2>5. row \in ClosedRow /\ row.offer = o /\ row.paid = a.paid /\ row.pay = a.pay
    BY <1>4, <2>2, <2>4 DEF ClosedRow
  <2>6. /\ A \in [DOMAIN archive -> ClosedRow] /\ A[r] = row
        /\ \A x \in DOMAIN archive : x # r => A[x] = archive[x]
    BY <1>3, <2>3, <2>4, <2>5
  <2> QED  BY <2>1, <2>5, <2>6
<1>6. DOMAIN A = DOMAIN archive
  BY <1>5
<1>7. OpenOffers(A) = {}
  <2>1. \A q \in OpenOffers(archive) : q = r
    BY <1>3 DEF LedgerInv, OffersSound
  <2> QED  BY <1>3, <1>4, <1>5, <1>6, <2>1 DEF OpenOffers
<1>8. OffersSound(archive, grade)'
  BY <1>3, <1>7 DEF OffersSound
<1>9. Clean(archive)' /\ FiledUnpaid'
  BY <1>3, <1>5, <1>6 DEF LedgerInv, Clean, FiledUnpaid
<1>10. MissionTypes'
  <2>1. Partial(archive', Refs, ClosedRow)
    BY <1>3, <1>5, <1>6, PapersAreTyped DEF Partial
  <2>2. grade' \in Int
    BY <1>3, WorldIsTyped
  <2> QED  BY <1>3, <2>1, <2>2
           DEF LedgerInv, MissionTypes, PapersTyped, RoadsTyped, PeopleTyped, MoneyTyped, JudgmentsTyped, roads, people, money
<1>11. MoneyIsEntered'
  <2>1. \A p \in House : Entered(archive', p) = Entered(archive, p)
    BY <1>3, <1>5, <1>6, SamePayments
  <2> QED  BY <1>3, <2>1 DEF LedgerInv, MoneyIsEntered, money
<1> QED  BY <1>8, <1>9, <1>10, <1>11 DEF LedgerInv

-----------------------------------------------------------------------------
(* The ledger under the events of the world.                                *)

\* An event that brings nothing in.
LEMMA PlainKeepsLedger ==
  ASSUME LedgerInv, NEW d, NEW a, Filed(d, a), Partial(d, Refs, DossierRow), Plain(d, a),
         outside' = outside, committed' = committed, grade' = grade, RoadsTyped', PeopleTyped',
         contracts' \in [Contracts -> {"open", "mine", "underway", "over", "expired"}]
  PROVE  LedgerInv'
<1>1. Frontier(d, a, {}, {}, 0)
  BY DEF Plain
<1>2. 0 \in Int /\ outside' = outside - 0 /\ committed' \subseteq Answered /\ {} \subseteq Asked
  BY WorldIsTyped DEF LedgerInv, MissionTypes, JudgmentsTyped
<1> QED  BY <1>1, <1>2, EventKeepsLedger

\* An operation changes, or ends.
LEMMA FieldTyped ==
  ASSUME RoadsTyped, NEW r \in DOMAIN field, UNCHANGED <<convoys, musters>>,
         \/ field' = Except(field, {r})
         \/ \E op \in OpRow : field' = [field EXCEPT ![r] = op]
  PROVE  RoadsTyped'
<1>1. Partial(field, Refs, OpRow)
  BY DEF RoadsTyped
<1>2. Partial(field', Refs, OpRow)
  <2>1. CASE field' = Except(field, {r})
    BY <1>1, <2>1, ExceptPartial
  <2>2. CASE \E op \in OpRow : field' = [field EXCEPT ![r] = op]
    BY <1>1, <2>2 DEF Partial
  <2> QED  BY <2>1, <2>2
<1> QED  BY <1>2 DEF RoadsTyped

\* The row of an operation.
LEMMA OpTyped == ASSUME RoadsTyped, NEW r \in DOMAIN field PROVE field[r] \in OpRow /\ r \in Refs
  BY DEF RoadsTyped, Partial

\* People move, or die.
LEMMA PeopleMove ==
  ASSUME PeopleTyped, members' \subseteq members, NEW S, NEW place \in {Home, Origin, Abroad}, NEW dead,
         body' = body \/ body' = [p \in House |-> IF p \in dead THEN "dead" ELSE body[p]],
         at' = at \/ at' = Moved(S, place)
  PROVE  PeopleTyped'
<1>1. at' \in [House -> {Home, Origin, Abroad}]
  BY DEF PeopleTyped, Moved
<1>2. body' \in [House -> {"fit", "dead"}]
  BY DEF PeopleTyped
<1> QED  BY <1>1, <1>2 DEF PeopleTyped

\* An operation leaves for the road.
LEMMA DepartLedger == ASSUME LedgerInv, NEW r \in Refs, Depart(r) PROVE LedgerInv'
<1>1. PICK d : d = Staged(r, "in_field")
  OBVIOUS
<1>2. PICK f : f = field[r]
  OBVIOUS
<1>3. PICK op : op = [f EXCEPT !.leg = "out"]
  OBVIOUS
<1>4. r \in DOMAIN field /\ field' = [field EXCEPT ![r] = op] /\ Plain(d, archive)
      /\ UNCHANGED <<contracts, convoys, musters, people, outside, grade, committed>>
  BY <1>1, <1>2, <1>3 DEF Depart, Quiet
<1>5. op \in OpRow
  <2>1. f \in OpRow
    BY <1>2, <1>4, WorldIsTyped, OpTyped
  <2> QED  BY <1>3, <2>1 DEF OpRow
<1>6. RoadsTyped'
  BY <1>4, <1>5, WorldIsTyped, FieldTyped
<1>7. PeopleTyped'
  BY <1>4, WorldIsTyped DEF PeopleTyped, people
<1>8. Filed(d, archive) /\ Partial(d, Refs, DossierRow)
  BY <1>1, StagedFiles DEF Phases
<1>9. contracts' \in [Contracts -> {"open", "mine", "underway", "over", "expired"}]
  BY <1>4, PapersAreTyped
<1> QED  BY <1>4, <1>6, <1>7, <1>8, <1>9, PlainKeepsLedger

\* Scouts report.
LEMMA ScoutLedger == ASSUME LedgerInv, NEW r \in Refs, Scout(r) PROVE LedgerInv'
<1>1. PICK d : d = Staged(r, "returning")
  OBVIOUS
<1>2. PICK f : f = field[r]
  OBVIOUS
<1>3. PICK op : op = [f EXCEPT !.leg = "back", !.won = TRUE]
  OBVIOUS
<1>4. r \in DOMAIN field /\ field' = [field EXCEPT ![r].leg = "back", ![r].won = TRUE]
      /\ Plain(d, archive)
      /\ UNCHANGED <<contracts, convoys, musters, people, outside, grade, committed>>
  BY <1>1 DEF Scout, Quiet
<1>5. op \in OpRow
  <2>1. f \in OpRow
    BY <1>2, <1>4, WorldIsTyped, OpTyped
  <2> QED  BY <1>3, <2>1 DEF OpRow
<1>a. field' = [field EXCEPT ![r] = op]
  <2>1. Partial(field, Refs, OpRow)
    BY WorldIsTyped DEF RoadsTyped
  <2> QED  BY <1>2, <1>3, <1>4, <2>1 DEF Partial
<1>6. RoadsTyped'
  BY <1>4, <1>5, <1>a, WorldIsTyped, FieldTyped
<1>7. PeopleTyped'
  BY <1>4, WorldIsTyped DEF PeopleTyped, people
<1>8. Filed(d, archive) /\ Partial(d, Refs, DossierRow)
  BY <1>1, StagedFiles DEF Phases
<1>9. contracts' \in [Contracts -> {"open", "mine", "underway", "over", "expired"}]
  BY <1>4, PapersAreTyped
<1> QED  BY <1>4, <1>6, <1>7, <1>8, <1>9, PlainKeepsLedger

\* A battle.
LEMMA ArriveLedger ==
  ASSUME LedgerInv, NEW r \in Refs, NEW dead \in SUBSET House, Arrive(r, dead) PROVE LedgerInv'
<1>1. PICK left : left = field[r].party \ dead
  OBVIOUS
<1>2. PICK d : d = Reported(r, FALSE, {})[1]
  OBVIOUS
<1>3. PICK a : a = Reported(r, FALSE, {})[2]
  OBVIOUS
<1>4. PICK f : f = field[r]
  OBVIOUS
<1>5. /\ r \in DOMAIN field /\ body' = [p \in House |-> IF p \in dead THEN "dead" ELSE body[p]]
      /\ UNCHANGED <<contracts, convoys, musters, members, at, outside, grade, committed>>
  BY DEF Arrive, Quiet
<1>6. \/ field' = Except(field, {r}) /\ Plain(d, a)
      \/ \E won \in BOOLEAN :
            /\ field' = [field EXCEPT ![r].leg = "back", ![r].party = left, ![r].won = won]
            /\ Plain(dossiers, archive)
  BY <1>1, <1>2, <1>3 DEF Arrive
<1>7. f \in OpRow /\ field = [q \in DOMAIN field |-> field[q]]
  BY <1>4, <1>5, WorldIsTyped, OpTyped DEF RoadsTyped, Partial
<1>8. Home \in {Home, Origin, Abroad} /\ members' \subseteq members
  BY <1>5
<1>9. PeopleTyped'
  BY <1>5, <1>8, WorldIsTyped, PeopleMove
<1>10. contracts' \in [Contracts -> {"open", "mine", "underway", "over", "expired"}]
  BY <1>5, PapersAreTyped
<1>11. CASE field' = Except(field, {r}) /\ Plain(d, a)
  <2>1. Filed(d, a) /\ Partial(d, Refs, DossierRow)
    BY <1>2, <1>3, ReportedFiles
  <2>2. RoadsTyped'
    BY <1>5, <1>11, WorldIsTyped, FieldTyped
  <2> QED  BY <1>5, <1>9, <1>10, <1>11, <2>1, <2>2, PlainKeepsLedger
<1>12. CASE \E won \in BOOLEAN :
            /\ field' = [field EXCEPT ![r].leg = "back", ![r].party = left, ![r].won = won]
            /\ Plain(dossiers, archive)
  <2>1. PICK won \in BOOLEAN :
            /\ field' = [field EXCEPT ![r].leg = "back", ![r].party = left, ![r].won = won]
            /\ Plain(dossiers, archive)
    BY <1>12
  <2>2. PICK op : op = [f EXCEPT !.leg = "back", !.party = left, !.won = won]
    OBVIOUS
  <2>3. op \in OpRow
    <3>1. left \in SUBSET House
      BY <1>1, <1>4, <1>7 DEF OpRow
    <3> QED  BY <1>7, <2>2, <3>1 DEF OpRow
  <2>4. field' = [field EXCEPT ![r] = op]
    BY <1>4, <1>5, <1>7, <2>1, <2>2
  <2>5. RoadsTyped'
    BY <1>5, <2>3, <2>4, WorldIsTyped, FieldTyped
  <2>6. Filed(dossiers, archive) /\ Partial(dossiers, Refs, DossierRow)
    BY NothingFiles
  <2> QED  BY <1>5, <1>9, <1>10, <2>1, <2>5, <2>6, PlainKeepsLedger
<1> QED  BY <1>6, <1>11, <1>12

\* An operation stopped on the way out.
LEMMA LostOnRoadLedger == ASSUME LedgerInv, NEW r \in Refs, LostOnRoad(r) PROVE LedgerInv'
<1>1. PICK d : d = Reported(r, FALSE, {})[1]
  OBVIOUS
<1>2. PICK a : a = Reported(r, FALSE, {})[2]
  OBVIOUS
<1>3. /\ r \in DOMAIN field /\ field' = Except(field, {r}) /\ Plain(d, a)
      /\ UNCHANGED <<contracts, convoys, musters, people, outside, grade, committed>>
  BY <1>1, <1>2 DEF LostOnRoad, Quiet
<1>4. Filed(d, a) /\ Partial(d, Refs, DossierRow)
  BY <1>1, <1>2, ReportedFiles
<1>5. RoadsTyped'
  BY <1>3, WorldIsTyped, FieldTyped
<1>6. PeopleTyped'
  BY <1>3, WorldIsTyped DEF PeopleTyped, people
<1>7. contracts' \in [Contracts -> {"open", "mine", "underway", "over", "expired"}]
  BY <1>3, PapersAreTyped
<1> QED  BY <1>3, <1>4, <1>5, <1>6, <1>7, PlainKeepsLedger

\* An operation comes home.
LEMMA ReturnLedger == ASSUME LedgerInv, NEW r \in Refs, Return(r) PROVE LedgerInv'
<1>1. PICK f : f = field[r]
  OBVIOUS
<1>2. PICK d : d = Reported(r, f.won, f.party)[1]
  OBVIOUS
<1>3. PICK a : a = Reported(r, f.won, f.party)[2]
  OBVIOUS
<1>4. /\ r \in DOMAIN field /\ field' = Except(field, {r}) /\ Plain(d, a)
      /\ at' = Moved(f.party, f.from)
      /\ UNCHANGED <<contracts, convoys, musters, body, members, outside, grade, committed>>
  BY <1>1, <1>2, <1>3 DEF Return, Quiet
<1>5. f.won \in BOOLEAN /\ f.party \in SUBSET House /\ f.from \in {Home, Origin, Abroad}
  <2>1. f \in OpRow
    BY <1>1, <1>4, WorldIsTyped, OpTyped
  <2> QED  BY <2>1 DEF OpRow
<1>6. Filed(d, a) /\ Partial(d, Refs, DossierRow)
  BY <1>2, <1>3, <1>5, ReportedFiles
<1>7. RoadsTyped'
  BY <1>4, WorldIsTyped, FieldTyped
<1>8. PeopleTyped'
  <2>1. members' \subseteq members /\ body' = body
    BY <1>4
  <2> QED  BY <1>4, <1>5, <2>1, WorldIsTyped, PeopleMove
<1>9. contracts' \in [Contracts -> {"open", "mine", "underway", "over", "expired"}]
  BY <1>4, PapersAreTyped
<1> QED  BY <1>4, <1>6, <1>7, <1>8, <1>9, PlainKeepsLedger

\* An escort reaches the origin.
LEMMA MusterArrivesLedger == ASSUME LedgerInv, NEW r \in Refs, MusterArrives(r) PROVE LedgerInv'
<1>1. /\ r \in DOMAIN musters /\ musters' = Except(musters, {r}) /\ Plain(dossiers, archive)
      /\ at' = Moved(musters[r], Origin)
      /\ UNCHANGED <<contracts, field, convoys, body, members, outside, grade, committed>>
  BY DEF MusterArrives, Quiet
<1>2. RoadsTyped'
  <2>1. Partial(musters, Refs, SUBSET House)
    BY WorldIsTyped DEF RoadsTyped
  <2>2. Partial(musters', Refs, SUBSET House)
    BY <1>1, <2>1, ExceptPartial
  <2> QED  BY <1>1, <2>2, WorldIsTyped DEF RoadsTyped
<1>3. PeopleTyped'
  <2>1. members' \subseteq members /\ body' = body /\ Origin \in {Home, Origin, Abroad}
    BY <1>1
  <2> QED  BY <1>1, <2>1, WorldIsTyped, PeopleMove
<1>4. contracts' \in [Contracts -> {"open", "mine", "underway", "over", "expired"}]
  BY <1>1, PapersAreTyped
<1>5. Filed(dossiers, archive) /\ Partial(dossiers, Refs, DossierRow)
  BY NothingFiles
<1> QED  BY <1>1, <1>2, <1>3, <1>4, <1>5, PlainKeepsLedger

\* The end of the escort's road: the fee comes from outside.
LEMMA EscortEndsLedger ==
  ASSUME LedgerInv, NEW c \in Contracts, NEW won \in BOOLEAN, NEW dead \in SUBSET House,
         EscortEnds(c, won, dead)
  PROVE  LedgerInv'
<1>1. PICK n : n = IF won THEN Fee ELSE 0
  OBVIOUS
<1>2. PICK d : d = IF won /\ Linked(dossiers, c) # {} THEN Staged(First(dossiers, c), "returning")
                   ELSE dossiers
  OBVIOUS
<1>3. PICK party : party = convoys[c].party \ dead
  OBVIOUS
<1>4. PICK van : van = [leg |-> IF won THEN "back" ELSE "report", party |-> party]
  OBVIOUS
<1>5. /\ c \in DOMAIN convoys /\ convoys' = [convoys EXCEPT ![c] = van]
      /\ contracts' = [contracts EXCEPT ![c] = "over"]
      /\ at' = Moved(party, Abroad)
      /\ body' = [p \in House |-> IF p \in dead THEN "dead" ELSE body[p]]
      /\ Frontier(d, archive, {}, {}, n)
      /\ UNCHANGED <<field, musters, members, grade, committed>>
  BY <1>1, <1>2, <1>3, <1>4 DEF EscortEnds, Quiet
<1>6. n \in Int /\ outside' = outside - n
  <2>1. CASE won
    BY <1>1, <2>1, MissionAssumption DEF EscortEnds
  <2>2. CASE ~won
    BY <1>1, <2>2, WorldIsTyped DEF EscortEnds
  <2> QED  BY <2>1, <2>2
<1>7. Filed(d, archive) /\ Partial(d, Refs, DossierRow)
  BY <1>2, StagedFiles, NothingFiles DEF Phases
<1>8. PeopleTyped'
  <2>1. members' \subseteq members /\ Abroad \in {Home, Origin, Abroad}
    BY <1>5
  <2> QED  BY <1>5, <2>1, WorldIsTyped, PeopleMove
<1>9. RoadsTyped'
  <2>1. Partial(convoys, Contracts, ConvoyRow)
    BY WorldIsTyped DEF RoadsTyped
  <2>2. van \in ConvoyRow
    <3>1. convoys[c] \in ConvoyRow
      BY <1>5, <2>1 DEF Partial
    <3> QED  BY <1>3, <1>4, <3>1 DEF ConvoyRow
  <2>3. Partial(convoys', Contracts, ConvoyRow)
    BY <1>5, <2>1, <2>2 DEF Partial
  <2> QED  BY <1>5, <2>3, WorldIsTyped DEF RoadsTyped
<1>10. contracts' \in [Contracts -> {"open", "mine", "underway", "over", "expired"}] /\ grade' = grade
       /\ committed' \subseteq Answered /\ {} \subseteq Asked
  BY <1>5, PapersAreTyped DEF LedgerInv, MissionTypes, JudgmentsTyped
<1> QED  BY <1>5, <1>6, <1>7, <1>8, <1>9, <1>10, EventKeepsLedger

\* The escort comes home.
LEMMA EscortHomeLedger == ASSUME LedgerInv, NEW c \in Contracts, EscortHome(c) PROVE LedgerInv'
<1>1. PICK van : van = convoys[c]
  OBVIOUS
<1>2. PICK told : told = CloseLinked(c, van.leg = "back", van.party)
  OBVIOUS
<1>3. PICK d : d = told[1]
  OBVIOUS
<1>4. PICK a : a = told[2]
  OBVIOUS
<1>5. /\ c \in DOMAIN convoys /\ convoys' = Except(convoys, {c}) /\ Plain(d, a)
      /\ at' = Moved(van.party, Origin)
      /\ UNCHANGED <<contracts, field, musters, body, members, outside, grade, committed>>
  BY <1>1, <1>2, <1>3, <1>4 DEF EscortHome, Quiet
<1>6. Partial(convoys, Contracts, ConvoyRow)
  BY WorldIsTyped DEF RoadsTyped
<1>7. van.party \in SUBSET House
  BY <1>1, <1>5, <1>6 DEF Partial, ConvoyRow
<1>8. Filed(d, a) /\ Partial(d, Refs, DossierRow)
  BY <1>2, <1>3, <1>4, <1>7, CloseLinkedFiles
<1>9. RoadsTyped'
  <2>1. Partial(convoys', Contracts, ConvoyRow)
    BY <1>5, <1>6, ExceptPartial
  <2> QED  BY <1>5, <2>1, WorldIsTyped DEF RoadsTyped
<1>10. PeopleTyped'
  <2>1. members' \subseteq members /\ body' = body /\ Origin \in {Home, Origin, Abroad}
    BY <1>5
  <2> QED  BY <1>5, <2>1, WorldIsTyped, PeopleMove
<1>11. contracts' \in [Contracts -> {"open", "mine", "underway", "over", "expired"}]
  BY <1>5, PapersAreTyped
<1> QED  BY <1>5, <1>8, <1>9, <1>10, <1>11, PlainKeepsLedger

\* A commission expires.
LEMMA ContractExpiresLedger == ASSUME LedgerInv, NEW c \in Contracts, ContractExpires(c) PROVE LedgerInv'
<1>1. PICK told : told = CloseLinked(c, FALSE, dossiers[First(dossiers, c)].party)
  OBVIOUS
<1>2. PICK d : d = IF Linked(dossiers, c) = {} THEN dossiers ELSE told[1]
  OBVIOUS
<1>3. PICK a : a = IF Linked(dossiers, c) = {} THEN archive ELSE told[2]
  OBVIOUS
<1>4. /\ contracts' = [contracts EXCEPT ![c] = "expired"] /\ Plain(d, a)
      /\ UNCHANGED <<roads, people, outside, grade, committed>>
  BY <1>1, <1>2, <1>3 DEF ContractExpires, Quiet
<1>5. Filed(d, a) /\ Partial(d, Refs, DossierRow)
  <2>1. CASE Linked(dossiers, c) = {}
    BY <1>2, <1>3, <2>1, NothingFiles
  <2>2. CASE Linked(dossiers, c) # {}
    <3>1. First(dossiers, c) \in DOMAIN dossiers
      BY <2>2, FirstLinked, PapersAreTyped DEF Linked
    <3>2. dossiers[First(dossiers, c)].party \in SUBSET House
      BY <3>1, PapersAreTyped DEF DossierRow
    <3> QED  BY <1>1, <1>2, <1>3, <2>2, <3>2, CloseLinkedFiles
  <2> QED  BY <2>1, <2>2
<1>6. RoadsTyped' /\ PeopleTyped'
  BY <1>4, WorldIsTyped DEF RoadsTyped, PeopleTyped, roads, people
<1>7. contracts' \in [Contracts -> {"open", "mine", "underway", "over", "expired"}]
  BY <1>4, PapersAreTyped
<1> QED  BY <1>4, <1>5, <1>6, <1>7, PlainKeepsLedger

\* A commission goes to another House.
LEMMA ContractTakenLedger == ASSUME LedgerInv, NEW c \in Contracts, ContractTaken(c) PROVE LedgerInv'
<1>1. /\ contracts' = [contracts EXCEPT ![c] = "over"] /\ Plain(dossiers, archive)
      /\ UNCHANGED <<roads, people, outside, grade, committed>>
  BY DEF ContractTaken, Quiet
<1>2. RoadsTyped' /\ PeopleTyped'
  BY <1>1, WorldIsTyped DEF RoadsTyped, PeopleTyped, roads, people
<1>3. contracts' \in [Contracts -> {"open", "mine", "underway", "over", "expired"}]
  BY <1>1, PapersAreTyped
<1>4. Filed(dossiers, archive) /\ Partial(dossiers, Refs, DossierRow)
  BY NothingFiles
<1> QED  BY <1>1, <1>2, <1>3, <1>4, PlainKeepsLedger

\* A death: the dead leave every party.
LEMMA DieLedger == ASSUME LedgerInv, NEW p \in House, Die(p) PROVE LedgerInv'
<1>1. PICK g : g = [r \in DOMAIN field |-> [field[r] EXCEPT !.party = @ \ {p}]]
  OBVIOUS
<1>2. PICK gone : gone = {r \in DOMAIN field : field[r].party = {p}}
  OBVIOUS
<1>3. /\ body' = [body EXCEPT ![p] = "dead"] /\ field' = Except(g, gone)
      /\ convoys' = [c \in DOMAIN convoys |-> [convoys[c] EXCEPT !.party = @ \ {p}]]
      /\ musters' = [r \in DOMAIN musters |-> musters[r] \ {p}]
      /\ UNCHANGED <<contracts, members, at, outside, grade, committed>> /\ Plain(dossiers, archive)
  BY <1>1, <1>2 DEF Die, Quiet, Pruned
<1>4. Partial(field, Refs, OpRow) /\ Partial(convoys, Contracts, ConvoyRow)
      /\ Partial(musters, Refs, SUBSET House)
  BY WorldIsTyped DEF RoadsTyped
<1>5. Partial(g, Refs, OpRow)
  <2>1. ASSUME NEW r \in DOMAIN field PROVE [field[r] EXCEPT !.party = @ \ {p}] \in OpRow
    <3>1. field[r] \in OpRow
      BY <1>4 DEF Partial
    <3> QED  BY <3>1 DEF OpRow
  <2> QED  BY <1>1, <1>4, <2>1 DEF Partial
<1>6. Partial(field', Refs, OpRow)
  BY <1>3, <1>5, ExceptPartial
<1>7. Partial(convoys', Contracts, ConvoyRow)
  <2>1. ASSUME NEW c \in DOMAIN convoys PROVE [convoys[c] EXCEPT !.party = @ \ {p}] \in ConvoyRow
    <3>1. convoys[c] \in ConvoyRow
      BY <1>4 DEF Partial
    <3> QED  BY <3>1 DEF ConvoyRow
  <2> QED  BY <1>3, <1>4, <2>1 DEF Partial
<1>8. Partial(musters', Refs, SUBSET House)
  BY <1>3, <1>4 DEF Partial
<1>9. RoadsTyped'
  BY <1>6, <1>7, <1>8 DEF RoadsTyped
<1>10. PeopleTyped'
  BY <1>3, WorldIsTyped DEF PeopleTyped
<1>11. contracts' \in [Contracts -> {"open", "mine", "underway", "over", "expired"}]
  BY <1>3, PapersAreTyped
<1>12. Filed(dossiers, archive) /\ Partial(dossiers, Refs, DossierRow)
  BY NothingFiles
<1> QED  BY <1>3, <1>9, <1>10, <1>11, <1>12, PlainKeepsLedger

\* A member leaves the House.
LEMMA LeaveLedger == ASSUME LedgerInv, NEW p \in House, Leave(p) PROVE LedgerInv'
<1>1. /\ members' = members \ {p} /\ Plain(dossiers, archive)
      /\ UNCHANGED <<contracts, roads, body, at, outside, grade, committed>>
  BY DEF Leave, Quiet
<1>2. RoadsTyped' /\ PeopleTyped'
  BY <1>1, WorldIsTyped DEF RoadsTyped, PeopleTyped, roads
<1>3. contracts' \in [Contracts -> {"open", "mine", "underway", "over", "expired"}]
  BY <1>1, PapersAreTyped
<1>4. Filed(dossiers, archive) /\ Partial(dossiers, Refs, DossierRow)
  BY NothingFiles
<1> QED  BY <1>1, <1>2, <1>3, <1>4, PlainKeepsLedger

\* The House asks for missions.
LEMMA ReviewLedger == ASSUME LedgerInv, NEW needs \in SUBSET Refs, Review(needs) PROVE LedgerInv'
<1>1. PICK ask : ask = IF needs = {} \/ HasOpenAssignment(dossiers) THEN {}
                       ELSE {<<"assignment", needs, 0>>}
  OBVIOUS
<1>2. /\ Frontier(dossiers, archive, {}, ask, 0)
      /\ UNCHANGED <<contracts, roads, people, outside, grade, committed>>
  <2>1. grade' = grade
    BY DEF Review, Frontier
  <2> QED  BY <1>1, <2>1 DEF Review
<1>3. RoadsTyped' /\ PeopleTyped' /\ 0 \in Int /\ outside' = outside - 0
  BY <1>2, WorldIsTyped DEF RoadsTyped, PeopleTyped, roads, people
<1>4. contracts' \in [Contracts -> {"open", "mine", "underway", "over", "expired"}]
  BY <1>2, PapersAreTyped
<1>a. committed' \subseteq Answered /\ ask \subseteq Asked
  <2>1. <<"assignment", needs, 0>> \in Asked
    BY DEF Asked
  <2> QED  BY <1>1, <1>2, <2>1 DEF LedgerInv, MissionTypes, JudgmentsTyped
<1>5. Filed(dossiers, archive) /\ Partial(dossiers, Refs, DossierRow)
  BY NothingFiles
<1> QED  BY <1>2, <1>3, <1>4, <1>5, <1>a, EventKeepsLedger

-----------------------------------------------------------------------------
(* The ledger under judgments, and the theorems.                            *)

\* The choice of a judgment is among the missions it was asked about.
LEMMA ChoiceTyped == ASSUME NEW e \in Answered PROVE e[4] \in SUBSET Refs
<1>1. PICK j \in Asked, R \in SUBSET Refs : e = Append(j, R)
  BY DEF Answered
<1>2. PICK x \in {"assignment", "career"}, S \in SUBSET Refs, g \in Int : j = <<x, S, g>>
  BY <1>1 DEF Asked
<1>3. PICK E : E = {x, S, g, R}
  OBVIOUS
<1>4. j \in Seq(E) /\ R \in E
  BY <1>2, <1>3
<1>5. Append(j, R)[4] = R
  BY <1>2, <1>4
<1> QED  BY <1>1, <1>5

\* The House's choices become dossiers.
LEMMA SettleJudgmentsLedger == ASSUME LedgerInv, SettleJudgments PROVE LedgerInv'
<1>1. PICK asked : asked = UNION {e[4] : e \in {e \in committed : e[1] = "assignment"}}
  OBVIOUS
<1>2. PICK new : new = {r \in asked : Offerable(r)}
  OBVIOUS
<1>3. PICK d : d = [r \in DOMAIN dossiers \cup new |->
                      IF r \in new THEN Dossier(r, "offered") ELSE dossiers[r]]
  OBVIOUS
<1>4. PICK done : done = committed
  OBVIOUS
<1>5. /\ Frontier(d, archive, done, {}, 0) /\ committed' = {}
      /\ UNCHANGED <<contracts, roads, people, outside, grade>>
  BY <1>1, <1>2, <1>3, <1>4 DEF SettleJudgments
<1>6. new \subseteq Refs
  <2>1. asked \subseteq Refs
    BY <1>1, ChoiceTyped DEF LedgerInv, MissionTypes, JudgmentsTyped
  <2> QED  BY <1>2, <2>1
<1>7. \A r \in new : r \notin DOMAIN archive
  BY <1>2 DEF Offerable
<1>8. Filed(d, archive)
  BY <1>3, <1>7 DEF Filed
<1>9. Partial(d, Refs, DossierRow)
  <2>1. \A r : Dossier(r, "offered") \in DossierRow
    BY DEF Dossier, DossierRow, Phases
  <2>2. DOMAIN d = DOMAIN dossiers \cup new
    BY <1>3
  <2>3. \A r \in DOMAIN d : d[r] \in DossierRow
    BY <1>3, <2>1, PapersAreTyped
  <2> QED  BY <1>3, <1>6, <2>2, <2>3, PapersAreTyped DEF Partial
<1>10. RoadsTyped' /\ PeopleTyped' /\ 0 \in Int /\ outside' = outside - 0
  BY <1>5, WorldIsTyped DEF RoadsTyped, PeopleTyped, roads, people
<1>11. contracts' \in [Contracts -> {"open", "mine", "underway", "over", "expired"}]
       /\ {} \subseteq Asked /\ committed' \subseteq Answered /\ grade' = grade
  BY <1>5, PapersAreTyped
<1> QED  BY <1>5, <1>8, <1>9, <1>10, <1>11, EventKeepsLedger

\* A judgment is decided.
LEMMA CommitLedger ==
  ASSUME LedgerInv, NEW j \in pending, NEW choice \in SUBSET j[2], Commit(j, choice) PROVE LedgerInv'
<1>1. /\ pending' \subseteq pending /\ committed' = committed \cup {Append(j, choice)}
      /\ UNCHANGED <<dossiers, archive, contracts, roads, people, money, grade>>
  BY DEF Commit
<1>2. pending \subseteq Asked /\ committed \subseteq Answered
  BY DEF LedgerInv, MissionTypes, JudgmentsTyped
<1>3. PICK x \in {"assignment", "career"}, y \in SUBSET Refs, z \in Int : j = <<x, y, z>>
  BY <1>2 DEF Asked
<1>4. choice \in SUBSET Refs
  BY <1>3
<1>5. Append(j, choice) \in Answered
  BY <1>2, <1>4 DEF Answered
<1>6. JudgmentsTyped'
  BY <1>1, <1>2, <1>5 DEF JudgmentsTyped
<1>7. MissionTypes'
  BY <1>1, <1>6 DEF LedgerInv, MissionTypes, PapersTyped, RoadsTyped, PeopleTyped, MoneyTyped,
                    roads, people, money
<1> QED  BY <1>1, <1>7 DEF LedgerInv, FiledUnpaid, MoneyIsEntered, money

\* Nothing sums to nothing.
LEMMA SumOfZeros ==
  ASSUME NEW S, IsFiniteSet(S), NEW f \in [S -> Int], \A x \in S : f[x] = 0 PROVE SumFunction(f) = 0
<1>1. {} \subseteq S /\ \A x \in S : f[x] = IF x \in {} THEN 1 ELSE 0
  OBVIOUS
<1>2. SumFunction(f) = Cardinality({})
  BY <1>1, SumCounts
<1> QED  BY <1>2, FS_EmptySet

\* In the beginning nothing is on file, and everything is outside or in the treasury.
LEMMA InitLedger == ASSUME Init PROVE LedgerInv
<1>1. /\ dossiers = <<>> /\ archive = <<>> /\ field = <<>> /\ convoys = <<>> /\ musters = <<>>
      /\ pending = {} /\ committed = {} /\ purse = NoPay /\ grade = 0 /\ treasury = Silver
      /\ outside = Fee * Cardinality(Contracts) /\ members = House
      /\ contracts = [c \in Contracts |-> "open"] /\ body = [p \in House |-> "fit"]
      /\ at = [p \in House |-> Home]
  BY DEF Init
<1>2. \A S, T : Partial(<<>>, S, T)
  BY DEF Partial
<1>3. PapersTyped /\ RoadsTyped
  BY <1>1, <1>2 DEF PapersTyped, RoadsTyped
<1>4. PeopleTyped /\ JudgmentsTyped
  BY <1>1 DEF PeopleTyped, JudgmentsTyped
<1>5. Cardinality(Contracts) \in Nat /\ Silver \in Nat /\ Fee \in Nat /\ NoPay \in [House -> Int]
      /\ IsFiniteSet(House) /\ \A p \in House : NoPay[p] = 0
  BY MissionAssumption, FS_CardinalityType DEF NoPay
<1>6. Fee * Cardinality(Contracts) \in Int
  BY <1>5
<1>7. MoneyTyped
  BY <1>1, <1>5, <1>6 DEF MoneyTyped
<1>8. Clean(archive) /\ FiledUnpaid /\ OffersSound(archive, grade)
  BY <1>1 DEF Clean, FiledUnpaid, OffersSound, OpenOffers
<1>9. MoneyIsEntered
  <2>1. Total(NoPay) = 0
    BY <1>5, SumOfZeros DEF Total
  <2>2. ASSUME NEW p \in House PROVE Entered(archive, p) = 0
    <3>1. PICK f : f = [r \in DOMAIN archive |-> archive[r].paid[p]]
      OBVIOUS
    <3>2. f \in [DOMAIN archive -> Int] /\ DOMAIN archive = {} /\ \A r \in DOMAIN archive : f[r] = 0
      BY <1>1, <3>1
    <3>3. SumFunction(f) = 0
      BY <3>2, FS_EmptySet, SumOfZeros
    <3> QED  BY <3>1, <3>3 DEF Entered
  <2>3. treasury + Total(purse) + outside = Silver + Fee * Cardinality(Contracts)
    BY <1>1, <1>5, <1>6, <2>1
  <2> QED  BY <1>1, <1>5, <2>2, <2>3 DEF MoneyIsEntered
<1> QED  BY <1>3, <1>4, <1>7, <1>8, <1>9 DEF LedgerInv, MissionTypes

\* Every step keeps the ledger.
LEMMA LedgerIsKept == ASSUME LedgerInv, [Next]_vars PROVE LedgerInv'
<1>1. CASE UNCHANGED vars
  BY <1>1 DEF LedgerInv, MissionTypes, PapersTyped, RoadsTyped, PeopleTyped, MoneyTyped, JudgmentsTyped,
              FiledUnpaid, MoneyIsEntered, vars, roads, people, money
<1>2. CASE Commands
  <2>1. ASSUME NEW r \in Refs, Propose(r) \/ AcceptAssignment(r) \/ Decline(r) \/ Cancel(r)
        PROVE  LedgerInv'
    BY <2>1, ProposeLedger, AcceptAssignmentLedger, DeclineLedger, CancelLedger
  <2>2. ASSUME NEW r \in Refs, NEW S \in SUBSET House, Convene(r, S) PROVE LedgerInv'
    BY <2>2, ConveneLedger
  <2>3. ASSUME NEW r \in Refs, NEW plan \in Rosters, SubmitPlan(r, plan) PROVE LedgerInv'
    BY <2>3, SubmitPlanLedger
  <2>4. ASSUME NEW r \in Refs, Dispatch(r) \/ Muster(r) PROVE LedgerInv'
    BY <2>4, DispatchLedger, MusterLedger
  <2>5. ASSUME NEW r \in Refs, NEW won \in BOOLEAN, NEW n \in Gifts \cup {0}, Diplomacy(r, won, n)
        PROVE  LedgerInv'
    BY <2>5, DiplomacyLedger
  <2>6. ASSUME NEW r \in Refs, SettleReward(r) \/ ServiceReview(r) \/ EarlyReview(r) PROVE LedgerInv'
    BY <2>6, SettleRewardLedger, ServiceReviewLedger, EarlyReviewLedger
  <2>7. ASSUME NEW r \in Refs, NEW yes \in BOOLEAN, AnswerCareer(r, yes) PROVE LedgerInv'
    BY <2>7, AnswerCareerLedger
  <2>8. ASSUME NEW c \in Contracts, AcceptContract(c) \/ StartEscort(c) PROVE LedgerInv'
    BY <2>8, AcceptContractLedger, StartEscortLedger
  <2>9. ASSUME NEW n \in Gifts, SilverTalks(n) PROVE LedgerInv'
    BY <2>9, SilverTalksLedger
  <2> QED  BY <1>2, <2>1, <2>2, <2>3, <2>4, <2>5, <2>6, <2>7, <2>8, <2>9 DEF Commands
<1>3. CASE World
  <2>1. ASSUME NEW r \in Refs, Depart(r) \/ Scout(r) \/ LostOnRoad(r) \/ Return(r) \/ MusterArrives(r)
        PROVE  LedgerInv'
    BY <2>1, DepartLedger, ScoutLedger, LostOnRoadLedger, ReturnLedger, MusterArrivesLedger
  <2>2. ASSUME NEW r \in Refs, NEW dead \in SUBSET House, Arrive(r, dead) PROVE LedgerInv'
    BY <2>2, ArriveLedger
  <2>3. ASSUME NEW c \in Contracts, EscortHome(c) \/ ContractExpires(c) \/ ContractTaken(c)
        PROVE  LedgerInv'
    BY <2>3, EscortHomeLedger, ContractExpiresLedger, ContractTakenLedger
  <2>4. ASSUME NEW c \in Contracts, NEW won \in BOOLEAN, NEW dead \in SUBSET House,
               EscortEnds(c, won, dead)
        PROVE  LedgerInv'
    BY <2>4, EscortEndsLedger
  <2>5. ASSUME NEW p \in House, Die(p) \/ Leave(p) PROVE LedgerInv'
    BY <2>5, DieLedger, LeaveLedger
  <2>6. ASSUME NEW needs \in SUBSET Refs, Review(needs) PROVE LedgerInv'
    BY <2>6, ReviewLedger
  <2> QED  BY <1>3, <2>1, <2>2, <2>3, <2>4, <2>5, <2>6 DEF World
<1>4. CASE Judgments
  <2>1. ASSUME NEW j \in pending, NEW choice \in SUBSET j[2], Commit(j, choice) PROVE LedgerInv'
    BY <2>1, CommitLedger
  <2> QED  BY <1>4, <2>1, SettleJudgmentsLedger DEF Judgments
<1> QED  BY <1>1, <1>2, <1>3, <1>4 DEF Next

\* The ledger and the types of the House's missions are as they should be, always.
THEOREM LedgerHolds == Spec => []LedgerInv
<1>1. Init => LedgerInv
  BY InitLedger
<1>2. LedgerInv /\ [Next]_vars => LedgerInv'
  BY LedgerIsKept
<1> QED  BY <1>1, <1>2, PTL DEF Spec

\* Papers, roads, people, judgments and money are of their types.
THEOREM MissionTypesHold == Spec => []MissionTypes
<1>1. LedgerInv => MissionTypes
  BY DEF LedgerInv
<1> QED  BY <1>1, LedgerHolds, PTL

\* Each silver piece of a reward is paid once and entered where it was paid: settlements,
\* payments by hand, shortages and early reviews in any order mint and lose nothing.
THEOREM RewardsArePaidOnce == Spec => []RewardsPaidOnce
<1>1. LedgerInv => RewardsPaidOnce
  BY DEF LedgerInv, MoneyIsEntered, Entered, RewardsPaidOnce
<1> QED  BY <1>1, LedgerHolds, PTL

\* The House has at most one promotion on offer, from the grade the player has.
THEOREM OpenOffersAreCurrent == Spec => []OpenOfferIsCurrent
<1>1. LedgerInv => OpenOfferIsCurrent
  <2> SUFFICES ASSUME LedgerInv PROVE OpenOfferIsCurrent
    OBVIOUS
  <2>1. OffersSound(archive, grade)
    BY DEF LedgerInv
  <2>2. Cardinality(OpenOffers(archive)) <= 1
    <3>1. CASE OpenOffers(archive) = {}
      BY <3>1, FS_EmptySet
    <3>2. CASE OpenOffers(archive) # {}
      <4>1. PICK r : r \in OpenOffers(archive)
        BY <3>2
      <4>2. OpenOffers(archive) = {r}
        BY <2>1, <4>1 DEF OffersSound
      <4>3. Cardinality({r}) = 1
        BY FS_Singleton
      <4> QED  BY <4>2, <4>3
    <3> QED  BY <3>1, <3>2
  <2> QED  BY <2>1, <2>2 DEF OffersSound, OpenOfferIsCurrent
<1> QED  BY <1>1, LedgerHolds, PTL

-----------------------------------------------------------------------------
(* The papers of those on the road.  The code refuses neither talks held    *)
(* on the dossier of a mission in the field nor a proposal of another kind  *)
(* linked to a commission; the property exempts what they close, and no     *)
(* other step files a dossier away over people on the road.                 *)

\* The dossiers of T may change or go, and all others keep their phase.
Untouched(T) ==
  \A r \in DOMAIN dossiers \ T : r \in DOMAIN dossiers' /\ dossiers'[r].phase = dossiers[r].phase

\* Those of T have nobody on the road, or their mission stays in the field, but for talks
\* and for commissions that share a dossier with a mission of another kind.
Spared(T) ==
  \A r \in (T \cap DOMAIN dossiers) \ talked' :
     /\ dossiers[r].phase \in InField =>
           \/ r \in DOMAIN dossiers' /\ dossiers'[r].phase \in InField
           \/ /\ r \notin DOMAIN field' \/ Missions[r].link # Nobody
              /\ Missions[r].link \notin DOMAIN convoys' \/ ~EscortsOnly(Missions[r].link)'
     /\ dossiers[r].phase = "mustering" =>
           r \notin DOMAIN musters' \/ contracts'[Missions[r].link] # "mine"

\* The mission of a commission whose escort is on the road.
VanOnPaper(c) ==
  \/ ~EscortsOnly(c) \/ \E r \in talked : Missions[r].link = c
  \/ \E r \in Linked(dossiers, c) : dossiers[r].phase \in InField

\* What was on paper is on paper or filed away, and talks are remembered.
PapersLast ==
  /\ DOMAIN dossiers \cup DOMAIN archive \subseteq DOMAIN dossiers' \cup DOMAIN archive'
  /\ talked \subseteq talked'

\* Nobody else sets out.
NobodySetsOut ==
  /\ DOMAIN field' \subseteq DOMAIN field /\ DOMAIN convoys' \subseteq DOMAIN convoys
  /\ DOMAIN musters' \subseteq DOMAIN musters

\* A commission is taken only when it is open, and opens never again.
ContractsGoOn ==
  \A c \in Contracts :
     \/ contracts'[c] = contracts[c]
     \/ /\ c \in DOMAIN convoys' => contracts'[c] \in {"underway", "over"}
        /\ contracts'[c] # "open"
        /\ contracts'[c] = "mine" => contracts[c] = "open"

\* The references and commissions of those on the road.
LEMMA RoadsAreTyped ==
  ASSUME LedgerInv
  PROVE  /\ DOMAIN field \subseteq Refs /\ DOMAIN musters \subseteq Refs
         /\ DOMAIN convoys \subseteq Contracts
  BY DEF LedgerInv, MissionTypes, RoadsTyped, Partial

\* An escort has a commission.
LEMMA EscortsAreLinked == \A x \in DOMAIN Missions : Missions[x].kind = "escort" => Missions[x].link # Nobody
  BY MissionAssumption, Zenon

\* A mission has a commission or none, and an escort has one.
LEMMA LinksTyped ==
  \A r \in Refs : /\ Missions[r].kind = "escort" => Missions[r].link \in Contracts
                  /\ Missions[r].link \in Contracts \cup {Nobody}
<1> SUFFICES ASSUME NEW r \in Refs
             PROVE  /\ Missions[r].kind = "escort" => Missions[r].link \in Contracts
                    /\ Missions[r].link \in Contracts \cup {Nobody}
  OBVIOUS
<1>1. Missions[r].link \in Contracts \cup {Nobody}
  <2>1. PICK S, L : L = Contracts \cup {Nobody}
               /\ S = [source : {"player", "public", "house"}, kind : STRING, link : L, mode : STRING]
    OBVIOUS
  <2>2. Missions \in Seq(S)
    BY <2>1, MissionAssumption
  <2>3. Missions[r] \in S
    BY <2>2 DEF Refs
  <2> QED  BY <2>1, <2>3
<1>2. Missions[r].kind = "escort" => Missions[r].link # Nobody
  BY EscortsAreLinked DEF Refs
<1> QED  BY <1>1, <1>2

\* A commission that shares its dossiers does so for ever.
LEMMA SharingLasts ==
  ASSUME PapersLast, NEW c, ~EscortsOnly(c) PROVE ~EscortsOnly(c)'
  BY DEF PapersLast, EscortsOnly

\* The mission of a commission stays on paper with one of its dossiers.
LEMMA VanStays ==
  ASSUME PapersLast, NEW c, VanOnPaper(c),
         \A r \in Linked(dossiers, c) :
            dossiers[r].phase \in InField =>
               \/ r \in talked' \/ ~EscortsOnly(c)'
               \/ r \in DOMAIN dossiers' /\ dossiers'[r].phase \in InField
  PROVE  VanOnPaper(c)'
<1>1. CASE ~EscortsOnly(c)
  BY <1>1, SharingLasts DEF VanOnPaper
<1>2. CASE \E r \in talked : Missions[r].link = c
  BY <1>2 DEF VanOnPaper, PapersLast
<1>3. CASE \E r \in Linked(dossiers, c) : dossiers[r].phase \in InField
  <2>1. PICK r \in Linked(dossiers, c) : dossiers[r].phase \in InField
    BY <1>3
  <2>2. Missions[r].link = c
    BY <2>1 DEF Linked
  <2> QED  BY <2>1, <2>2 DEF VanOnPaper, Linked
<1> QED  BY <1>1, <1>2, <1>3 DEF VanOnPaper

\* Such a step keeps the papers of those on the road.
LEMMA RoadsAreKept ==
  ASSUME LedgerInv, RoadInv, PapersLast, NEW T, Untouched(T), Spared(T), NobodySetsOut, ContractsGoOn
  PROVE  RoadInv'
<1>1. ASSUME NEW r \in DOMAIN field'
      PROVE  /\ Missions[r].kind # "escort"
             /\ r \notin talked' /\ Missions[r].link = Nobody =>
                   r \in DOMAIN dossiers' /\ dossiers'[r].phase \in InField
  <2>1. r \in DOMAIN field /\ Missions[r].kind # "escort"
    BY <1>1 DEF NobodySetsOut, RoadInv, RoadsAreTaken
  <2>2. ASSUME r \notin talked', Missions[r].link = Nobody
        PROVE  r \in DOMAIN dossiers' /\ dossiers'[r].phase \in InField
    <3>1. r \in DOMAIN dossiers /\ dossiers[r].phase \in InField
      BY <2>1, <2>2 DEF RoadInv, FieldIsOnPaper, PapersLast
    <3> QED  BY <1>1, <2>2, <3>1 DEF Untouched, Spared
  <2> QED  BY <2>1, <2>2
<1>2. ASSUME NEW c \in DOMAIN convoys' PROVE contracts'[c] \in {"underway", "over"} /\ VanOnPaper(c)'
  <2>1. c \in DOMAIN convoys /\ c \in Contracts
    BY <1>2, RoadsAreTyped DEF NobodySetsOut
  <2>2. contracts'[c] \in {"underway", "over"}
    BY <1>2, <2>1 DEF ContractsGoOn, RoadInv, RoadsAreTaken
  <2>3. VanOnPaper(c)
    BY <2>1 DEF RoadInv, FieldIsOnPaper, VanOnPaper
  <2>4. ASSUME NEW r \in Linked(dossiers, c), dossiers[r].phase \in InField
        PROVE  \/ r \in talked' \/ ~EscortsOnly(c)'
               \/ r \in DOMAIN dossiers' /\ dossiers'[r].phase \in InField
    <3>1. r \in DOMAIN dossiers /\ Missions[r].link = c
      BY DEF Linked
    <3>2. CASE r \in T
      BY <1>2, <2>4, <3>1, <3>2 DEF Spared
    <3>3. CASE r \notin T
      BY <2>4, <3>1, <3>3 DEF Untouched
    <3> QED  BY <3>2, <3>3
  <2>5. VanOnPaper(c)'
    BY <2>3, <2>4, VanStays
  <2> QED  BY <2>2, <2>5
<1>3. ASSUME NEW r \in DOMAIN musters'
      PROVE  /\ Missions[r].kind = "escort" /\ contracts'[Missions[r].link] # "open"
             /\ r \notin talked' /\ contracts'[Missions[r].link] = "mine" =>
                   r \in DOMAIN dossiers' /\ dossiers'[r].phase = "mustering"
  <2>1. r \in DOMAIN musters /\ r \in Refs
    BY <1>3, RoadsAreTyped DEF NobodySetsOut
  <2>2. Missions[r].kind = "escort" /\ contracts[Missions[r].link] # "open"
    BY <2>1 DEF RoadInv, RoadsAreTaken
  <2>3. PICK c \in Contracts : c = Missions[r].link
    BY <2>1, <2>2, LinksTyped
  <2>4. contracts'[c] # "open" /\ (contracts'[c] = "mine" => contracts[c] = "mine")
    BY <2>2, <2>3 DEF ContractsGoOn
  <2>5. r \notin talked' /\ contracts[c] = "mine" => r \in DOMAIN dossiers /\ dossiers[r].phase = "mustering"
    BY <2>1, <2>3 DEF RoadInv, FieldIsOnPaper, PapersLast
  <2>6. r \notin talked' /\ contracts'[c] = "mine" => r \in DOMAIN dossiers' /\ dossiers'[r].phase = "mustering"
    BY <1>3, <2>3, <2>4, <2>5 DEF Untouched, Spared
  <2> QED  BY <2>2, <2>3, <2>4, <2>6
<1>4. RoadsAreTaken'
  BY <1>1, <1>2, <1>3 DEF RoadsAreTaken
<1>5. FieldIsOnPaper'
  BY <1>1, <1>2, <1>3 DEF FieldIsOnPaper, VanOnPaper
<1> QED  BY <1>4, <1>5 DEF RoadInv

\* Dossiers of missions that nobody set out for change or go, or new ones come.
LEMMA IdlePapers ==
  ASSUME LedgerInv, RoadInv, PapersLast, NEW T, Untouched(T), UNCHANGED <<roads, contracts>>,
         \A r \in T \cap DOMAIN dossiers : dossiers[r].phase \notin InField \cup {"mustering"}
  PROVE  RoadInv'
<1>1. Spared(T)
  BY DEF Spared
<1>2. NobodySetsOut /\ ContractsGoOn
  BY DEF NobodySetsOut, ContractsGoOn, roads
<1> QED  BY <1>1, <1>2, RoadsAreKept

\* A dossier that is noted anew.
LEMMA NotedTouches ==
  ASSUME NEW r, NEW row, dossiers' = With(dossiers, r, row) PROVE Untouched({r})
  BY DEF Untouched, With

\* A dossier that goes.
LEMMA GoneTouches ==
  ASSUME LedgerInv, NEW r, dossiers' = Except(dossiers, {r}) PROVE Untouched({r})
<1>1. Partial(dossiers, Refs, DossierRow)
  BY DEF LedgerInv, MissionTypes, PapersTyped
<1>2. /\ DOMAIN dossiers' = DOMAIN dossiers \ {r}
      /\ \A x \in DOMAIN dossiers \ {r} : dossiers'[x] = dossiers[x]
  BY <1>1, ExceptPartial
<1> QED  BY <1>2 DEF Untouched

\* Nothing happens to the dossiers and the roads.
LEMMA SamePapers ==
  ASSUME LedgerInv, RoadInv, PapersLast, UNCHANGED <<dossiers, contracts, roads>> PROVE RoadInv'
<1>1. Untouched({}) /\ Spared({}) /\ NobodySetsOut /\ ContractsGoOn
  BY DEF Untouched, Spared, NobodySetsOut, ContractsGoOn, roads
<1> QED  BY <1>1, RoadsAreKept

\* Paper work on missions that nobody set out for.
LEMMA PaperWorkRoads ==
  ASSUME LedgerInv, RoadInv, PapersLast, NEW r \in Refs,
         \/ Propose(r) \/ Decline(r) \/ (\E S \in SUBSET House : Convene(r, S))
         \/ (\E plan \in Rosters : SubmitPlan(r, plan))
         \/ (\E won \in BOOLEAN, n \in Gifts \cup {0} : Diplomacy(r, won, n))
  PROVE  RoadInv'
<1>1. CASE Propose(r)
  <2>1. dossiers' = With(dossiers, r, Dossier(r, "proposed")) /\ r \notin DOMAIN dossiers
        /\ UNCHANGED <<roads, contracts>>
    BY <1>1 DEF Propose, Note, Paper
  <2>2. Untouched({r})
    BY <2>1, NotedTouches
  <2> QED  BY <2>1, <2>2, IdlePapers
<1>2. CASE Decline(r)
  <2>1. dossiers' = Except(dossiers, {r}) /\ dossiers[r].phase = "offered"
        /\ UNCHANGED <<roads, contracts>>
    BY <1>2 DEF Decline, InPhase, Close, Paper
  <2>2. Untouched({r})
    BY <2>1, GoneTouches
  <2> QED  BY <2>1, <2>2, IdlePapers DEF InField
<1>3. CASE \E S \in SUBSET House : Convene(r, S)
  <2>1. (\E row : dossiers' = With(dossiers, r, row)) /\ dossiers[r].phase \in {"proposed", "accepted", "briefed"}
        /\ UNCHANGED <<roads, contracts>>
    BY <1>3 DEF Convene, InPhase, Note, Paper
  <2>2. Untouched({r})
    BY <2>1, NotedTouches
  <2> QED  BY <2>1, <2>2, IdlePapers DEF InField
<1>4. CASE \E plan \in Rosters : SubmitPlan(r, plan)
  <2>1. (\E row : dossiers' = With(dossiers, r, row))
        /\ dossiers[r].phase \in {"briefed", "accepted", "proposed", "revision"}
        /\ UNCHANGED <<roads, contracts>>
    BY <1>4 DEF SubmitPlan, InPhase, Note, Paper
  <2>2. Untouched({r})
    BY <2>1, NotedTouches
  <2> QED  BY <2>1, <2>2, IdlePapers DEF InField
<1>5. CASE \E won \in BOOLEAN, n \in Gifts \cup {0} : Diplomacy(r, won, n)
  <2>1. /\ dossiers' = Except(dossiers, {r}) /\ UNCHANGED <<roads, contracts>>
        /\ talked' = talked \cup ({r} \cap Roadside)
    BY <1>5 DEF Diplomacy, Close
  <2>2. Untouched({r})
    BY <2>1, GoneTouches
  <2>3. ASSUME r \in DOMAIN dossiers, r \notin talked'
        PROVE  r \notin DOMAIN field' /\ r \notin DOMAIN musters' /\ Missions[r].link \notin DOMAIN convoys'
    BY <2>1, <2>3 DEF Roadside, Linked, roads
  <2>4. Spared({r})
    BY <2>3 DEF Spared
  <2>5. NobodySetsOut /\ ContractsGoOn
    BY <2>1 DEF NobodySetsOut, ContractsGoOn, roads
  <2> QED  BY <2>2, <2>4, <2>5, RoadsAreKept
<1> QED  BY <1>1, <1>2, <1>3, <1>4, <1>5

\* A mission is not cancelled over those who are out, nor over those who walk to its origin.
LEMMA CancelRoads ==
  ASSUME LedgerInv, RoadInv, PapersLast, NEW r \in Refs, Cancel(r) PROVE RoadInv'
<1>1. /\ dossiers' = Except(dossiers, {r}) /\ dossiers[r].phase \notin InField
      /\ r \notin DOMAIN musters /\ UNCHANGED <<roads, contracts>>
  BY DEF Cancel, InPhase, Close, Paper, InField
<1>2. Untouched({r})
  BY <1>1, GoneTouches
<1>3. Spared({r})
  BY <1>1 DEF Spared, roads
<1>4. NobodySetsOut /\ ContractsGoOn
  BY <1>1 DEF NobodySetsOut, ContractsGoOn, roads
<1> QED  BY <1>2, <1>3, <1>4, RoadsAreKept

\* Accepting an open commission touches no mission that anybody is out for.
LEMMA TakenContractRoads ==
  ASSUME LedgerInv, RoadInv, PapersLast, NEW c \in Contracts, contracts[c] = "open",
         contracts' = [contracts EXCEPT ![c] = "mine"], UNCHANGED roads,
         NEW r \in Refs, NEW q \in Refs, Missions[q].link = c,
         r \in DOMAIN dossiers => dossiers[r].phase = "offered" \/ r = q,
         Untouched({r, q})
  PROVE  RoadInv'
<1>1. contracts \in [Contracts -> {"open", "mine", "underway", "over", "expired"}]
  BY PapersAreTyped
<1>2. Missions[q].link # Nobody
  BY MissionAssumption
<1>3. q \notin DOMAIN musters /\ c \notin DOMAIN convoys
  BY DEF RoadInv, RoadsAreTaken
<1>4. Spared({r, q})
  BY <1>2, <1>3 DEF Spared, InField, roads
<1>5. NobodySetsOut
  BY DEF NobodySetsOut, roads
<1>6. ContractsGoOn
  BY <1>1, <1>3 DEF ContractsGoOn, roads
<1> QED  BY <1>4, <1>5, <1>6, RoadsAreKept

\* The same for the two ways of accepting one.
LEMMA AcceptRoads ==
  ASSUME LedgerInv, RoadInv, PapersLast,
         \/ \E r \in Refs : AcceptAssignment(r)
         \/ \E c \in Contracts : AcceptContract(c)
  PROVE  RoadInv'
<1>1. ASSUME NEW r \in Refs, AcceptAssignment(r) PROVE RoadInv'
  <2>1. PICK d : d = [dossiers EXCEPT ![r].phase = "accepted"]
    OBVIOUS
  <2>2. PICK row : row = [dossiers[r] EXCEPT !.phase = "accepted"]
    OBVIOUS
  <2>3. r \in DOMAIN dossiers /\ dossiers[r].phase = "offered" /\ UNCHANGED roads
    BY <1>1 DEF AcceptAssignment, InPhase
  <2>4. d = With(dossiers, r, row)
    BY <2>1, <2>2, <2>3, PapersAreTyped DEF With
  <2>5. CASE Missions[r].link = Nobody
    <3>1. dossiers' = d /\ contracts' = contracts
      BY <1>1, <2>1, <2>5 DEF AcceptAssignment
    <3>2. Untouched({r})
      BY <2>4, <3>1, NotedTouches
    <3> QED  BY <2>3, <3>1, <3>2, IdlePapers DEF InField
  <2>6. CASE Missions[r].link # Nobody
    <3>1. PICK c : c = Missions[r].link
      OBVIOUS
    <3>2. dossiers' = Accepted(d, c) /\ contracts' = [contracts EXCEPT ![c] = "mine"]
          /\ contracts[c] = "open"
      BY <1>1, <2>1, <2>6, <3>1 DEF AcceptAssignment
    <3>3. /\ DOMAIN d = DOMAIN dossiers
          /\ \A x \in DOMAIN dossiers : x # r => d[x] = dossiers[x]
      BY <2>3, <2>4 DEF With
    <3>4. Partial(d, Refs, DossierRow)
      <4>1. row \in DossierRow
        <5>1. dossiers[r] \in DossierRow
          BY <2>3, PapersAreTyped
        <5> QED  BY <2>2, <5>1 DEF DossierRow, Phases
      <4> QED  BY <2>3, <2>4, <4>1, ChangeFiles
    <3>5. r \in Linked(d, c)
      BY <2>3, <3>1, <3>3 DEF Linked
    <3>6. PICK q \in Refs, new \in DossierRow :
            Accepted(d, c) = With(d, q, new) /\ Missions[q].link = c
      BY <3>4, <3>5, AcceptedDossier
    <3>7. Untouched({r, q})
      <4>1. \A x \in DOMAIN dossiers \ {r, q} : x \in DOMAIN dossiers' /\ dossiers'[x] = dossiers[x]
        BY <3>2, <3>3, <3>6 DEF With
      <4> QED  BY <4>1 DEF Untouched
    <3>8. c \in Contracts
      BY <2>6, <3>1, LinksTyped
    <3> QED  BY <2>3, <3>2, <3>6, <3>7, <3>8, TakenContractRoads
  <2> QED  BY <2>5, <2>6
<1>2. ASSUME NEW c \in Contracts, AcceptContract(c) PROVE RoadInv'
  <2>1. /\ dossiers' = Accepted(dossiers, c) /\ contracts' = [contracts EXCEPT ![c] = "mine"]
        /\ contracts[c] = "open" /\ UNCHANGED roads
        /\ \E r \in Refs : Missions[r].source = "public" /\ Missions[r].link = c
    BY <1>2 DEF AcceptContract
  <2>2. Partial(dossiers, Refs, DossierRow)
    BY DEF LedgerInv, MissionTypes, PapersTyped
  <2>3. PICK q \in Refs, new \in DossierRow :
          Accepted(dossiers, c) = With(dossiers, q, new) /\ Missions[q].link = c
    BY <2>1, <2>2, AcceptedDossier
  <2>4. dossiers' = With(dossiers, q, new)
    BY <2>1, <2>3
  <2>5. Untouched({q, q})
    BY <2>4 DEF With, Untouched
  <2> QED  BY <2>1, <2>3, <2>5, TakenContractRoads
<1> QED  BY <1>1, <1>2

\* A party that leaves has its dossier.
LEMMA DispatchRoads ==
  ASSUME LedgerInv, RoadInv, PapersLast, NEW r \in Refs, Dispatch(r) PROVE RoadInv'
<1>1. PICK row : row = [dossiers[r] EXCEPT !.phase = "dispatched"]
  OBVIOUS
<1>2. PICK op : op = [leg |-> "mobilizing", party |-> dossiers[r].party, won |-> FALSE,
                      from |-> at[dossiers[r].lead]]
  OBVIOUS
<1>3. /\ r \in DOMAIN dossiers /\ dossiers[r].phase = "approved" /\ Missions[r].kind # "escort"
      /\ field' = With(field, r, op) /\ dossiers' = With(dossiers, r, row)
      /\ UNCHANGED <<contracts, convoys, musters>>
  BY <1>1, <1>2 DEF Dispatch, InPhase, Note
<1>4. row.phase = "dispatched"
  BY <1>1, <1>3, PapersAreTyped DEF DossierRow
<1>5. DOMAIN field' = DOMAIN field \cup {r}
  BY <1>3 DEF With
<1>6. /\ DOMAIN dossiers' = DOMAIN dossiers /\ dossiers'[r].phase = "dispatched"
      /\ \A x \in DOMAIN dossiers : x # r => dossiers'[x] = dossiers[x]
  BY <1>3, <1>4 DEF With
<1>7. RoadsAreTaken'
  BY <1>3, <1>5 DEF RoadInv, RoadsAreTaken
<1>8. \A x \in DOMAIN field' \ talked' : Missions[x].link = Nobody =>
          x \in DOMAIN dossiers' /\ dossiers'[x].phase \in InField
  BY <1>5, <1>6, <1>3 DEF RoadInv, FieldIsOnPaper, InField, PapersLast
<1>9. \A c \in DOMAIN convoys' : VanOnPaper(c)'
  <2> SUFFICES ASSUME NEW c \in DOMAIN convoys' PROVE VanOnPaper(c)'
    OBVIOUS
  <2>1. VanOnPaper(c)
    BY <1>3 DEF RoadInv, FieldIsOnPaper, VanOnPaper
  <2>2. \A x \in DOMAIN dossiers : dossiers[x].phase \in InField =>
            x \in DOMAIN dossiers' /\ dossiers'[x].phase \in InField
    BY <1>3, <1>6 DEF InField
  <2> QED  BY <2>1, <2>2, VanStays DEF Linked
<1>10. \A x \in DOMAIN musters' \ talked' : contracts'[Missions[x].link] = "mine" =>
          x \in DOMAIN dossiers' /\ dossiers'[x].phase = "mustering"
  BY <1>3, <1>6 DEF RoadInv, FieldIsOnPaper, PapersLast
<1> QED  BY <1>7, <1>8, <1>9, <1>10 DEF RoadInv, FieldIsOnPaper, VanOnPaper

\* So has an escort that walks to the origin.
LEMMA MusterRoads ==
  ASSUME LedgerInv, RoadInv, PapersLast, NEW r \in Refs, Muster(r) PROVE RoadInv'
<1>1. PICK row : row = [dossiers[r] EXCEPT !.phase = "mustering"]
  OBVIOUS
<1>2. /\ r \in DOMAIN dossiers /\ dossiers[r].phase = "approved" /\ Missions[r].kind = "escort"
      /\ contracts[Missions[r].link] = "mine"
      /\ musters' = With(musters, r, dossiers[r].party) \/ musters' = musters
      /\ dossiers' = With(dossiers, r, row) /\ UNCHANGED <<contracts, convoys, field>>
  BY <1>1 DEF Muster, InPhase, Note
<1>3. row.phase = "mustering"
  BY <1>1, <1>2, PapersAreTyped DEF DossierRow
<1>4. DOMAIN musters' \subseteq DOMAIN musters \cup {r}
  BY <1>2 DEF With
<1>5. /\ DOMAIN dossiers' = DOMAIN dossiers /\ dossiers'[r].phase = "mustering"
      /\ \A x \in DOMAIN dossiers : x # r => dossiers'[x] = dossiers[x]
  BY <1>2, <1>3 DEF With
<1>6. RoadsAreTaken'
  BY <1>2, <1>4 DEF RoadInv, RoadsAreTaken
<1>7. \A x \in DOMAIN field' \ talked' : Missions[x].link = Nobody =>
          x \in DOMAIN dossiers' /\ dossiers'[x].phase \in InField
  BY <1>2, <1>5 DEF RoadInv, FieldIsOnPaper, InField, PapersLast
<1>8. \A c \in DOMAIN convoys' : VanOnPaper(c)'
  <2> SUFFICES ASSUME NEW c \in DOMAIN convoys' PROVE VanOnPaper(c)'
    OBVIOUS
  <2>1. VanOnPaper(c)
    BY <1>2 DEF RoadInv, FieldIsOnPaper, VanOnPaper
  <2>2. \A x \in DOMAIN dossiers : dossiers[x].phase \in InField =>
            x \in DOMAIN dossiers' /\ dossiers'[x].phase \in InField
    BY <1>2, <1>5 DEF InField
  <2> QED  BY <2>1, <2>2, VanStays DEF Linked
<1>9. \A x \in DOMAIN musters' \ talked' : contracts'[Missions[x].link] = "mine" =>
          x \in DOMAIN dossiers' /\ dossiers'[x].phase = "mustering"
  BY <1>2, <1>4, <1>5 DEF RoadInv, FieldIsOnPaper, PapersLast
<1> QED  BY <1>6, <1>7, <1>8, <1>9 DEF RoadInv, FieldIsOnPaper, VanOnPaper

\* The first dossier of a commission goes into the field with its escort.
LEMMA StartEscortRoads ==
  ASSUME LedgerInv, RoadInv, PapersLast, NEW c \in Contracts, StartEscort(c) PROVE RoadInv'
<1>1. PICK d : d = dossiers[CHOOSE x \in Rolls(c) : TRUE]
  OBVIOUS
<1>2. PICK r : r = First(dossiers, c)
  OBVIOUS
<1>3. PICK row : row = [dossiers[r] EXCEPT !.phase = "in_field", !.party = d.party, !.lead = d.lead]
  OBVIOUS
<1>4. /\ Cardinality(Rolls(c)) = 1 /\ (\E van : convoys' = With(convoys, c, van))
      /\ contracts[c] = "mine" /\ contracts' = [contracts EXCEPT ![c] = "underway"]
      /\ dossiers' = With(dossiers, r, row) /\ UNCHANGED <<field, musters>>
  BY <1>1, <1>2, <1>3 DEF StartEscort, Note
<1>5. r \in DOMAIN dossiers /\ Missions[r].link = c /\ r \in Refs
  BY <1>2, <1>4, TheRoll, FirstLinked, PapersAreTyped DEF Linked
<1>6. row.phase = "in_field"
  BY <1>3, <1>5, PapersAreTyped DEF DossierRow
<1>7. DOMAIN convoys' = DOMAIN convoys \cup {c}
  BY <1>4 DEF With
<1>8. /\ DOMAIN dossiers' = DOMAIN dossiers /\ dossiers'[r].phase = "in_field"
      /\ \A x \in DOMAIN dossiers : x # r => dossiers'[x] = dossiers[x]
  BY <1>4, <1>5, <1>6 DEF With
<1>9. /\ contracts'[c] = "underway"
      /\ \A x : x # c => contracts'[x] = contracts[x]
  BY <1>4, PapersAreTyped
<1>10. RoadsAreTaken'
  BY <1>4, <1>7, <1>9 DEF RoadInv, RoadsAreTaken
<1>11. \A x \in DOMAIN field' \ talked' : Missions[x].link = Nobody =>
          x \in DOMAIN dossiers' /\ dossiers'[x].phase \in InField
  BY <1>4, <1>8 DEF RoadInv, FieldIsOnPaper, InField, PapersLast
<1>12. \A x \in DOMAIN convoys' : VanOnPaper(x)'
  <2>1. VanOnPaper(c)'
    BY <1>5, <1>8 DEF VanOnPaper, Linked, InField
  <2>2. ASSUME NEW x \in DOMAIN convoys PROVE VanOnPaper(x)'
    <3>1. VanOnPaper(x)
      BY DEF RoadInv, FieldIsOnPaper, VanOnPaper
    <3>2. \A q \in DOMAIN dossiers : dossiers[q].phase \in InField =>
              q \in DOMAIN dossiers' /\ dossiers'[q].phase \in InField
      BY <1>8 DEF InField
    <3> QED  BY <3>1, <3>2, VanStays DEF Linked
  <2> QED  BY <1>7, <2>1, <2>2
<1>13. \A x \in DOMAIN musters' \ talked' : contracts'[Missions[x].link] = "mine" =>
          x \in DOMAIN dossiers' /\ dossiers'[x].phase = "mustering"
  BY <1>4, <1>5, <1>8, <1>9 DEF RoadInv, FieldIsOnPaper, PapersLast
<1> QED  BY <1>10, <1>11, <1>12, <1>13 DEF RoadInv, FieldIsOnPaper, VanOnPaper

\* What the frontier after an event leaves on paper is what the event left there.
LEMMA PlainPapers == ASSUME NEW d, NEW a, Plain(d, a) PROVE dossiers' = d
  BY DEF Plain, Frontier

\* A dossier enters another phase.
LEMMA StagedTouches ==
  ASSUME LedgerInv, NEW r, NEW phase, dossiers' = Staged(r, phase)
  PROVE  /\ Untouched({r})
         /\ r \in DOMAIN dossiers => r \in DOMAIN dossiers' /\ dossiers'[r].phase = phase
<1>1. CASE r \in DOMAIN dossiers
  <2>1. PICK row : row = [dossiers[r] EXCEPT !.phase = phase]
    OBVIOUS
  <2>2. row.phase = phase
    BY <1>1, <2>1, PapersAreTyped DEF DossierRow
  <2>3. dossiers' = With(dossiers, r, row)
    BY <1>1, <2>1, PapersAreTyped DEF Staged, With
  <2> QED  BY <2>2, <2>3 DEF With, Untouched
<1>2. CASE r \notin DOMAIN dossiers
  BY <1>2 DEF Staged, Untouched
<1> QED  BY <1>1, <1>2

\* A dossier is closed by a report, or by the end of its commission.
LEMMA ReportTouches ==
  ASSUME LedgerInv, NEW r, NEW won, NEW back, dossiers' = Reported(r, won, back)[1]
  PROVE  Untouched({r})
<1>1. CASE r \in DOMAIN dossiers
  <2>1. dossiers' = Except(dossiers, {r})
    BY <1>1 DEF Reported
  <2> QED  BY <2>1, GoneTouches
<1>2. CASE r \notin DOMAIN dossiers
  BY <1>2 DEF Reported, Untouched
<1> QED  BY <1>1, <1>2

\* The same for a commission, which closes one of its dossiers.
LEMMA CloseLinkedTouches ==
  ASSUME LedgerInv, NEW c, NEW won, NEW back, dossiers' = CloseLinked(c, won, back)[1]
  PROVE  \E T : Untouched(T) /\ \A r \in T : r \in Refs /\ Missions[r].link = c
<1>1. CASE Linked(dossiers, c) # {}
  <2>1. PICK r : r = First(dossiers, c)
    OBVIOUS
  <2>2. r \in Refs /\ Missions[r].link = c
    BY <1>1, <2>1, FirstLinked, PapersAreTyped DEF Linked
  <2>3. dossiers' = Except(dossiers, {r})
    BY <1>1, <2>1 DEF CloseLinked
  <2>4. Untouched({r})
    BY <2>3, GoneTouches
  <2> QED  BY <2>2, <2>4
<1>2. CASE Linked(dossiers, c) = {}
  <2>1. Untouched({})
    BY <1>2 DEF CloseLinked, Untouched
  <2> QED  BY <2>1
<1> QED  BY <1>1, <1>2

\* Operations in the field are no escorts: their commission, if they have one, is shared.
LEMMA OpsAreNoEscorts ==
  ASSUME LedgerInv, RoadInv, PapersLast, NEW r \in DOMAIN field
  PROVE  /\ r \notin DOMAIN musters
         /\ r \in DOMAIN dossiers => ~EscortsOnly(Missions[r].link)'
<1>1. r \notin DOMAIN musters /\ Missions[r].kind # "escort" /\ r \in Refs
  BY RoadsAreTyped DEF RoadInv, RoadsAreTaken
<1>2. r \in DOMAIN dossiers => ~EscortsOnly(Missions[r].link)
  BY <1>1 DEF EscortsOnly
<1> QED  BY <1>1, <1>2, SharingLasts

\* An operation goes on, or ends with its report.
LEMMA OperationRoads ==
  ASSUME LedgerInv, RoadInv, PapersLast, NEW r \in Refs,
         \/ Depart(r) \/ Scout(r) \/ LostOnRoad(r) \/ Return(r)
         \/ \E dead \in SUBSET House : Arrive(r, dead)
  PROVE  RoadInv'
<1>1. r \in DOMAIN field /\ UNCHANGED <<contracts, convoys, musters>>
  BY DEF Depart, Scout, LostOnRoad, Return, Arrive
<1>2. r \notin DOMAIN musters /\ (r \in DOMAIN dossiers => ~EscortsOnly(Missions[r].link)')
  BY <1>1, OpsAreNoEscorts
<1>3. ContractsGoOn
  BY <1>1 DEF ContractsGoOn
<1>4. ASSUME NEW phase \in InField, dossiers' = Staged(r, phase), DOMAIN field' = DOMAIN field
      PROVE  RoadInv'
  <2>1. Untouched({r}) /\ (r \in DOMAIN dossiers => r \in DOMAIN dossiers' /\ dossiers'[r].phase = phase)
    BY <1>4, StagedTouches
  <2>2. Spared({r})
    BY <1>1, <1>2, <1>4, <2>1 DEF Spared
  <2>3. NobodySetsOut
    BY <1>1, <1>4 DEF NobodySetsOut
  <2> QED  BY <1>3, <2>1, <2>2, <2>3, RoadsAreKept
<1>5. ASSUME NEW won, NEW back, dossiers' = Reported(r, won, back)[1], field' = Except(field, {r})
      PROVE  RoadInv'
  <2>1. Untouched({r})
    BY <1>5, ReportTouches
  <2>2. DOMAIN field' = DOMAIN field \ {r}
    <3>1. Partial(field, Refs, OpRow)
      BY DEF LedgerInv, MissionTypes, RoadsTyped
    <3> QED  BY <1>5, <3>1, ExceptPartial
  <2>3. Spared({r})
    BY <1>1, <1>2, <2>2 DEF Spared
  <2>4. NobodySetsOut
    BY <1>1, <2>2 DEF NobodySetsOut
  <2> QED  BY <1>3, <2>1, <2>3, <2>4, RoadsAreKept
<1>6. CASE Depart(r)
  <2>1. dossiers' = Staged(r, "in_field") /\ DOMAIN field' = DOMAIN field /\ "in_field" \in InField
    BY <1>6, PlainPapers DEF Depart, InField
  <2> QED  BY <1>4, <2>1
<1>7. CASE Scout(r)
  <2>1. dossiers' = Staged(r, "returning") /\ DOMAIN field' = DOMAIN field /\ "returning" \in InField
    BY <1>7, PlainPapers DEF Scout, InField
  <2> QED  BY <1>4, <2>1
<1>8. CASE LostOnRoad(r)
  <2>1. dossiers' = Reported(r, FALSE, {})[1] /\ field' = Except(field, {r})
    BY <1>8, PlainPapers DEF LostOnRoad
  <2> QED  BY <1>5, <2>1
<1>9. CASE Return(r)
  <2>1. dossiers' = Reported(r, field[r].won, field[r].party)[1] /\ field' = Except(field, {r})
    BY <1>9, PlainPapers DEF Return
  <2> QED  BY <1>5, <2>1
<1>10. ASSUME NEW dead \in SUBSET House, Arrive(r, dead) PROVE RoadInv'
  <2>1. \/ dossiers' = Reported(r, FALSE, {})[1] /\ field' = Except(field, {r})
        \/ dossiers' = dossiers /\ DOMAIN field' = DOMAIN field
    BY <1>10, PlainPapers DEF Arrive
  <2>2. CASE dossiers' = Reported(r, FALSE, {})[1] /\ field' = Except(field, {r})
    BY <1>5, <2>2
  <2>3. CASE dossiers' = dossiers /\ DOMAIN field' = DOMAIN field
    <3>1. Untouched({}) /\ Spared({})
      BY <2>3 DEF Untouched, Spared
    <3>2. NobodySetsOut
      BY <1>1, <2>3 DEF NobodySetsOut
    <3> QED  BY <1>3, <3>1, <3>2, RoadsAreKept
  <2> QED  BY <2>1, <2>2, <2>3
<1> QED  BY <1>6, <1>7, <1>8, <1>9, <1>10

\* An escort reaches the origin, the end of its road, or home.
LEMMA EscortRoads ==
  ASSUME LedgerInv, RoadInv, PapersLast,
         \/ \E r \in Refs : MusterArrives(r)
         \/ \E c \in Contracts : EscortHome(c)
         \/ \E c \in Contracts, won \in BOOLEAN, dead \in SUBSET House : EscortEnds(c, won, dead)
  PROVE  RoadInv'
<1>1. ASSUME NEW r \in Refs, MusterArrives(r) PROVE RoadInv'
  <2>1. musters' = Except(musters, {r}) /\ dossiers' = dossiers /\ UNCHANGED <<contracts, field, convoys>>
    BY <1>1, PlainPapers DEF MusterArrives
  <2>2. DOMAIN musters' \subseteq DOMAIN musters
    <3>1. Partial(musters, Refs, SUBSET House)
      BY DEF LedgerInv, MissionTypes, RoadsTyped
    <3> QED  BY <2>1, <3>1, ExceptPartial
  <2>3. Untouched({}) /\ Spared({}) /\ NobodySetsOut /\ ContractsGoOn
    BY <2>1, <2>2 DEF Untouched, Spared, NobodySetsOut, ContractsGoOn
  <2> QED  BY <2>3, RoadsAreKept
<1>2. ASSUME NEW c \in Contracts, EscortHome(c) PROVE RoadInv'
  <2>1. /\ convoys' = Except(convoys, {c}) /\ c \in DOMAIN convoys
        /\ dossiers' = CloseLinked(c, convoys[c].leg = "back", convoys[c].party)[1]
        /\ UNCHANGED <<contracts, field, musters>>
    BY <1>2, PlainPapers DEF EscortHome
  <2>2. PICK T : Untouched(T) /\ \A r \in T : r \in Refs /\ Missions[r].link = c
    BY <2>1, CloseLinkedTouches
  <2>3. DOMAIN convoys' = DOMAIN convoys \ {c}
    <3>1. Partial(convoys, Contracts, ConvoyRow)
      BY DEF LedgerInv, MissionTypes, RoadsTyped
    <3> QED  BY <2>1, <3>1, ExceptPartial
  <2>4. contracts[c] # "mine"
    BY <2>1 DEF RoadInv, RoadsAreTaken
  <2>5. \A r \in T : Missions[r].link # Nobody
    BY <2>2, MissionAssumption
  <2>6. Spared(T)
    BY <2>1, <2>2, <2>3, <2>4, <2>5 DEF Spared
  <2>7. NobodySetsOut /\ ContractsGoOn
    BY <2>1, <2>3 DEF NobodySetsOut, ContractsGoOn
  <2> QED  BY <2>2, <2>6, <2>7, RoadsAreKept
<1>3. ASSUME NEW c \in Contracts, NEW won \in BOOLEAN, NEW dead \in SUBSET House, EscortEnds(c, won, dead)
      PROVE  RoadInv'
  <2>1. PICK r : r = First(dossiers, c)
    OBVIOUS
  <2>2. PICK T : T = IF won /\ Linked(dossiers, c) # {} THEN {r} ELSE {}
    OBVIOUS
  <2>3. /\ DOMAIN convoys' = DOMAIN convoys /\ c \in DOMAIN convoys
        /\ contracts' = [contracts EXCEPT ![c] = "over"]
        /\ dossiers' = (IF won /\ Linked(dossiers, c) # {} THEN Staged(r, "returning") ELSE dossiers)
        /\ UNCHANGED <<field, musters>>
    BY <1>3, <2>1 DEF EscortEnds, Frontier
  <2>4. contracts'[c] = "over" /\ \A x : x # c => contracts'[x] = contracts[x]
    BY <2>3, PapersAreTyped
  <2>5. Untouched(T) /\ Spared(T)
    <3>1. CASE won /\ Linked(dossiers, c) # {}
      <4>1. Untouched({r}) /\ (r \in DOMAIN dossiers => r \in DOMAIN dossiers' /\ dossiers'[r].phase = "returning")
        BY <2>3, <3>1, StagedTouches
      <4>2. Missions[r].link = c
        BY <2>1, <3>1, FirstLinked, PapersAreTyped DEF Linked
      <4> QED  BY <2>2, <2>4, <3>1, <4>1, <4>2 DEF Spared, InField
    <3>2. CASE ~(won /\ Linked(dossiers, c) # {})
      BY <2>2, <2>3, <3>2 DEF Untouched, Spared
    <3> QED  BY <3>1, <3>2
  <2>6. NobodySetsOut /\ ContractsGoOn
    BY <2>3, <2>4 DEF NobodySetsOut, ContractsGoOn
  <2> QED  BY <2>5, <2>6, RoadsAreKept
<1> QED  BY <1>1, <1>2, <1>3

\* A commission that is not underway ends, and closes nobody's mission in the field.
LEMMA CommissionRoads ==
  ASSUME LedgerInv, RoadInv, PapersLast, NEW c \in Contracts,
         ContractExpires(c) \/ ContractTaken(c)
  PROVE  RoadInv'
<1>1. contracts[c] \in {"open", "mine"} /\ UNCHANGED roads
      /\ \E to \in {"expired", "over"} : contracts' = [contracts EXCEPT ![c] = to]
  BY DEF ContractExpires, ContractTaken
<1>2. contracts'[c] \in {"expired", "over"} /\ \A x : x # c => contracts'[x] = contracts[x]
  BY <1>1, PapersAreTyped
<1>3. c \notin DOMAIN convoys
  BY <1>1 DEF RoadInv, RoadsAreTaken
<1>4. PICK T : Untouched(T) /\ \A r \in T : r \in Refs /\ Missions[r].link = c
  <2>1. CASE dossiers' = dossiers
    <3>1. Untouched({})
      BY <2>1 DEF Untouched
    <3> QED  BY <3>1
  <2>2. CASE dossiers' = CloseLinked(c, FALSE, dossiers[First(dossiers, c)].party)[1]
    BY <2>2, CloseLinkedTouches
  <2>3. dossiers' = dossiers \/ dossiers' = CloseLinked(c, FALSE, dossiers[First(dossiers, c)].party)[1]
    BY PlainPapers DEF ContractExpires, ContractTaken
  <2> QED  BY <2>1, <2>2, <2>3
<1>5. \A r \in T : Missions[r].link # Nobody
  BY <1>4, MissionAssumption
<1>6. Spared(T)
  BY <1>1, <1>2, <1>3, <1>4, <1>5 DEF Spared, roads
<1>7. NobodySetsOut /\ ContractsGoOn
  BY <1>1, <1>2, <1>3 DEF NobodySetsOut, ContractsGoOn, roads
<1> QED  BY <1>4, <1>6, <1>7, RoadsAreKept

\* People die or leave, and the House asks and decides.
LEMMA HouseRoads ==
  ASSUME LedgerInv, RoadInv, PapersLast,
         \/ \E p \in House : Die(p) \/ Leave(p)
         \/ \E needs \in SUBSET Refs : Review(needs)
         \/ \E j \in pending : \E choice \in SUBSET j[2] : Commit(j, choice)
         \/ SettleJudgments
  PROVE  RoadInv'
<1>1. ASSUME NEW p \in House, Die(p) PROVE RoadInv'
  <2>1. /\ field' = Pruned(field, p) /\ DOMAIN convoys' = DOMAIN convoys /\ DOMAIN musters' = DOMAIN musters
        /\ dossiers' = dossiers /\ contracts' = contracts
    BY <1>1, PlainPapers DEF Die
  <2>2. DOMAIN field' \subseteq DOMAIN field
    BY <2>1 DEF Pruned, Except, Restrict
  <2>3. Untouched({}) /\ Spared({}) /\ NobodySetsOut /\ ContractsGoOn
    BY <2>1, <2>2 DEF Untouched, Spared, NobodySetsOut, ContractsGoOn
  <2> QED  BY <2>3, RoadsAreKept
<1>2. ASSUME NEW p \in House, Leave(p) PROVE RoadInv'
  <2>1. dossiers' = dossiers /\ UNCHANGED <<contracts, roads>>
    BY <1>2, PlainPapers DEF Leave
  <2> QED  BY <2>1, SamePapers
<1>3. ASSUME NEW needs \in SUBSET Refs, Review(needs) PROVE RoadInv'
  <2>1. dossiers' = dossiers /\ UNCHANGED <<contracts, roads>>
    BY <1>3 DEF Review, Frontier
  <2> QED  BY <2>1, SamePapers
<1>4. ASSUME NEW j \in pending, NEW choice \in SUBSET j[2], Commit(j, choice) PROVE RoadInv'
  BY <1>4, SamePapers DEF Commit
<1>5. CASE SettleJudgments
  <2>1. PICK new : new = {r \in UNION {e[4] : e \in {e \in committed : e[1] = "assignment"}} : Offerable(r)}
    OBVIOUS
  <2>2. /\ dossiers' = [r \in DOMAIN dossiers \cup new |->
                          IF r \in new THEN Dossier(r, "offered") ELSE dossiers[r]]
        /\ UNCHANGED <<contracts, roads>>
    BY <1>5, <2>1 DEF SettleJudgments, Frontier
  <2>3. \A r \in new : r \notin DOMAIN dossiers
    BY <2>1 DEF Offerable
  <2>4. Untouched({})
    BY <2>2, <2>3 DEF Untouched
  <2> QED  BY <2>2, <2>4, IdlePapers
<1> QED  BY <1>1, <1>2, <1>3, <1>4, <1>5

\* A frontier files away what the event filed away.
LEMMA FrontierLasts ==
  ASSUME LedgerInv, NEW d, NEW a, Filed(d, a), NEW done, NEW ask, ask \subseteq Asked, NEW income \in Int,
         Frontier(d, a, done, ask, income)
  PROVE  dossiers' = d /\ DOMAIN archive' = DOMAIN a
<1>1. Partial(a, Refs, ClosedRow) /\ Clean(a)
  BY FilingKeeps
<1>2. treasury \in Int /\ purse \in [House -> Int] /\ grade \in Int
  BY DEF LedgerInv, MissionTypes, MoneyTyped
<1> QED  BY <1>1, <1>2, FrontierKeeps

\* The same for one that brings nothing in.
LEMMA PlainLasts ==
  ASSUME LedgerInv, NEW d, NEW a, Filed(d, a), Plain(d, a)
  PROVE  dossiers' = d /\ DOMAIN archive' = DOMAIN a
<1>1. Frontier(d, a, {}, {}, 0) /\ 0 \in Int /\ {} \subseteq Asked
  BY DEF Plain
<1> QED  BY <1>1, FrontierLasts

\* What is taken off the dossiers is in the archive.
LEMMA FilingLasts ==
  ASSUME LedgerInv, NEW r, NEW won, NEW back
  PROVE  DOMAIN dossiers \cup DOMAIN archive
           \subseteq DOMAIN Except(dossiers, {r}) \cup DOMAIN Archived(archive, r, won, back)
<1>1. Partial(dossiers, Refs, DossierRow)
  BY DEF LedgerInv, MissionTypes, PapersTyped
<1>2. DOMAIN Except(dossiers, {r}) = DOMAIN dossiers \ {r}
  BY <1>1, ExceptPartial
<1>3. DOMAIN Archived(archive, r, won, back) = DOMAIN archive \cup {r}
  BY DEF Archived, With
<1> QED  BY <1>2, <1>3

\* So it is with reports and the closure of commissions.
LEMMA ReportsLast ==
  ASSUME LedgerInv, NEW r, NEW won, NEW back
  PROVE  DOMAIN dossiers \cup DOMAIN archive
           \subseteq DOMAIN Reported(r, won, back)[1] \cup DOMAIN Reported(r, won, back)[2]
<1>1. CASE r \in DOMAIN dossiers
  <2>1. Reported(r, won, back) = <<Except(dossiers, {r}), Archived(archive, r, won, back)>>
    BY <1>1 DEF Reported
  <2> QED  BY <2>1, FilingLasts
<1>2. CASE r \notin DOMAIN dossiers
  <2>1. Reported(r, won, back) = <<dossiers, archive>>
    BY <1>2 DEF Reported
  <2> QED  BY <2>1
<1> QED  BY <1>1, <1>2

\* The same for a commission.
LEMMA ClosuresLast ==
  ASSUME LedgerInv, NEW c, NEW won, NEW back
  PROVE  DOMAIN dossiers \cup DOMAIN archive
           \subseteq DOMAIN CloseLinked(c, won, back)[1] \cup DOMAIN CloseLinked(c, won, back)[2]
<1>1. CASE Linked(dossiers, c) # {}
  <2>1. PICK r : r = First(dossiers, c)
    OBVIOUS
  <2>2. CloseLinked(c, won, back) = <<Except(dossiers, {r}), Archived(archive, r, won, back)>>
    BY <1>1, <2>1 DEF CloseLinked
  <2> QED  BY <2>2, FilingLasts
<1>2. CASE Linked(dossiers, c) = {}
  <2>1. CloseLinked(c, won, back) = <<dossiers, archive>>
    BY <1>2 DEF CloseLinked
  <2> QED  BY <2>1
<1> QED  BY <1>1, <1>2

\* An event that leaves the dossiers on paper, or changes the phase of one.
LEMMA StagedLasts ==
  ASSUME LedgerInv, NEW r, NEW phase \in Phases \ {"approved"}, talked' = talked,
         Plain(Staged(r, phase), archive) \/ Plain(dossiers, archive)
  PROVE  PapersLast
<1>1. CASE Plain(Staged(r, phase), archive)
  <2>1. Filed(Staged(r, phase), archive) /\ DOMAIN Staged(r, phase) = DOMAIN dossiers
    BY StagedFiles DEF Staged
  <2>2. dossiers' = Staged(r, phase) /\ DOMAIN archive' = DOMAIN archive
    BY <1>1, <2>1, PlainLasts
  <2> QED  BY <2>1, <2>2 DEF PapersLast
<1>2. CASE Plain(dossiers, archive)
  <2>1. dossiers' = dossiers /\ DOMAIN archive' = DOMAIN archive
    BY <1>2, NothingFiles, PlainLasts
  <2> QED  BY <2>1 DEF PapersLast
<1> QED  BY <1>1, <1>2

\* An operation's report loses nothing.
LEMMA ReportLasts ==
  ASSUME LedgerInv, NEW r, NEW won \in BOOLEAN, NEW back \in SUBSET House, talked' = talked,
         NEW told, told = Reported(r, won, back), Plain(told[1], told[2])
  PROVE  PapersLast
<1>1. PICK d, a : d = told[1] /\ a = told[2]
  OBVIOUS
<1>2. Filed(d, a)
  BY <1>1, ReportedFiles
<1>3. dossiers' = d /\ DOMAIN archive' = DOMAIN a
  BY <1>1, <1>2, PlainLasts
<1>4. DOMAIN dossiers \cup DOMAIN archive \subseteq DOMAIN d \cup DOMAIN a
  BY <1>1, ReportsLast
<1> QED  BY <1>3, <1>4 DEF PapersLast

\* Nor does the end of a commission.
LEMMA ClosureLasts ==
  ASSUME LedgerInv, NEW c, NEW won \in BOOLEAN, NEW back \in SUBSET House, talked' = talked,
         NEW told, told = CloseLinked(c, won, back), Plain(told[1], told[2])
  PROVE  PapersLast
<1>1. PICK d, a : d = told[1] /\ a = told[2]
  OBVIOUS
<1>2. Filed(d, a)
  BY <1>1, CloseLinkedFiles
<1>3. dossiers' = d /\ DOMAIN archive' = DOMAIN a
  BY <1>1, <1>2, PlainLasts
<1>4. DOMAIN dossiers \cup DOMAIN archive \subseteq DOMAIN d \cup DOMAIN a
  BY <1>1, ClosuresLast
<1> QED  BY <1>3, <1>4 DEF PapersLast

\* No command of the player takes a dossier off paper but into the archive.
LEMMA CommandsLast == ASSUME LedgerInv, Commands PROVE PapersLast
<1>1. ASSUME NEW r \in Refs, NEW won, NEW back, Close(r, won, back), talked \subseteq talked' PROVE PapersLast
  <2>1. dossiers' = Except(dossiers, {r}) /\ archive' = Archived(archive, r, won, back)
    BY <1>1 DEF Close
  <2> QED  BY <1>1, <2>1, FilingLasts DEF PapersLast
<1>2. ASSUME NEW r \in Refs, Decline(r) \/ Cancel(r) PROVE PapersLast
  BY <1>1, <1>2 DEF Decline, Cancel, Paper, bounds
<1>3. ASSUME NEW r \in Refs, NEW won \in BOOLEAN, NEW n \in Gifts \cup {0}, Diplomacy(r, won, n)
      PROVE  PapersLast
  BY <1>1, <1>3 DEF Diplomacy
<1>4. ASSUME NEW r, NEW row, Note(r, row), talked' = talked PROVE PapersLast
  BY <1>4 DEF Note, With, PapersLast
<1>5. ASSUME NEW r \in Refs, Propose(r) \/ Dispatch(r) \/ Muster(r) PROVE PapersLast
  BY <1>4, <1>5 DEF Propose, Dispatch, Muster, Paper, bounds
<1>6. ASSUME NEW r \in Refs, NEW S \in SUBSET House, Convene(r, S) PROVE PapersLast
  BY <1>4, <1>6 DEF Convene, Paper, bounds
<1>7. ASSUME NEW r \in Refs, NEW plan \in Rosters, SubmitPlan(r, plan) PROVE PapersLast
  BY <1>4, <1>7 DEF SubmitPlan, Paper, bounds
<1>8. ASSUME NEW r \in Refs, AcceptAssignment(r) PROVE PapersLast
  <2>1. PICK d : d = [dossiers EXCEPT ![r].phase = "accepted"]
    OBVIOUS
  <2>2. DOMAIN d = DOMAIN dossiers
    BY <2>1
  <2>3. dossiers' = d \/ dossiers' = Accepted(d, Missions[r].link)
    BY <1>8, <2>1 DEF AcceptAssignment
  <2>4. DOMAIN d \subseteq DOMAIN dossiers'
    BY <2>3 DEF Accepted, With
  <2> QED  BY <1>8, <2>2, <2>4 DEF AcceptAssignment, PapersLast, bounds
<1>9. ASSUME NEW c \in Contracts, AcceptContract(c) PROVE PapersLast
  BY <1>9 DEF AcceptContract, Accepted, With, PapersLast, bounds
<1>10. ASSUME NEW c \in Contracts, StartEscort(c) PROVE PapersLast
  BY <1>4, <1>10 DEF StartEscort, bounds
<1>11. ASSUME NEW n \in Gifts, SilverTalks(n) PROVE PapersLast
  BY <1>11 DEF SilverTalks, PapersLast
<1>12. ASSUME NEW r \in Refs, SettleReward(r) PROVE PapersLast
  <2>1. PICK row : archive' = [archive EXCEPT ![r] = row]
    BY <1>12 DEF SettleReward
  <2>2. DOMAIN archive' = DOMAIN archive
    BY <2>1
  <2> QED  BY <1>12, <2>2 DEF SettleReward, PapersLast, bounds
<1>13. ASSUME NEW r \in Refs, ServiceReview(r) PROVE PapersLast
  <2>1. DOMAIN archive' = DOMAIN archive
    BY <1>13 DEF ServiceReview
  <2> QED  BY <1>13, <2>1 DEF ServiceReview, PapersLast, bounds
<1>14. ASSUME NEW r \in Refs, EarlyReview(r) PROVE PapersLast
  <2>1. DOMAIN archive' = DOMAIN archive \cup {r}
    BY <1>14 DEF EarlyReview, With
  <2> QED  BY <1>14, <2>1 DEF EarlyReview, PapersLast
<1>15. ASSUME NEW r \in Refs, NEW yes \in BOOLEAN, AnswerCareer(r, yes) PROVE PapersLast
  <2>1. DOMAIN archive' = DOMAIN archive
    BY <1>15 DEF AnswerCareer
  <2> QED  BY <1>15, <2>1 DEF AnswerCareer, PapersLast, bounds
<1> QED  BY <1>2, <1>3, <1>5, <1>6, <1>7, <1>8, <1>9, <1>10, <1>11, <1>12, <1>13, <1>14, <1>15 DEF Commands

\* Nor does an event of the world, or a decision of the House.
LEMMA EventsLast == ASSUME LedgerInv, World \/ Judgments PROVE PapersLast
<1>1. ASSUME NEW r \in Refs, Depart(r) \/ Scout(r) \/ MusterArrives(r) PROVE PapersLast
  <2>1. \E phase \in Phases \ {"approved"} : Plain(Staged(r, phase), archive) \/ Plain(dossiers, archive)
    BY <1>1 DEF Depart, Scout, MusterArrives, Phases
  <2> QED  BY <1>1, <2>1, StagedLasts DEF Depart, Scout, MusterArrives, bounds
<1>2. ASSUME NEW r \in Refs, LostOnRoad(r) PROVE PapersLast
  <2>1. PICK told : told = Reported(r, FALSE, {}) /\ Plain(told[1], told[2])
    BY <1>2 DEF LostOnRoad
  <2> QED  BY <1>2, <2>1, ReportLasts DEF LostOnRoad, bounds
<1>3. ASSUME NEW r \in Refs, Return(r) PROVE PapersLast
  <2>1. PICK told : told = Reported(r, field[r].won, field[r].party) /\ Plain(told[1], told[2])
    BY <1>3 DEF Return
  <2>2. field[r].won \in BOOLEAN /\ field[r].party \in SUBSET House
    <3>1. field[r] \in OpRow
      BY <1>3, WorldIsTyped, OpTyped DEF Return
    <3> QED  BY <3>1 DEF OpRow
  <2> QED  BY <1>3, <2>1, <2>2, ReportLasts DEF Return, bounds
<1>4. ASSUME NEW r \in Refs, NEW dead \in SUBSET House, Arrive(r, dead) PROVE PapersLast
  <2>1. PICK told : told = Reported(r, FALSE, {})
    OBVIOUS
  <2>2. Plain(told[1], told[2]) \/ Plain(dossiers, archive)
    BY <1>4, <2>1 DEF Arrive
  <2>3. talked' = talked
    BY <1>4 DEF Arrive, bounds
  <2>4. "in_field" \in Phases \ {"approved"}
    BY DEF Phases
  <2> QED  BY <2>1, <2>2, <2>3, <2>4, ReportLasts, StagedLasts
<1>5. ASSUME NEW c \in Contracts, EscortHome(c) PROVE PapersLast
  <2>1. PICK won, back : won = (convoys[c].leg = "back") /\ back = convoys[c].party
    OBVIOUS
  <2>2. PICK told : told = CloseLinked(c, won, back) /\ Plain(told[1], told[2])
    BY <1>5, <2>1 DEF EscortHome
  <2>3. won \in BOOLEAN
    BY <2>1
  <2>4. back \in SUBSET House
    <3>1. Partial(convoys, Contracts, ConvoyRow) /\ c \in DOMAIN convoys
      BY <1>5, WorldIsTyped DEF RoadsTyped, EscortHome
    <3>2. convoys[c] \in ConvoyRow
      BY <3>1 DEF Partial
    <3> QED  BY <2>1, <3>2 DEF ConvoyRow
  <2> QED  BY <1>5, <2>2, <2>3, <2>4, ClosureLasts DEF EscortHome, bounds
<1>6. ASSUME NEW c \in Contracts, ContractExpires(c) PROVE PapersLast
  <2>1. talked' = talked
    BY <1>6 DEF ContractExpires, bounds
  <2>2. CASE Linked(dossiers, c) = {}
    <3>1. Plain(dossiers, archive) /\ "in_field" \in Phases \ {"approved"}
      BY <1>6, <2>2 DEF ContractExpires, Phases
    <3> QED  BY <2>1, <3>1, StagedLasts
  <2>3. CASE Linked(dossiers, c) # {}
    <3>1. PICK r : r = First(dossiers, c)
      OBVIOUS
    <3>2. PICK told : told = CloseLinked(c, FALSE, dossiers[r].party) /\ Plain(told[1], told[2])
      BY <1>6, <2>3, <3>1 DEF ContractExpires
    <3>3. r \in DOMAIN dossiers
      BY <2>3, <3>1, FirstLinked, PapersAreTyped DEF Linked
    <3>4. dossiers[r].party \in SUBSET House
      BY <3>3, PapersAreTyped DEF DossierRow
    <3> QED  BY <2>1, <3>2, <3>4, ClosureLasts
  <2> QED  BY <2>2, <2>3
<1>7. ASSUME Plain(dossiers, archive), talked' = talked PROVE PapersLast
  <2>1. "in_field" \in Phases \ {"approved"}
    BY DEF Phases
  <2> QED  BY <1>7, <2>1, StagedLasts
<1>8. ASSUME NEW c \in Contracts, ContractTaken(c) PROVE PapersLast
  BY <1>7, <1>8 DEF ContractTaken, bounds
<1>9. ASSUME NEW c \in Contracts, NEW won \in BOOLEAN, NEW dead \in SUBSET House, EscortEnds(c, won, dead)
      PROVE  PapersLast
  <2>1. PICK d : d = IF won /\ Linked(dossiers, c) # {} THEN Staged(First(dossiers, c), "returning")
                     ELSE dossiers
    OBVIOUS
  <2>2. PICK income : income = IF won THEN Fee ELSE 0
    OBVIOUS
  <2>3. Frontier(d, archive, {}, {}, income) /\ talked' = talked
    BY <1>9, <2>1, <2>2 DEF EscortEnds, bounds
  <2>4. income \in Int /\ {} \subseteq Asked
    BY <2>2, MissionAssumption
  <2>5. Filed(d, archive) /\ DOMAIN d = DOMAIN dossiers
    BY <2>1, StagedFiles, NothingFiles DEF Phases, Staged
  <2>6. dossiers' = d /\ DOMAIN archive' = DOMAIN archive
    BY <2>3, <2>4, <2>5, FrontierLasts
  <2> QED  BY <2>3, <2>5, <2>6 DEF PapersLast
<1>10. ASSUME NEW p \in House, Die(p) \/ Leave(p) PROVE PapersLast
  BY <1>7, <1>10 DEF Die, Leave
<1>11. ASSUME NEW needs \in SUBSET Refs, Review(needs) PROVE PapersLast
  <2>1. PICK ask : ask = IF needs = {} \/ HasOpenAssignment(dossiers) THEN {} ELSE {<<"assignment", needs, 0>>}
    OBVIOUS
  <2>2. Frontier(dossiers, archive, {}, ask, 0) /\ talked' = talked
    BY <1>11, <2>1 DEF Review
  <2>3. ask \subseteq Asked /\ 0 \in Int
    BY <2>1 DEF Asked
  <2>4. dossiers' = dossiers /\ DOMAIN archive' = DOMAIN archive
    BY <2>2, <2>3, NothingFiles, FrontierLasts
  <2> QED  BY <2>2, <2>4 DEF PapersLast
<1>12. ASSUME NEW j \in pending, NEW choice \in SUBSET j[2], Commit(j, choice) PROVE PapersLast
  BY <1>12 DEF Commit, PapersLast, bounds
<1>13. CASE SettleJudgments
  <2>1. PICK new : new = {r \in UNION {e[4] : e \in {e \in committed : e[1] = "assignment"}} : Offerable(r)}
    OBVIOUS
  <2>2. PICK d : d = [r \in DOMAIN dossiers \cup new |->
                        IF r \in new THEN Dossier(r, "offered") ELSE dossiers[r]]
    OBVIOUS
  <2>3. PICK done : done = committed
    OBVIOUS
  <2>4. Frontier(d, archive, done, {}, 0) /\ talked' = talked
    BY <1>13, <2>1, <2>2, <2>3 DEF SettleJudgments, bounds
  <2>5. DOMAIN d = DOMAIN dossiers \cup new /\ \A r \in new : r \notin DOMAIN archive
    BY <2>1, <2>2 DEF Offerable
  <2>6. Filed(d, archive) /\ 0 \in Int /\ {} \subseteq Asked
    BY <2>5 DEF Filed
  <2>7. dossiers' = d /\ DOMAIN archive' = DOMAIN archive
    BY <2>4, <2>6, FrontierLasts
  <2> QED  BY <2>4, <2>5, <2>7 DEF PapersLast
<1>14. CASE World
  BY <1>1, <1>2, <1>3, <1>4, <1>5, <1>6, <1>8, <1>9, <1>10, <1>11, <1>14 DEF World
<1>15. CASE Judgments
  BY <1>12, <1>13, <1>15 DEF Judgments
<1> QED  BY <1>14, <1>15

\* Every step keeps the papers of those on the road.
LEMMA RoadsStayKept ==
  ASSUME LedgerInv, RoadInv, [Next]_vars PROVE RoadInv'
<1>1. PapersLast
  <2>1. UNCHANGED vars => PapersLast
    BY DEF vars, bounds, PapersLast
  <2> QED  BY <2>1, CommandsLast, EventsLast DEF Next
<1>2. CASE UNCHANGED vars
  BY <1>1, <1>2, SamePapers DEF vars
<1>3. CASE Commands
  <2>1. ASSUME NEW r \in Refs, SettleReward(r) \/ ServiceReview(r) \/ EarlyReview(r)
                                 \/ \E yes \in BOOLEAN : AnswerCareer(r, yes)
        PROVE  RoadInv'
    BY <1>1, <2>1, SamePapers DEF SettleReward, ServiceReview, EarlyReview, AnswerCareer
  <2>2. ASSUME NEW r \in Refs,
               \/ Propose(r) \/ AcceptAssignment(r) \/ Decline(r) \/ Cancel(r)
               \/ \E S \in SUBSET House : Convene(r, S)
               \/ \E plan \in Rosters : SubmitPlan(r, plan)
               \/ Dispatch(r) \/ Muster(r)
               \/ \E won \in BOOLEAN, n \in Gifts \cup {0} : Diplomacy(r, won, n)
        PROVE  RoadInv'
    BY <1>1, <2>2, PaperWorkRoads, CancelRoads, AcceptRoads, DispatchRoads, MusterRoads
  <2>3. ASSUME NEW c \in Contracts, AcceptContract(c) \/ StartEscort(c) PROVE RoadInv'
    BY <1>1, <2>3, AcceptRoads, StartEscortRoads
  <2>4. ASSUME NEW n \in Gifts, SilverTalks(n) PROVE RoadInv'
    BY <1>1, <2>4, SamePapers DEF SilverTalks
  <2> QED  BY <1>3, <2>1, <2>2, <2>3, <2>4 DEF Commands
<1>4. CASE World
  BY <1>1, <1>4, OperationRoads, EscortRoads, CommissionRoads, HouseRoads DEF World
<1>5. CASE Judgments
  BY <1>1, <1>5, HouseRoads DEF Judgments
<1> QED  BY <1>2, <1>3, <1>4, <1>5 DEF Next

\* People in the field, on an escort and on the way to one have a dossier in that phase,
\* whatever is closed, but for talks over it and for commissions shared with another kind.
THEOREM FieldStaysOnPaper == Spec => []FieldIsOnPaper
<1>1. Init => LedgerInv /\ RoadInv
  <2>1. Init => RoadInv
    BY DEF Init, RoadInv, RoadsAreTaken, FieldIsOnPaper
  <2> QED  BY <2>1, InitLedger
<1>2. (LedgerInv /\ RoadInv) /\ [Next]_vars => (LedgerInv /\ RoadInv)'
  BY LedgerIsKept, RoadsStayKept
<1>3. LedgerInv /\ RoadInv => FieldIsOnPaper
  BY DEF RoadInv
<1> QED  BY <1>1, <1>2, <1>3, PTL DEF Spec

=============================================================================
