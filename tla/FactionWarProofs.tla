----------------------------- MODULE FactionWarProofs -----------------------------
(***************************************************************************)
(* Theorems about operations between factions and prisoners.                *)
(*                                                                          *)
(* A person's place, a prisoner's record and the work of the scheduler are  *)
(* written by different services, none of which reads all three.  The       *)
(* inductive invariant WarInv says what keeps them together:                *)
(*   OpsSound, RoadsSound  what one operation, or one road, may hold at     *)
(*       each stage: whose soldiers, which captives, who may be dead;       *)
(*   Records               a prisoner lives and has one record;             *)
(*   Outward, Homebound    a road and the operation on it agree, and the    *)
(*       wake that would move the party again is not also due;              *)
(*   Recorded              where a record says the prisoner is;             *)
(*   Judged                what an aftermath is judged about stands as the  *)
(*       battle left it until the judgment is settled;                      *)
(*   Alone                 nobody serves two operations.                    *)
(*                                                                          *)
(* Actions are few kinds of step, and each kind has one lemma that keeps    *)
(* WarInv: nobody moves, an operation begins, an operation advances, people *)
(* leave one, a death thins every party at once.  A batch of aftermaths is  *)
(* a recursive function, followed up to the choice that fails, if one does. *)
(***************************************************************************)
EXTENDS FactionWar, SumTheorems

-----------------------------------------------------------------------------
(* Types.                                                                   *)

OpFields   == {"kind", "f", "tgt", "src", "dst", "status", "party", "intent", "aim", "captives",
               "escorts", "loot", "decision", "follow", "issued"}
RoadFields == {"kind", "party", "carried", "captives", "loot", "lost"}
Prisoners  == {"who", "id", "holder", "guard", "at", "demand", "to", "informed"}

IsOp(x) ==
  /\ DOMAIN x = OpFields
  /\ x.party \subseteq People /\ x.issued \subseteq People /\ x.captives \subseteq People
  /\ x.f \in Factions /\ x.follow \in People \cup {Nobody}

IsRoad(x) ==
  /\ DOMAIN x = RoadFields
  /\ x.party \subseteq People /\ x.carried \subseteq People /\ x.captives \subseteq People

IsRecord(r) ==
  DOMAIN r = Prisoners /\ r.who \in People /\ r.informed \subseteq Factions

IsEvent(e) ==
  /\ e[1] = "depart" => e = Depart(e[2], e[3]) /\ e[3] \in {"out", "back"}
  /\ e[1] = "response" => e[3] \in Factions

IsJudgment(j) ==
  /\ j[1] = "captor" => j[3][2] \in Factions
  /\ j[1] = "response" => j[3] \in Factions
  /\ j[1] = "aftermath" => j[3] \subseteq People

OpsTyped(S)     == \A o \in DOMAIN S : IsOp(S[o])
RoadsTyped(S)   == \A m \in DOMAIN S : /\ m = <<m[1], m[2]>> /\ m[2] \in {"out", "back"}
                                       /\ IsRoad(S[m])
RecordsTyped(S) == IsFiniteSet(S) /\ \A r \in S : IsRecord(r)
EventsTyped(S)  == \A e \in S : IsEvent(e)
JudgesTyped(S)  == IsFiniteSet(S) /\ \A j \in S : IsJudgment(j)

\* Aftermaths are judged apart from the rest.
Aftermaths(S) == \A j \in S : j[1] = "aftermath" => \A i \in S : i[1] = "aftermath"

BodyTyped == body \in [People -> {"fit", "hurt", "dead"}]

\* Operations, movements, records, events, judgments and people are of their types.
WarTypes ==
  /\ OpsTyped(ops) /\ RoadsTyped(roads) /\ RecordsTyped(custody) /\ EventsTyped(due)
  /\ JudgesTyped(pending) /\ JudgesTyped(committed) /\ Aftermaths(pending \cup committed)
  /\ BodyTyped

-----------------------------------------------------------------------------
(* Names and people.                                                        *)

\* Every person has one owner, a faction.
LEMMA OwnerIsFaction ==
  /\ \A p \in People : Owner(p) \in Factions /\ p \in Members[Owner(p)]
  /\ \A f \in Factions : \A p \in Members[f] : p \in People /\ Owner(p) = f
<1>1. \A p \in People : \E f \in Factions : p \in Members[f]
  BY DEF People
<1>2. \A p \in People : Owner(p) \in Factions /\ p \in Members[Owner(p)]
  BY <1>1 DEF Owner
<1>3. \A f \in Factions : \A p \in Members[f] : p \in People
  BY DEF People
<1>4. ASSUME NEW f \in Factions, NEW p \in Members[f] PROVE Owner(p) = f
  <2>1. Owner(p) \in Factions /\ p \in Members[Owner(p)]
    BY <1>2, <1>3
  <2>2. Owner(p) # f => Members[Owner(p)] \cap Members[f] = {}
    BY <2>1, WarAssumption
  <2> QED  BY <2>1, <2>2
<1> QED  BY <1>2, <1>3, <1>4

\* There are finitely many people.
LEMMA PeopleAreFinite == IsFiniteSet(People)
<1> DEFINE F == {Members[f] : f \in Factions}
           g == [f \in Factions |-> Members[f]]
<1>1. IsFiniteSet(Factions) /\ \A f \in Factions : IsFiniteSet(Members[f])
  BY WarAssumption
<1>2. g \in Surjection(Factions, F)
  BY DEF Surjection
<1>3. IsFiniteSet(F)
  BY <1>1, <1>2, FS_Surjection
<1>4. \A T \in F : IsFiniteSet(T)
  BY <1>1
<1>5. IsFiniteSet(UNION F)
  BY <1>3, <1>4, FS_UNION
<1> QED  BY <1>5 DEF People

\* The image of a finite set.
LEMMA ImageIsFinite ==
  ASSUME NEW S, IsFiniteSet(S), NEW g, DOMAIN g = S, NEW T, T = {g[x] : x \in S}
  PROVE  IsFiniteSet(T)
<1> DEFINE h == [x \in S |-> g[x]]
<1>1. h \in Surjection(S, T)
  BY DEF Surjection
<1> QED  BY <1>1, FS_Surjection

\* Who is ready belongs to the faction, lives, and is free.
LEMMA ReadyAreFree ==
  ASSUME NEW f \in Factions
  PROVE  /\ Ready(f) \subseteq Members[f] /\ Ready(f) \subseteq People
         /\ \A p \in Ready(f) : p \notin Busy /\ body[p] = "fit"
<1>1. \A p \in Ready(f) : p \in Members[f] /\ p \notin Busy /\ body[p] = "fit"
  BY DEF Ready, Fit
<1>2. Members[f] \subseteq People
  BY OwnerIsFaction
<1> QED  BY <1>1, <1>2

-----------------------------------------------------------------------------
(* What the operators on tables and records keep.                           *)

\* A table of operations with one entry more, with entries less, two tables.
LEMMA TablesOfOps ==
  ASSUME NEW S, OpsTyped(S)
  PROVE  /\ \A k, v : IsOp(v) => OpsTyped(With(S, k, v))
         /\ \A K : OpsTyped(Except(S, K))
         /\ \A T : OpsTyped(T) => OpsTyped(Joined(S, T))
<1>1. ASSUME NEW k, NEW v, IsOp(v) PROVE OpsTyped(With(S, k, v))
  BY <1>1 DEF OpsTyped, With
<1>2. ASSUME NEW K PROVE OpsTyped(Except(S, K))
  BY DEF OpsTyped, Except, Restrict
<1>3. ASSUME NEW T, OpsTyped(T) PROVE OpsTyped(Joined(S, T))
  BY <1>3 DEF OpsTyped, Joined
<1> QED  BY <1>1, <1>2, <1>3

\* The entries of such tables.
LEMMA WithEntry ==
  ASSUME NEW S, NEW k, NEW v
  PROVE  /\ DOMAIN With(S, k, v) = DOMAIN S \cup {k} /\ With(S, k, v)[k] = v
         /\ \A x \in DOMAIN S : x # k => With(S, k, v)[x] = S[x]
  BY DEF With

\* What is left.
LEMMA ExceptEntry ==
  ASSUME NEW S, NEW K
  PROVE  /\ DOMAIN Except(S, K) = DOMAIN S \ K
         /\ \A x \in DOMAIN S \ K : Except(S, K)[x] = S[x]
  BY DEF Except, Restrict

\* The first table goes before the second.
LEMMA JoinedEntry ==
  ASSUME NEW S, NEW T
  PROVE  /\ DOMAIN Joined(S, T) = DOMAIN S \cup DOMAIN T
         /\ \A x \in DOMAIN S : Joined(S, T)[x] = S[x]
         /\ \A x \in DOMAIN T \ DOMAIN S : Joined(S, T)[x] = T[x]
  BY DEF Joined

\* A new operation.
LEMMA NewOp ==
  ASSUME NEW kind, NEW f \in Factions, NEW tgt, NEW party \in SUBSET People, NEW x,
         x = Op(kind, f, tgt, party)
  PROVE  /\ IsOp(x) /\ x.kind = kind /\ x.f = f /\ x.tgt = tgt /\ x.party = party
         /\ x.status = "mobilizing" /\ x.captives = {} /\ x.follow = Nobody /\ x.issued = {}
<1>1. /\ x.kind = kind /\ x.f = f /\ x.tgt = tgt /\ x.party = party
      /\ x.status = "mobilizing" /\ x.captives = {} /\ x.follow = Nobody /\ x.issued = {}
  BY DEF Op
<1>2. DOMAIN x = OpFields
  BY DEF Op, OpFields
<1> QED  BY <1>1, <1>2 DEF IsOp

\* A person set free, on the way home.
LEMMA NewHomeOp ==
  ASSUME NEW p \in People, NEW h, NEW d, NEW x, x = HomeOp(p, h, d)
  PROVE  /\ IsOp(x) /\ x.kind = "home" /\ x.f = Owner(p) /\ x.tgt = d /\ x.party = {p}
         /\ x.status = "return_preparing" /\ x.captives = {} /\ x.follow = Nobody
<1>0. PICK f \in Factions, P \in SUBSET People : f = Owner(p) /\ P = {p}
  BY OwnerIsFaction
<1>1. PICK y : y = Op("home", f, d, P)
  OBVIOUS
<1>2. /\ IsOp(y) /\ y.kind = "home" /\ y.f = f /\ y.tgt = d /\ y.party = P
      /\ y.captives = {} /\ y.follow = Nobody /\ y.issued = {}
  BY <1>1, NewOp
<1>3. x = [y EXCEPT !.src = h, !.status = "return_preparing"]
  BY <1>0, <1>1 DEF HomeOp
<1>4. /\ DOMAIN x = DOMAIN y /\ x.kind = y.kind /\ x.f = y.f /\ x.tgt = y.tgt
      /\ x.party = y.party /\ x.captives = y.captives /\ x.follow = y.follow
      /\ x.issued = y.issued /\ x.status = "return_preparing"
  BY <1>2, <1>3 DEF IsOp, OpFields
<1> QED  BY <1>0, <1>2, <1>4 DEF IsOp

\* An operation of the same purpose.
Same(x, y) == y.kind = x.kind /\ y.f = x.f /\ y.tgt = x.tgt

\* Who sets off, with what he is issued.
Marched(x, s, t) == [x EXCEPT !.status = s, !.issued = @ \cup t]

\* A departure changes the stage and what is issued.
LEMMA MarchedOp ==
  ASSUME NEW x, IsOp(x), NEW s, NEW t \in SUBSET People, NEW y, y = Marched(x, s, t)
  PROVE  /\ IsOp(y) /\ Same(x, y) /\ y.status = s /\ y.party = x.party
         /\ y.captives = x.captives /\ y.follow = x.follow
<1>1. /\ DOMAIN y = DOMAIN x /\ y.kind = x.kind /\ y.f = x.f /\ y.tgt = x.tgt /\ y.status = s
      /\ y.party = x.party /\ y.captives = x.captives /\ y.follow = x.follow
      /\ y.issued = x.issued \cup t
  BY DEF Marched, IsOp, OpFields
<1> QED  BY <1>1 DEF IsOp, Same

\* What the movement owns leaves the operation.
LEMMA HandedOp ==
  ASSUME NEW x, IsOp(x), NEW d, NEW y, y = Handed(x, d)
  PROVE  /\ IsOp(y) /\ Same(x, y) /\ y.status = x.status /\ y.party = x.party
         /\ y.captives = (IF Payload(x, d) THEN {} ELSE x.captives) /\ y.follow = x.follow
<1>1. CASE Payload(x, d)
  <2>1. /\ DOMAIN y = DOMAIN x /\ y.kind = x.kind /\ y.f = x.f /\ y.tgt = x.tgt
        /\ y.status = x.status /\ y.party = x.party /\ y.captives = {} /\ y.follow = x.follow
        /\ y.issued = x.issued
    BY <1>1 DEF Handed, IsOp, OpFields
  <2> QED  BY <2>1, <1>1 DEF IsOp, Same
<1>2. CASE ~Payload(x, d)
  <2>1. y = x
    BY <1>2 DEF Handed
  <2> QED  BY <2>1, <1>2 DEF Same
<1> QED  BY <1>1, <1>2

\* The dead leave an operation.
LEMMA PrunedOne ==
  ASSUME NEW x, IsOp(x), NEW dead, NEW y, y = PrunedOp(x, dead)
  PROVE  /\ IsOp(y) /\ Same(x, y) /\ y.status = x.status /\ y.party = x.party \ dead
         /\ y.captives = x.captives /\ y.follow = x.follow
<1>1. /\ DOMAIN y = DOMAIN x /\ y.kind = x.kind /\ y.f = x.f /\ y.tgt = x.tgt
      /\ y.status = x.status /\ y.party = x.party \ dead /\ y.captives = x.captives
      /\ y.follow = x.follow /\ y.issued = x.issued \ dead
  BY DEF PrunedOp, IsOp, OpFields
<1> QED  BY <1>1 DEF IsOp, Same

\* A party turns back, with the people it has now.
LEMMA TurnedOp ==
  ASSUME NEW x, IsOp(x), NEW party \in SUBSET People, NEW y, y = TurnBack(x, party)
  PROVE  /\ IsOp(y) /\ Same(x, y) /\ y.status = "return_preparing" /\ y.party = party
         /\ y.captives = x.captives /\ y.follow = x.follow
<1>1. /\ DOMAIN y = DOMAIN x /\ y.kind = x.kind /\ y.f = x.f /\ y.tgt = x.tgt
      /\ y.status = "return_preparing" /\ y.party = party /\ y.captives = x.captives
      /\ y.follow = x.follow /\ y.issued = x.issued
  BY DEF TurnBack, IsOp, OpFields
<1> QED  BY <1>1 DEF IsOp, Same

\* The dead leave the operations: those without anybody end.
Spared(S, dead, T) ==
  /\ DOMAIN T = {o \in DOMAIN S : S[o].party \ dead # {}}
  /\ \A o \in DOMAIN T : /\ Same(S[o], T[o]) /\ T[o].status = S[o].status
                         /\ T[o].party = S[o].party \ dead
                         /\ T[o].captives = S[o].captives /\ T[o].follow = S[o].follow

\* What that changes.
LEMMA PrunedAll ==
  ASSUME NEW S, OpsTyped(S), NEW dead, NEW T, T = PrunedOps(S, dead)
  PROVE  OpsTyped(T) /\ Spared(S, dead, T)
<1>1. /\ DOMAIN T = {o \in DOMAIN S : S[o].party \ dead # {}}
      /\ \A o \in DOMAIN T : T[o] = PrunedOp(S[o], dead)
  BY DEF PrunedOps
<1>2. ASSUME NEW o \in DOMAIN T
      PROVE  /\ IsOp(T[o]) /\ Same(S[o], T[o]) /\ T[o].status = S[o].status
             /\ T[o].party = S[o].party \ dead
             /\ T[o].captives = S[o].captives /\ T[o].follow = S[o].follow
  <2>1. IsOp(S[o]) /\ T[o] = PrunedOp(S[o], dead)
    BY <1>1 DEF OpsTyped
  <2> QED  BY <2>1, PrunedOne
<1> QED  BY <1>1, <1>2 DEF OpsTyped, Spared

\* The dead leave a road.
LEMMA PrunedRoadsTyped ==
  ASSUME NEW S, RoadsTyped(S), NEW dead, NEW T, T = PrunedRoads(S, dead)
  PROVE  /\ RoadsTyped(T) /\ DOMAIN T = DOMAIN S
         /\ \A m \in DOMAIN S :
              /\ T[m].party = S[m].party \ dead /\ T[m].kind = S[m].kind
              /\ S[m].party \cap dead = {} => T[m] = S[m]
              /\ S[m].party \cap dead # {} =>
                   /\ T[m].carried = S[m].carried \ dead /\ T[m].captives = S[m].captives \ dead
                   /\ T[m].lost = ((S[m].party \ dead) \subseteq S[m].carried)
<1>1. /\ DOMAIN T = DOMAIN S
      /\ \A m \in DOMAIN S : S[m].party \cap dead = {} => T[m] = S[m]
  BY DEF PrunedRoads
<1>2. ASSUME NEW m \in DOMAIN S, S[m].party \cap dead # {}
      PROVE  /\ DOMAIN T[m] = DOMAIN S[m] /\ T[m].kind = S[m].kind
             /\ T[m].party = S[m].party \ dead
             /\ T[m].carried = S[m].carried \ dead /\ T[m].captives = S[m].captives \ dead
             /\ T[m].lost = ((S[m].party \ dead) \subseteq S[m].carried)
  <2>1. T[m] = [S[m] EXCEPT !.party = @ \ dead, !.carried = @ \ dead, !.captives = @ \ dead,
                            !.lost = (S[m].party \ dead) \subseteq S[m].carried]
    BY <1>2 DEF PrunedRoads
  <2>2. DOMAIN S[m] = RoadFields
    BY DEF RoadsTyped, IsRoad
  <2> QED  BY <2>1, <2>2 DEF RoadFields
<1>3. ASSUME NEW m \in DOMAIN S
      PROVE  /\ IsRoad(T[m]) /\ T[m].party = S[m].party \ dead /\ T[m].kind = S[m].kind
             /\ m = <<m[1], m[2]>> /\ m[2] \in {"out", "back"}
  <2>1. IsRoad(S[m]) /\ m = <<m[1], m[2]>> /\ m[2] \in {"out", "back"}
    BY DEF RoadsTyped
  <2>2. CASE S[m].party \cap dead = {}
    BY <1>1, <2>1, <2>2
  <2>3. CASE S[m].party \cap dead # {}
    BY <1>2, <2>1, <2>3 DEF IsRoad
  <2> QED  BY <2>1, <2>2, <2>3
<1>4. RoadsTyped(T)
  BY <1>1, <1>3 DEF RoadsTyped
<1> QED  BY <1>1, <1>2, <1>3, <1>4

\* An operation that differs in what no property is about.
Like(x, y) ==
  /\ Same(x, y) /\ y.status = x.status /\ y.party = x.party
  /\ y.captives = x.captives /\ y.follow = x.follow

\* The purpose of an operation is written when it is authored.
LEMMA LabelledOp ==
  ASSUME NEW x, IsOp(x), NEW u, NEW v
  PROVE  /\ IsOp([x EXCEPT !.intent = v]) /\ Like(x, [x EXCEPT !.intent = v])
         /\ IsOp([x EXCEPT !.aim = v]) /\ Like(x, [x EXCEPT !.aim = v])
         /\ IsOp([x EXCEPT !.dst = u, !.aim = v]) /\ Like(x, [x EXCEPT !.dst = u, !.aim = v])
<1>1. IsOp([x EXCEPT !.intent = v]) /\ Like(x, [x EXCEPT !.intent = v])
  BY DEF IsOp, OpFields, Like, Same
<1>2. IsOp([x EXCEPT !.aim = v]) /\ Like(x, [x EXCEPT !.aim = v])
  BY DEF IsOp, OpFields, Like, Same
<1>3. IsOp([x EXCEPT !.dst = u, !.aim = v]) /\ Like(x, [x EXCEPT !.dst = u, !.aim = v])
  BY DEF IsOp, OpFields, Like, Same
<1> QED  BY <1>1, <1>2, <1>3

\* A fresh operation: nobody is a prisoner with it yet, and nobody follows it.
Fresh(x, kind, f, tgt, party) ==
  /\ IsOp(x) /\ x.kind = kind /\ x.f = f /\ x.tgt = tgt /\ x.party = party
  /\ x.status = "mobilizing" /\ x.captives = {} /\ x.follow = Nobody

\* The parties that answer a call are members of their factions, at home and free.
LEMMA AidsTyped ==
  ASSUME NEW o, NEW x, NEW answer, Called(o, x, answer), NEW A, A = Aids(o, x, answer)
  PROVE  /\ DOMAIN A = {<<"aid", a, o>> : a \in DOMAIN answer}
         /\ \A a \in DOMAIN answer :
              /\ a \in Factions /\ a # x.f /\ a # x.tgt /\ <<"aid", a, o>> \notin DOMAIN ops
              /\ answer[a] \subseteq Ready(a)
              /\ Fresh(A[<<"aid", a, o>>], "aid", a, x.tgt, answer[a])
         /\ OpsTyped(A)
<1>1. /\ DOMAIN A = {<<"aid", a, o>> : a \in DOMAIN answer}
      /\ \A r \in DOMAIN A : A[r] = [Op("aid", r[2], x.tgt, answer[r[2]]) EXCEPT !.aim = o]
  BY DEF Aids
<1>2. \A a \in DOMAIN answer : a \in Callable(o, x) /\ answer[a] \subseteq Ready(a)
  BY DEF Called
<1>3. ASSUME NEW a \in DOMAIN answer
      PROVE  /\ a \in Factions /\ a # x.f /\ a # x.tgt /\ <<"aid", a, o>> \notin DOMAIN ops
             /\ answer[a] \subseteq Ready(a)
             /\ Fresh(A[<<"aid", a, o>>], "aid", a, x.tgt, answer[a])
  <2>1. /\ a \in Factions /\ a # x.f /\ a # x.tgt /\ <<"aid", a, o>> \notin DOMAIN ops
        /\ answer[a] \subseteq Ready(a)
    BY <1>2 DEF Callable
  <2>2. answer[a] \in SUBSET People
    BY <2>1, ReadyAreFree
  <2>3. PICK y : y = Op("aid", a, x.tgt, answer[a])
    OBVIOUS
  <2>4. /\ IsOp(y) /\ y.kind = "aid" /\ y.f = a /\ y.tgt = x.tgt /\ y.party = answer[a]
        /\ y.status = "mobilizing" /\ y.captives = {} /\ y.follow = Nobody
    BY <2>1, <2>2, <2>3, NewOp
  <2>5. PICK z : z = A[<<"aid", a, o>>]
    OBVIOUS
  <2>6. z = [y EXCEPT !.aim = o]
    BY <1>1, <2>3, <2>5
  <2>7. IsOp(z) /\ Like(y, z)
    BY <2>4, <2>6, LabelledOp
  <2>8. Fresh(z, "aid", a, x.tgt, answer[a])
    BY <2>4, <2>7 DEF Fresh, Like, Same
  <2> QED  BY <2>1, <2>5, <2>8
<1>4. ASSUME NEW r \in DOMAIN A PROVE IsOp(A[r])
  <2>1. PICK a \in DOMAIN answer : r = <<"aid", a, o>>
    BY <1>1
  <2> QED  BY <1>3, <2>1 DEF Fresh
<1> QED  BY <1>1, <1>3, <1>4 DEF OpsTyped

-----------------------------------------------------------------------------
(* What is written to the records of prisoners.                             *)

\* Nobody has two of these records.
Once(S) == \A r, s \in S : r.who = s.who => r = s

\* Records that are written again, or closed.
LEMMA Rewritten ==
  ASSUME NEW C, RecordsTyped(C), NEW g, DOMAIN g \subseteq C,
         \A r \in DOMAIN g : IsRecord(g[r]) /\ g[r].who = r.who,
         NEW D, D = {g[r] : r \in DOMAIN g}
  PROVE  RecordsTyped(D) /\ (Once(C) => Once(D))
<1>1. IsFiniteSet(DOMAIN g)
  BY FS_Subset DEF RecordsTyped
<1>2. IsFiniteSet(D)
  BY <1>1, ImageIsFinite
<1>3. ASSUME Once(C) PROVE Once(D)
  <2>1. SUFFICES ASSUME NEW r \in D, NEW s \in D, r.who = s.who PROVE r = s
    BY DEF Once
  <2>2. PICK a \in DOMAIN g : r = g[a]
    OBVIOUS
  <2>3. PICK b \in DOMAIN g : s = g[b]
    OBVIOUS
  <2>4. a = b
    BY <1>3, <2>1, <2>2, <2>3 DEF Once
  <2> QED  BY <2>2, <2>3, <2>4
<1> QED  BY <1>2, <1>3 DEF RecordsTyped

\* Some records, the rest closed.
LEMMA Closed ==
  ASSUME NEW C, RecordsTyped(C), NEW D, D \subseteq C
  PROVE  RecordsTyped(D) /\ (Once(C) => Once(D))
<1>1. IsFiniteSet(D)
  BY FS_Subset DEF RecordsTyped
<1> QED  BY <1>1 DEF RecordsTyped, Once

\* The place of some prisoners is written again.
Moving(C, D, who, where) ==
  /\ RecordsTyped(D) /\ (Once(C) => Once(D))
  /\ \A d \in D : \E r \in C : d.who = r.who /\ d.at = (IF r.who \in who THEN where ELSE r.at)

\* The captives of a party that sets off.
LEMMA CarriedMoves ==
  ASSUME RecordsTyped(custody), NEW who, NEW where
  PROVE  Moving(custody, Carried(who, where), who, where)
<1> DEFINE g == [r \in custody |-> IF r.who \in who THEN [r EXCEPT !.at = where] ELSE r]
           D == {g[r] : r \in custody}
<1>1. D = Carried(who, where)
  BY DEF Carried
<1>2. ASSUME NEW r \in custody
      PROVE  /\ IsRecord(g[r]) /\ g[r].who = r.who
             /\ g[r].at = (IF r.who \in who THEN where ELSE r.at)
  BY DEF RecordsTyped, IsRecord, Prisoners
<1>3. DOMAIN g = custody
  OBVIOUS
<1> HIDE DEF g
<1>4. RecordsTyped(D) /\ (Once(custody) => Once(D))
  BY <1>2, <1>3, Rewritten
<1> QED  BY <1>1, <1>2, <1>4 DEF Moving

\* The prisoners of raiders who come home.
LEMMA AtHomeMoves ==
  ASSUME RecordsTyped(custody), NEW who, NEW f
  PROVE  Moving(custody, AtHome(who, f), who, <<"site", f>>)
<1> DEFINE g == [r \in custody |-> IF r.who \in who
                                   THEN [r EXCEPT !.at = <<"site", f>>, !.holder = f] ELSE r]
           D == {g[r] : r \in custody}
<1>1. D = AtHome(who, f)
  BY DEF AtHome
<1>2. ASSUME NEW r \in custody
      PROVE  /\ IsRecord(g[r]) /\ g[r].who = r.who
             /\ g[r].at = (IF r.who \in who THEN <<"site", f>> ELSE r.at)
  BY DEF RecordsTyped, IsRecord, Prisoners
<1>3. DOMAIN g = custody
  OBVIOUS
<1> HIDE DEF g
<1>4. RecordsTyped(D) /\ (Once(custody) => Once(D))
  BY <1>2, <1>3, Rewritten
<1> QED  BY <1>1, <1>2, <1>4, ZenonT(60) DEF Moving

\* Records stay where they are; those of the dead close.
Staying(C, D, dead) ==
  /\ RecordsTyped(D) /\ (Once(C) => Once(D))
  /\ \A d \in D : \E r \in C : d.who = r.who /\ d.at = r.at /\ r.who \notin dead

\* After a battle.
LEMMA BattleKeepsRecords ==
  ASSUME NEW C, RecordsTyped(C), NEW dead
  PROVE  Staying(C, AfterBattle(C, dead), dead)
<1> DEFINE K == {r \in C : r.who \notin dead /\ r.holder \notin Extinct(dead)}
           g == [r \in K |-> IF r.guard \in dead THEN [r EXCEPT !.guard = Nobody] ELSE r]
           D == {g[r] : r \in K}
<1>1. D = AfterBattle(C, dead)
  BY DEF AfterBattle
<1>2. ASSUME NEW r \in K
      PROVE  IsRecord(g[r]) /\ g[r].who = r.who /\ g[r].at = r.at /\ r.who \notin dead /\ r \in C
  BY DEF RecordsTyped, IsRecord, Prisoners
<1>3. DOMAIN g = K /\ K \subseteq C
  OBVIOUS
<1> HIDE DEF g, K
<1>4. RecordsTyped(D) /\ (Once(C) => Once(D))
  BY <1>2, <1>3, Rewritten
<1> QED  BY <1>1, <1>2, <1>4 DEF Staying

\* After another death.
LEMMA DeathKeepsRecords ==
  ASSUME NEW C, RecordsTyped(C), NEW p, NEW gone
  PROVE  Staying(C, AfterDeath(C, p, gone), {p})
<1> DEFINE K == {r \in {c \in C : c.who # p /\ c.holder \notin Extinct(gone)} :
                   r.guard = p => Relief(r, gone) # {}}
           g == [r \in K |-> [r EXCEPT !.guard = IF @ = p THEN CHOOSE h \in Relief(r, gone) : TRUE ELSE @]]
           D == {g[r] : r \in K}
<1>1. D = AfterDeath(C, p, gone)
  BY DEF AfterDeath
<1>2. ASSUME NEW r \in K
      PROVE  IsRecord(g[r]) /\ g[r].who = r.who /\ g[r].at = r.at /\ r.who # p /\ r \in C
  BY DEF RecordsTyped, IsRecord, Prisoners
<1>3. DOMAIN g = K /\ K \subseteq C
  OBVIOUS
<1> HIDE DEF g, K
<1>4. RecordsTyped(D) /\ (Once(C) => Once(D))
  BY <1>2, <1>3, Rewritten
<1> QED  BY <1>1, <1>2, <1>4 DEF Staying

-----------------------------------------------------------------------------
(* The settlement of a batch: one choice after another.                     *)

Opening == [ops |-> ops, wealth |-> wealth, custody |-> custody, ok |-> TRUE]

\* The sheets that a batch runs through.
Sheets(s, n, order) == s = [i \in 0 .. n |-> IF i = 0 THEN Opening ELSE Seize(s[i - 1], order[i])]

\* They exist, up to any length.
LEMMA SheetsExist ==
  ASSUME NEW order
  PROVE  \A n \in Nat : \E s : Sheets(s, n, order)
<1> DEFINE N == {n \in Nat : ~\E s : Sheets(s, n, order)}
<1> SUFFICES ASSUME N # {} PROVE FALSE
  OBVIOUS
<1>1. PICK n \in N : \A m \in N : n <= m
  BY LeastNatural
<1>2. n # 0
  <2>1. PICK s : s = [i \in 0 .. 0 |-> Opening]
    OBVIOUS
  <2>2. \A i \in 0 .. 0 : i = 0
    OBVIOUS
  <2>3. s = [i \in 0 .. 0 |-> IF i = 0 THEN Opening ELSE Seize(s[i - 1], order[i])]
    BY <2>1, <2>2
  <2>4. Sheets(s, 0, order)
    BY <2>3 DEF Sheets
  <2> QED  BY <2>4
<1>3. n - 1 \in Nat /\ n - 1 \notin N /\ n \in Nat
  BY <1>1, <1>2
<1>4. PICK g : Sheets(g, n - 1, order)
  BY <1>3
<1>5. PICK h : h = [i \in 0 .. n |-> IF i < n THEN g[i] ELSE Seize(g[n - 1], order[n])]
  OBVIOUS
<1>6. \A i \in 0 .. n : h[i] = IF i = 0 THEN Opening ELSE Seize(h[i - 1], order[i])
  <2> SUFFICES ASSUME NEW i \in 0 .. n
               PROVE  h[i] = IF i = 0 THEN Opening ELSE Seize(h[i - 1], order[i])
    OBVIOUS
  <2>1. CASE i = n
    <3>1. h[n] = Seize(g[n - 1], order[n]) /\ h[n - 1] = g[n - 1]
      BY <1>3, <1>5
    <3> QED  BY <1>2, <2>1, <3>1
  <2>2. CASE i # n
    <3>1. i \in 0 .. n - 1 /\ h[i] = g[i] /\ (i # 0 => h[i - 1] = g[i - 1])
      BY <1>3, <1>5, <2>2
    <3>2. g[i] = IF i = 0 THEN Opening ELSE Seize(g[i - 1], order[i])
      BY <1>4, <3>1 DEF Sheets
    <3> QED  BY <3>1, <3>2
  <2> QED  BY <2>1, <2>2
<1>7. Sheets(h, n, order)
  <2>1. DOMAIN h = 0 .. n
    BY <1>5
  <2> QED  BY <1>5, <1>6, <2>1 DEF Sheets
<1> QED  BY <1>1, <1>7

\* A batch starts from the state and settles one committed judgment after another.
LEMMA BatchIsChain ==
  ASSUME IsFiniteSet(committed), NEW order \in SetToSeqs(committed)
  PROVE  \E n \in Nat : \E s :
           /\ s[0] = Opening /\ Batch(order) = s[n]
           /\ \A i \in 1 .. n : order[i] \in committed /\ s[i] = Seize(s[i - 1], order[i])
<1>1. PICK n \in Nat : n = Cardinality(committed)
  BY FS_CardinalityType
<1>2. order \in [1 .. n -> committed]
  BY <1>1 DEF SetToSeqs
<1>3. Len(order) = n
  BY <1>2
<1>4. PICK s : s = CHOOSE x : Sheets(x, n, order)
  OBVIOUS
<1>5. Sheets(s, n, order)
  BY <1>4, SheetsExist
<1>6. Batch(order) = s[n]
  BY <1>3, <1>4 DEF Batch, Sheets, Opening
<1>7. s[0] = Opening
  BY <1>5 DEF Sheets
<1>8. ASSUME NEW i \in 1 .. n PROVE order[i] \in committed /\ s[i] = Seize(s[i - 1], order[i])
  <2>1. i \in 0 .. n /\ i # 0
    OBVIOUS
  <2>2. s[i] = IF i = 0 THEN Opening ELSE Seize(s[i - 1], order[i])
    BY <1>5, <2>1 DEF Sheets
  <2> QED  BY <1>2, <2>1, <2>2
<1> QED  BY <1>6, <1>7, <1>8

\* A sheet of the batch.
SheetTyped(st) ==
  /\ DOMAIN st = {"ops", "wealth", "custody", "ok"}
  /\ OpsTyped(st.ops) /\ RecordsTyped(st.custody)

\* A choice is carried out: the guard is posted, and the prize is taken.
Done(x, c)       == [x EXCEPT !.decision = FALSE, !.escorts = c]
Looted(x, c, n)  == [Done(x, c) EXCEPT !.loot = Plus(@, n)]
Seized(x, c, p)  == [Done(x, c) EXCEPT !.party = @ \cup {p}, !.captives = @ \cup {p}]

\* What this writes to the operation.
LEMMA DoneOp ==
  ASSUME NEW x, IsOp(x), NEW c
  PROVE  /\ IsOp(Done(x, c)) /\ Like(x, Done(x, c))
         /\ \A n : IsOp(Looted(x, c, n)) /\ Like(x, Looted(x, c, n))
<1>1. PICK y : y = Done(x, c)
  OBVIOUS
<1>2. DOMAIN y = DOMAIN x /\ y.issued = x.issued /\ Like(x, y)
  BY <1>1 DEF Done, IsOp, OpFields, Like, Same
<1>3. IsOp(y)
  BY <1>2 DEF IsOp, Like, Same
<1>4. ASSUME NEW n PROVE IsOp(Looted(x, c, n)) /\ Like(x, Looted(x, c, n))
  <2>1. PICK z : z = Looted(x, c, n)
    OBVIOUS
  <2>2. z = [y EXCEPT !.loot = Plus(@, n)]
    BY <1>1, <2>1 DEF Looted
  <2>3. DOMAIN z = DOMAIN y /\ z.issued = y.issued /\ Like(y, z)
    BY <1>3, <2>2 DEF IsOp, OpFields, Like, Same
  <2> QED  BY <1>2, <1>3, <2>1, <2>3 DEF IsOp, Like, Same
<1> QED  BY <1>1, <1>2, <1>3, <1>4

\* A prisoner joins the party that took him.
LEMMA SeizedOp ==
  ASSUME NEW x, IsOp(x), NEW c, NEW p \in People, NEW z, z = Seized(x, c, p)
  PROVE  /\ IsOp(z) /\ Same(x, z) /\ z.status = x.status /\ z.follow = x.follow
         /\ z.party = x.party \cup {p} /\ z.captives = x.captives \cup {p}
<1>1. PICK y : y = Done(x, c)
  OBVIOUS
<1>2. IsOp(y) /\ Like(x, y)
  BY <1>1, DoneOp
<1>3. z = [y EXCEPT !.party = @ \cup {p}, !.captives = @ \cup {p}]
  BY <1>1 DEF Seized
<1>4. /\ DOMAIN z = DOMAIN y /\ z.issued = y.issued /\ Same(y, z)
      /\ z.status = y.status /\ z.follow = y.follow
      /\ z.party = y.party \cup {p} /\ z.captives = y.captives \cup {p}
  BY <1>2, <1>3 DEF IsOp, OpFields, Like, Same
<1> QED  BY <1>2, <1>4 DEF IsOp, Like, Same

\* A capture takes one of the fallen who is nobody's prisoner.
Takes(st, t, j, p, g) ==
  LET o == j[2]
  IN  /\ o \in DOMAIN st.ops /\ p \in FallenOf(st.ops[o], j[3]) /\ \A r \in st.custody : r.who # p
      /\ t.custody = st.custody \cup {Capture(p, g, o)}
      /\ Same(st.ops[o], t.ops[o])
      /\ t.ops[o].status = st.ops[o].status /\ t.ops[o].follow = st.ops[o].follow
      /\ t.ops[o].party = st.ops[o].party \cup {p}
      /\ t.ops[o].captives = st.ops[o].captives \cup {p}

\* One choice: it changes one operation at most, and may take a prisoner.
SeizesOnce(st, t, j) ==
  /\ SheetTyped(t) /\ DOMAIN t.ops = DOMAIN st.ops
  /\ \A o \in DOMAIN t.ops : o # j[2] => t.ops[o] = st.ops[o]
  /\ \/ t.custody = st.custody /\ \A o \in DOMAIN t.ops : Like(st.ops[o], t.ops[o])
     \/ \E p, g : Takes(st, t, j, p, g)

\* The three forms of a step.
LEMMA NothingSeized ==
  ASSUME NEW st, SheetTyped(st), NEW t, DOMAIN t = DOMAIN st, t.ops = st.ops, t.custody = st.custody,
         NEW j
  PROVE  SeizesOnce(st, t, j)
<1>1. SheetTyped(t)
  BY DEF SheetTyped
<1>2. \A o \in DOMAIN t.ops : Like(st.ops[o], t.ops[o])
  BY DEF Like, Same
<1> QED  BY <1>1, <1>2 DEF SeizesOnce

\* An operation is written with its prize.
LEMMA LootSeized ==
  ASSUME NEW st, SheetTyped(st), NEW j, j[2] \in DOMAIN st.ops, NEW x, IsOp(x),
         Like(st.ops[j[2]], x), NEW t,
         DOMAIN t = DOMAIN st, DOMAIN t.ops = DOMAIN st.ops, t.ops[j[2]] = x,
         \A o \in DOMAIN t.ops : o # j[2] => t.ops[o] = st.ops[o], t.custody = st.custody
  PROVE  SeizesOnce(st, t, j)
<1>1. OpsTyped(t.ops)
  BY DEF SheetTyped, OpsTyped
<1>2. SheetTyped(t)
  BY <1>1 DEF SheetTyped
<1>3. \A o \in DOMAIN t.ops : Like(st.ops[o], t.ops[o])
  BY DEF Like, Same
<1> QED  BY <1>2, <1>3 DEF SeizesOnce

\* A new record.
LEMMA CaptureTyped ==
  ASSUME NEW p \in People, NEW g, NEW o, NEW r, r = Capture(p, g, o)
  PROVE  IsRecord(r) /\ r.who = p /\ r.at = <<"site", ops[o].dst>> /\ r.holder = ops[o].f
  BY DEF Capture, IsRecord, Prisoners

\* One choice changes a typed sheet as described.
LEMMA SeizeStep ==
  ASSUME NEW st, SheetTyped(st), NEW j, j[3] \subseteq People, NEW t, t = Seize(st, j)
  PROVE  SeizesOnce(st, t, j)
<1>1. PICK o, op, carriers, pick :
        /\ o = j[2] /\ op = st.ops[o] /\ carriers = Carriers(op.party, op.f) /\ pick = j[4]
  OBVIOUS
<1> DEFINE idle == ~st.ok \/ o \notin DOMAIN st.ops \/ carriers = {}
           open == Options(op, carriers, FallenOf(op, j[3]), st.wealth[op.tgt], st.custody)
<1>2. CASE idle
  <2>1. t = st
    BY <1>1, <1>2 DEF Seize
  <2> QED  BY <2>1, NothingSeized
<1>3. CASE ~idle /\ pick \notin open
  <2>1. t = [st EXCEPT !.ok = FALSE]
    BY <1>1, <1>3 DEF Seize
  <2>2. DOMAIN t = DOMAIN st /\ t.ops = st.ops /\ t.custody = st.custody
    BY <2>1 DEF SheetTyped
  <2> QED  BY <2>2, NothingSeized
<1>4. CASE ~idle /\ pick \in open /\ pick[1] = "withdraw"
  <2>1. t = [st EXCEPT !.ops[o] = Done(op, carriers)]
    BY <1>1, <1>4 DEF Seize, Done
  <2>2. PICK x : x = Done(op, carriers)
    OBVIOUS
  <2>3. /\ DOMAIN t = DOMAIN st /\ DOMAIN t.ops = DOMAIN st.ops /\ t.ops[o] = x
        /\ t.custody = st.custody /\ \A s \in DOMAIN t.ops : s # o => t.ops[s] = st.ops[s]
    BY <1>4, <2>1, <2>2 DEF SheetTyped
  <2>4. IsOp(op)
    BY <1>1, <1>4 DEF SheetTyped, OpsTyped
  <2>5. IsOp(x) /\ Like(op, x)
    BY <2>2, <2>4, DoneOp
  <2> QED  BY <1>1, <1>4, <2>3, <2>5, LootSeized
<1>5. CASE ~idle /\ pick \in open /\ pick[1] = "seize"
  <2>1. t = [st EXCEPT !.ops[o] = Looted(op, carriers, Only(pick[2], pick[3])),
                       !.wealth[op.tgt] = Minus(@, Only(pick[2], pick[3]))]
    BY <1>1, <1>5 DEF Seize, Done, Looted
  <2>2. PICK x : x = Looted(op, carriers, Only(pick[2], pick[3]))
    OBVIOUS
  <2>3. /\ DOMAIN t = DOMAIN st /\ DOMAIN t.ops = DOMAIN st.ops /\ t.ops[o] = x
        /\ t.custody = st.custody /\ \A s \in DOMAIN t.ops : s # o => t.ops[s] = st.ops[s]
    BY <1>5, <2>1, <2>2 DEF SheetTyped
  <2>4. IsOp(op)
    BY <1>1, <1>5 DEF SheetTyped, OpsTyped
  <2>5. IsOp(x) /\ Like(op, x)
    BY <2>2, <2>4, DoneOp
  <2> QED  BY <1>1, <1>5, <2>3, <2>5, LootSeized
<1>6. CASE ~idle /\ pick \in open /\ pick[1] # "withdraw" /\ pick[1] # "seize"
  <2>1. t = [st EXCEPT !.ops[o] = Seized(op, carriers, pick[2]),
                       !.custody = @ \cup {Capture(pick[2], pick[3], o)}]
    BY <1>1, <1>6 DEF Seize, Done, Seized
  <2>2. pick[2] \in FallenOf(op, j[3]) \ {c.who : c \in st.custody}
    BY <1>6 DEF Options
  <2>3. PICK p : p = pick[2]
    OBVIOUS
  <2>4. p \in People /\ p \in FallenOf(op, j[3]) /\ \A r \in st.custody : r.who # p
    BY <2>2, <2>3 DEF FallenOf
  <2>5. PICK r : r = Capture(p, pick[3], o)
    OBVIOUS
  <2>6. PICK x : x = Seized(op, carriers, p)
    OBVIOUS
  <2>7. /\ DOMAIN t = DOMAIN st /\ DOMAIN t.ops = DOMAIN st.ops /\ t.ops[o] = x
        /\ t.custody = st.custody \cup {r}
        /\ \A s \in DOMAIN t.ops : s # o => t.ops[s] = st.ops[s]
    BY <1>6, <2>1, <2>3, <2>5, <2>6 DEF SheetTyped
  <2>8. IsOp(op)
    BY <1>1, <1>6 DEF SheetTyped, OpsTyped
  <2>9. /\ IsOp(x) /\ Same(op, x) /\ x.status = op.status /\ x.follow = op.follow
        /\ x.party = op.party \cup {p} /\ x.captives = op.captives \cup {p}
    BY <2>4, <2>6, <2>8, SeizedOp
  <2>10. IsRecord(r)
    BY <2>4, <2>5, CaptureTyped
  <2>11. RecordsTyped(t.custody)
    BY <2>7, <2>10, FS_AddElement DEF SheetTyped, RecordsTyped
  <2>12. OpsTyped(t.ops)
    BY <2>7, <2>9 DEF SheetTyped, OpsTyped
  <2>13. SheetTyped(t)
    BY <2>7, <2>11, <2>12 DEF SheetTyped
  <2>14. Takes(st, t, j, p, pick[3])
    BY <1>1, <1>6, <2>4, <2>5, <2>7, <2>9 DEF Takes
  <2> QED  BY <1>1, <2>7, <2>13, <2>14 DEF SeizesOnce
<1> QED  BY <1>2, <1>3, <1>4, <1>5, <1>6

-----------------------------------------------------------------------------
(* Types are kept.                                                          *)

\* The events.
LEMMA EventNames ==
  /\ \A o : /\ IsEvent(Depart(o, "out")) /\ IsEvent(Depart(o, "back"))
            /\ IsEvent(<<"arrive", o>>) /\ IsEvent(<<"return", o>>) /\ IsEvent(<<"captor", o>>)
  /\ \A i, h : \A f \in Factions : IsEvent(<<"response", i, f, h>>)
<1>1. ASSUME NEW o
      PROVE  /\ IsEvent(Depart(o, "out")) /\ IsEvent(Depart(o, "back"))
             /\ IsEvent(<<"arrive", o>>) /\ IsEvent(<<"return", o>>) /\ IsEvent(<<"captor", o>>)
  BY DEF IsEvent, Depart
<1>2. ASSUME NEW i, NEW h, NEW f \in Factions PROVE IsEvent(<<"response", i, f, h>>)
  BY DEF IsEvent
<1> QED  BY <1>1, <1>2

-----------------------------------------------------------------------------
(* The inductive invariant about people and prisoners.                      *)

\* p serves o: by its deployment or on one of its roads.
Serves(p, o) ==
  \/ o \in DOMAIN ops /\ p \in ops[o].party
  \/ \E d \in {"out", "back"} : <<o, d>> \in DOMAIN roads /\ p \in roads[<<o, d>>].party

\* Nobody serves two operations.
Alone == \A p \in People : \A o, s : Serves(p, o) /\ Serves(p, s) => o = s

Setting == {"mobilizing", "traveling_outbound", "arrived_pending"}

\* An operation is what its name says; its captives and whoever is set free with
\* it are in the party or dead; the dead serve only a way home that was booked
\* too late; nobody sets out as a prisoner.
OpSound(o, x, C, b) ==
  /\ x.kind = o[1] /\ x.f = o[2]
  /\ o[1] = "raid" => x.tgt = o[3] /\ x.tgt \in Factions
  /\ o[1] = "aid" => x.party \subseteq Members[o[2]] /\ x.tgt # o[2]
  /\ x.follow # Nobody => /\ x.status \in {"return_preparing", "traveling_return"}
                          /\ x.follow \in x.party \/ b[x.follow] = "dead"
  /\ \A p \in x.party : b[p] = "dead" => o = HomeRef(p)
  /\ x.captives # {} => o[1] = "raid" /\ x.status \notin Setting \cup {"holding_defense"}
  /\ \A p \in x.captives : p \in x.party \/ b[p] = "dead"
  /\ x.status \in Setting => \A r \in C : r.who \notin x.party

\* The living are on a road, the people they bring among them; a party that is
\* nobody is lost; nobody marches out as a prisoner.
RoadSound(m, y, C, b) ==
  /\ m[2] = "out" => /\ m[1][1] # "home" /\ \A r \in C : r.who \notin y.party
                     /\ m[1][1] = "aid" => y.party \subseteq Members[m[1][2]]
  /\ y.kind = "travel" => y.captives = {} /\ y.carried \subseteq y.party
  /\ y.party = {} => y.lost
  /\ \A p \in y.party : b[p] # "dead"

OpsSound   == \A o \in DOMAIN ops : OpSound(o, ops[o], custody, body)
RoadsSound == \A m \in DOMAIN roads : RoadSound(m, roads[m], custody, body)

\* Prisoners live and are held once.
Records == Once(custody) /\ \A r \in custody : body[r.who] # "dead"

\* A party on the road out is on that stage, or its operation is over; nobody
\* who was set free is sent out.
Outward ==
  \A o : /\ <<o, "out">> \in DOMAIN roads /\ o \in DOMAIN ops =>
              /\ ops[o].status \in {"mobilizing", "traveling_outbound"}
              /\ ops[o].status = "traveling_outbound" => <<"arrive", o>> \notin due
         /\ Depart(o, "out") \in due => o[1] # "home"

\* A party on the road back belongs to the operation that comes home by it alone.
Homebound ==
  \A o : <<o, "back">> \in DOMAIN roads /\ roads[<<o, "back">>].party # {} =>
           /\ o \in DOMAIN ops /\ ops[o].status = "traveling_return"
           /\ roads[<<o, "back">>].party \subseteq ops[o].party
           /\ <<"return", o>> \notin due

\* Where the records point.
Recorded ==
  \A r \in custody :
    /\ r.at[1] = "road" => <<r.at[2], "back">> \in DOMAIN roads
                           /\ r.who \in roads[<<r.at[2], "back">>].captives
    /\ r.at[1] = "op" => /\ r.at[2] \in DOMAIN ops /\ r.who \in ops[r.at[2]].captives
                         /\ ops[r.at[2]].status = "traveling_return"
                         /\ <<"return", r.at[2]>> \in due
                         /\ <<r.at[2], "back">> \notin DOMAIN roads

\* Nobody's soldier, nobody's prisoner.
AtLiberty(p) == (\A o : ~Serves(p, o)) /\ \A r \in custody : r.who # p

\* What an aftermath is judged about stays as the battle left it.
Stands(j) ==
  /\ j[2][1] = "raid" /\ <<"arrive", j[2]>> \notin due
  /\ j[2] \in DOMAIN ops => ops[j[2]].status = "return_preparing"
  /\ \A p \in j[3] : p \in Members[j[2][3]] => AtLiberty(p)

Judged == \A j \in pending \cup committed : j[1] = "aftermath" => Stands(j)

WarInv ==
  /\ WarTypes /\ OpsSound /\ RoadsSound /\ Records /\ Outward /\ Homebound /\ Recorded
  /\ Judged /\ Alone

-----------------------------------------------------------------------------
(* What soundness of one operation or one road depends on.                  *)

\* Nobody becomes a prisoner.
Fewer(C, D) == \A d \in D : \E r \in C : d.who = r.who

\* Those who die.
Dying(b, b2, dead) == \A p \in People : b2[p] = "dead" <=> b[p] = "dead" \/ p \in dead

\* An operation whose dead leave it.
LEMMA OpStaysSound ==
  ASSUME NEW o, NEW x, IsOp(x), NEW y, NEW C, NEW D, NEW b, NEW b2, NEW dead,
         OpSound(o, x, C, b), Same(x, y), y.follow = x.follow, y.captives = x.captives,
         y.status = x.status, y.party = x.party \ dead, Fewer(C, D), Dying(b, b2, dead)
  PROVE  OpSound(o, y, D, b2)
<1>1. x.party \subseteq People /\ x.captives \subseteq People /\ x.follow \in People \cup {Nobody}
  BY DEF IsOp
<1>2. /\ y.kind = o[1] /\ y.f = o[2]
      /\ o[1] = "raid" => y.tgt = o[3] /\ y.tgt \in Factions
      /\ o[1] = "aid" => y.party \subseteq Members[o[2]] /\ y.tgt # o[2]
  BY DEF OpSound, Same
<1>3. y.follow # Nobody => /\ y.status \in {"return_preparing", "traveling_return"}
                           /\ y.follow \in y.party \/ b2[y.follow] = "dead"
  BY <1>1 DEF OpSound, Dying
<1>4. \A p \in y.party : b2[p] = "dead" => o = HomeRef(p)
  BY <1>1 DEF OpSound, Dying
<1>5. /\ y.captives # {} => o[1] = "raid" /\ y.status \notin Setting \cup {"holding_defense"}
      /\ \A p \in y.captives : p \in y.party \/ b2[p] = "dead"
  BY <1>1 DEF OpSound, Dying
<1>6. y.status \in Setting => \A r \in D : r.who \notin y.party
  BY DEF OpSound, Fewer
<1> QED  BY <1>2, <1>3, <1>4, <1>5, <1>6 DEF OpSound

\* An operation that nothing happens to.
LEMMA OpUntouched ==
  ASSUME NEW o, NEW x, IsOp(x), NEW C, NEW D, NEW b, OpSound(o, x, C, b), Fewer(C, D)
  PROVE  OpSound(o, x, D, b)
  BY DEF OpSound, Fewer

\* A road whose dead leave it.
LEMMA RoadStaysSound ==
  ASSUME NEW m, NEW x, IsRoad(x), NEW y, NEW C, NEW D, NEW b, NEW b2, NEW dead,
         RoadSound(m, x, C, b), Fewer(C, D), Dying(b, b2, dead),
         y.kind = x.kind, y.party = x.party \ dead,
         x.party \cap dead = {} => y = x,
         x.party \cap dead # {} => /\ y.carried = x.carried \ dead /\ y.captives = x.captives \ dead
                                   /\ y.lost = ((x.party \ dead) \subseteq x.carried)
  PROVE  RoadSound(m, y, D, b2)
<1>1. x.party \subseteq People /\ y.party \subseteq x.party
  BY DEF IsRoad
<1>2. m[2] = "out" => /\ m[1][1] # "home" /\ \A r \in D : r.who \notin y.party
                      /\ m[1][1] = "aid" => y.party \subseteq Members[m[1][2]]
  BY <1>1 DEF RoadSound, Fewer
<1>3. \A p \in y.party : b2[p] # "dead"
  BY <1>1 DEF RoadSound, Dying
<1>4. CASE x.party \cap dead = {}
  <2>1. y = x
    BY <1>4
  <2>2. /\ y.kind = "travel" => y.captives = {} /\ y.carried \subseteq y.party
        /\ y.party = {} => y.lost
    BY <2>1 DEF RoadSound
  <2> QED  BY <1>2, <1>3, <2>2 DEF RoadSound
<1>5. CASE x.party \cap dead # {}
  <2>1. y.kind = "travel" => y.captives = {} /\ y.carried \subseteq y.party
    BY <1>5 DEF RoadSound
  <2>2. y.party = {} => y.lost
    BY <1>5
  <2> QED  BY <1>2, <1>3, <2>1, <2>2 DEF RoadSound
<1> QED  BY <1>4, <1>5

\* A road that nothing happens to.
LEMMA RoadUntouched ==
  ASSUME NEW m, NEW x, NEW C, NEW D, NEW b, RoadSound(m, x, C, b), Fewer(C, D)
  PROVE  RoadSound(m, x, D, b)
  BY DEF RoadSound, Fewer

\* A fresh operation with people who live and are free.
LEMMA FreshIsSound ==
  ASSUME NEW o, NEW x, NEW party, Fresh(x, o[1], o[2], x.tgt, party),
         o[1] = "raid" => x.tgt = o[3] /\ x.tgt \in Factions,
         o[1] = "aid" => party \subseteq Members[o[2]] /\ x.tgt # o[2],
         NEW C, NEW b, \A p \in party : b[p] # "dead" /\ \A r \in C : r.who # p
  PROVE  OpSound(o, x, C, b)
  BY DEF OpSound, Fresh, Setting

-----------------------------------------------------------------------------
(* Who is free.                                                             *)

\* Whoever is not busy serves nobody and is nobody's prisoner.
LEMMA FreeServesNobody ==
  ASSUME RoadsTyped(roads), NEW p, p \notin Busy
  PROVE  AtLiberty(p)
<1>1. ASSUME NEW o, Serves(p, o) PROVE FALSE
  <2>1. CASE o \in DOMAIN ops /\ p \in ops[o].party
    BY <2>1 DEF Busy, OnOps
  <2>2. CASE \E d \in {"out", "back"} : <<o, d>> \in DOMAIN roads /\ p \in roads[<<o, d>>].party
    BY <2>2 DEF Busy
  <2> QED  BY <1>1, <2>1, <2>2 DEF Serves
<1>2. p \notin Held
  BY DEF Busy
<1>3. \A r \in custody : r.who # p
  BY <1>2 DEF Held
<1> QED  BY <1>1, <1>3 DEF AtLiberty

\* A prisoner who is in no party is on no road either.
LEMMA PrisonerServesNobody ==
  ASSUME WarInv, NEW r \in custody, r.who \notin OnOps
  PROVE  \A o : ~Serves(r.who, o)
<1>1. ASSUME NEW o, NEW d \in {"out", "back"}, <<o, d>> \in DOMAIN roads,
             r.who \in roads[<<o, d>>].party
      PROVE  FALSE
  <2>1. CASE d = "out"
    <3>1. RoadSound(<<o, "out">>, roads[<<o, "out">>], custody, body)
      BY <1>1, <2>1 DEF WarInv, RoadsSound
    <3> QED  BY <1>1, <2>1, <3>1 DEF RoadSound
  <2>2. CASE d = "back"
    <3>1. o \in DOMAIN ops /\ r.who \in ops[o].party
      BY <1>1, <2>2 DEF WarInv, Homebound
    <3> QED  BY <3>1 DEF OnOps
  <2> QED  BY <2>1, <2>2
<1>2. \A o : o \in DOMAIN ops => r.who \notin ops[o].party
  BY DEF OnOps
<1> QED  BY <1>1, <1>2 DEF Serves

\* Nobody serves two when those who newly serve served nobody.
LEMMA AloneStays ==
  ASSUME Alone, NEW N,
         \A p \in People : \A o : Serves(p, o)' => Serves(p, o) \/ <<p, o>> \in N,
         \A p \in People : \A o, s : <<p, o>> \in N => ~Serves(p, s),
         \A p \in People : \A o, s : <<p, o>> \in N /\ <<p, s>> \in N => o = s
  PROVE  Alone'
<1> SUFFICES ASSUME NEW p \in People, NEW o, NEW s, Serves(p, o)', Serves(p, s)' PROVE o = s
  BY DEF Alone
<1>1. Serves(p, o) \/ <<p, o>> \in N
  OBVIOUS
<1>2. Serves(p, s) \/ <<p, s>> \in N
  OBVIOUS
<1> QED  BY <1>1, <1>2 DEF Alone

-----------------------------------------------------------------------------
(* Steps that move nobody.                                                  *)

\* Records are written again where they are, or closed.
Stays(C, D) == Once(D) /\ \A d \in D : \E r \in C : d.who = r.who /\ d.at = r.at

\* Events that say where an operation is come and go with it.
Timing(D, E) ==
  /\ \A o : /\ <<"arrive", o>> \in E => <<"arrive", o>> \in D
            /\ <<"return", o>> \in E => <<"return", o>> \in D
            /\ Depart(o, "out") \in E => Depart(o, "out") \in D
            /\ <<"return", o>> \in D /\ o \in DOMAIN ops /\ ops[o].status = "traveling_return"
                 => <<"return", o>> \in E

\* What waits for a judgment waits as it did.
LEMMA NobodyMoves ==
  ASSUME WarInv, WarTypes', UNCHANGED <<ops, roads>>, Dying(body, body', {}),
         Stays(custody, custody'), Timing(due, due'),
         \A j \in (pending \cup committed)' : j[1] = "aftermath" =>
           \E i \in pending \cup committed : i[1] = "aftermath" /\ i[2] = j[2] /\ i[3] = j[3]
  PROVE  WarInv'
<1>0. Fewer(custody, custody')
  BY DEF Stays, Fewer
<1>1. OpsSound'
  <2> SUFFICES ASSUME NEW o \in DOMAIN ops PROVE OpSound(o, ops[o], custody', body')
    BY DEF OpsSound
  <2>1. IsOp(ops[o]) /\ OpSound(o, ops[o], custody, body)
    BY DEF WarInv, WarTypes, OpsTyped, OpsSound
  <2>2. Same(ops[o], ops[o]) /\ ops[o].party = ops[o].party \ {}
    BY DEF Same
  <2> QED  BY <1>0, <2>1, <2>2, OpStaysSound
<1>2. RoadsSound'
  <2> SUFFICES ASSUME NEW m \in DOMAIN roads PROVE RoadSound(m, roads[m], custody', body')
    BY DEF RoadsSound
  <2>1. IsRoad(roads[m]) /\ RoadSound(m, roads[m], custody, body)
    BY DEF WarInv, WarTypes, RoadsTyped, RoadsSound
  <2>2. roads[m].party = roads[m].party \ {} /\ roads[m].party \cap {} = {}
    OBVIOUS
  <2> QED  BY <1>0, <2>1, <2>2, RoadStaysSound
<1>3. Records'
  <2>1. \A r \in custody : r.who \in People /\ body[r.who] # "dead"
    BY DEF WarInv, WarTypes, RecordsTyped, IsRecord, Records
  <2>2. \A d \in custody' : body'[d.who] # "dead"
    BY <2>1 DEF Stays, Dying
  <2> QED  BY <2>2 DEF Records, Stays
<1>4. Outward'
  <2>1. Outward
    BY DEF WarInv
  <2> QED  BY <2>1 DEF Outward, Timing
<1>5. Homebound'
  <2>1. Homebound
    BY DEF WarInv
  <2> QED  BY <2>1 DEF Homebound, Timing
<1>6. Recorded'
  <2> SUFFICES ASSUME NEW d \in custody'
               PROVE  /\ d.at[1] = "road" => <<d.at[2], "back">> \in DOMAIN roads
                                            /\ d.who \in roads[<<d.at[2], "back">>].captives
                      /\ d.at[1] = "op" => /\ d.at[2] \in DOMAIN ops /\ d.who \in ops[d.at[2]].captives
                                           /\ ops[d.at[2]].status = "traveling_return"
                                           /\ <<"return", d.at[2]>> \in due'
                                           /\ <<d.at[2], "back">> \notin DOMAIN roads
    BY DEF Recorded
  <2>1. PICK r \in custody : d.who = r.who /\ d.at = r.at
    BY DEF Stays
  <2>2. /\ r.at[1] = "road" => <<r.at[2], "back">> \in DOMAIN roads
                              /\ r.who \in roads[<<r.at[2], "back">>].captives
        /\ r.at[1] = "op" => /\ r.at[2] \in DOMAIN ops /\ r.who \in ops[r.at[2]].captives
                             /\ ops[r.at[2]].status = "traveling_return"
                             /\ <<"return", r.at[2]>> \in due
                             /\ <<r.at[2], "back">> \notin DOMAIN roads
    BY DEF WarInv, Recorded
  <2> QED  BY <2>1, <2>2 DEF Timing
<1>7. \A p, o : Serves(p, o)' <=> Serves(p, o)
  BY DEF Serves
<1>8. Judged'
  <2> SUFFICES ASSUME NEW j \in (pending \cup committed)', j[1] = "aftermath" PROVE Stands(j)'
    BY DEF Judged
  <2>1. PICK i \in pending \cup committed : i[1] = "aftermath" /\ i[2] = j[2] /\ i[3] = j[3]
    OBVIOUS
  <2>2. Stands(i)
    BY <2>1 DEF WarInv, Judged
  <2>3. \A p : AtLiberty(p) => AtLiberty(p)'
    BY <1>0, <1>7 DEF AtLiberty, Fewer
  <2> QED  BY <2>1, <2>2, <2>3 DEF Stands, Timing
<1>9. Alone'
  BY <1>7 DEF WarInv, Alone
<1> QED  BY <1>1, <1>2, <1>3, <1>4, <1>5, <1>6, <1>8, <1>9 DEF WarInv

\* Nothing at all changes.
LEMMA RecordsUnchanged ==
  ASSUME WarInv, UNCHANGED <<custody, body, due>>
  PROVE  Stays(custody, custody') /\ Dying(body, body', {}) /\ Timing(due, due')
  BY DEF WarInv, Records, Stays, Dying, Timing

\* Events are told apart by their first word, and by the operation.
LEMMA EventsApart ==
  /\ \A o, d, s : Depart(o, d) # <<"arrive", s>> /\ Depart(o, d) # <<"return", s>>
  /\ \A o, s : <<"arrive", o>> # <<"return", s>> /\ Depart(o, "back") # Depart(s, "out")
  /\ \A o, s : Depart(o, "out") = Depart(s, "out") => o = s
  /\ \A o, s : <<"arrive", o>> = <<"arrive", s>> => o = s
  /\ \A o, s : <<"return", o>> = <<"return", s>> => o = s
  /\ \A e, s, d : e[1] \in {"captor", "response"} =>
       e # <<"arrive", s>> /\ e # <<"return", s>> /\ e # Depart(s, d)
<1>1. \A o, d, s : /\ Depart(o, d)[1] = "depart" /\ Depart(o, d)[2] = o /\ Depart(o, d)[3] = d
                   /\ <<"arrive", s>>[1] = "arrive" /\ <<"arrive", s>>[2] = s
                   /\ <<"return", s>>[1] = "return" /\ <<"return", s>>[2] = s
  BY DEF Depart
<1>2. \A o, d, s : Depart(o, d) # <<"arrive", s>> /\ Depart(o, d) # <<"return", s>>
  <2> TAKE o, d, s
  <2>1. Depart(o, d)[1] # <<"arrive", s>>[1] /\ Depart(o, d)[1] # <<"return", s>>[1]
    BY <1>1
  <2> QED  BY <2>1
<1>3. \A o, s : <<"arrive", o>> # <<"return", s>> /\ Depart(o, "back") # Depart(s, "out")
  <2> TAKE o, s
  <2>1. <<"arrive", o>>[1] # <<"return", s>>[1] /\ Depart(o, "back")[3] # Depart(s, "out")[3]
    BY <1>1
  <2> QED  BY <2>1
<1>4. \A o, s : Depart(o, "out") = Depart(s, "out") => o = s
  <2> TAKE o, s
  <2>1. Depart(o, "out")[2] = o /\ Depart(s, "out")[2] = s
    BY <1>1
  <2> QED  BY <2>1
<1>5. \A o, s : <<"arrive", o>> = <<"arrive", s>> => o = s
  OBVIOUS
<1>6. \A o, s : <<"return", o>> = <<"return", s>> => o = s
  OBVIOUS
<1>7. \A e, s, d : e[1] \in {"captor", "response"} =>
        e # <<"arrive", s>> /\ e # <<"return", s>> /\ e # Depart(s, d)
  <2> SUFFICES ASSUME NEW e, NEW s, NEW d, e[1] \in {"captor", "response"}
               PROVE  e # <<"arrive", s>> /\ e # <<"return", s>> /\ e # Depart(s, d)
    OBVIOUS
  <2>1. e[1] # "arrive" /\ e[1] # "return" /\ e[1] # "depart"
    OBVIOUS
  <2>2. e # <<"arrive", s>> /\ e # <<"return", s>>
    BY <1>1, <2>1
  <2>3. e # Depart(s, d)
    BY <1>1, <2>1
  <2> QED  BY <2>2, <2>3
<1> QED  BY <1>2, <1>3, <1>4, <1>5, <1>6, <1>7

\* A departure that comes to nothing.
LEMMA DepartDroppedKeeps ==
  ASSUME WarInv, NEW o, NEW d, DepartDropped(o, d)
  PROVE  WarInv'
<1>1. /\ due' = due \ {Depart(o, d)}
      /\ UNCHANGED <<ops, roads, pending, committed, custody, body>>
  BY DEF DepartDropped
<1>2. WarTypes'
  BY <1>1 DEF WarInv, WarTypes, EventsTyped, BodyTyped
<1>3. Dying(body, body', {}) /\ Stays(custody, custody')
  BY <1>1 DEF Dying, WarInv, Records, Stays
<1>4. Timing(due, due')
  BY <1>1, EventsApart DEF Timing
<1> QED  BY <1>1, <1>2, <1>3, <1>4, NobodyMoves

\* Wounds and recoveries.
LEMMA HealthKeeps ==
  ASSUME WarInv, NEW p \in People, Hurt(p) \/ Recover(p)
  PROVE  WarInv'
<1>1. /\ body' = [body EXCEPT ![p] = "hurt"] \/ body' = [body EXCEPT ![p] = "fit"]
      /\ body[p] # "dead"
      /\ UNCHANGED <<ops, roads, due, pending, committed, custody>>
  BY DEF Hurt, Recover
<1>2. BodyTyped
  BY DEF WarInv, WarTypes
<1>3. BodyTyped'
  BY <1>1, <1>2 DEF BodyTyped
<1>4. WarTypes'
  BY <1>1, <1>3 DEF WarInv, WarTypes
<1>5. Dying(body, body', {})
  BY <1>1, <1>2 DEF Dying, BodyTyped
<1>6. Stays(custody, custody') /\ Timing(due, due')
  BY <1>1 DEF WarInv, Records, Stays, Timing
<1> QED  BY <1>1, <1>4, <1>5, <1>6, NobodyMoves

\* An arrival of an operation that is over or elsewhere.
LEMMA ArriveDroppedKeeps ==
  ASSUME WarInv, NEW o, ArriveDropped(o)
  PROVE  WarInv'
<1>1. /\ due' = due \ {<<"arrive", o>>}
      /\ UNCHANGED <<ops, roads, pending, committed, custody, body>>
  BY DEF ArriveDropped
<1>2. WarTypes'
  BY <1>1 DEF WarInv, WarTypes, EventsTyped, BodyTyped
<1>3. Dying(body, body', {}) /\ Stays(custody, custody')
  BY <1>1 DEF Dying, WarInv, Records, Stays
<1>4. Timing(due, due')
  BY <1>1, EventsApart DEF Timing
<1> QED  BY <1>1, <1>2, <1>3, <1>4, NobodyMoves

\* A choice does not change what is judged.
LEMMA CommitKeeps ==
  ASSUME WarInv, NEW j, NEW choice, Commit(j, choice)
  PROVE  WarInv'
<1>1. PICK k : k = <<j[1], j[2], j[3], choice>>
  OBVIOUS
<1>2. k[1] = j[1] /\ k[2] = j[2] /\ k[3] = j[3]
  BY <1>1
<1>3. /\ j \in pending /\ pending' = pending \ {j} /\ committed' = committed \cup {k}
      /\ UNCHANGED <<ops, roads, due, custody, body>>
  BY <1>1 DEF Commit
<1>4. IsJudgment(k)
  BY <1>2, <1>3 DEF WarInv, WarTypes, JudgesTyped, IsJudgment
<1>5. JudgesTyped(pending)' /\ JudgesTyped(committed)'
  <2>1. IsFiniteSet(pending \ {j}) /\ IsFiniteSet(committed \cup {k})
    BY FS_AddElement, FS_RemoveElement DEF WarInv, WarTypes, JudgesTyped
  <2> QED  BY <1>3, <1>4, <2>1 DEF WarInv, WarTypes, JudgesTyped
<1>6. \A i \in (pending \cup committed)' :
        \E h \in pending \cup committed : h[1] = i[1] /\ h[2] = i[2] /\ h[3] = i[3]
  BY <1>2, <1>3
<1>7. Aftermaths(pending \cup committed)'
  BY <1>6 DEF WarInv, WarTypes, Aftermaths
<1>8. WarTypes'
  BY <1>3, <1>5, <1>7 DEF WarInv, WarTypes, BodyTyped
<1>9. Dying(body, body', {}) /\ Stays(custody, custody') /\ Timing(due, due')
  BY <1>3 DEF WarInv, Records, Stays, Dying, Timing
<1> QED  BY <1>3, <1>6, <1>8, <1>9, NobodyMoves

\* The household of a prisoner, and those who answer for him.
LEMMA FamilyIsFaction ==
  ASSUME NEW r, IsRecord(r)
  PROVE  /\ Family(r) \in Factions
         /\ \A f \in Factions : Responders(r, f) \subseteq Factions
<1>1. r.who \in People /\ Owner(r.who) \in Factions
  BY OwnerIsFaction DEF IsRecord
<1>2. Household[r.who] \in Factions \cup {Nobody}
  BY <1>1, WarAssumption
<1>3. Family(r) \in Factions
  BY <1>1, <1>2 DEF Family
<1> QED  BY <1>1, <1>3 DEF Responders

\* Where another judgment is settled, no aftermath waits.
LEMMA NoAftermaths ==
  ASSUME WarInv, pending = {}, NEW j \in committed, j[1] # "aftermath"
  PROVE  \A i \in committed : i[1] # "aftermath"
<1>1. Aftermaths(pending \cup committed)
  BY DEF WarInv, WarTypes
<1> QED  BY <1>1 DEF Aftermaths

\* A captor review asks for judgments about a price.
LEMMA CaptorReviewKeeps ==
  ASSUME WarInv, NEW id, CaptorReview(id)
  PROVE  WarInv'
<1> DEFINE K == {r \in Record(id) : Family(r) # r.holder /\ r.demand = 0}
           g == [r \in K |-> <<"captor", id, <<r.holder, Family(r)>>, {<<"hold">>, <<"demand", Ransom>>}>>]
<1>1. /\ due' = due \ {<<"captor", id>>} /\ committed' = {} /\ pending' = {g[r] : r \in K}
      /\ UNCHANGED <<ops, roads, custody, body>>
  BY DEF CaptorReview, Quiet
<1>2. K \subseteq custody /\ DOMAIN g = K
  BY DEF Record
<1>3. \A r \in K : g[r][1] = "captor" /\ g[r][3][2] = Family(r)
  OBVIOUS
<1>4. \A r \in K : IsRecord(r)
  BY <1>2 DEF WarInv, WarTypes, RecordsTyped
<1> HIDE DEF K, g
<1>5. IsFiniteSet(K)
  BY <1>2, FS_Subset DEF WarInv, WarTypes, RecordsTyped
<1>6. IsFiniteSet(pending')
  BY <1>1, <1>2, <1>5, ImageIsFinite
<1>7. \A j \in pending' : IsJudgment(j) /\ j[1] = "captor"
  <2> SUFFICES ASSUME NEW j \in pending' PROVE IsJudgment(j) /\ j[1] = "captor"
    OBVIOUS
  <2>1. PICK r \in K : j = g[r]
    BY <1>1
  <2>2. j[1] = "captor" /\ j[3][2] \in Factions
    BY <1>3, <1>4, <2>1, FamilyIsFaction
  <2> QED  BY <2>2 DEF IsJudgment
<1>8. JudgesTyped(pending)' /\ JudgesTyped(committed)' /\ Aftermaths(pending \cup committed)'
  BY <1>1, <1>6, <1>7, FS_EmptySet DEF JudgesTyped, Aftermaths
<1>9. WarTypes'
  BY <1>1, <1>8 DEF WarInv, WarTypes, EventsTyped, BodyTyped
<1>10. Dying(body, body', {}) /\ Stays(custody, custody')
  BY <1>1 DEF WarInv, Records, Stays, Dying
<1>11. Timing(due, due')
  <2>1. \A o : /\ <<"captor", id>> # <<"arrive", o>> /\ <<"captor", id>> # <<"return", o>>
               /\ <<"captor", id>> # Depart(o, "out")
    BY EventsApart
  <2> QED  BY <1>1, <2>1 DEF Timing
<1> QED  BY <1>1, <1>7, <1>9, <1>10, <1>11, NobodyMoves

\* A price is named, or not.
LEMMA SettleCaptorKeeps ==
  ASSUME WarInv, NEW j, SettleCaptor(j)
  PROVE  WarInv'
<1>1. /\ pending = {} /\ pending' = {} /\ j \in committed /\ j[1] = "captor"
      /\ committed' = committed \ {j} /\ UNCHANGED <<ops, roads, body>>
  BY DEF SettleCaptor
<1>2. \A i \in committed : i[1] # "aftermath"
  BY <1>1, NoAftermaths
<1>3. JudgesTyped(pending)' /\ JudgesTyped(committed)' /\ Aftermaths(pending \cup committed)'
  <2>1. IsFiniteSet(committed \ {j})
    BY FS_RemoveElement DEF WarInv, WarTypes, JudgesTyped
  <2>2. JudgesTyped(committed)'
    BY <1>1, <2>1 DEF WarInv, WarTypes, JudgesTyped
  <2> QED  BY <1>1, <1>2, <2>2 DEF WarInv, WarTypes, JudgesTyped, Aftermaths
<1>4. j[3][2] \in Factions
  BY <1>1 DEF WarInv, WarTypes, JudgesTyped, IsJudgment
<1>5. /\ RecordsTyped(custody') /\ Stays(custody, custody')
      /\ EventsTyped(due') /\ Timing(due, due')
  <2>1. CASE UNCHANGED <<custody, due>>
    BY <2>1 DEF WarInv, WarTypes, Records, Stays, Timing
  <2>2. CASE ~UNCHANGED <<custody, due>>
    <3> DEFINE g == [r \in custody |-> IF r.id = j[2]
                                       THEN [r EXCEPT !.demand = j[4][2], !.to = j[3][2]] ELSE r]
    <3>1. /\ custody' = {g[r] : r \in custody}
          /\ due' = due \cup {<<"response", j[2], j[3][2], j[3][1]>>}
      BY <2>2 DEF SettleCaptor
    <3>2. ASSUME NEW r \in custody PROVE IsRecord(g[r]) /\ g[r].who = r.who /\ g[r].at = r.at
      <4>1. IsRecord(r)
        BY DEF WarInv, WarTypes, RecordsTyped
      <4> QED  BY <4>1 DEF IsRecord, Prisoners
    <3>3. DOMAIN g = custody
      OBVIOUS
    <3> HIDE DEF g
    <3>4. RecordsTyped(custody) /\ Once(custody)
      BY DEF WarInv, WarTypes, Records
    <3>5. RecordsTyped(custody') /\ Once(custody')
      BY <3>1, <3>2, <3>3, <3>4, Rewritten
    <3>6. Stays(custody, custody')
      BY <3>1, <3>2, <3>5 DEF Stays
    <3>7. EventsTyped(due')
      BY <3>1, <1>4, EventNames DEF WarInv, WarTypes, EventsTyped
    <3>8. Timing(due, due')
      <4>1. PICK e : e = <<"response", j[2], j[3][2], j[3][1]>>
        OBVIOUS
      <4>2. \A o : e # <<"arrive", o>> /\ e # <<"return", o>> /\ e # Depart(o, "out")
        BY <4>1, EventsApart
      <4> QED  BY <3>1, <4>1, <4>2 DEF Timing
    <3> QED  BY <3>5, <3>6, <3>7, <3>8
  <2> QED  BY <2>1, <2>2
<1>6. WarTypes'
  BY <1>1, <1>3, <1>5 DEF WarInv, WarTypes, BodyTyped
<1>7. Dying(body, body', {})
  BY <1>1 DEF Dying
<1> QED  BY <1>1, <1>2, <1>5, <1>6, <1>7, NobodyMoves

\* A judgment is settled and nothing is done but perhaps an event booked, or a record closed.
LEMMA SettledKeeps ==
  ASSUME WarInv, NEW j, NEW pick, Settles(j, pick), UNCHANGED <<ops, roads, pending, body>>,
         RecordsTyped(custody'), Stays(custody, custody'),
         EventsTyped(due'), Timing(due, due')
  PROVE  WarInv'
<1>1. pending = {} /\ j \in committed /\ j[1] = "response" /\ committed' = committed \ {j}
  BY DEF Settles
<1>2. \A i \in committed : i[1] # "aftermath"
  BY <1>1, NoAftermaths
<1>3. JudgesTyped(pending)' /\ JudgesTyped(committed)' /\ Aftermaths(pending \cup committed)'
  <2>1. IsFiniteSet(committed \ {j})
    BY FS_RemoveElement DEF WarInv, WarTypes, JudgesTyped
  <2>2. JudgesTyped(committed)'
    BY <1>1, <2>1 DEF WarInv, WarTypes, JudgesTyped
  <2> QED  BY <1>1, <1>2, <2>2 DEF WarInv, WarTypes, JudgesTyped, Aftermaths
<1>4. WarTypes'
  BY <1>3 DEF WarInv, WarTypes, BodyTyped
<1>5. Dying(body, body', {})
  BY DEF Dying
<1> QED  BY <1>1, <1>2, <1>4, <1>5, NobodyMoves

\* An answer that asks for nothing.
LEMMA DeferredKeeps ==
  ASSUME WarInv, NEW j, Deferred(j)
  PROVE  WarInv'
<1>1. PICK pick : Settles(j, pick)
  BY DEF Deferred
<1>2. UNCHANGED <<ops, roads, pending, body, custody, due>>
  BY DEF Deferred
<1>3. RecordsTyped(custody') /\ Stays(custody, custody') /\ EventsTyped(due') /\ Timing(due, due')
  BY <1>2 DEF WarInv, WarTypes, Records, Stays, Timing
<1> QED  BY <1>1, <1>2, <1>3, SettledKeeps

\* Payment waits.
LEMMA PayLaterKeeps ==
  ASSUME WarInv, NEW j, PayLater(j)
  PROVE  WarInv'
<1>1. PICK r \in Record(j[2]) : due' = due \cup {<<"response", r.id, j[3], r.holder>>}
  BY DEF PayLater
<1>2. Settles(j, <<"pay">>) /\ UNCHANGED <<ops, roads, pending, body, custody>>
  BY DEF PayLater
<1>3. j[3] \in Factions
  BY <1>2 DEF Settles, WarInv, WarTypes, JudgesTyped, IsJudgment
<1>4. RecordsTyped(custody') /\ Stays(custody, custody')
  BY <1>2 DEF WarInv, WarTypes, Records, Stays
<1>5. PICK e : e = <<"response", r.id, j[3], r.holder>>
  OBVIOUS
<1>6. EventsTyped(due')
  BY <1>1, <1>3, EventNames DEF WarInv, WarTypes, EventsTyped
<1>7. \A o : e # <<"arrive", o>> /\ e # <<"return", o>> /\ e # Depart(o, "out")
  BY <1>5, EventsApart
<1>8. Timing(due, due')
  BY <1>1, <1>5, <1>7 DEF Timing
<1> QED  BY <1>2, <1>4, <1>6, <1>8, SettledKeeps

\* The demand reaches its addressee: those who answer know, and have to answer.
LEMMA ResponseDueKeeps ==
  ASSUME WarInv, NEW e, ResponseDue(e)
  PROVE  WarInv'
<1> DEFINE live == {r \in Record(e[2]) : r.holder = e[4]}
           g == [r \in custody |-> IF r \in live
                                   THEN [r EXCEPT !.informed = @ \cup Responders(r, e[3])] ELSE r]
           answers(r) == {<<"defer">>, <<"rescue">>} \cup (IF r.demand > 0 THEN {<<"pay">>} ELSE {})
           asked(r) == {<<"response", r.id, f, answers(r)>> : f \in Responders(r, e[3])}
           h == [r \in live |-> asked(r)]
<1>1. /\ e \in due /\ e[1] = "response" /\ due' = due \ {e} /\ committed' = {}
      /\ UNCHANGED <<ops, roads, body>>
  BY DEF ResponseDue, Quiet
<1>2. live \subseteq custody /\ DOMAIN g = custody /\ DOMAIN h = live
  BY DEF Record
<1>3. custody' = {g[r] : r \in custody}
  <2>1. custody' = (custody \ live) \cup {[r EXCEPT !.informed = @ \cup Responders(r, e[3])] : r \in live}
    BY DEF ResponseDue
  <2> QED  BY <1>2, <2>1
<1>4. pending' = UNION {h[r] : r \in live}
  BY DEF ResponseDue
<1>5. e[3] \in Factions
  BY <1>1 DEF WarInv, WarTypes, EventsTyped, IsEvent
<1>6. \A r \in custody : IsRecord(r) /\ Responders(r, e[3]) \subseteq Factions
  BY <1>5, FamilyIsFaction DEF WarInv, WarTypes, RecordsTyped
<1>7. ASSUME NEW r \in custody PROVE IsRecord(g[r]) /\ g[r].who = r.who /\ g[r].at = r.at
  BY <1>6 DEF IsRecord, Prisoners
<1>8. ASSUME NEW r \in live
      PROVE  IsFiniteSet(h[r]) /\ \A j \in h[r] : IsJudgment(j) /\ j[1] = "response"
  <2>1. Responders(r, e[3]) \subseteq Factions
    BY <1>2, <1>6
  <2>2. IsFiniteSet(Responders(r, e[3]))
    BY <2>1, WarAssumption, FS_Subset
  <2>3. PICK k : k = [f \in Responders(r, e[3]) |-> <<"response", r.id, f, answers(r)>>]
    OBVIOUS
  <2>4. DOMAIN k = Responders(r, e[3]) /\ h[r] = {k[f] : f \in Responders(r, e[3])}
    BY <2>3
  <2>5. IsFiniteSet(h[r])
    BY <2>2, <2>4, ImageIsFinite
  <2>6. \A j \in h[r] : j[1] = "response" /\ j[3] \in Factions
    BY <2>1
  <2> QED  BY <2>5, <2>6 DEF IsJudgment
<1> HIDE DEF g, h, live
<1>9. RecordsTyped(custody) /\ Once(custody)
  BY DEF WarInv, WarTypes, Records
<1>10. RecordsTyped(custody') /\ Once(custody')
  BY <1>2, <1>3, <1>7, <1>9, Rewritten
<1>11. Stays(custody, custody')
  BY <1>3, <1>7, <1>10 DEF Stays
<1>12. IsFiniteSet(live)
  BY <1>2, <1>9, FS_Subset DEF RecordsTyped
<1>13. PICK H : H = {h[r] : r \in live}
  OBVIOUS
<1>14. IsFiniteSet(H)
  BY <1>2, <1>12, <1>13, ImageIsFinite
<1>15. IsFiniteSet(UNION H)
  BY <1>8, <1>13, <1>14, FS_UNION
<1>16. \A j \in pending' : IsJudgment(j) /\ j[1] = "response"
  BY <1>4, <1>8
<1>17. JudgesTyped(pending)' /\ JudgesTyped(committed)' /\ Aftermaths(pending \cup committed)'
  BY <1>1, <1>4, <1>13, <1>15, <1>16, FS_EmptySet DEF JudgesTyped, Aftermaths
<1>18. WarTypes'
  BY <1>1, <1>10, <1>17 DEF WarInv, WarTypes, EventsTyped, BodyTyped
<1>19. Dying(body, body', {})
  BY <1>1 DEF Dying
<1>20. Timing(due, due')
  <2>1. \A o : e # <<"return", o>>
    BY <1>1, EventsApart
  <2> QED  BY <1>1, <2>1 DEF Timing
<1> QED  BY <1>1, <1>11, <1>16, <1>18, <1>19, <1>20, NobodyMoves

\* A prisoner gets away.
LEMMA FreedKeeps ==
  ASSUME WarInv, NEW r, Freed(r)
  PROVE  WarInv'
<1>1. custody' = custody \ {r} /\ UNCHANGED <<ops, roads, due, pending, committed, body>>
  BY DEF Freed
<1>2. RecordsTyped(custody) /\ Once(custody)
  BY DEF WarInv, WarTypes, Records
<1>3. RecordsTyped(custody') /\ Once(custody')
  BY <1>1, <1>2, Closed
<1>4. Stays(custody, custody')
  BY <1>1, <1>3 DEF Stays
<1>5. WarTypes'
  BY <1>1, <1>3 DEF WarInv, WarTypes, BodyTyped
<1>6. Dying(body, body', {}) /\ Timing(due, due')
  BY <1>1 DEF Dying, Timing
<1> QED  BY <1>1, <1>4, <1>5, <1>6, NobodyMoves

\* A step that changes none of this.
LEMMA IdleKeeps ==
  ASSUME WarInv, UNCHANGED <<ops, roads, due, pending, committed, custody, body>>
  PROVE  WarInv'
<1>1. WarTypes'
  BY DEF WarInv, WarTypes, BodyTyped
<1>2. Dying(body, body', {}) /\ Stays(custody, custody') /\ Timing(due, due')
  BY DEF WarInv, Records, Stays, Dying, Timing
<1> QED  BY <1>1, <1>2, NobodyMoves

\* A return within the settlement that nobody makes.
LEMMA LocalReturnDropped ==
  ASSUME WarInv, NEW o, LocalReturn(o),
         ~(o \in DOMAIN ops /\ ops[o].status \in {"traveling_return", "arrived_pending"})
  PROVE  WarInv'
<1>1. /\ due' = due \ {<<"return", o>>}
      /\ UNCHANGED <<ops, roads, pending, committed, custody, body>>
  BY DEF LocalReturn
<1>2. WarTypes'
  BY <1>1 DEF WarInv, WarTypes, EventsTyped, BodyTyped
<1>3. Dying(body, body', {}) /\ Stays(custody, custody')
  BY <1>1 DEF Dying, WarInv, Records, Stays
<1>4. Timing(due, due')
  BY <1>1, EventsApart DEF Timing
<1> QED  BY <1>1, <1>2, <1>3, <1>4, NobodyMoves

-----------------------------------------------------------------------------
(* Operations begin.                                                        *)

\* A party of people at home and free is told to set off.
LEMMA OpeningKeeps ==
  ASSUME WarInv, NEW ref, NEW x, NEW party, NEW f \in Factions, party \subseteq Ready(f),
         Fresh(x, ref[1], ref[2], x.tgt, party), ref[1] \notin {"home", "aid"},
         ref[1] = "raid" => x.tgt = ref[3] /\ x.tgt \in Factions,
         ref \notin DOMAIN ops, ops' = With(ops, ref, x), due' = due \cup {Depart(ref, "out")},
         UNCHANGED <<roads, pending, custody, body>>, pending = {},
         committed' \subseteq committed, \A j \in committed' : j[1] # "aftermath"
  PROVE  WarInv'
<1>1. /\ DOMAIN ops' = DOMAIN ops \cup {ref} /\ ops'[ref] = x
      /\ \A o \in DOMAIN ops : ops'[o] = ops[o]
  <2>1. /\ DOMAIN With(ops, ref, x) = DOMAIN ops \cup {ref} /\ With(ops, ref, x)[ref] = x
        /\ \A o \in DOMAIN ops : o # ref => With(ops, ref, x)[o] = ops[o]
    BY DEF With
  <2> QED  BY <2>1
<1>2. \A p \in party : p \in People /\ body[p] # "dead" /\ AtLiberty(p)
  <2>1. \A p \in party : p \in People /\ body[p] = "fit" /\ p \notin Busy
    BY ReadyAreFree
  <2>2. RoadsTyped(roads)
    BY DEF WarInv, WarTypes
  <2> QED  BY <2>1, <2>2, FreeServesNobody
<1>3. WarTypes'
  <2>1. OpsTyped(ops')
    <3>1. OpsTyped(ops) /\ IsOp(x)
      BY DEF WarInv, WarTypes, Fresh
    <3> QED  BY <3>1, TablesOfOps
  <2>2. EventsTyped(due')
    BY EventNames DEF WarInv, WarTypes, EventsTyped
  <2>3. JudgesTyped(committed')
    BY FS_Subset DEF WarInv, WarTypes, JudgesTyped
  <2>4. Aftermaths(pending \cup committed)'
    BY DEF Aftermaths
  <2> QED  BY <2>1, <2>2, <2>3, <2>4 DEF WarInv, WarTypes, BodyTyped
<1>4. OpsSound'
  <2> SUFFICES ASSUME NEW o \in DOMAIN ops' PROVE OpSound(o, ops'[o], custody, body)
    BY DEF OpsSound
  <2>1. CASE o = ref
    <3>1. \A p \in party : body[p] # "dead" /\ \A r \in custody : r.who # p
      BY <1>2 DEF AtLiberty
    <3> QED  BY <1>1, <2>1, <3>1, FreshIsSound
  <2>2. CASE o # ref
    BY <1>1, <2>2 DEF WarInv, OpsSound
  <2> QED  BY <2>1, <2>2
<1>5. RoadsSound' /\ Records'
  BY DEF WarInv, RoadsSound, Records
<1>6. Outward'
  <2>1. \A o : Depart(o, "out") \in due' => Depart(o, "out") \in due \/ o = ref
    BY EventsApart
  <2>2. \A o : <<"arrive", o>> \in due' => <<"arrive", o>> \in due
    BY EventsApart
  <2>3. Outward /\ x.status = "mobilizing"
    BY DEF WarInv, Fresh
  <2> QED  BY <1>1, <2>1, <2>2, <2>3 DEF Outward
<1>7. Homebound'
  <2>1. \A o : <<"return", o>> \in due' => <<"return", o>> \in due
    BY EventsApart
  <2>2. Homebound
    BY DEF WarInv
  <2> QED  BY <1>1, <2>1, <2>2 DEF Homebound
<1>8. Recorded'
  <2>1. Recorded
    BY DEF WarInv
  <2> QED  BY <1>1, <2>1 DEF Recorded
<1>9. Judged'
  BY DEF Judged
<1>10. Alone'
  <2> DEFINE N == {<<p, ref>> : p \in party}
  <2>1. \A p \in People : \A o : Serves(p, o)' => Serves(p, o) \/ <<p, o>> \in N
    <3> SUFFICES ASSUME NEW p \in People, NEW o, Serves(p, o)' PROVE Serves(p, o) \/ <<p, o>> \in N
      OBVIOUS
    <3>1. x.party = party
      BY DEF Fresh
    <3> QED  BY <1>1, <3>1 DEF Serves
  <2>2. \A p \in People : \A o, s : <<p, o>> \in N => ~Serves(p, s)
    BY <1>2 DEF AtLiberty
  <2>3. \A p \in People : \A o, s : <<p, o>> \in N /\ <<p, s>> \in N => o = s
    OBVIOUS
  <2>4. Alone
    BY DEF WarInv
  <2> HIDE DEF N
  <2> QED  BY <2>1, <2>2, <2>3, <2>4, AloneStays
<1> QED  BY <1>3, <1>4, <1>5, <1>6, <1>7, <1>8, <1>9, <1>10 DEF WarInv

\* A review authors an operation.
LEMMA LaunchKeeps ==
  ASSUME WarInv, NEW q \in Plans, Launch(q)
  PROVE  WarInv'
<1>1. PICK f, ref : f = q[2] /\ ref = <<q[1], f, q[3]>>
  OBVIOUS
<1>2. f \in Factions /\ q[3] \in Factions /\ q[1] \in {"raid", "war", "challenge", "recon"}
  BY <1>1, WarAssumption
<1>3. PICK party \in (SUBSET Ready(f)) \ {{}} :
        ops' = With(ops, ref, [Op(q[1], f, q[3], party) EXCEPT !.intent = q[4]])
  BY <1>1 DEF Launch
<1>4. /\ ref \notin DOMAIN ops /\ due' = due \cup {Depart(ref, "out")}
      /\ UNCHANGED <<roads, pending, custody, body, committed>> /\ pending = {} /\ committed = {}
  BY <1>1 DEF Launch, Quiet
<1>5. party \in SUBSET People /\ party \subseteq Ready(f)
  BY <1>2, <1>3, ReadyAreFree
<1>6. PICK kind, tgt, y : kind = q[1] /\ tgt = q[3] /\ y = Op(kind, f, tgt, party)
  OBVIOUS
<1>7. /\ IsOp(y) /\ y.kind = q[1] /\ y.f = f /\ y.tgt = q[3] /\ y.party = party
      /\ y.status = "mobilizing" /\ y.captives = {} /\ y.follow = Nobody
  <2>1. f \in Factions
    BY <1>2
  <2>2. /\ IsOp(y) /\ y.kind = kind /\ y.f = f /\ y.tgt = tgt /\ y.party = party
        /\ y.status = "mobilizing" /\ y.captives = {} /\ y.follow = Nobody
    BY <2>1, <1>5, <1>6, NewOp
  <2> QED  BY <1>6, <2>2
<1>8. PICK x : x = [y EXCEPT !.intent = q[4]]
  OBVIOUS
<1>9. IsOp(x) /\ Like(y, x)
  BY <1>7, <1>8, LabelledOp
<1>10. Fresh(x, q[1], f, q[3], party) /\ x.tgt = q[3]
  BY <1>7, <1>9 DEF Fresh, Like, Same
<1>11. ref[1] = q[1] /\ ref[2] = f /\ ref[3] = q[3]
  BY <1>1
<1>12. ops' = With(ops, ref, x)
  BY <1>3, <1>6, <1>8
<1>13. Fresh(x, ref[1], ref[2], x.tgt, party)
  BY <1>10, <1>11
<1> QED  BY <1>2, <1>4, <1>5, <1>10, <1>11, <1>12, <1>13, OpeningKeeps

\* The informed send a party for a prisoner.
LEMMA StartRescueKeeps ==
  ASSUME WarInv, NEW j, StartRescue(j)
  PROVE  WarInv'
<1>1. /\ pending = {} /\ j \in committed /\ j[1] = "response" /\ committed' = committed \ {j}
      /\ UNCHANGED <<roads, pending, custody, body>>
  BY DEF StartRescue, Settles
<1>2. PICK f : f = j[3]
  OBVIOUS
<1>3. f \in Factions
  BY <1>1, <1>2 DEF WarInv, WarTypes, JudgesTyped, IsJudgment
<1>4. PICK r \in Record(j[2]) :
        /\ <<"rescue", f, r.id>> \notin DOMAIN ops
        /\ due' = due \cup {Depart(<<"rescue", f, r.id>>, "out")}
        /\ \E party \in (SUBSET Ready(f)) \ {{}} :
             ops' = With(ops, <<"rescue", f, r.id>>,
                         [Op("rescue", f, r.holder, party) EXCEPT
                            !.dst = r.at[2], !.aim = r.id])
  BY <1>2 DEF StartRescue
<1>5. PICK ref : ref = <<"rescue", f, r.id>>
  OBVIOUS
<1>6. /\ ref[1] = "rescue" /\ ref[2] = f /\ ref \notin DOMAIN ops
      /\ due' = due \cup {Depart(ref, "out")}
  BY <1>4, <1>5
<1>7. PICK party \in (SUBSET Ready(f)) \ {{}} :
        ops' = With(ops, ref, [Op("rescue", f, r.holder, party) EXCEPT !.dst = r.at[2], !.aim = r.id])
  BY <1>4, <1>5
<1>8. party \in SUBSET People /\ party \subseteq Ready(f)
  BY <1>3, <1>7, ReadyAreFree
<1>9. PICK y : y = Op("rescue", f, r.holder, party)
  OBVIOUS
<1>10. /\ IsOp(y) /\ y.kind = "rescue" /\ y.f = f /\ y.party = party
       /\ y.status = "mobilizing" /\ y.captives = {} /\ y.follow = Nobody
  BY <1>3, <1>8, <1>9, NewOp
<1>11. PICK x : x = [y EXCEPT !.dst = r.at[2], !.aim = r.id]
  OBVIOUS
<1>12. IsOp(x) /\ Like(y, x)
  BY <1>10, <1>11, LabelledOp
<1>13. Fresh(x, ref[1], ref[2], x.tgt, party)
  BY <1>6, <1>10, <1>12 DEF Fresh, Like, Same
<1>14. ops' = With(ops, ref, x)
  BY <1>7, <1>9, <1>11
<1>15. \A i \in committed' : i[1] # "aftermath"
  BY <1>1, NoAftermaths
<1> QED  BY <1>1, <1>3, <1>6, <1>8, <1>13, <1>14, <1>15, OpeningKeeps

-----------------------------------------------------------------------------
(* Operations and journeys end.                                             *)

\* The way home of one person.
Homing(x, p) ==
  /\ IsOp(x) /\ x.kind = "home" /\ x.f = Owner(p) /\ x.party = {p}
  /\ x.status = "return_preparing" /\ x.captives = {} /\ x.follow = Nobody

\* The operations of X and the roads of K end, and those of A go home.
Leave(X, A) ==
  /\ DOMAIN ops' = (DOMAIN ops \ X) \cup {HomeRef(p) : p \in A}
  /\ \A s \in DOMAIN ops \ X : ops'[s] = ops[s]
  /\ \A p \in A : HomeRef(p) \notin DOMAIN ops \ X /\ Homing(ops'[HomeRef(p)], p)

LeaveRoads(K) ==
  /\ DOMAIN roads' = DOMAIN roads \ K
  /\ \A m \in DOMAIN roads' : roads'[m] = roads[m]

\* Nobody but the homecomers' new operations has them, and no party is left on
\* the road back of an operation that ends.
Detached(X, K, A) ==
  /\ \A p \in A : /\ \A s \in DOMAIN ops \ X : p \notin ops[s].party
                  /\ \A m \in DOMAIN roads \ K : p \notin roads[m].party
  /\ \A s \in X : <<s, "back">> \in DOMAIN roads \ K => roads[<<s, "back">>].party = {}

\* No record names what has ended.
LeaveRecords(X, K) ==
  /\ RecordsTyped(custody') /\ Once(custody') /\ Fewer(custody, custody')
  /\ \A d \in custody' :
       \/ d.at[1] = "site"
       \/ \E r \in custody : /\ d.who = r.who /\ d.at = r.at
                             /\ r.at[1] = "road" => <<r.at[2], "back">> \notin K
                             /\ r.at[1] = "op" => r.at[2] \notin X

LeaveEvents(X) ==
  /\ EventsTyped(due')
  /\ \A o : /\ <<"arrive", o>> \in due' => <<"arrive", o>> \in due
            /\ <<"return", o>> \in due' => <<"return", o>> \in due
            /\ Depart(o, "out") \in due' => Depart(o, "out") \in due
            /\ <<"return", o>> \in due /\ o \notin X => <<"return", o>> \in due'

\* The way home is a sound operation.
LEMMA HomingIsSound ==
  ASSUME NEW x, NEW p \in People, Homing(x, p), NEW C, NEW b
  PROVE  OpSound(HomeRef(p), x, C, b)
<1>1. HomeRef(p)[1] = "home" /\ HomeRef(p)[2] = Owner(p)
  BY DEF HomeRef
<1>2. \A q \in x.party : q = p
  BY DEF Homing
<1>3. x.status \notin Setting
  BY DEF Homing, Setting
<1> QED  BY <1>1, <1>2, <1>3 DEF OpSound, Homing

\* People who leave keep the rest as it is.
LEMMA LeavingKeeps ==
  ASSUME WarInv, NEW X, NEW K, NEW A \in SUBSET People,
         Leave(X, A), LeaveRoads(K), Detached(X, K, A), LeaveRecords(X, K), LeaveEvents(X),
         pending' = {}, committed' \subseteq committed, \A j \in committed' : j[1] # "aftermath",
         body' = body
  PROVE  WarInv'
<1>1. \A s \in DOMAIN ops' : \/ s \in DOMAIN ops \ X /\ ops'[s] = ops[s]
                             \/ \E p \in A : s = HomeRef(p) /\ Homing(ops'[s], p)
  BY DEF Leave
<1>2. WarTypes'
  <2>1. OpsTyped(ops')
    BY <1>1 DEF OpsTyped, Homing, WarInv, WarTypes
  <2>2. RoadsTyped(roads')
    BY DEF LeaveRoads, RoadsTyped, WarInv, WarTypes
  <2>3. JudgesTyped(committed')
    BY FS_Subset DEF WarInv, WarTypes, JudgesTyped
  <2>4. JudgesTyped(pending') /\ Aftermaths(pending \cup committed)'
    BY FS_EmptySet DEF JudgesTyped, Aftermaths
  <2> QED  BY <2>1, <2>2, <2>3, <2>4 DEF WarInv, WarTypes, BodyTyped, LeaveRecords, LeaveEvents
<1>3. OpsSound'
  <2> SUFFICES ASSUME NEW o \in DOMAIN ops' PROVE OpSound(o, ops'[o], custody', body)
    BY DEF OpsSound
  <2>1. CASE o \in DOMAIN ops \ X /\ ops'[o] = ops[o]
    <3>1. IsOp(ops[o]) /\ OpSound(o, ops[o], custody, body)
      BY <2>1 DEF WarInv, WarTypes, OpsTyped, OpsSound
    <3> QED  BY <2>1, <3>1, OpUntouched DEF LeaveRecords
  <2>2. CASE \E p \in A : o = HomeRef(p) /\ Homing(ops'[o], p)
    <3>1. PICK p \in A : o = HomeRef(p) /\ Homing(ops'[o], p)
      BY <2>2
    <3>2. p \in People
      OBVIOUS
    <3> QED  BY <3>1, <3>2, HomingIsSound
  <2> QED  BY <1>1, <2>1, <2>2
<1>4. RoadsSound'
  <2> SUFFICES ASSUME NEW m \in DOMAIN roads' PROVE RoadSound(m, roads'[m], custody', body)
    BY DEF RoadsSound
  <2>1. m \in DOMAIN roads /\ roads'[m] = roads[m]
    BY DEF LeaveRoads
  <2>2. RoadSound(m, roads[m], custody, body)
    BY <2>1 DEF WarInv, RoadsSound
  <2> QED  BY <2>1, <2>2, RoadUntouched DEF LeaveRecords
<1>5. Records'
  BY DEF WarInv, Records, LeaveRecords, Fewer
<1>6. \A o : <<o, "out">> \in DOMAIN roads => o[1] # "home"
  <2> SUFFICES ASSUME NEW o, <<o, "out">> \in DOMAIN roads PROVE o[1] # "home"
    OBVIOUS
  <2>1. RoadSound(<<o, "out">>, roads[<<o, "out">>], custody, body)
    BY DEF WarInv, RoadsSound
  <2> QED  BY <2>1 DEF RoadSound
<1>7. \A p : HomeRef(p)[1] = "home"
  BY DEF HomeRef
<1>8. Outward'
  <2>1. \A o : Depart(o, "out") \in due' => o[1] # "home"
    BY DEF WarInv, Outward, LeaveEvents
  <2> SUFFICES ASSUME NEW o, <<o, "out">> \in DOMAIN roads', o \in DOMAIN ops'
               PROVE  /\ ops'[o].status \in {"mobilizing", "traveling_outbound"}
                      /\ ops'[o].status = "traveling_outbound" => <<"arrive", o>> \notin due'
    BY <2>1 DEF Outward
  <2>2. <<o, "out">> \in DOMAIN roads /\ o[1] # "home"
    BY <1>6 DEF LeaveRoads
  <2>3. o \in DOMAIN ops /\ ops'[o] = ops[o]
    BY <1>1, <1>7, <2>2
  <2> QED  BY <2>2, <2>3 DEF WarInv, Outward, LeaveEvents
<1>9. Homebound'
  <2> SUFFICES ASSUME NEW o, <<o, "back">> \in DOMAIN roads', roads'[<<o, "back">>].party # {}
               PROVE  /\ o \in DOMAIN ops' /\ ops'[o].status = "traveling_return"
                      /\ roads'[<<o, "back">>].party \subseteq ops'[o].party
                      /\ <<"return", o>> \notin due'
    BY DEF Homebound
  <2>1. <<o, "back">> \in DOMAIN roads \ K /\ roads'[<<o, "back">>] = roads[<<o, "back">>]
    BY DEF LeaveRoads
  <2>2. o \notin X
    BY <2>1 DEF Detached
  <2>3. /\ o \in DOMAIN ops /\ ops[o].status = "traveling_return"
        /\ roads[<<o, "back">>].party \subseteq ops[o].party
        /\ <<"return", o>> \notin due
    BY <2>1 DEF WarInv, Homebound
  <2>4. o \in DOMAIN ops' /\ ops'[o] = ops[o]
    BY <2>2, <2>3 DEF Leave
  <2> QED  BY <2>1, <2>3, <2>4 DEF LeaveEvents
<1>10. Recorded'
  <2> SUFFICES ASSUME NEW d \in custody'
               PROVE  /\ d.at[1] = "road" => <<d.at[2], "back">> \in DOMAIN roads'
                                            /\ d.who \in roads'[<<d.at[2], "back">>].captives
                      /\ d.at[1] = "op" => /\ d.at[2] \in DOMAIN ops' /\ d.who \in ops'[d.at[2]].captives
                                           /\ ops'[d.at[2]].status = "traveling_return"
                                           /\ <<"return", d.at[2]>> \in due'
                                           /\ <<d.at[2], "back">> \notin DOMAIN roads'
    BY DEF Recorded
  <2>1. CASE d.at[1] = "site"
    BY <2>1
  <2>2. CASE \E r \in custody : /\ d.who = r.who /\ d.at = r.at
                                /\ r.at[1] = "road" => <<r.at[2], "back">> \notin K
                                /\ r.at[1] = "op" => r.at[2] \notin X
    <3>1. PICK r \in custody : /\ d.who = r.who /\ d.at = r.at
                               /\ r.at[1] = "road" => <<r.at[2], "back">> \notin K
                               /\ r.at[1] = "op" => r.at[2] \notin X
      BY <2>2
    <3>2. /\ r.at[1] = "road" => <<r.at[2], "back">> \in DOMAIN roads
                                /\ r.who \in roads[<<r.at[2], "back">>].captives
          /\ r.at[1] = "op" => /\ r.at[2] \in DOMAIN ops /\ r.who \in ops[r.at[2]].captives
                               /\ ops[r.at[2]].status = "traveling_return"
                               /\ <<"return", r.at[2]>> \in due
                               /\ <<r.at[2], "back">> \notin DOMAIN roads
      BY DEF WarInv, Recorded
    <3>3. r.at[1] = "road" => <<r.at[2], "back">> \in DOMAIN roads'
                             /\ r.who \in roads'[<<r.at[2], "back">>].captives
      BY <3>1, <3>2 DEF LeaveRoads
    <3>4. r.at[1] = "op" => /\ r.at[2] \in DOMAIN ops' /\ r.who \in ops'[r.at[2]].captives
                            /\ ops'[r.at[2]].status = "traveling_return"
                            /\ <<"return", r.at[2]>> \in due'
                            /\ <<r.at[2], "back">> \notin DOMAIN roads'
      BY <3>1, <3>2 DEF Leave, LeaveRoads, LeaveEvents
    <3> QED  BY <3>1, <3>3, <3>4
  <2> QED  BY <2>1, <2>2 DEF LeaveRecords
<1>11. Judged'
  BY DEF Judged
<1>12. Alone'
  <2>1. ASSUME NEW p \in People, NEW o, Serves(p, o)'
        PROVE  (Serves(p, o) /\ p \notin A) \/ (p \in A /\ o = HomeRef(p))
    <3>1. CASE o \in DOMAIN ops' /\ p \in ops'[o].party
      <4>1. CASE o \in DOMAIN ops \ X /\ ops'[o] = ops[o]
        BY <3>1, <4>1 DEF Serves, Detached
      <4>2. CASE \E q \in A : o = HomeRef(q) /\ Homing(ops'[o], q)
        BY <3>1, <4>2 DEF Homing
      <4> QED  BY <1>1, <3>1, <4>1, <4>2
    <3>2. CASE \E d \in {"out", "back"} : <<o, d>> \in DOMAIN roads' /\ p \in roads'[<<o, d>>].party
      <4>1. PICK d \in {"out", "back"} : <<o, d>> \in DOMAIN roads' /\ p \in roads'[<<o, d>>].party
        BY <3>2
      <4>2. <<o, d>> \in DOMAIN roads \ K /\ roads'[<<o, d>>] = roads[<<o, d>>]
        BY <4>1 DEF LeaveRoads
      <4> QED  BY <4>1, <4>2 DEF Serves, Detached
    <3> QED  BY <2>1, <3>1, <3>2 DEF Serves
  <2>2. Alone
    BY DEF WarInv
  <2> QED  BY <2>1, <2>2 DEF Alone
<1> QED  BY <1>2, <1>3, <1>4, <1>5, <1>8, <1>9, <1>10, <1>11, <1>12 DEF WarInv

\* Without homecomers.
LEMMA PlainLeave ==
  ASSUME NEW X, ops' = Except(ops, X)
  PROVE  Leave(X, {})
<1>1. DOMAIN ops' = DOMAIN ops \ X /\ \A s \in DOMAIN ops \ X : ops'[s] = ops[s]
  BY ExceptEntry
<1> QED  BY <1>1 DEF Leave

\* A road ends.
LEMMA RoadDismissed ==
  ASSUME NEW o, NEW d, Dismiss(o, d)
  PROVE  LeaveRoads({<<o, d>>})
<1>1. roads' = Except(roads, {<<o, d>>})
  BY DEF Dismiss
<1>2. /\ DOMAIN roads' = DOMAIN roads \ {<<o, d>>}
      /\ \A m \in DOMAIN roads \ {<<o, d>>} : roads'[m] = roads[m]
  BY <1>1, ExceptEntry
<1> QED  BY <1>2 DEF LeaveRoads

\* Whoever followed an operation home sets off from there.
LEMMA OnwardLeaves ==
  ASSUME NEW o, IsOp(ops[o]), ops' = Onward(ops[o], Except(ops, {o}))
  PROVE  \E A \in SUBSET People :
           /\ Leave({o}, A)
           /\ \A p \in A : p = ops[o].follow /\ p # Nobody /\ HomeRef(p) \notin DOMAIN ops \ {o}
           /\ OnwardDue(ops[o], Except(ops, {o})) = {Depart(HomeRef(p), "back") : p \in A}
<1>1. PICK x, left, p : x = ops[o] /\ left = Except(ops, {o}) /\ p = x.follow
  OBVIOUS
<1>2. DOMAIN left = DOMAIN ops \ {o} /\ \A s \in DOMAIN ops \ {o} : left[s] = ops[s]
  BY <1>1, ExceptEntry
<1>3. p \in People \cup {Nobody}
  BY <1>1 DEF IsOp
<1>4. CASE p = Nobody \/ HomeRef(p) \in DOMAIN left
  <2>1. ops' = left /\ OnwardDue(x, left) = {}
    BY <1>1, <1>4 DEF Onward, OnwardDue
  <2>2. Leave({o}, {})
    BY <1>2, <2>1 DEF Leave
  <2>3. OnwardDue(x, left) = {Depart(HomeRef(q), "back") : q \in {}}
    BY <2>1
  <2> QED  BY <1>1, <2>2, <2>3
<1>5. CASE ~(p = Nobody \/ HomeRef(p) \in DOMAIN left)
  <2>1. /\ ops' = With(left, HomeRef(p), HomeOp(p, Owner(p), x.f))
        /\ OnwardDue(x, left) = {Depart(HomeRef(p), "back")}
    BY <1>1, <1>5 DEF Onward, OnwardDue
  <2>2. PICK y : y = HomeOp(p, Owner(p), x.f)
    OBVIOUS
  <2>3. PICK h : h = HomeRef(p)
    OBVIOUS
  <2>4. p \in People
    BY <1>3, <1>5
  <2>5. Homing(y, p)
    BY <2>2, <2>4, NewHomeOp DEF Homing
  <2>6. ops' = With(left, h, y) /\ h \notin DOMAIN left
    BY <1>5, <2>1, <2>2, <2>3
  <2>7. /\ DOMAIN ops' = DOMAIN left \cup {h} /\ ops'[h] = y
        /\ \A s \in DOMAIN left : ops'[s] = left[s]
    BY <2>6 DEF With
  <2>8. \A q \in {p} : HomeRef(q) \notin DOMAIN ops \ {o} /\ Homing(ops'[HomeRef(q)], q)
    BY <1>2, <2>3, <2>5, <2>6, <2>7
  <2>9. DOMAIN ops' = (DOMAIN ops \ {o}) \cup {HomeRef(q) : q \in {p}}
    BY <1>2, <2>3, <2>7
  <2>10. Leave({o}, {p})
    BY <1>2, <2>7, <2>8, <2>9 DEF Leave
  <2>11. OnwardDue(x, left) = {Depart(HomeRef(q), "back") : q \in {p}}
    BY <2>1
  <2> QED  BY <1>1, <1>5, <2>4, <2>8, <2>10, <2>11
<1> QED  BY <1>4, <1>5

\* Where an operation and its roads end, whoever followed it serves nobody else.
LEMMA FollowersAreFree ==
  ASSUME WarInv, NEW o \in DOMAIN ops, NEW K, NEW A \in SUBSET People,
         \A p \in A : p = ops[o].follow /\ p # Nobody /\ HomeRef(p) \notin DOMAIN ops \ {o},
         \A m \in DOMAIN roads \ K : m[1] = o => roads[m].party = {}
  PROVE  Detached({o}, K, A)
<1>1. ASSUME NEW p \in A
      PROVE  /\ \A s \in DOMAIN ops \ {o} : p \notin ops[s].party
             /\ \A m \in DOMAIN roads \ K : p \notin roads[m].party
  <2>1. p \in People
    OBVIOUS
  <2>2. p \in ops[o].party \/ body[p] = "dead"
    BY DEF WarInv, OpsSound, OpSound
  <2>3. CASE p \in ops[o].party
    <3>1. Serves(p, o)
      BY <2>3 DEF Serves
    <3>2. \A s : Serves(p, s) => s = o
      BY <2>1, <3>1 DEF WarInv, Alone
    <3>3. \A s \in DOMAIN ops \ {o} : p \notin ops[s].party
      BY <3>2 DEF Serves
    <3>4. ASSUME NEW m \in DOMAIN roads \ K, p \in roads[m].party PROVE FALSE
      <4>1. m = <<m[1], m[2]>> /\ m[2] \in {"out", "back"}
        BY DEF WarInv, WarTypes, RoadsTyped
      <4>2. Serves(p, m[1])
        BY <3>4, <4>1 DEF Serves
      <4> QED  BY <3>2, <3>4, <4>2
    <3> QED  BY <3>3, <3>4
  <2>4. CASE body[p] = "dead"
    <3>1. \A s \in DOMAIN ops : p \in ops[s].party => s = HomeRef(p)
      BY <2>4 DEF WarInv, OpsSound, OpSound
    <3>2. \A m \in DOMAIN roads : p \notin roads[m].party
      BY <2>4 DEF WarInv, RoadsSound, RoadSound
    <3> QED  BY <3>1, <3>2
  <2> QED  BY <2>2, <2>3, <2>4
<1>2. <<o, "back">> \in DOMAIN roads \ K => roads[<<o, "back">>].party = {}
  OBVIOUS
<1> QED  BY <1>1, <1>2 DEF Detached

\* Events that only book ways home, and drop a return.
LEMMA HomeEvents ==
  ASSUME EventsTyped(due), NEW A, NEW X, NEW gone, gone \subseteq {<<"return", o>> : o \in X},
         due' = (due \ gone) \cup {Depart(HomeRef(p), "back") : p \in A}
  PROVE  LeaveEvents(X)
<1>1. \A e \in due' : e \in due \/ \E p \in A : e = Depart(HomeRef(p), "back")
  OBVIOUS
<1>2. EventsTyped(due')
  BY <1>1, EventNames DEF EventsTyped
<1>3. ASSUME NEW o
      PROVE  /\ <<"arrive", o>> \in due' => <<"arrive", o>> \in due
             /\ <<"return", o>> \in due' => <<"return", o>> \in due
             /\ Depart(o, "out") \in due' => Depart(o, "out") \in due
  BY <1>1, EventsApart
<1>4. ASSUME NEW o, <<"return", o>> \in due, o \notin X PROVE <<"return", o>> \in due'
  <2>1. <<"return", o>> \notin gone
    BY <1>4, EventsApart
  <2> QED  BY <1>4, <2>1
<1> QED  BY <1>2, <1>3, <1>4 DEF LeaveEvents

\* Records that stay, where none names what ends.
LEMMA RecordsLeft ==
  ASSUME WarInv, NEW X, NEW K, custody' \subseteq custody,
         \A r \in custody' : /\ r.at[1] = "road" => <<r.at[2], "back">> \notin K
                             /\ r.at[1] = "op" => r.at[2] \notin X
  PROVE  LeaveRecords(X, K)
<1>1. RecordsTyped(custody) /\ Once(custody)
  BY DEF WarInv, WarTypes, Records
<1>2. RecordsTyped(custody') /\ Once(custody')
  BY <1>1, Closed
<1>3. Fewer(custody, custody')
  BY DEF Fewer
<1>4. \A d \in custody' : d \in custody /\ d.who = d.who /\ d.at = d.at
  OBVIOUS
<1> QED  BY <1>2, <1>3, <1>4 DEF LeaveRecords

\* Prisoners who are brought in are where they were brought.
LEMMA RecordsBroughtIn ==
  ASSUME WarInv, NEW X, NEW K, NEW who, NEW f, custody' = AtHome(who, f),
         \A r \in custody : r.who \notin who =>
           /\ r.at[1] = "road" => <<r.at[2], "back">> \notin K
           /\ r.at[1] = "op" => r.at[2] \notin X
  PROVE  LeaveRecords(X, K)
<1>1. RecordsTyped(custody) /\ Once(custody)
  BY DEF WarInv, WarTypes, Records
<1>2. Moving(custody, custody', who, <<"site", f>>)
  BY <1>1, AtHomeMoves
<1>3. RecordsTyped(custody') /\ Once(custody') /\ Fewer(custody, custody')
  BY <1>1, <1>2 DEF Moving, Fewer
<1>4. ASSUME NEW d \in custody'
      PROVE  \/ d.at[1] = "site"
             \/ \E r \in custody : /\ d.who = r.who /\ d.at = r.at
                                   /\ r.at[1] = "road" => <<r.at[2], "back">> \notin K
                                   /\ r.at[1] = "op" => r.at[2] \notin X
  <2>1. PICK r \in custody : d.who = r.who /\ d.at = (IF r.who \in who THEN <<"site", f>> ELSE r.at)
    BY <1>2 DEF Moving
  <2>2. CASE r.who \in who
    BY <2>1, <2>2
  <2>3. CASE r.who \notin who
    BY <2>1, <2>3
  <2> QED  BY <2>2, <2>3
<1> QED  BY <1>3, <1>4 DEF LeaveRecords

\* A party that comes home within its settlement.
LEMMA LocalReturnKeeps ==
  ASSUME WarInv, NEW o, LocalReturn(o),
         o \in DOMAIN ops, ops[o].status \in {"traveling_return", "arrived_pending"}
  PROVE  WarInv'
<1>1. /\ pending = {} /\ pending' = {} /\ committed = {} /\ committed' = {} /\ <<"return", o>> \in due
      /\ UNCHANGED <<roads, body>>
  BY DEF LocalReturn, Quiet
<1>2. /\ ops' = Onward(ops[o], Except(ops, {o}))
      /\ due' = (due \ {<<"return", o>>}) \cup OnwardDue(ops[o], Except(ops, {o}))
      /\ custody' = AtHome(ops[o].captives, ops[o].f)
  BY DEF LocalReturn
<1>3. IsOp(ops[o])
  BY DEF WarInv, WarTypes, OpsTyped
<1>4. PICK A \in SUBSET People :
        /\ Leave({o}, A)
        /\ \A p \in A : p = ops[o].follow /\ p # Nobody /\ HomeRef(p) \notin DOMAIN ops \ {o}
        /\ OnwardDue(ops[o], Except(ops, {o})) = {Depart(HomeRef(p), "back") : p \in A}
  BY <1>2, <1>3, OnwardLeaves
<1>5. \A m \in DOMAIN roads \ {} : m[1] = o => roads[m].party = {}
  <2> SUFFICES ASSUME NEW m \in DOMAIN roads, m[1] = o PROVE roads[m].party = {}
    OBVIOUS
  <2>1. m = <<o, "out">> \/ m = <<o, "back">>
    BY DEF WarInv, WarTypes, RoadsTyped
  <2>2. m # <<o, "out">>
    BY DEF WarInv, Outward
  <2>3. m = <<o, "back">>
    BY <2>1, <2>2
  <2>4. <<o, "back">> \in DOMAIN roads /\ roads[m] = roads[<<o, "back">>]
    BY <2>3
  <2> QED  BY <1>1, <2>4 DEF WarInv, Homebound
<1>6. Detached({o}, {}, A)
  BY <1>4, <1>5, FollowersAreFree
<1>7. LeaveRoads({})
  BY <1>1 DEF LeaveRoads
<1>8. \A r \in custody : r.who \notin ops[o].captives =>
        /\ r.at[1] = "road" => <<r.at[2], "back">> \notin {}
        /\ r.at[1] = "op" => r.at[2] \notin {o}
  BY DEF WarInv, Recorded
<1>9. LeaveRecords({o}, {})
  BY <1>2, <1>8, RecordsBroughtIn
<1>10. LeaveEvents({o})
  <2>1. PICK gone, X : gone = {<<"return", o>>} /\ X = {o}
    OBVIOUS
  <2>2. EventsTyped(due) /\ gone \subseteq {<<"return", s>> : s \in X}
    BY <2>1 DEF WarInv, WarTypes
  <2>3. due' = (due \ gone) \cup {Depart(HomeRef(p), "back") : p \in A}
    BY <1>2, <1>4, <2>1
  <2>4. LeaveEvents(X)
    BY <2>2, <2>3, HomeEvents
  <2> QED  BY <2>1, <2>4
<1> QED  BY <1>1, <1>4, <1>6, <1>7, <1>9, <1>10, LeavingKeeps

\* A journey whose operation is over.
LEMMA RoadEndsKeeps ==
  ASSUME WarInv, NEW o, NEW d, RoadEnds(o, d)
  PROVE  WarInv'
<1>1. /\ pending = {} /\ pending' = {} /\ committed = {} /\ committed' = {}
      /\ UNCHANGED <<ops, custody, body, due>> /\ Dismiss(o, d)
      /\ <<o, d>> \in DOMAIN roads /\ roads[<<o, d>>].kind = "travel"
  BY DEF RoadEnds, OnRoad, Quiet
<1>2. Leave({}, {})
  BY <1>1 DEF Leave
<1>3. LeaveRoads({<<o, d>>})
  BY <1>1, RoadDismissed
<1>4. Detached({}, {<<o, d>>}, {})
  BY DEF Detached
<1>5. roads[<<o, d>>].captives = {}
  BY <1>1 DEF WarInv, RoadsSound, RoadSound
<1>6. \A r \in custody : r.at[1] = "road" => <<r.at[2], "back">> \notin {<<o, d>>}
  <2> SUFFICES ASSUME NEW r \in custody, r.at[1] = "road", <<r.at[2], "back">> = <<o, d>> PROVE FALSE
    OBVIOUS
  <2>1. r.who \in roads[<<r.at[2], "back">>].captives
    BY DEF WarInv, Recorded
  <2>2. r.who \in roads[<<o, d>>].captives
    BY <2>1
  <2> QED  BY <1>5, <2>2
<1>7. LeaveRecords({}, {<<o, d>>})
  BY <1>1, <1>6, RecordsLeft
<1>8. LeaveEvents({})
  BY <1>1 DEF LeaveEvents, WarInv, WarTypes
<1>9. {} \in SUBSET People
  OBVIOUS
<1> QED  BY <1>1, <1>2, <1>3, <1>4, <1>7, <1>8, <1>9, LeavingKeeps

\* A party that is not nobody on its road back is at home only there.
LEMMA OneRoadHome ==
  ASSUME WarInv, NEW o, <<o, "back">> \in DOMAIN roads, roads[<<o, "back">>].party # {}
  PROVE  /\ o \in DOMAIN ops /\ <<o, "out">> \notin DOMAIN roads
         /\ \A m \in DOMAIN roads \ {<<o, "back">>} : m[1] # o
<1>1. o \in DOMAIN ops /\ ops[o].status = "traveling_return"
  BY DEF WarInv, Homebound
<1>2. <<o, "out">> \notin DOMAIN roads
  BY <1>1 DEF WarInv, Outward
<1>3. ASSUME NEW m \in DOMAIN roads \ {<<o, "back">>}, m[1] = o PROVE FALSE
  <2>1. m = <<o, "out">> \/ m = <<o, "back">>
    BY <1>3 DEF WarInv, WarTypes, RoadsTyped
  <2> QED  BY <1>2, <2>1
<1> QED  BY <1>1, <1>2, <1>3

\* No prisoner is on a journey that carries none, or with a party on the road back.
LEMMA NoneAboard ==
  ASSUME WarInv, NEW o, <<o, "back">> \in DOMAIN roads,
         NEW r \in custody, r.who \notin roads[<<o, "back">>].captives
  PROVE  /\ r.at[1] = "road" => <<r.at[2], "back">> \notin {<<o, "back">>}
         /\ r.at[1] = "op" => r.at[2] \notin {o}
<1>1. ASSUME r.at[1] = "road", r.at[2] = o PROVE FALSE
  <2>1. r.who \in roads[<<r.at[2], "back">>].captives
    BY <1>1 DEF WarInv, Recorded
  <2> QED  BY <1>1, <2>1
<1>2. ASSUME r.at[1] = "op", r.at[2] = o PROVE FALSE
  <2>1. <<r.at[2], "back">> \notin DOMAIN roads
    BY <1>2 DEF WarInv, Recorded
  <2> QED  BY <1>2, <2>1
<1>3. <<r.at[2], "back">> = <<o, "back">> => r.at[2] = o
  OBVIOUS
<1> QED  BY <1>1, <1>2, <1>3

\* Travellers come home.
LEMMA RoadArriveHomeKeeps ==
  ASSUME WarInv, NEW o, RoadArriveHome(o)
  PROVE  WarInv'
<1> DEFINE K == {<<o, "back">>}
<1>1. /\ pending = {} /\ pending' = {} /\ committed = {} /\ committed' = {}
      /\ UNCHANGED <<custody, body>> /\ Dismiss(o, "back")
      /\ <<o, "back">> \in DOMAIN roads /\ roads[<<o, "back">>].kind = "travel"
      /\ ~roads[<<o, "back">>].lost /\ o \in DOMAIN ops
  BY DEF RoadArriveHome, OnRoad, Quiet
<1>2. /\ ops' = Onward(ops[o], Except(ops, {o}))
      /\ due' = due \cup OnwardDue(ops[o], Except(ops, {o}))
  BY DEF RoadArriveHome
<1>3. IsOp(ops[o])
  BY <1>1 DEF WarInv, WarTypes, OpsTyped
<1>4. PICK A \in SUBSET People :
        /\ Leave({o}, A)
        /\ \A p \in A : p = ops[o].follow /\ p # Nobody /\ HomeRef(p) \notin DOMAIN ops \ {o}
        /\ OnwardDue(ops[o], Except(ops, {o})) = {Depart(HomeRef(p), "back") : p \in A}
  BY <1>2, <1>3, OnwardLeaves
<1>5. /\ roads[<<o, "back">>].party # {} /\ roads[<<o, "back">>].captives = {}
  BY <1>1 DEF WarInv, RoadsSound, RoadSound
<1>6. \A m \in DOMAIN roads \ K : m[1] = o => roads[m].party = {}
  BY <1>1, <1>5, OneRoadHome
<1>7. Detached({o}, K, A)
  BY <1>1, <1>4, <1>6, FollowersAreFree
<1>8. LeaveRoads(K)
  BY <1>1, RoadDismissed
<1>9. \A r \in custody : /\ r.at[1] = "road" => <<r.at[2], "back">> \notin K
                         /\ r.at[1] = "op" => r.at[2] \notin {o}
  BY <1>1, <1>5, NoneAboard
<1>10. LeaveRecords({o}, K)
  BY <1>1, <1>9, RecordsLeft
<1>11. LeaveEvents({o})
  <2>1. PICK gone, X : gone = {} /\ X = {o}
    OBVIOUS
  <2>2. EventsTyped(due) /\ gone \subseteq {<<"return", s>> : s \in X}
    BY <2>1 DEF WarInv, WarTypes
  <2>3. due' = (due \ gone) \cup {Depart(HomeRef(p), "back") : p \in A}
    BY <1>2, <1>4, <2>1
  <2>4. LeaveEvents(X)
    BY <2>2, <2>3, HomeEvents
  <2> QED  BY <2>1, <2>4
<1> QED  BY <1>1, <1>4, <1>7, <1>8, <1>10, <1>11, LeavingKeeps

\* Where no event changes.
LEMMA NoEvents ==
  ASSUME EventsTyped(due), UNCHANGED due, NEW X
  PROVE  LeaveEvents(X)
  BY DEF LeaveEvents

\* Captor reviews are booked.
LEMMA ReviewsBooked ==
  ASSUME EventsTyped(due), NEW R, due' = due \cup {<<"captor", r.id>> : r \in R}, NEW X
  PROVE  LeaveEvents(X)
<1>1. \A e \in due' : e \in due \/ \E id : e = <<"captor", id>>
  OBVIOUS
<1>2. EventsTyped(due')
  BY <1>1, EventNames DEF EventsTyped
<1>3. ASSUME NEW o
      PROVE  /\ <<"arrive", o>> \in due' => <<"arrive", o>> \in due
             /\ <<"return", o>> \in due' => <<"return", o>> \in due
             /\ Depart(o, "out") \in due' => Depart(o, "out") \in due
             /\ <<"return", o>> \in due => <<"return", o>> \in due'
  <2>1. \A id : LET e == <<"captor", id>>
                IN  e # <<"arrive", o>> /\ e # <<"return", o>> /\ e # Depart(o, "out")
    BY EventsApart
  <2> QED  BY <1>1, <2>1
<1> QED  BY <1>2, <1>3 DEF LeaveEvents

\* Raiders come home with their prisoners.
LEMMA RaidReturnsKeeps ==
  ASSUME WarInv, NEW o, RaidReturns(o)
  PROVE  WarInv'
<1> DEFINE K == {<<o, "back">>}
           m == roads[<<o, "back">>]
<1>1. /\ pending = {} /\ pending' = {} /\ committed = {} /\ committed' = {}
      /\ UNCHANGED body /\ Dismiss(o, "back") /\ <<o, "back">> \in DOMAIN roads
      /\ ops' = Except(ops, {o}) /\ custody' = AtHome(m.captives, o[2])
  BY DEF RaidReturns, OnRoad, Quiet
<1>2. Leave({o}, {})
  BY <1>1, PlainLeave
<1>3. LeaveRoads(K)
  BY <1>1, RoadDismissed
<1>4. Detached({o}, K, {})
  BY DEF Detached
<1>5. \A r \in custody : r.who \notin m.captives =>
        /\ r.at[1] = "road" => <<r.at[2], "back">> \notin K
        /\ r.at[1] = "op" => r.at[2] \notin {o}
  BY <1>1, NoneAboard
<1>6. LeaveRecords({o}, K)
  <2>1. PICK who, f : who = m.captives /\ f = o[2]
    OBVIOUS
  <2>2. custody' = AtHome(who, f)
    BY <1>1, <2>1
  <2> QED  BY <1>5, <2>1, <2>2, RecordsBroughtIn
<1>7. LeaveEvents({o})
  <2>1. PICK R : due' = due \cup {<<"captor", r.id>> : r \in R}
    BY DEF RaidReturns
  <2>2. EventsTyped(due)
    BY DEF WarInv, WarTypes
  <2> QED  BY <2>1, <2>2, ReviewsBooked
<1>8. {} \in SUBSET People
  OBVIOUS
<1> QED  BY <1>1, <1>2, <1>3, <1>4, <1>6, <1>7, <1>8, LeavingKeeps

\* Raiders who are lost on the way free their prisoners.
LEMMA RaidLostKeeps ==
  ASSUME WarInv, NEW o, RaidLost(o)
  PROVE  WarInv'
<1> DEFINE K == {<<o, "back">>}
           m == roads[<<o, "back">>]
<1>1. /\ pending = {} /\ pending' = {} /\ committed = {} /\ committed' = {}
      /\ UNCHANGED <<body, due>> /\ Dismiss(o, "back") /\ <<o, "back">> \in DOMAIN roads
      /\ ops' = Except(ops, {o}) /\ custody' = {c \in custody : c.who \notin m.captives}
  BY DEF RaidLost, OnRoad, Quiet
<1>2. Leave({o}, {})
  BY <1>1, PlainLeave
<1>3. LeaveRoads(K)
  BY <1>1, RoadDismissed
<1>4. Detached({o}, K, {})
  BY DEF Detached
<1>5. custody' \subseteq custody /\ \A r \in custody' :
        /\ r.at[1] = "road" => <<r.at[2], "back">> \notin K
        /\ r.at[1] = "op" => r.at[2] \notin {o}
  BY <1>1, NoneAboard
<1>6. LeaveRecords({o}, K)
  BY <1>5, RecordsLeft
<1>7. LeaveEvents({o})
  BY <1>1, NoEvents DEF WarInv, WarTypes
<1>8. {} \in SUBSET People
  OBVIOUS
<1> QED  BY <1>1, <1>2, <1>3, <1>4, <1>6, <1>7, <1>8, LeavingKeeps

\* A party that is stopped on its way out.
LEMMA RoadStoppedKeeps ==
  ASSUME WarInv, NEW o, RoadStopped(o)
  PROVE  WarInv'
<1> DEFINE K == {<<o, "out">>}
<1>1. /\ pending = {} /\ pending' = {} /\ committed = {} /\ committed' = {}
      /\ UNCHANGED <<body, due, custody>> /\ Dismiss(o, "out") /\ <<o, "out">> \in DOMAIN roads
      /\ o \in DOMAIN ops /\ ops' = Except(ops, {o})
  BY DEF RoadStopped, OnRoad, Quiet
<1>2. ops[o].status # "traveling_return"
  BY <1>1 DEF WarInv, Outward
<1>3. Leave({o}, {})
  BY <1>1, PlainLeave
<1>4. LeaveRoads(K)
  BY <1>1, RoadDismissed
<1>5. <<o, "back">> \in DOMAIN roads => roads[<<o, "back">>].party = {}
  BY <1>2 DEF WarInv, Homebound
<1>6. Detached({o}, K, {})
  BY <1>5 DEF Detached
<1>7. \A r \in custody' : /\ r.at[1] = "road" => <<r.at[2], "back">> \notin K
                          /\ r.at[1] = "op" => r.at[2] \notin {o}
  BY <1>1, <1>2 DEF WarInv, Recorded
<1>8. LeaveRecords({o}, K)
  BY <1>1, <1>7, RecordsLeft
<1>9. LeaveEvents({o})
  BY <1>1, NoEvents DEF WarInv, WarTypes
<1>10. {} \in SUBSET People
  OBVIOUS
<1> QED  BY <1>1, <1>3, <1>4, <1>6, <1>8, <1>9, <1>10, LeavingKeeps

\* A lost party leaves those it brought to go home by themselves.
LEMMA ReturnLostKeeps ==
  ASSUME WarInv, NEW o, ReturnLost(o)
  PROVE  WarInv'
<1> DEFINE K == {<<o, "back">>}
           m == roads[<<o, "back">>]
<1>1. /\ pending = {} /\ pending' = {} /\ committed = {} /\ committed' = {}
      /\ UNCHANGED <<custody, body>> /\ Dismiss(o, "back")
      /\ <<o, "back">> \in DOMAIN roads /\ m.kind = "travel" /\ o \in DOMAIN ops
  BY DEF ReturnLost, OnRoad, Quiet
<1>2. PICK f, A :
        /\ A = {p \in m.carried : ~Near(Owner(p), f) /\ HomeRef(p) \notin DOMAIN ops \ {o}}
        /\ ops' = Joined([r \in {HomeRef(p) : p \in A} |-> HomeOp(r[3], Owner(r[3]), f)],
                         Except(ops, {o}))
        /\ due' = due \cup {Depart(HomeRef(p), "back") : p \in A}
  BY DEF ReturnLost
<1>3. m.captives = {} /\ m.carried \subseteq m.party /\ m.party \subseteq People
  BY <1>1 DEF WarInv, WarTypes, RoadsTyped, IsRoad, RoadsSound, RoadSound
<1>4. A \subseteq m.party /\ A \in SUBSET People /\ \A p \in A : HomeRef(p) \notin DOMAIN ops \ {o}
  BY <1>2, <1>3
<1>5. Leave({o}, A)
  <2>1. PICK H : H = [r \in {HomeRef(p) : p \in A} |-> HomeOp(r[3], Owner(r[3]), f)]
    OBVIOUS
  <2>2. PICK E : E = Except(ops, {o})
    OBVIOUS
  <2>3. DOMAIN E = DOMAIN ops \ {o} /\ \A s \in DOMAIN ops \ {o} : E[s] = ops[s]
    BY <2>2, ExceptEntry
  <2>4. DOMAIN H = {HomeRef(p) : p \in A}
    BY <2>1
  <2>5. ops' = Joined(H, E)
    BY <1>2, <2>1, <2>2
  <2>6. /\ DOMAIN ops' = DOMAIN H \cup DOMAIN E
        /\ \A x \in DOMAIN H : ops'[x] = H[x]
        /\ \A x \in DOMAIN E \ DOMAIN H : ops'[x] = E[x]
    BY <2>5 DEF Joined
  <2>7. \A s \in DOMAIN ops \ {o} : s \notin DOMAIN H
    BY <1>4, <2>4
  <2>8. ASSUME NEW p \in A PROVE Homing(ops'[HomeRef(p)], p)
    <3>1. PICK h, y, g : h = HomeRef(p) /\ g = Owner(p) /\ y = HomeOp(p, g, f)
      OBVIOUS
    <3>2. h \in DOMAIN H /\ h[3] = p
      BY <2>4, <3>1 DEF HomeRef
    <3>3. H[h] = HomeOp(h[3], Owner(h[3]), f)
      BY <2>1, <2>4, <3>2
    <3>4. ops'[h] = y
      BY <2>6, <3>1, <3>2, <3>3
    <3>5. p \in People
      BY <1>4
    <3>6. Homing(y, p)
      BY <3>1, <3>5, NewHomeOp DEF Homing
    <3> QED  BY <3>1, <3>4, <3>6
  <2> QED  BY <1>4, <2>3, <2>4, <2>6, <2>7, <2>8 DEF Leave
<1>6. LeaveRoads(K)
  BY <1>1, RoadDismissed
<1>7. ASSUME NEW p \in A
      PROVE  /\ \A s \in DOMAIN ops \ {o} : p \notin ops[s].party
             /\ \A n \in DOMAIN roads \ K : p \notin roads[n].party
  <2>1. p \in m.party /\ p \in People
    BY <1>4
  <2>2. Serves(p, o)
    BY <1>1, <2>1 DEF Serves
  <2>3. \A s : Serves(p, s) => s = o
    BY <2>1, <2>2 DEF WarInv, Alone
  <2>4. \A s \in DOMAIN ops \ {o} : p \notin ops[s].party
    BY <2>3 DEF Serves
  <2>5. ASSUME NEW n \in DOMAIN roads \ K, p \in roads[n].party PROVE FALSE
    <3>1. n = <<n[1], n[2]>> /\ n[2] \in {"out", "back"}
      BY DEF WarInv, WarTypes, RoadsTyped
    <3>2. Serves(p, n[1])
      BY <2>5, <3>1 DEF Serves
    <3>3. n[1] = o
      BY <2>3, <3>2
    <3> QED  BY <1>1, <2>1, <3>3, OneRoadHome
  <2> QED  BY <2>4, <2>5
<1>8. Detached({o}, K, A)
  BY <1>7 DEF Detached
<1>9. \A r \in custody : /\ r.at[1] = "road" => <<r.at[2], "back">> \notin K
                         /\ r.at[1] = "op" => r.at[2] \notin {o}
  BY <1>1, <1>3, NoneAboard
<1>10. LeaveRecords({o}, K)
  BY <1>1, <1>9, RecordsLeft
<1>11. LeaveEvents({o})
  <2>1. PICK gone, X : gone = {} /\ X = {o}
    OBVIOUS
  <2>2. EventsTyped(due) /\ gone \subseteq {<<"return", s>> : s \in X}
    BY <2>1 DEF WarInv, WarTypes
  <2>3. due' = (due \ gone) \cup {Depart(HomeRef(p), "back") : p \in A}
    BY <1>2, <2>1
  <2>4. LeaveEvents(X)
    BY <2>2, <2>3, HomeEvents
  <2> QED  BY <2>1, <2>4
<1> QED  BY <1>1, <1>4, <1>5, <1>6, <1>8, <1>10, <1>11, LeavingKeeps

\* A prisoner is paid for and sets off for home.
LEMMA PayRansomKeeps ==
  ASSUME WarInv, NEW j, PayRansom(j)
  PROVE  WarInv'
<1>1. /\ pending = {} /\ pending' = {} /\ j \in committed /\ j[1] = "response"
      /\ committed' = committed \ {j} /\ UNCHANGED <<roads, body>>
  BY DEF PayRansom, Settles
<1>2. PICK r \in Record(j[2]) :
        /\ body[r.who] = "fit" /\ HomeRef(r.who) \notin DOMAIN ops /\ r.who \notin OnOps
        /\ custody' = custody \ {r}
        /\ ops' = With(ops, HomeRef(r.who), HomeOp(r.who, j[3], r.holder))
        /\ due' = due \cup {Depart(HomeRef(r.who), "back")}
  BY DEF PayRansom
<1>3. PICK p, h, y, A : /\ p = r.who /\ h = HomeRef(p) /\ y = HomeOp(p, j[3], r.holder)
                        /\ A = {p}
  OBVIOUS
<1>4. r \in custody
  BY DEF Record
<1>5. p \in People
  BY <1>3, <1>4 DEF WarInv, WarTypes, RecordsTyped, IsRecord
<1>6. Homing(y, p)
  BY <1>3, <1>5, NewHomeOp DEF Homing
<1>7. \A i \in committed' : i[1] # "aftermath"
  BY <1>1, NoAftermaths
<1>8. A \in SUBSET People
  BY <1>3, <1>5
<1>9. Leave({}, A)
  <2>1. ops' = With(ops, h, y)
    BY <1>2, <1>3
  <2>2. /\ DOMAIN ops' = DOMAIN ops \cup {h} /\ ops'[h] = y
        /\ \A s \in DOMAIN ops : s # h => ops'[s] = ops[s]
    BY <2>1 DEF With
  <2>3. h \notin DOMAIN ops
    BY <1>2, <1>3
  <2>4. \A q \in A : HomeRef(q) \notin DOMAIN ops /\ Homing(ops'[HomeRef(q)], q)
    BY <1>3, <1>6, <2>2, <2>3
  <2>5. DOMAIN ops' = DOMAIN ops \cup {HomeRef(q) : q \in A}
    BY <1>3, <2>2
  <2> QED  BY <2>2, <2>3, <2>4, <2>5 DEF Leave
<1>10. LeaveRoads({})
  BY <1>1 DEF LeaveRoads
<1>11. Detached({}, {}, A)
  <2>1. \A o : ~Serves(p, o)
    BY <1>2, <1>3, <1>4, PrisonerServesNobody
  <2>2. \A s \in DOMAIN ops : p \notin ops[s].party
    BY <2>1 DEF Serves
  <2>3. ASSUME NEW n \in DOMAIN roads, p \in roads[n].party PROVE FALSE
    <3>1. n = <<n[1], n[2]>> /\ n[2] \in {"out", "back"}
      BY DEF WarInv, WarTypes, RoadsTyped
    <3> QED  BY <2>1, <2>3, <3>1 DEF Serves
  <2> QED  BY <1>3, <2>2, <2>3 DEF Detached
<1>12. LeaveRecords({}, {})
  <2>1. custody' \subseteq custody
    BY <1>2
  <2> QED  BY <2>1, RecordsLeft
<1>13. LeaveEvents({})
  <2>1. PICK gone, X : gone = {} /\ X = {}
    OBVIOUS
  <2>2. EventsTyped(due) /\ gone \subseteq {<<"return", s>> : s \in X}
    BY <2>1 DEF WarInv, WarTypes
  <2>3. due' = (due \ gone) \cup {Depart(HomeRef(q), "back") : q \in A}
    BY <1>2, <1>3, <2>1
  <2>4. LeaveEvents(X)
    BY <2>2, <2>3, HomeEvents
  <2> QED  BY <2>1, <2>4
<1> QED  BY <1>1, <1>7, <1>8, <1>9, <1>10, <1>11, <1>12, <1>13, LeavingKeeps

-----------------------------------------------------------------------------
(* Operations advance.                                                      *)

\* What a record points at is there.
Placed(r) ==
  /\ r.at[1] = "road" => <<r.at[2], "back">> \in DOMAIN roads
                         /\ r.who \in roads[<<r.at[2], "back">>].captives
  /\ r.at[1] = "op" => /\ r.at[2] \in DOMAIN ops /\ r.who \in ops[r.at[2]].captives
                       /\ ops[r.at[2]].status = "traveling_return"
                       /\ <<"return", r.at[2]>> \in due
                       /\ <<r.at[2], "back">> \notin DOMAIN roads

\* One operation changes, and those of N begin.
Stage(o, N) ==
  /\ DOMAIN ops' = DOMAIN ops \cup N /\ N \cap DOMAIN ops = {}
  /\ \A s \in DOMAIN ops \ {o} : ops'[s] = ops[s]
  /\ IsOp(ops'[o]) /\ OpSound(o, ops'[o], custody', body)
  /\ \A p \in ops'[o].party : Serves(p, o)

\* Those who are called were free.
Joining(N) ==
  /\ \A s \in N : /\ s[1] = "aid" /\ IsOp(ops'[s]) /\ OpSound(s, ops'[s], custody', body)
                  /\ ops'[s].status = "mobilizing" /\ \A p \in ops'[s].party : AtLiberty(p)
  /\ \A s, t \in N : s # t => ops'[s].party \cap ops'[t].party = {}

\* Its road may begin or end; roads back remain.
StageRoads(o) ==
  /\ \A m \in DOMAIN roads' :
       \/ m \in DOMAIN roads /\ roads'[m] = roads[m]
       \/ /\ m = <<o, m[2]>> /\ m[2] \in {"out", "back"} /\ IsRoad(roads'[m])
          /\ RoadSound(m, roads'[m], custody', body) /\ roads'[m].party \subseteq ops'[o].party
  /\ \A s : <<s, "back">> \in DOMAIN roads =>
       <<s, "back">> \in DOMAIN roads' /\ roads'[<<s, "back">>] = roads[<<s, "back">>]
  /\ \A s : <<s, "back">> \in DOMAIN roads' => <<s, "back">> \in DOMAIN roads \/ s = o

\* It is on the road it should be on.
OnItsRoad(o) ==
  /\ <<o, "out">> \in DOMAIN roads' =>
       /\ ops'[o].status \in {"mobilizing", "traveling_outbound"}
       /\ ops'[o].status = "traveling_outbound" => <<"arrive", o>> \notin due'
  /\ <<o, "back">> \in DOMAIN roads' /\ roads'[<<o, "back">>].party # {} =>
       /\ ops'[o].status = "traveling_return"
       /\ roads'[<<o, "back">>].party \subseteq ops'[o].party
       /\ <<"return", o>> \notin due'

\* Records that do not point at the operation, or point at it as it is now.
StageRecords(o) ==
  /\ RecordsTyped(custody') /\ Once(custody')
  /\ \A d \in custody' : \E r \in custody :
       /\ d.who = r.who
       /\ \/ d.at = r.at /\ (r.at[1] = "op" => r.at[2] # o)
          \/ Placed(d)'

StageEvents(o, N) ==
  /\ EventsTyped(due')
  /\ \A s : /\ <<"arrive", s>> \in due' => <<"arrive", s>> \in due \/ s = o
            /\ <<"return", s>> \in due' => <<"return", s>> \in due \/ s = o
            /\ Depart(s, "out") \in due' => Depart(s, "out") \in due \/ s \in N
            /\ <<"return", s>> \in due /\ s # o => <<"return", s>> \in due'

\* An operation that advances keeps the rest as it is.
LEMMA AdvanceKeeps ==
  ASSUME WarInv, NEW o \in DOMAIN ops, NEW N, Stage(o, N), Joining(N), StageRoads(o), OnItsRoad(o),
         StageRecords(o), StageEvents(o, N), UNCHANGED <<pending, committed, body>>,
         \A j \in pending \cup committed : j[1] = "aftermath" => j[2] # o /\ N = {}
  PROVE  WarInv'
<1>0. Fewer(custody, custody')
  BY DEF StageRecords, Fewer
<1>1. \A s \in DOMAIN ops' : \/ s = o
                             \/ s \in DOMAIN ops /\ s # o /\ ops'[s] = ops[s]
                             \/ s \in N /\ s \notin DOMAIN ops /\ s # o
  BY DEF Stage
<1>2. WarTypes'
  <2>1. OpsTyped(ops')
    BY <1>1 DEF OpsTyped, Stage, Joining, WarInv, WarTypes
  <2>2. RoadsTyped(roads')
    <3> SUFFICES ASSUME NEW m \in DOMAIN roads'
                 PROVE  m = <<m[1], m[2]>> /\ m[2] \in {"out", "back"} /\ IsRoad(roads'[m])
      BY DEF RoadsTyped
    <3>1. CASE m \in DOMAIN roads /\ roads'[m] = roads[m]
      BY <3>1 DEF WarInv, WarTypes, RoadsTyped
    <3>2. CASE m = <<o, m[2]>> /\ m[2] \in {"out", "back"} /\ IsRoad(roads'[m])
      BY <3>2
    <3> QED  BY <3>1, <3>2 DEF StageRoads
  <2> QED  BY <2>1, <2>2 DEF WarInv, WarTypes, BodyTyped, StageRecords, StageEvents
<1>3. OpsSound'
  <2> SUFFICES ASSUME NEW s \in DOMAIN ops' PROVE OpSound(s, ops'[s], custody', body)
    BY DEF OpsSound
  <2>1. CASE s = o
    BY <2>1 DEF Stage
  <2>2. CASE s \in DOMAIN ops /\ s # o /\ ops'[s] = ops[s]
    <3>1. IsOp(ops[s]) /\ OpSound(s, ops[s], custody, body)
      BY <2>2 DEF WarInv, WarTypes, OpsTyped, OpsSound
    <3> QED  BY <1>0, <2>2, <3>1, OpUntouched
  <2>3. CASE s \in N
    BY <2>3 DEF Joining
  <2> QED  BY <1>1, <2>1, <2>2, <2>3
<1>4. RoadsSound'
  <2> SUFFICES ASSUME NEW m \in DOMAIN roads' PROVE RoadSound(m, roads'[m], custody', body)
    BY DEF RoadsSound
  <2>1. CASE m \in DOMAIN roads /\ roads'[m] = roads[m]
    <3>1. RoadSound(m, roads[m], custody, body)
      BY <2>1 DEF WarInv, RoadsSound
    <3> QED  BY <1>0, <2>1, <3>1, RoadUntouched
  <2>2. CASE RoadSound(m, roads'[m], custody', body)
    BY <2>2
  <2> QED  BY <2>1, <2>2 DEF StageRoads
<1>5. Records'
  BY <1>0 DEF WarInv, Records, StageRecords, Fewer
<1>6. \A s : <<s, "out">> \in DOMAIN roads' => <<s, "out">> \in DOMAIN roads \/ s = o
  <2> SUFFICES ASSUME NEW s, <<s, "out">> \in DOMAIN roads'
               PROVE  <<s, "out">> \in DOMAIN roads \/ s = o
    OBVIOUS
  <2>1. PICK m : m = <<s, "out">>
    OBVIOUS
  <2>2. m \in DOMAIN roads \/ m = <<o, m[2]>>
    BY <2>1 DEF StageRoads
  <2>3. m = <<o, m[2]>> => s = o
    BY <2>1
  <2> QED  BY <2>1, <2>2, <2>3
<1>7. Outward'
  <2>1. \A s : Depart(s, "out") \in due' => s[1] # "home"
    BY DEF WarInv, Outward, StageEvents, Joining
  <2> SUFFICES ASSUME NEW s, <<s, "out">> \in DOMAIN roads', s \in DOMAIN ops'
               PROVE  /\ ops'[s].status \in {"mobilizing", "traveling_outbound"}
                      /\ ops'[s].status = "traveling_outbound" => <<"arrive", s>> \notin due'
    BY <2>1 DEF Outward
  <2>2. CASE s = o
    BY <2>2 DEF OnItsRoad
  <2>3. CASE s \in DOMAIN ops /\ s # o /\ ops'[s] = ops[s]
    <3>1. <<s, "out">> \in DOMAIN roads
      BY <1>6, <2>3
    <3> QED  BY <2>3, <3>1 DEF WarInv, Outward, StageEvents
  <2>4. CASE s \in N
    BY <2>4 DEF Joining
  <2> QED  BY <1>1, <2>2, <2>3, <2>4
<1>8. Homebound'
  <2> SUFFICES ASSUME NEW s, <<s, "back">> \in DOMAIN roads', roads'[<<s, "back">>].party # {}
               PROVE  /\ s \in DOMAIN ops' /\ ops'[s].status = "traveling_return"
                      /\ roads'[<<s, "back">>].party \subseteq ops'[s].party
                      /\ <<"return", s>> \notin due'
    BY DEF Homebound
  <2>1. CASE s = o
    BY <2>1 DEF OnItsRoad, Stage
  <2>2. CASE s # o
    <3>1. <<s, "back">> \in DOMAIN roads /\ roads'[<<s, "back">>] = roads[<<s, "back">>]
      BY <2>2 DEF StageRoads
    <3>2. /\ s \in DOMAIN ops /\ ops[s].status = "traveling_return"
          /\ roads[<<s, "back">>].party \subseteq ops[s].party
          /\ <<"return", s>> \notin due
      BY <3>1 DEF WarInv, Homebound
    <3>3. s \in DOMAIN ops' /\ ops'[s] = ops[s]
      BY <2>2, <3>2 DEF Stage
    <3> QED  BY <2>2, <3>1, <3>2, <3>3 DEF StageEvents
  <2> QED  BY <2>1, <2>2
<1>9. Recorded'
  <2> SUFFICES ASSUME NEW d \in custody' PROVE Placed(d)'
    BY DEF Recorded, Placed
  <2>1. PICK r \in custody : /\ d.who = r.who
                             /\ \/ d.at = r.at /\ (r.at[1] = "op" => r.at[2] # o)
                                \/ Placed(d)'
    BY DEF StageRecords
  <2>2. CASE Placed(d)'
    BY <2>2
  <2>3. CASE d.at = r.at /\ (r.at[1] = "op" => r.at[2] # o)
    <3>1. Placed(r)
      BY DEF WarInv, Recorded, Placed
    <3>2. r.at[1] = "road" => <<r.at[2], "back">> \in DOMAIN roads'
                             /\ r.who \in roads'[<<r.at[2], "back">>].captives
      BY <3>1 DEF Placed, StageRoads
    <3>3. r.at[1] = "op" => /\ r.at[2] \in DOMAIN ops' /\ r.who \in ops'[r.at[2]].captives
                            /\ ops'[r.at[2]].status = "traveling_return"
                            /\ <<"return", r.at[2]>> \in due'
                            /\ <<r.at[2], "back">> \notin DOMAIN roads'
      BY <2>3, <3>1 DEF Placed, Stage, StageRoads, StageEvents
    <3> QED  BY <2>1, <2>3, <3>2, <3>3 DEF Placed
  <2> QED  BY <2>1, <2>2, <2>3
<1>10. ASSUME NEW p, NEW s, Serves(p, s)'
       PROVE  Serves(p, s) \/ (s \in N /\ p \in ops'[s].party)
  <2>1. CASE s \in DOMAIN ops' /\ p \in ops'[s].party
    <3>1. CASE s = o
      BY <2>1, <3>1 DEF Stage
    <3>2. CASE s \in DOMAIN ops /\ s # o /\ ops'[s] = ops[s]
      BY <2>1, <3>2 DEF Serves
    <3> QED  BY <1>1, <2>1, <3>1, <3>2
  <2>2. CASE \E d \in {"out", "back"} : <<s, d>> \in DOMAIN roads' /\ p \in roads'[<<s, d>>].party
    <3>1. PICK d \in {"out", "back"} : <<s, d>> \in DOMAIN roads' /\ p \in roads'[<<s, d>>].party
      BY <2>2
    <3>2. PICK m : m = <<s, d>>
      OBVIOUS
    <3>3. CASE m \in DOMAIN roads /\ roads'[m] = roads[m]
      BY <3>1, <3>2, <3>3 DEF Serves
    <3>4. CASE m = <<o, m[2]>> /\ roads'[m].party \subseteq ops'[o].party
      <4>1. s = o
        BY <3>2, <3>4
      <4> QED  BY <3>1, <3>2, <3>4, <4>1 DEF Stage
    <3> QED  BY <3>1, <3>2, <3>3, <3>4 DEF StageRoads
  <2> QED  BY <1>10, <2>1, <2>2 DEF Serves
<1>11. Judged'
  <2> SUFFICES ASSUME NEW j \in pending \cup committed, j[1] = "aftermath" PROVE Stands(j)'
    BY DEF Judged
  <2>1. Stands(j) /\ j[2] # o /\ N = {}
    BY DEF WarInv, Judged
  <2>2. \A p : AtLiberty(p) => AtLiberty(p)'
    BY <1>0, <1>10, <2>1 DEF AtLiberty, Fewer
  <2>3. <<"arrive", j[2]>> \notin due'
    BY <2>1 DEF Stands, StageEvents
  <2>4. j[2] \in DOMAIN ops' => ops'[j[2]].status = "return_preparing"
    BY <1>1, <2>1 DEF Stands
  <2> QED  BY <2>1, <2>2, <2>3, <2>4 DEF Stands
<1>12. Alone'
  <2> SUFFICES ASSUME NEW p \in People, NEW s, NEW t, Serves(p, s)', Serves(p, t)' PROVE s = t
    BY DEF Alone
  <2>1. Serves(p, s) \/ (s \in N /\ p \in ops'[s].party)
    BY <1>10
  <2>2. Serves(p, t) \/ (t \in N /\ p \in ops'[t].party)
    BY <1>10
  <2>3. s \in N /\ p \in ops'[s].party => ~Serves(p, t)
    BY DEF Joining, AtLiberty
  <2>4. t \in N /\ p \in ops'[t].party => ~Serves(p, s)
    BY DEF Joining, AtLiberty
  <2>5. Serves(p, s) /\ Serves(p, t) => s = t
    BY DEF WarInv, Alone
  <2>6. s \in N /\ p \in ops'[s].party /\ t \in N /\ p \in ops'[t].party => s = t
    BY DEF Joining
  <2> QED  BY <2>1, <2>2, <2>3, <2>4, <2>5, <2>6
<1> QED  BY <1>2, <1>3, <1>4, <1>5, <1>7, <1>8, <1>9, <1>11, <1>12 DEF WarInv

\* An operation that sets out frees nobody and has no prisoners.
LEMMA SettingOut ==
  ASSUME NEW o, NEW x, NEW C, NEW b, OpSound(o, x, C, b), x.status \in Setting
  PROVE  x.follow = Nobody /\ x.captives = {} /\ \A r \in C : r.who \notin x.party
  BY DEF OpSound, Setting

\* Where no road changes, an operation that is on none is on none.
LEMMA NoRoad ==
  ASSUME WarInv, NEW o, UNCHANGED roads, <<o, "out">> \notin DOMAIN roads,
         <<o, "back">> \notin DOMAIN roads \/ roads[<<o, "back">>].party = {}
  PROVE  StageRoads(o) /\ OnItsRoad(o)
  BY DEF StageRoads, OnItsRoad

\* Records that do not point at the operation.
LEMMA RecordsElsewhere ==
  ASSUME WarInv, NEW o, UNCHANGED custody,
         o \in DOMAIN ops => ops[o].status # "traveling_return"
  PROVE  StageRecords(o)
<1>1. RecordsTyped(custody) /\ Once(custody)
  BY DEF WarInv, WarTypes, Records
<1>2. \A r \in custody : r.who = r.who /\ r.at = r.at /\ (r.at[1] = "op" => r.at[2] # o)
  BY DEF WarInv, Recorded
<1> QED  BY <1>1, <1>2 DEF StageRecords

\* An arrival is marked, with the people of the road.
Arrived(x, party) == [x EXCEPT !.status = "arrived_pending", !.party = party]

\* What it changes.
LEMMA ArrivedOp ==
  ASSUME NEW x, IsOp(x), NEW party \in SUBSET People, NEW y, y = Arrived(x, party)
  PROVE  /\ IsOp(y) /\ Same(x, y) /\ y.status = "arrived_pending" /\ y.party = party
         /\ y.captives = x.captives /\ y.follow = x.follow
<1>1. /\ DOMAIN y = DOMAIN x /\ y.kind = x.kind /\ y.f = x.f /\ y.tgt = x.tgt
      /\ y.status = "arrived_pending" /\ y.party = party /\ y.captives = x.captives
      /\ y.follow = x.follow /\ y.issued = x.issued
  BY DEF Arrived, IsOp, OpFields
<1> QED  BY <1>1 DEF IsOp, Same

\* A party comes in by the road.
LEMMA RoadArriveOutKeeps ==
  ASSUME WarInv, NEW o, RoadArriveOut(o)
  PROVE  WarInv'
<1> DEFINE K == {<<o, "out">>}
           m == roads[<<o, "out">>]
<1>1. /\ pending = {} /\ committed = {} /\ UNCHANGED <<pending, committed, custody, body>>
      /\ Dismiss(o, "out") /\ <<o, "out">> \in DOMAIN roads /\ o \in DOMAIN ops
      /\ due' = due \cup {<<"arrive", o>>}
      /\ ops' = [ops EXCEPT ![o].status = "arrived_pending", ![o].party = m.party]
  BY DEF RoadArriveOut, OnRoad, Quiet
<1>2. PICK x, y, P : x = ops[o] /\ P = m.party /\ y = Arrived(x, P)
  OBVIOUS
<1>3. IsOp(x) /\ OpSound(o, x, custody, body) /\ x.status \in Setting /\ x.status # "traveling_return"
  BY <1>1, <1>2 DEF WarInv, WarTypes, OpsTyped, OpsSound, Outward, Setting
<1>4. P \in SUBSET People /\ RoadSound(<<o, "out">>, m, custody, body)
  BY <1>1, <1>2 DEF WarInv, WarTypes, RoadsTyped, IsRoad, RoadsSound
<1>5. /\ IsOp(y) /\ Same(x, y) /\ y.status = "arrived_pending" /\ y.party = P
      /\ y.captives = x.captives /\ y.follow = x.follow
  BY <1>2, <1>3, <1>4, ArrivedOp
<1>6. DOMAIN ops' = DOMAIN ops /\ ops'[o] = y /\ \A s \in DOMAIN ops \ {o} : ops'[s] = ops[s]
  BY <1>1, <1>2, <1>3 DEF Arrived, IsOp, OpFields
<1>7. x.follow = Nobody /\ x.captives = {}
  BY <1>3, SettingOut
<1>8. /\ o[1] = "aid" => P \subseteq Members[o[2]]
      /\ \A r \in custody : r.who \notin P
      /\ \A p \in P : body[p] # "dead"
  BY <1>2, <1>4 DEF RoadSound
<1>9. OpSound(o, y, custody, body)
  BY <1>3, <1>5, <1>7, <1>8 DEF OpSound, Same
<1>10. \A p \in P : Serves(p, o)
  BY <1>1, <1>2 DEF Serves
<1>11. Stage(o, {})
  BY <1>1, <1>5, <1>6, <1>9, <1>10 DEF Stage
<1>12. Joining({})
  BY DEF Joining
<1>13. LeaveRoads(K)
  BY <1>1, RoadDismissed
<1>14. StageRoads(o)
  BY <1>13 DEF LeaveRoads, StageRoads
<1>15. <<o, "out">> \notin DOMAIN roads'
  BY <1>13 DEF LeaveRoads
<1>16. <<o, "back">> \in DOMAIN roads' => roads'[<<o, "back">>].party = {}
  BY <1>2, <1>3, <1>13 DEF LeaveRoads, WarInv, Homebound
<1>17. OnItsRoad(o)
  BY <1>15, <1>16 DEF OnItsRoad
<1>18. StageRecords(o)
  BY <1>1, <1>2, <1>3, RecordsElsewhere
<1>19. StageEvents(o, {})
  <2>1. EventsTyped(due')
    BY <1>1, EventNames DEF WarInv, WarTypes, EventsTyped
  <2>2. \A s : /\ <<"arrive", o>> # <<"return", s>> /\ <<"arrive", o>> # Depart(s, "out")
               /\ <<"arrive", o>> = <<"arrive", s>> => s = o
    BY EventsApart
  <2> QED  BY <1>1, <2>1, <2>2 DEF StageEvents
<1> QED  BY <1>1, <1>11, <1>12, <1>14, <1>17, <1>18, <1>19, AdvanceKeeps

\* What arrives is not what a judgment waits for, and is on no road.
LEMMA ArrivingApart ==
  ASSUME WarInv, NEW o, Arrives(o), Awaits(o)
  PROVE  /\ \A j \in pending \cup committed : j[1] = "aftermath" => j[2] # o
         /\ <<o, "out">> \notin DOMAIN roads
         /\ <<o, "back">> \in DOMAIN roads => roads[<<o, "back">>].party = {}
         /\ o \in DOMAIN ops /\ <<"arrive", o>> \in due /\ committed = {}
         /\ ops[o].status \in {"traveling_outbound", "arrived_pending"}
<1>1. /\ o \in DOMAIN ops /\ <<"arrive", o>> \in due /\ committed = {}
      /\ ops[o].status \in {"traveling_outbound", "arrived_pending"}
  BY DEF Arrives, Awaits
<1>2. \A j \in pending \cup committed : j[1] = "aftermath" => j[2] # o
  BY <1>1 DEF WarInv, Judged, Stands
<1>3. <<o, "out">> \notin DOMAIN roads
  BY <1>1 DEF WarInv, Outward
<1>4. <<o, "back">> \in DOMAIN roads => roads[<<o, "back">>].party = {}
  BY <1>1 DEF WarInv, Homebound
<1> QED  BY <1>1, <1>2, <1>3, <1>4

\* An arrival is used up, and a way home booked.
LEMMA ArrivalUsed ==
  ASSUME EventsTyped(due), NEW o, due' = (due \ {<<"arrive", o>>}) \cup {Depart(o, "back")}
  PROVE  StageEvents(o, {})
<1>1. EventsTyped(due')
  BY EventNames DEF EventsTyped
<1>2. \A s : /\ Depart(o, "back") # <<"return", s>> /\ Depart(o, "back") # <<"arrive", s>>
             /\ Depart(o, "back") # Depart(s, "out") /\ <<"arrive", o>> # <<"return", s>>
  BY EventsApart
<1> QED  BY <1>1, <1>2 DEF StageEvents

\* Allies take their post.
LEMMA ArriveToDefendKeeps ==
  ASSUME WarInv, NEW o, ArriveToDefend(o)
  PROVE  WarInv'
<1>1. /\ Arrives(o) /\ Awaits(o) /\ UNCHANGED <<pending, committed, custody, body, roads>>
      /\ due' = (due \ {<<"arrive", o>>}) \cup {Depart(o, "back")}
      /\ ops' = [ops EXCEPT ![o].status = "holding_defense"]
  BY DEF ArriveToDefend
<1>2. /\ \A j \in pending \cup committed : j[1] = "aftermath" => j[2] # o
      /\ <<o, "out">> \notin DOMAIN roads
      /\ <<o, "back">> \in DOMAIN roads => roads[<<o, "back">>].party = {}
      /\ o \in DOMAIN ops /\ ops[o].status \in {"traveling_outbound", "arrived_pending"}
  BY <1>1, ArrivingApart
<1>3. PICK x, y : x = ops[o] /\ y = [x EXCEPT !.status = "holding_defense"]
  OBVIOUS
<1>4. IsOp(x) /\ OpSound(o, x, custody, body) /\ x.status \in Setting
  BY <1>2, <1>3 DEF WarInv, WarTypes, OpsTyped, OpsSound, Setting
<1>5. /\ DOMAIN y = DOMAIN x /\ y.kind = x.kind /\ y.f = x.f /\ y.tgt = x.tgt
      /\ y.status = "holding_defense" /\ y.party = x.party /\ y.captives = x.captives
      /\ y.follow = x.follow /\ y.issued = x.issued
  BY <1>3, <1>4 DEF IsOp, OpFields
<1>6. DOMAIN ops' = DOMAIN ops /\ ops'[o] = y /\ \A s \in DOMAIN ops \ {o} : ops'[s] = ops[s]
  BY <1>1, <1>2, <1>3
<1>7. IsOp(y)
  BY <1>4, <1>5 DEF IsOp
<1>8. x.follow = Nobody /\ x.captives = {}
  BY <1>4, SettingOut
<1>9. OpSound(o, y, custody, body)
  BY <1>4, <1>5, <1>8 DEF OpSound, Setting
<1>10. \A p \in y.party : Serves(p, o)
  BY <1>2, <1>3, <1>5 DEF Serves
<1>11. Stage(o, {})
  BY <1>1, <1>6, <1>7, <1>9, <1>10 DEF Stage
<1>12. Joining({})
  BY DEF Joining
<1>13. StageRoads(o) /\ OnItsRoad(o)
  BY <1>1, <1>2, NoRoad
<1>14. StageRecords(o)
  BY <1>1, <1>2, RecordsElsewhere
<1>15. StageEvents(o, {})
  BY <1>1, ArrivalUsed DEF WarInv, WarTypes
<1> QED  BY <1>1, <1>2, <1>11, <1>12, <1>13, <1>14, <1>15, AdvanceKeeps

\* A party turns back without a fight.
LEMMA ArriveInPeaceKeeps ==
  ASSUME WarInv, NEW o, ArriveInPeace(o)
  PROVE  WarInv'
<1>1. /\ Arrives(o) /\ Awaits(o) /\ UNCHANGED <<pending, committed, custody, body, roads>>
      /\ due' = (due \ {<<"arrive", o>>}) \cup {Depart(o, "back")}
      /\ ops' = [ops EXCEPT ![o] = TurnBack(@, Living(@.party))] /\ ops[o].kind # "aid"
  BY DEF ArriveInPeace
<1>2. /\ \A j \in pending \cup committed : j[1] = "aftermath" => j[2] # o
      /\ <<o, "out">> \notin DOMAIN roads
      /\ <<o, "back">> \in DOMAIN roads => roads[<<o, "back">>].party = {}
      /\ o \in DOMAIN ops /\ ops[o].status \in {"traveling_outbound", "arrived_pending"}
  BY <1>1, ArrivingApart
<1>3. PICK x, y, P : x = ops[o] /\ P = Living(x.party) /\ y = TurnBack(x, P)
  OBVIOUS
<1>4. IsOp(x) /\ OpSound(o, x, custody, body) /\ x.status \in Setting
  BY <1>2, <1>3 DEF WarInv, WarTypes, OpsTyped, OpsSound, Setting
<1>5. P \subseteq x.party /\ P \in SUBSET People
  BY <1>3, <1>4 DEF Living, IsOp
<1>6. /\ IsOp(y) /\ Same(x, y) /\ y.status = "return_preparing" /\ y.party = P
      /\ y.captives = x.captives /\ y.follow = x.follow
  BY <1>3, <1>4, <1>5, TurnedOp
<1>7. DOMAIN ops' = DOMAIN ops /\ ops'[o] = y /\ \A s \in DOMAIN ops \ {o} : ops'[s] = ops[s]
  BY <1>1, <1>2, <1>3
<1>8. x.follow = Nobody /\ x.captives = {}
  BY <1>4, SettingOut
<1>9. OpSound(o, y, custody, body)
  BY <1>4, <1>5, <1>6, <1>8 DEF OpSound, Setting, Same
<1>10. \A p \in y.party : Serves(p, o)
  BY <1>2, <1>3, <1>5, <1>6 DEF Serves
<1>11. Stage(o, {})
  BY <1>1, <1>6, <1>7, <1>9, <1>10 DEF Stage
<1>12. Joining({})
  BY DEF Joining
<1>13. StageRoads(o) /\ OnItsRoad(o)
  BY <1>1, <1>2, NoRoad
<1>14. StageRecords(o)
  BY <1>1, <1>2, RecordsElsewhere
<1>15. StageEvents(o, {})
  BY <1>1, ArrivalUsed DEF WarInv, WarTypes
<1> QED  BY <1>1, <1>2, <1>11, <1>12, <1>13, <1>14, <1>15, AdvanceKeeps

-----------------------------------------------------------------------------
(* Departures.                                                              *)

Way(d) == IF d = "out" THEN "traveling_outbound" ELSE "traveling_return"

Callers(o, answer) == {<<"aid", a, o>> : a \in DOMAIN answer}

\* What a party is that departs, and on which roads it is.
LEMMA DepartingApart ==
  ASSUME WarInv, NEW o, NEW d \in {"out", "back"}, Departs(o, d)
  PROVE  /\ pending = {} /\ committed = {} /\ o \in DOMAIN ops /\ ops[o].party # {}
         /\ ops[o].status \in Expected(d) /\ <<o, d>> \notin DOMAIN roads
         /\ <<"arrive", o>> \notin due /\ <<"return", o>> \notin due
         /\ IsOp(ops[o]) /\ OpSound(o, ops[o], custody, body)
         /\ d = "out" => /\ o[1] # "home" /\ ops[o].status \in Setting
                         /\ <<o, "back">> \in DOMAIN roads => roads[<<o, "back">>].party = {}
         /\ d = "back" => <<o, "out">> \notin DOMAIN roads
         /\ \A p \in ops[o].party : body[p] # "dead"
<1>1. /\ pending = {} /\ committed = {} /\ o \in DOMAIN ops /\ ops[o].party # {}
      /\ ops[o].status \in Expected(d) /\ <<o, d>> \notin DOMAIN roads
      /\ <<"arrive", o>> \notin due /\ <<"return", o>> \notin due /\ Depart(o, d) \in due
      /\ ops[o].kind = "home" => Fit(ops[o].party) = ops[o].party
  BY DEF Departs, Quiet
<1>2. IsOp(ops[o]) /\ OpSound(o, ops[o], custody, body)
  BY <1>1 DEF WarInv, WarTypes, OpsTyped, OpsSound
<1>3. d = "out" => /\ o[1] # "home" /\ ops[o].status \in Setting
                   /\ <<o, "back">> \in DOMAIN roads => roads[<<o, "back">>].party = {}
  <2> SUFFICES ASSUME d = "out"
               PROVE  /\ o[1] # "home" /\ ops[o].status \in Setting
                      /\ <<o, "back">> \in DOMAIN roads => roads[<<o, "back">>].party = {}
    OBVIOUS
  <2>1. ops[o].status \in {"mobilizing", "traveling_outbound"}
    BY <1>1 DEF Expected
  <2> QED  BY <1>1, <2>1 DEF WarInv, Outward, Homebound, Setting
<1>4. d = "back" => <<o, "out">> \notin DOMAIN roads
  <2>1. d = "back" => ops[o].status \in {"return_preparing", "traveling_return", "holding_defense"}
    BY <1>1 DEF Expected
  <2> QED  BY <1>1, <2>1 DEF WarInv, Outward
<1>5. ASSUME NEW p \in ops[o].party, body[p] = "dead" PROVE FALSE
  <2>1. o = HomeRef(p) /\ ops[o].kind = o[1]
    BY <1>2, <1>5 DEF OpSound
  <2>2. ops[o].kind = "home"
    BY <2>1 DEF HomeRef
  <2> QED  BY <1>1, <1>5, <2>2 DEF Fit
<1> QED  BY <1>1, <1>2, <1>3, <1>4, <1>5

\* What becomes of the operation, and of those that it calls.
LEMMA SettingOff ==
  ASSUME WarInv, NEW o, NEW d \in {"out", "back"}, Departs(o, d),
         NEW taken \in SUBSET ops[o].party, NEW answer, Called(o, ops[o], answer),
         NEW z, IsOp(z), Same(ops[o], z), z.party = ops[o].party, z.follow = ops[o].follow,
         z.captives \subseteq ops[o].captives,
         ops' = Joined(With(ops, o, Marched(z, Way(d), taken)), Aids(o, ops[o], answer)),
         Fewer(custody, custody'), body' = body
  PROVE  /\ Stage(o, Callers(o, answer)) /\ Joining(Callers(o, answer))
         /\ ops'[o].status = Way(d) /\ ops'[o].party = ops[o].party
         /\ ops'[o].captives = z.captives
<1>1. /\ o \in DOMAIN ops /\ ops[o].status \in Expected(d)
      /\ IsOp(ops[o]) /\ OpSound(o, ops[o], custody, body)
      /\ d = "out" => ops[o].status \in Setting
      /\ \A p \in ops[o].party : body[p] # "dead"
  BY DepartingApart
<1>2. PICK x, y, A, N, s :
        /\ x = ops[o] /\ y = Marched(z, Way(d), taken) /\ A = Aids(o, x, answer)
        /\ N = Callers(o, answer) /\ s = Way(d)
  OBVIOUS
<1>3. taken \in SUBSET People
  BY <1>1 DEF IsOp
<1>4. /\ IsOp(y) /\ Same(z, y) /\ y.status = s /\ y.party = z.party
      /\ y.captives = z.captives /\ y.follow = z.follow
  BY <1>2, <1>3, MarchedOp
<1>5. /\ DOMAIN A = N
      /\ \A a \in DOMAIN answer :
           /\ a \in Factions /\ a # x.f /\ a # x.tgt /\ <<"aid", a, o>> \notin DOMAIN ops
           /\ answer[a] \subseteq Ready(a)
           /\ Fresh(A[<<"aid", a, o>>], "aid", a, x.tgt, answer[a])
  <2>1. Called(o, x, answer)
    BY <1>2
  <2> QED  BY <1>2, <2>1, AidsTyped DEF Callers
<1>6. N \cap DOMAIN ops = {}
  BY <1>2, <1>5 DEF Callers
<1>7. /\ DOMAIN ops' = DOMAIN ops \cup N /\ ops'[o] = y
      /\ \A t \in DOMAIN ops \ {o} : ops'[t] = ops[t]
      /\ \A t \in N : ops'[t] = A[t]
  <2>1. PICK W : W = With(ops, o, y)
    OBVIOUS
  <2>2. /\ DOMAIN W = DOMAIN ops \cup {o} /\ W[o] = y
        /\ \A t \in DOMAIN ops : t # o => W[t] = ops[t]
    BY <2>1 DEF With
  <2>3. ops' = Joined(W, A)
    BY <1>2, <2>1
  <2>4. /\ DOMAIN ops' = DOMAIN W \cup DOMAIN A
        /\ \A t \in DOMAIN W : ops'[t] = W[t]
        /\ \A t \in DOMAIN A \ DOMAIN W : ops'[t] = A[t]
    BY <2>3 DEF Joined
  <2>5. DOMAIN W = DOMAIN ops
    BY <1>1, <2>2
  <2> QED  BY <1>1, <1>5, <1>6, <2>2, <2>4, <2>5
<1>8. OpSound(o, y, custody', body)
  <2>1. /\ y.kind = x.kind /\ y.f = x.f /\ y.tgt = x.tgt /\ y.party = x.party
        /\ y.captives \subseteq x.captives /\ y.follow = x.follow
    BY <1>2, <1>4 DEF Same
  <2>2. CASE d = "out"
    <3>1. x.follow = Nobody /\ x.captives = {} /\ \A r \in custody : r.who \notin x.party
      BY <1>1, <1>2, <2>2, SettingOut
    <3>2. \A r \in custody' : r.who \notin x.party
      BY <3>1 DEF Fewer
    <3> QED  BY <1>1, <1>2, <2>1, <3>1, <3>2 DEF OpSound
  <2>3. CASE d = "back"
    <3>1. y.status = "traveling_return"
      BY <1>2, <1>4, <2>3 DEF Way
    <3>2. y.status \notin Setting \cup {"holding_defense"}
      BY <3>1 DEF Setting
    <3> QED  BY <1>1, <1>2, <2>1, <3>1, <3>2 DEF OpSound
  <2> QED  BY <2>2, <2>3
<1>9. \A p \in ops'[o].party : Serves(p, o)
  BY <1>1, <1>4, <1>7 DEF Serves
<1>10. Stage(o, N)
  BY <1>4, <1>6, <1>7, <1>8, <1>9 DEF Stage
<1>11. ASSUME NEW t \in N
       PROVE  /\ t[1] = "aid" /\ IsOp(ops'[t]) /\ OpSound(t, ops'[t], custody', body)
              /\ ops'[t].status = "mobilizing" /\ \A p \in ops'[t].party : AtLiberty(p)
              /\ t[2] \in Factions /\ ops'[t].party \subseteq Members[t[2]]
  <2>1. PICK a \in DOMAIN answer : t = <<"aid", a, o>>
    BY <1>2 DEF Callers
  <2>2. PICK v, P : v = ops'[t] /\ P = answer[a]
    OBVIOUS
  <2>3. /\ a \in Factions /\ a # x.tgt /\ P \subseteq Ready(a) /\ Fresh(v, "aid", a, x.tgt, P)
    BY <1>5, <1>7, <2>1, <2>2
  <2>4. \A p \in P : p \in Members[a] /\ body[p] # "dead" /\ AtLiberty(p)
    <3>1. \A p \in P : p \in Members[a] /\ p \notin Busy /\ body[p] = "fit"
      BY <2>3, ReadyAreFree
    <3>2. RoadsTyped(roads)
      BY DEF WarInv, WarTypes
    <3> QED  BY <3>1, <3>2, FreeServesNobody
  <2>5. \A p \in P : body[p] # "dead" /\ \A r \in custody' : r.who # p
    BY <2>4 DEF AtLiberty, Fewer
  <2>6. t[1] = "aid" /\ t[2] = a
    BY <2>1
  <2>7. v.tgt = x.tgt /\ v.party = P /\ v.status = "mobilizing" /\ IsOp(v)
    BY <2>3 DEF Fresh
  <2>8. Fresh(v, t[1], t[2], v.tgt, P)
    BY <2>3, <2>6, <2>7
  <2>9. P \subseteq Members[t[2]] /\ v.tgt # t[2]
    BY <2>3, <2>4, <2>6, <2>7
  <2>10. OpSound(t, v, custody', body)
    BY <2>5, <2>6, <2>8, <2>9, FreshIsSound
  <2> QED  BY <2>2, <2>3, <2>4, <2>6, <2>7, <2>9, <2>10
<1>12. ASSUME NEW t \in N, NEW u \in N, t # u PROVE ops'[t].party \cap ops'[u].party = {}
  <2>1. PICK a \in DOMAIN answer : t = <<"aid", a, o>>
    BY <1>2 DEF Callers
  <2>2. PICK c \in DOMAIN answer : u = <<"aid", c, o>>
    BY <1>2 DEF Callers
  <2>3. a # c /\ t[2] = a /\ u[2] = c
    BY <1>12, <2>1, <2>2
  <2>4. Members[t[2]] \cap Members[u[2]] = {}
    BY <1>11, <2>3, WarAssumption
  <2> QED  BY <1>11, <2>4
<1>13. Joining(N)
  BY <1>11, <1>12 DEF Joining
<1> QED  BY <1>2, <1>4, <1>7, <1>10, <1>13

\* A departure is used up: the arrival is booked, and the departures of those called.
LEMMA DepartureUsed ==
  ASSUME EventsTyped(due), NEW o, NEW d, NEW E, E \subseteq {<<"arrive", o>>, <<"return", o>>},
         NEW answer,
         due' = (due \ {Depart(o, d)}) \cup E \cup {Depart(<<"aid", a, o>>, "out") : a \in DOMAIN answer}
  PROVE  StageEvents(o, Callers(o, answer))
<1>1. \A e \in due' : \/ e \in due \/ e = <<"arrive", o>> \/ e = <<"return", o>>
                      \/ \E t \in Callers(o, answer) : e = Depart(t, "out")
  BY DEF Callers
<1>2. EventsTyped(due')
  BY <1>1, EventNames DEF EventsTyped
<1>3. ASSUME NEW s
      PROVE  /\ <<"arrive", s>> \in due' => <<"arrive", s>> \in due \/ s = o
             /\ <<"return", s>> \in due' => <<"return", s>> \in due \/ s = o
             /\ Depart(s, "out") \in due' => Depart(s, "out") \in due \/ s \in Callers(o, answer)
  <2>1. \A u, r : /\ Depart(u, "out") # <<"arrive", r>> /\ Depart(u, "out") # <<"return", r>>
                  /\ <<"arrive", u>> # Depart(r, "out") /\ <<"return", u>> # Depart(r, "out")
                  /\ <<"arrive", u>> # <<"return", r>>
                  /\ <<"arrive", u>> = <<"arrive", r>> => u = r
                  /\ <<"return", u>> = <<"return", r>> => u = r
                  /\ Depart(u, "out") = Depart(r, "out") => u = r
    BY EventsApart
  <2>2. <<"arrive", s>> \in due' => <<"arrive", s>> \in due \/ s = o
    BY <1>1, <2>1
  <2>3. <<"return", s>> \in due' => <<"return", s>> \in due \/ s = o
    BY <1>1, <2>1
  <2>4. Depart(s, "out") \in due' => Depart(s, "out") \in due \/ s \in Callers(o, answer)
    BY <1>1, <2>1
  <2> QED  BY <2>2, <2>3, <2>4
<1>4. ASSUME NEW s, <<"return", s>> \in due PROVE <<"return", s>> \in due'
  <2>1. <<"return", s>> # Depart(o, d)
    BY EventsApart
  <2> QED  BY <1>4, <2>1
<1> QED  BY <1>2, <1>3, <1>4 DEF StageEvents

\* No fighter is called by a party that goes home.
LEMMA NobodyCalled ==
  ASSUME NEW o, NEW x
  PROVE  Called(o, x, <<>>)
  BY DEF Called

\* The prisoners of a party are where it is.
LEMMA CarriedRecords ==
  ASSUME WarInv, NEW o \in DOMAIN ops, NEW kind, custody' = Carried(ops[o].captives, <<kind, o>>),
         \A d \in custody' : d.who \in ops[o].captives /\ d.at = <<kind, o>> => Placed(d)'
  PROVE  StageRecords(o)
<1>1. RecordsTyped(custody) /\ Once(custody)
  BY DEF WarInv, WarTypes, Records
<1>2. PICK who, where : who = ops[o].captives /\ where = <<kind, o>>
  OBVIOUS
<1>3. Moving(custody, custody', who, where)
  BY <1>1, <1>2, CarriedMoves
<1>4. RecordsTyped(custody') /\ Once(custody')
  BY <1>1, <1>3 DEF Moving
<1>5. ASSUME NEW d \in custody'
      PROVE  \E r \in custody : /\ d.who = r.who
                                /\ \/ d.at = r.at /\ (r.at[1] = "op" => r.at[2] # o)
                                   \/ Placed(d)'
  <2>1. PICK r \in custody : d.who = r.who /\ d.at = (IF r.who \in who THEN where ELSE r.at)
    BY <1>3 DEF Moving
  <2>2. CASE r.who \in who
    BY <1>2, <2>1, <2>2
  <2>3. CASE r.who \notin who
    <3>1. r.at[1] = "op" => r.at[2] # o
      BY <1>2, <2>3 DEF WarInv, Recorded
    <3> QED  BY <2>1, <2>3, <3>1
  <2> QED  BY <2>2, <2>3
<1> QED  BY <1>4, <1>5 DEF StageRecords

\* A departure within the settlement.
LEMMA DepartLocalKeeps ==
  ASSUME WarInv, NEW o, NEW d \in {"out", "back"}, DepartLocal(o, d)
  PROVE  WarInv'
<1>1. Departs(o, d) /\ UNCHANGED <<roads, pending, committed, body>>
  BY DEF DepartLocal
<1>2. /\ pending = {} /\ committed = {} /\ o \in DOMAIN ops
      /\ ops[o].status \in Expected(d) /\ <<o, d>> \notin DOMAIN roads
      /\ IsOp(ops[o])
      /\ d = "out" => (<<o, "back">> \in DOMAIN roads => roads[<<o, "back">>].party = {})
      /\ d = "back" => <<o, "out">> \notin DOMAIN roads
  BY <1>1, DepartingApart
<1>3. PICK taken \in SUBSET ops[o].party, answer \in Answers(o, ops[o]) :
        /\ IF d = "out" THEN Issued(o, ops[o], taken) /\ Called(o, ops[o], answer)
           ELSE taken = {} /\ answer = <<>>
        /\ ops' = Joined(With(ops, o, Marched(ops[o], Way(d), taken)), Aids(o, ops[o], answer))
        /\ due' = (due \ {Depart(o, d)})
                    \cup {IF d = "out" THEN <<"arrive", o>> ELSE <<"return", o>>}
                    \cup {Depart(<<"aid", a, o>>, "out") : a \in DOMAIN answer}
        /\ custody' = IF d = "out" THEN custody ELSE Carried(ops[o].captives, <<"op", o>>)
  BY DEF DepartLocal, Marched, Way
<1>4. Called(o, ops[o], answer)
  BY <1>3, NobodyCalled
<1>5. RecordsTyped(custody)
  BY DEF WarInv, WarTypes
<1>6. Fewer(custody, custody')
  <2>1. CASE d = "out"
    BY <1>3, <2>1 DEF Fewer
  <2>2. CASE d = "back"
    <3>1. PICK who, where : who = ops[o].captives /\ where = <<"op", o>>
      OBVIOUS
    <3>2. Moving(custody, custody', who, where)
      BY <1>3, <1>5, <2>2, <3>1, CarriedMoves
    <3> QED  BY <3>2 DEF Moving, Fewer
  <2> QED  BY <2>1, <2>2
<1>7. PICK z : z = ops[o]
  OBVIOUS
<1>8. /\ Stage(o, Callers(o, answer)) /\ Joining(Callers(o, answer))
      /\ ops'[o].status = Way(d) /\ ops'[o].captives = ops[o].captives
  <2>1. /\ IsOp(z) /\ Same(ops[o], z) /\ z.party = ops[o].party /\ z.follow = ops[o].follow
        /\ z.captives \subseteq ops[o].captives
        /\ ops' = Joined(With(ops, o, Marched(z, Way(d), taken)), Aids(o, ops[o], answer))
    BY <1>2, <1>3, <1>7 DEF Same
  <2>2. body' = body
    BY <1>1
  <2> QED  BY <1>1, <1>4, <1>6, <1>7, <2>1, <2>2, SettingOff
<1>9. StageEvents(o, Callers(o, answer))
  <2>1. PICK E : E = {IF d = "out" THEN <<"arrive", o>> ELSE <<"return", o>>}
    OBVIOUS
  <2>2. E \subseteq {<<"arrive", o>>, <<"return", o>>}
    BY <2>1
  <2>3. due' = (due \ {Depart(o, d)}) \cup E
                 \cup {Depart(<<"aid", a, o>>, "out") : a \in DOMAIN answer}
    BY <1>3, <2>1
  <2>4. EventsTyped(due)
    BY DEF WarInv, WarTypes
  <2> QED  BY <2>2, <2>3, <2>4, DepartureUsed
<1>10. StageRoads(o)
  BY <1>1 DEF StageRoads
<1>11. OnItsRoad(o)
  <2>1. CASE d = "out"
    BY <1>1, <1>2, <2>1 DEF OnItsRoad
  <2>2. CASE d = "back"
    BY <1>1, <1>2, <2>2 DEF OnItsRoad
  <2> QED  BY <2>1, <2>2
<1>12. StageRecords(o)
  <2>1. CASE d = "out"
    <3>1. custody' = custody /\ ops[o].status # "traveling_return"
      BY <1>2, <1>3, <2>1 DEF Expected
    <3> QED  BY <3>1, RecordsElsewhere
  <2>2. CASE d = "back"
    <3>1. custody' = Carried(ops[o].captives, <<"op", o>>)
      BY <1>3, <2>2
    <3>2. /\ o \in DOMAIN ops' /\ ops'[o].status = "traveling_return" /\ <<"return", o>> \in due'
          /\ <<o, "back">> \notin DOMAIN roads'
      BY <1>1, <1>2, <1>3, <1>8, <2>2 DEF Way, Stage
    <3>3. \A r \in custody' : r.who \in ops[o].captives /\ r.at = <<"op", o>> => Placed(r)'
      BY <1>8, <3>2 DEF Placed
    <3> QED  BY <1>2, <3>1, <3>3, CarriedRecords
  <2> QED  BY <2>1, <2>2
<1> QED  BY <1>1, <1>2, <1>8, <1>9, <1>10, <1>11, <1>12, AdvanceKeeps

\* The movement takes the party, and its prisoners on the way back.
LEMMA MovementSound ==
  ASSUME NEW o, NEW x, IsOp(x), NEW C, NEW D, NEW b, OpSound(o, x, C, b), Fewer(C, D),
         NEW d \in {"out", "back"}, x.party # {}, \A p \in x.party : b[p] # "dead",
         d = "out" => o[1] # "home" /\ x.status \in Setting,
         NEW y, y = Movement(x, d), NEW m, m = <<o, d>>
  PROVE  /\ IsRoad(y) /\ RoadSound(m, y, D, b) /\ y.party = x.party
         /\ d = "back" => y.captives = x.captives
         /\ x.captives # {} => Payload(x, d) \/ d = "out"
<1>1. /\ DOMAIN y = RoadFields /\ y.party = x.party /\ y.lost = FALSE
      /\ y.kind = (IF Payload(x, d) THEN "raid_return" ELSE "travel")
      /\ y.captives = (IF Payload(x, d) THEN x.captives ELSE {})
  BY DEF Movement, RoadFields
<1>2. y.carried \subseteq x.party \/ (Payload(x, d) /\ y.carried = x.captives)
  BY DEF Movement
<1>3. x.captives # {} => x.kind = "raid"
  BY DEF OpSound
<1>4. IsRoad(y)
  BY <1>1, <1>2 DEF IsRoad, IsOp
<1>5. x.captives # {} => Payload(x, d) \/ d = "out"
  BY <1>3 DEF Payload
<1>6. d = "back" => y.captives = x.captives
  BY <1>1, <1>5
<1>7. m[1] = o /\ m[2] = d
  OBVIOUS
<1>8. d = "out" => /\ o[1] # "home" /\ \A r \in D : r.who \notin y.party
                   /\ o[1] = "aid" => y.party \subseteq Members[o[2]]
  BY <1>1 DEF OpSound, Fewer
<1>9. y.kind = "travel" => y.captives = {} /\ y.carried \subseteq y.party
  BY <1>1, <1>2
<1>10. RoadSound(m, y, D, b)
  BY <1>1, <1>7, <1>8, <1>9 DEF RoadSound
<1> QED  BY <1>1, <1>4, <1>5, <1>6, <1>10

\* A departure by road.
LEMMA DepartRoadKeeps ==
  ASSUME WarInv, NEW o, NEW d \in {"out", "back"}, DepartRoad(o, d)
  PROVE  WarInv'
<1>1. Departs(o, d) /\ UNCHANGED <<pending, committed, body>>
  BY DEF DepartRoad
<1>2. /\ pending = {} /\ committed = {} /\ o \in DOMAIN ops /\ ops[o].party # {}
      /\ ops[o].status \in Expected(d) /\ <<o, d>> \notin DOMAIN roads
      /\ <<"arrive", o>> \notin due /\ <<"return", o>> \notin due
      /\ IsOp(ops[o]) /\ OpSound(o, ops[o], custody, body)
      /\ d = "out" => /\ o[1] # "home" /\ ops[o].status \in Setting
                      /\ <<o, "back">> \in DOMAIN roads => roads[<<o, "back">>].party = {}
      /\ d = "back" => <<o, "out">> \notin DOMAIN roads
      /\ \A p \in ops[o].party : body[p] # "dead"
  BY <1>1, DepartingApart
<1>3. PICK taken \in SUBSET ops[o].party, answer \in Answers(o, ops[o]) :
        /\ IF d = "out" THEN Issued(o, ops[o], taken) /\ Called(o, ops[o], answer)
           ELSE taken = {} /\ answer = <<>>
        /\ ops' = Joined(With(ops, o, Marched(Handed(ops[o], d), Way(d), taken)),
                         Aids(o, ops[o], answer))
        /\ roads' = With(roads, <<o, d>>, Movement(ops[o], d))
        /\ due' = (due \ {Depart(o, d)}) \cup {Depart(<<"aid", a, o>>, "out") : a \in DOMAIN answer}
        /\ custody' = IF d = "out" THEN custody ELSE Carried(ops[o].captives, <<"road", o>>)
  BY DEF DepartRoad, Marched, Way
<1>4. Called(o, ops[o], answer)
  BY <1>3, NobodyCalled
<1>5. RecordsTyped(custody)
  BY DEF WarInv, WarTypes
<1>6. Fewer(custody, custody')
  <2>1. CASE d = "out"
    BY <1>3, <2>1 DEF Fewer
  <2>2. CASE d = "back"
    <3>1. PICK who, where : who = ops[o].captives /\ where = <<"road", o>>
      OBVIOUS
    <3>2. Moving(custody, custody', who, where)
      BY <1>3, <1>5, <2>2, <3>1, CarriedMoves
    <3> QED  BY <3>2 DEF Moving, Fewer
  <2> QED  BY <2>1, <2>2
<1>7. PICK x, z, y, m : /\ x = ops[o] /\ z = Handed(x, d) /\ y = Movement(x, d) /\ m = <<o, d>>
  OBVIOUS
<1>8. /\ Stage(o, Callers(o, answer)) /\ Joining(Callers(o, answer))
      /\ ops'[o].status = Way(d) /\ ops'[o].party = x.party
  <2>1. /\ IsOp(z) /\ Same(x, z) /\ z.party = x.party /\ z.follow = x.follow
        /\ z.captives = (IF Payload(x, d) THEN {} ELSE x.captives)
    BY <1>2, <1>7, HandedOp
  <2>2. ops' = Joined(With(ops, o, Marched(z, Way(d), taken)), Aids(o, ops[o], answer))
    BY <1>3, <1>7
  <2>3. body' = body /\ z.captives \subseteq ops[o].captives
    BY <1>1, <1>7, <2>1
  <2> QED  BY <1>1, <1>4, <1>6, <1>7, <2>1, <2>2, <2>3, SettingOff
<1>9. StageEvents(o, Callers(o, answer))
  <2>1. PICK E : E = {}
    OBVIOUS
  <2>2. E \subseteq {<<"arrive", o>>, <<"return", o>>}
    BY <2>1
  <2>3. due' = (due \ {Depart(o, d)}) \cup E
                 \cup {Depart(<<"aid", a, o>>, "out") : a \in DOMAIN answer}
    BY <1>3, <2>1
  <2>4. EventsTyped(due)
    BY DEF WarInv, WarTypes
  <2> QED  BY <2>2, <2>3, <2>4, DepartureUsed
<1>10. /\ IsRoad(y) /\ RoadSound(m, y, custody', body) /\ y.party = x.party
       /\ d = "back" => y.captives = x.captives
  BY <1>2, <1>6, <1>7, MovementSound
<1>11. /\ DOMAIN roads' = DOMAIN roads \cup {m} /\ roads'[m] = y
       /\ \A n \in DOMAIN roads : roads'[n] = roads[n]
  <2>1. roads' = With(roads, m, y)
    BY <1>3, <1>7
  <2>2. /\ DOMAIN roads' = DOMAIN roads \cup {m} /\ roads'[m] = y
        /\ \A n \in DOMAIN roads : n # m => roads'[n] = roads[n]
    BY <2>1 DEF With
  <2>3. m \notin DOMAIN roads
    BY <1>2, <1>7
  <2> QED  BY <2>2, <2>3
<1>12. StageRoads(o)
  <2>1. \A n \in DOMAIN roads' : \/ n \in DOMAIN roads /\ roads'[n] = roads[n]
                                 \/ /\ n = <<o, n[2]>> /\ n[2] \in {"out", "back"} /\ IsRoad(roads'[n])
                                    /\ RoadSound(n, roads'[n], custody', body)
                                    /\ roads'[n].party \subseteq ops'[o].party
    BY <1>7, <1>8, <1>10, <1>11
  <2>2. \A s : <<s, "back">> \in DOMAIN roads' => <<s, "back">> \in DOMAIN roads \/ s = o
    BY <1>7, <1>11
  <2> QED  BY <1>11, <2>1, <2>2 DEF StageRoads
<1>13. \A e \in {<<"arrive", o>>, <<"return", o>>} : e \notin due'
  <2>1. \A s : Depart(s, "out") # <<"arrive", o>> /\ Depart(s, "out") # <<"return", o>>
    BY EventsApart
  <2> QED  BY <1>2, <1>3, <2>1
<1>14. OnItsRoad(o)
  <2>1. CASE d = "out"
    <3>1. <<o, "back">> \in DOMAIN roads' => <<o, "back">> \in DOMAIN roads
      BY <1>7, <1>11, <2>1
    <3> QED  BY <1>2, <1>8, <1>11, <1>13, <2>1, <3>1 DEF OnItsRoad, Way
  <2>2. CASE d = "back"
    <3>1. <<o, "out">> \in DOMAIN roads' => <<o, "out">> \in DOMAIN roads
      BY <1>7, <1>11, <2>2
    <3>2. roads'[<<o, "back">>].party = x.party
      BY <1>7, <1>10, <1>11, <2>2
    <3> QED  BY <1>2, <1>8, <1>13, <2>2, <3>1, <3>2 DEF OnItsRoad, Way
  <2> QED  BY <2>1, <2>2
<1>15. StageRecords(o)
  <2>1. CASE d = "out"
    <3>1. custody' = custody /\ ops[o].status # "traveling_return"
      BY <1>2, <1>3, <2>1 DEF Expected
    <3> QED  BY <3>1, RecordsElsewhere
  <2>2. CASE d = "back"
    <3>1. custody' = Carried(ops[o].captives, <<"road", o>>)
      BY <1>3, <2>2
    <3>2. <<o, "back">> \in DOMAIN roads' /\ roads'[<<o, "back">>].captives = ops[o].captives
      BY <1>7, <1>10, <1>11, <2>2
    <3>3. \A r \in custody' : r.who \in ops[o].captives /\ r.at = <<"road", o>> => Placed(r)'
      BY <3>2 DEF Placed
    <3> QED  BY <1>2, <3>1, <3>3, CarriedRecords
  <2> QED  BY <2>1, <2>2
<1> QED  BY <1>1, <1>2, <1>8, <1>9, <1>12, <1>14, <1>15, AdvanceKeeps

-----------------------------------------------------------------------------
(* Deaths.                                                                  *)

\* The dead leave the operations, and those who are saved join o.
Thinned(dead, o, saved) ==
  /\ \A s \in DOMAIN ops' :
       /\ s \in DOMAIN ops
       /\ ops'[s].status = ops[s].status \/ <<s, "out">> \notin DOMAIN roads
       /\ \A p \in ops'[s].party : Serves(p, s) \/ (s = o /\ p \in saved)
  /\ \A s \in DOMAIN ops : ops[s].status = "traveling_return" /\ ops[s].party \ dead # {} =>
       /\ s \in DOMAIN ops' /\ ops'[s].status = "traveling_return"
       /\ ops'[s].party = ops[s].party \ dead /\ ops'[s].captives = ops[s].captives
  /\ \A p \in saved : (\A s : ~Serves(p, s)) /\ \E r \in custody : r.who = p

ThinnedRecords(dead) ==
  /\ Once(custody')
  /\ \A d \in custody' : \E r \in custody : d.who = r.who /\ d.at = r.at /\ r.who \notin dead

ThinnedEvents ==
  \A s : /\ <<"arrive", s>> \in due' => <<"arrive", s>> \in due
         /\ <<"return", s>> \in due' => <<"return", s>> \in due
         /\ Depart(s, "out") \in due' => Depart(s, "out") \in due
         /\ <<"return", s>> \in due => <<"return", s>> \in due'

\* What was judged stands, and a new aftermath is about people who were free.
ThinnedJudgments ==
  \A j \in (pending \cup committed)' : j[1] = "aftermath" =>
    /\ j[2][1] = "raid" /\ <<"arrive", j[2]>> \notin due'
    /\ j[2] \in DOMAIN ops' => ops'[j[2]].status = "return_preparing"
    /\ \A p \in j[3] : p \in Members[j[2][3]] => AtLiberty(p)

\* Deaths keep the rest as it is.
LEMMA ThinningKeeps ==
  ASSUME WarInv, WarTypes', OpsSound', NEW dead, NEW o, NEW saved, Thinned(dead, o, saved),
         roads' = PrunedRoads(roads, dead), Dying(body, body', dead),
         ThinnedRecords(dead), ThinnedEvents, ThinnedJudgments
  PROVE  WarInv'
<1>0. Fewer(custody, custody')
  BY DEF ThinnedRecords, Fewer
<1>1. /\ DOMAIN roads' = DOMAIN roads
      /\ \A m \in DOMAIN roads :
           /\ roads'[m].party = roads[m].party \ dead /\ roads'[m].kind = roads[m].kind
           /\ roads[m].party \cap dead = {} => roads'[m] = roads[m]
           /\ roads[m].party \cap dead # {} =>
                /\ roads'[m].carried = roads[m].carried \ dead
                /\ roads'[m].captives = roads[m].captives \ dead
                /\ roads'[m].lost = ((roads[m].party \ dead) \subseteq roads[m].carried)
  <2>1. RoadsTyped(roads)
    BY DEF WarInv, WarTypes
  <2> QED  BY <2>1, PrunedRoadsTyped
<1>2. RoadsSound'
  <2> SUFFICES ASSUME NEW m \in DOMAIN roads PROVE RoadSound(m, roads'[m], custody', body')
    BY <1>1 DEF RoadsSound
  <2>1. PICK x, y : x = roads[m] /\ y = roads'[m]
    OBVIOUS
  <2>2. IsRoad(x) /\ RoadSound(m, x, custody, body)
    BY <2>1 DEF WarInv, WarTypes, RoadsTyped, RoadsSound
  <2>3. /\ y.kind = x.kind /\ y.party = x.party \ dead
        /\ x.party \cap dead = {} => y = x
        /\ x.party \cap dead # {} => /\ y.carried = x.carried \ dead /\ y.captives = x.captives \ dead
                                     /\ y.lost = ((x.party \ dead) \subseteq x.carried)
    BY <1>1, <2>1
  <2>4. RoadSound(m, y, custody', body')
    BY <1>0, <2>2, <2>3, RoadStaysSound
  <2> QED  BY <2>1, <2>4
<1>3. Records'
  <2>1. \A r \in custody : r.who \in People /\ body[r.who] # "dead"
    BY DEF WarInv, WarTypes, RecordsTyped, IsRecord, Records
  <2>2. \A d \in custody' : body'[d.who] # "dead"
    BY <2>1 DEF ThinnedRecords, Dying
  <2> QED  BY <2>2 DEF Records, ThinnedRecords
<1>4. Outward'
  <2>1. \A s : Depart(s, "out") \in due' => s[1] # "home"
    BY DEF WarInv, Outward, ThinnedEvents
  <2> SUFFICES ASSUME NEW s, <<s, "out">> \in DOMAIN roads', s \in DOMAIN ops'
               PROVE  /\ ops'[s].status \in {"mobilizing", "traveling_outbound"}
                      /\ ops'[s].status = "traveling_outbound" => <<"arrive", s>> \notin due'
    BY <2>1 DEF Outward
  <2>2. <<s, "out">> \in DOMAIN roads /\ s \in DOMAIN ops /\ ops'[s].status = ops[s].status
    BY <1>1 DEF Thinned
  <2> QED  BY <2>2 DEF WarInv, Outward, ThinnedEvents
<1>5. Homebound'
  <2> SUFFICES ASSUME NEW s, <<s, "back">> \in DOMAIN roads', roads'[<<s, "back">>].party # {}
               PROVE  /\ s \in DOMAIN ops' /\ ops'[s].status = "traveling_return"
                      /\ roads'[<<s, "back">>].party \subseteq ops'[s].party
                      /\ <<"return", s>> \notin due'
    BY DEF Homebound
  <2>1. /\ <<s, "back">> \in DOMAIN roads
        /\ roads'[<<s, "back">>].party = roads[<<s, "back">>].party \ dead
    BY <1>1
  <2>2. /\ s \in DOMAIN ops /\ ops[s].status = "traveling_return"
        /\ roads[<<s, "back">>].party \subseteq ops[s].party
        /\ <<"return", s>> \notin due
    BY <2>1 DEF WarInv, Homebound
  <2>3. ops[s].party \ dead # {}
    BY <2>1, <2>2
  <2>4. s \in DOMAIN ops' /\ ops'[s].status = "traveling_return" /\ ops'[s].party = ops[s].party \ dead
    BY <2>2, <2>3 DEF Thinned
  <2> QED  BY <2>1, <2>2, <2>4 DEF ThinnedEvents
<1>6. Recorded'
  <2> SUFFICES ASSUME NEW d \in custody' PROVE Placed(d)'
    BY DEF Recorded, Placed
  <2>1. PICK r \in custody : d.who = r.who /\ d.at = r.at /\ r.who \notin dead
    BY DEF ThinnedRecords
  <2>2. Placed(r)
    BY DEF WarInv, Recorded, Placed
  <2>3. r.at[1] = "road" => <<r.at[2], "back">> \in DOMAIN roads'
                           /\ r.who \in roads'[<<r.at[2], "back">>].captives
    <3> SUFFICES ASSUME r.at[1] = "road"
                 PROVE  <<r.at[2], "back">> \in DOMAIN roads'
                        /\ r.who \in roads'[<<r.at[2], "back">>].captives
      OBVIOUS
    <3>1. PICK m : m = <<r.at[2], "back">>
      OBVIOUS
    <3>2. m \in DOMAIN roads /\ r.who \in roads[m].captives
      BY <2>2, <3>1 DEF Placed
    <3>3. roads'[m].captives = roads[m].captives \/ roads'[m].captives = roads[m].captives \ dead
      BY <1>1, <3>2
    <3> QED  BY <1>1, <2>1, <3>1, <3>2, <3>3
  <2>4. r.at[1] = "op" => /\ r.at[2] \in DOMAIN ops' /\ r.who \in ops'[r.at[2]].captives
                          /\ ops'[r.at[2]].status = "traveling_return"
                          /\ <<"return", r.at[2]>> \in due'
                          /\ <<r.at[2], "back">> \notin DOMAIN roads'
    <3> SUFFICES ASSUME r.at[1] = "op"
                 PROVE  /\ r.at[2] \in DOMAIN ops' /\ r.who \in ops'[r.at[2]].captives
                        /\ ops'[r.at[2]].status = "traveling_return"
                        /\ <<"return", r.at[2]>> \in due'
                        /\ <<r.at[2], "back">> \notin DOMAIN roads'
      OBVIOUS
    <3>1. PICK s : s = r.at[2]
      OBVIOUS
    <3>2. /\ s \in DOMAIN ops /\ r.who \in ops[s].captives /\ ops[s].status = "traveling_return"
          /\ <<"return", s>> \in due /\ <<s, "back">> \notin DOMAIN roads
      BY <2>2, <3>1 DEF Placed
    <3>3. r.who \in ops[s].party
      <4>1. OpSound(s, ops[s], custody, body) /\ body[r.who] # "dead"
        BY <3>2 DEF WarInv, OpsSound, Records
      <4> QED  BY <3>2, <4>1 DEF OpSound
    <3>4. ops[s].party \ dead # {}
      BY <2>1, <3>3
    <3>5. /\ s \in DOMAIN ops' /\ ops'[s].status = "traveling_return"
          /\ ops'[s].captives = ops[s].captives
      BY <3>2, <3>4 DEF Thinned
    <3> QED  BY <1>1, <3>1, <3>2, <3>5 DEF ThinnedEvents
  <2> QED  BY <2>1, <2>3, <2>4 DEF Placed
<1>7. ASSUME NEW p, NEW s, Serves(p, s)'
      PROVE  Serves(p, s) \/ (s = o /\ p \in saved)
  <2>1. CASE s \in DOMAIN ops' /\ p \in ops'[s].party
    BY <2>1 DEF Thinned
  <2>2. CASE \E d \in {"out", "back"} : <<s, d>> \in DOMAIN roads' /\ p \in roads'[<<s, d>>].party
    <3>1. PICK d \in {"out", "back"} : <<s, d>> \in DOMAIN roads' /\ p \in roads'[<<s, d>>].party
      BY <2>2
    <3>2. <<s, d>> \in DOMAIN roads /\ p \in roads[<<s, d>>].party
      BY <1>1, <3>1
    <3> QED  BY <3>2 DEF Serves
  <2> QED  BY <1>7, <2>1, <2>2 DEF Serves
<1>8. Judged'
  <2> SUFFICES ASSUME NEW j \in (pending \cup committed)', j[1] = "aftermath" PROVE Stands(j)'
    BY DEF Judged
  <2>1. /\ j[2][1] = "raid" /\ <<"arrive", j[2]>> \notin due'
        /\ j[2] \in DOMAIN ops' => ops'[j[2]].status = "return_preparing"
        /\ \A p \in j[3] : p \in Members[j[2][3]] => AtLiberty(p)
    BY DEF ThinnedJudgments
  <2>2. ASSUME NEW p, AtLiberty(p) PROVE AtLiberty(p)'
    <3>1. p \notin saved
      BY <2>2 DEF AtLiberty, Thinned
    <3> QED  BY <1>0, <1>7, <2>2, <3>1 DEF AtLiberty, Fewer
  <2> QED  BY <2>1, <2>2 DEF Stands
<1>9. Alone'
  <2> SUFFICES ASSUME NEW p \in People, NEW s, NEW t, Serves(p, s)', Serves(p, t)' PROVE s = t
    BY DEF Alone
  <2>1. Serves(p, s) \/ (s = o /\ p \in saved)
    BY <1>7
  <2>2. Serves(p, t) \/ (t = o /\ p \in saved)
    BY <1>7
  <2>3. Serves(p, s) /\ Serves(p, t) => s = t
    BY DEF WarInv, Alone
  <2>4. p \in saved => \A u : ~Serves(p, u)
    BY DEF Thinned
  <2> QED  BY <2>1, <2>2, <2>3, <2>4
<1> QED  BY <1>2, <1>3, <1>4, <1>5, <1>6, <1>8, <1>9 DEF WarInv

\* A death away from battle.
LEMMA DieKeeps ==
  ASSUME WarInv, NEW p \in People, Die(p)
  PROVE  WarInv'
<1>1. /\ pending = {} /\ committed = {} /\ UNCHANGED <<due, pending, committed>>
      /\ body' = [body EXCEPT ![p] = "dead"] /\ ops' = PrunedOps(ops, {p})
      /\ roads' = PrunedRoads(roads, {p}) /\ custody' = AfterDeath(custody, p, Dead \cup {p})
  BY DEF Die, Quiet
<1>2. OpsTyped(ops) /\ RoadsTyped(roads) /\ RecordsTyped(custody) /\ Once(custody) /\ BodyTyped
  BY DEF WarInv, WarTypes, Records
<1>3. PICK dead, gone : dead = {p} /\ gone = Dead \cup {p}
  OBVIOUS
<1>4. /\ OpsTyped(ops') /\ DOMAIN ops' = {o \in DOMAIN ops : ops[o].party \ dead # {}}
      /\ \A o \in DOMAIN ops' : /\ Same(ops[o], ops'[o]) /\ ops'[o].status = ops[o].status
                                /\ ops'[o].party = ops[o].party \ dead
                                /\ ops'[o].captives = ops[o].captives
                                /\ ops'[o].follow = ops[o].follow
  <2>1. ops' = PrunedOps(ops, dead)
    BY <1>1, <1>3
  <2>2. OpsTyped(ops') /\ Spared(ops, dead, ops')
    BY <1>2, <2>1, PrunedAll
  <2> QED  BY <2>2 DEF Spared
<1>5. RoadsTyped(roads') /\ roads' = PrunedRoads(roads, dead)
  BY <1>1, <1>2, <1>3, PrunedRoadsTyped
<1>6. Staying(custody, custody', dead)
  <2>1. Staying(custody, AfterDeath(custody, p, gone), {p})
    BY <1>2, DeathKeepsRecords
  <2> QED  BY <1>1, <1>3, <2>1
<1>7. Dying(body, body', dead) /\ BodyTyped'
  BY <1>1, <1>2, <1>3 DEF Dying, BodyTyped
<1>8. WarTypes'
  BY <1>1, <1>4, <1>5, <1>6, <1>7 DEF WarInv, WarTypes, Staying
<1>9. OpsSound'
  <2> SUFFICES ASSUME NEW o \in DOMAIN ops' PROVE OpSound(o, ops'[o], custody', body')
    BY DEF OpsSound
  <2>1. IsOp(ops[o]) /\ OpSound(o, ops[o], custody, body)
    BY <1>4 DEF WarInv, WarTypes, OpsTyped, OpsSound
  <2>2. Fewer(custody, custody')
    BY <1>6 DEF Staying, Fewer
  <2> QED  BY <1>4, <1>7, <2>1, <2>2, OpStaysSound
<1>10. Thinned(dead, p, {})
  BY <1>4 DEF Thinned, Serves
<1>11. ThinnedRecords(dead)
  BY <1>2, <1>6 DEF ThinnedRecords, Staying
<1>12. ThinnedEvents /\ ThinnedJudgments
  BY <1>1 DEF ThinnedEvents, ThinnedJudgments
<1> QED  BY <1>5, <1>7, <1>8, <1>9, <1>10, <1>11, <1>12, ThinningKeeps

-----------------------------------------------------------------------------
(* Battles.                                                                 *)

\* An ally who stands by the defender is in a party that came to hold the place.
LEMMA SupportersAreAllies ==
  ASSUME WarInv, NEW x, NEW s \in Supports(x)
  PROVE  /\ s \in DOMAIN ops /\ ops[s].status = "holding_defense" /\ s[1] = "aid"
         /\ IsOp(ops[s]) /\ OpSound(s, ops[s], custody, body)
         /\ s[2] \in Factions /\ s[2] # x.tgt /\ Standing(s) \subseteq Members[s[2]]
         /\ Standing(s) \subseteq ops[s].party
         /\ ops[s].follow = Nobody /\ ops[s].captives = {}
         /\ \A p \in Standing(s) : body[p] = "fit"
<1>1. /\ s \in DOMAIN ops /\ ops[s].kind = "aid" /\ ops[s].status = "holding_defense"
      /\ ops[s].tgt = x.tgt
  BY DEF Supports
<1>2. IsOp(ops[s]) /\ OpSound(s, ops[s], custody, body)
  BY <1>1 DEF WarInv, WarTypes, OpsTyped, OpsSound
<1>3. /\ s[1] = "aid" /\ ops[s].f = s[2] /\ s[2] \in Factions /\ ops[s].party \subseteq Members[s[2]]
      /\ ops[s].tgt # s[2]
  BY <1>1, <1>2 DEF OpSound, IsOp
<1>4. ops[s].follow = Nobody /\ ops[s].captives = {}
  BY <1>1, <1>2 DEF OpSound
<1>5. Standing(s) \subseteq ops[s].party /\ \A p \in Standing(s) : body[p] = "fit"
  BY DEF Standing, Fit
<1> QED  BY <1>1, <1>2, <1>3, <1>4, <1>5

\* Defenders are fit; those of the defender's own house serve nowhere else.
LEMMA DefendersAreFit ==
  ASSUME WarInv, NEW x
  PROVE  /\ \A p \in Defenders(x) : body[p] = "fit"
         /\ x.tgt \in Factions => /\ Defenders(x) \subseteq People
                                  /\ \A p \in Defenders(x) : p \in Members[x.tgt] => AtLiberty(p)
<1>1. ASSUME NEW p \in Defenders(x)
      PROVE  p \in Ready(x.tgt) \/ \E s \in Supports(x) : p \in Standing(s)
  BY DEF Defenders
<1>2. ASSUME NEW p \in Defenders(x) PROVE body[p] = "fit"
  <2>1. p \in Ready(x.tgt) => body[p] = "fit"
    BY DEF Ready, Fit
  <2> QED  BY <1>1, <2>1, SupportersAreAllies
<1>3. ASSUME x.tgt \in Factions, NEW p \in Defenders(x)
      PROVE  p \in People /\ (p \in Members[x.tgt] => AtLiberty(p))
  <2>1. CASE p \in Ready(x.tgt)
    <3>1. p \in People /\ p \notin Busy
      BY <1>3, <2>1, ReadyAreFree
    <3>2. RoadsTyped(roads)
      BY DEF WarInv, WarTypes
    <3> QED  BY <3>1, <3>2, FreeServesNobody
  <2>2. CASE \E s \in Supports(x) : p \in Standing(s)
    <3>1. PICK s \in Supports(x) : p \in Standing(s)
      BY <2>2
    <3>2. s[2] \in Factions /\ s[2] # x.tgt /\ p \in Members[s[2]]
      BY <3>1, SupportersAreAllies
    <3>3. Members[s[2]] \cap Members[x.tgt] = {}
      BY <1>3, <3>2, WarAssumption
    <3>4. p \in People
      BY <3>2, OwnerIsFaction
    <3> QED  BY <3>2, <3>3, <3>4
  <2> QED  BY <1>1, <2>1, <2>2
<1> QED  BY <1>2, <1>3

\* Who fell.
LEMMA FallenDie ==
  ASSUME NEW P, \A p \in P : body[p] = "fit", NEW harmed \in SUBSET P, NEW dead \in SUBSET harmed,
         BodyTyped,
         body' = [p \in People |-> IF p \in dead THEN "dead"
                                   ELSE IF p \in harmed THEN "hurt" ELSE body[p]]
  PROVE  Dying(body, body', dead) /\ BodyTyped'
  BY DEF Dying, BodyTyped

\* The records after a fight.
LEMMA RecordsAfterBattle ==
  ASSUME RecordsTyped(custody), NEW dead, NEW D,
         D = IF dead = {} THEN custody ELSE AfterBattle(custody, Dead \cup dead)
  PROVE  Staying(custody, D, dead)
<1>1. CASE dead = {}
  BY <1>1 DEF Staying
<1>2. CASE dead # {}
  <2>1. PICK gone : gone = Dead \cup dead
    OBVIOUS
  <2>2. Staying(custody, AfterBattle(custody, gone), gone)
    BY BattleKeepsRecords
  <2>3. D = AfterBattle(custody, gone)
    BY <1>2, <2>1
  <2> QED  BY <2>1, <2>2, <2>3 DEF Staying
<1> QED  BY <1>1, <1>2

\* The rescued were prisoners, and are in no party.
LEMMA RescuedServeNobody ==
  ASSUME WarInv, NEW dead, NEW D, Staying(custody, D, dead),
         NEW x, NEW winner, NEW d, NEW R, R \subseteq Rescued(x, winner, d, D), NEW p, NEW c \in R, p = c.who
  PROVE  /\ p \in People /\ p \notin dead /\ body[p] # "dead"
         /\ \A s : ~Serves(p, s)
         /\ \E r \in custody : r.who = p
<1>1. c \in D /\ c.who \notin OnOps
  BY DEF Rescued
<1>2. PICK r \in custody : c.who = r.who /\ r.who \notin dead
  BY <1>1 DEF Staying
<1>3. p \in People /\ body[p] # "dead"
  BY <1>2 DEF WarInv, WarTypes, RecordsTyped, IsRecord, Records
<1>4. r.who \notin OnOps
  BY <1>1, <1>2
<1>5. \A s : ~Serves(r.who, s)
  BY <1>4, PrisonerServesNobody
<1> QED  BY <1>2, <1>3, <1>5

\* The party goes home, with those it freed.
LEMMA SurvivedOp ==
  ASSUME NEW x, IsOp(x), x.follow = Nobody, NEW party \in SUBSET People, NEW judged,
         NEW other \in SUBSET party, NEW y, y = Survived(x, party, judged, other)
  PROVE  /\ IsOp(y) /\ Same(x, y) /\ y.status = "return_preparing" /\ y.party = party
         /\ y.captives = x.captives /\ y.follow \in party \cup {Nobody}
<1>1. PICK z : z = TurnBack(x, party)
  OBVIOUS
<1>2. /\ IsOp(z) /\ Same(x, z) /\ z.status = "return_preparing" /\ z.party = party
      /\ z.captives = x.captives /\ z.follow = x.follow
  BY <1>1, TurnedOp
<1>3. y = [z EXCEPT !.decision = judged,
                    !.follow = IF other = {} THEN @ ELSE CHOOSE p \in other : TRUE]
  BY <1>1 DEF Survived
<1>4. /\ DOMAIN y = DOMAIN z /\ y.kind = z.kind /\ y.f = z.f /\ y.tgt = z.tgt
      /\ y.status = z.status /\ y.party = z.party /\ y.captives = z.captives /\ y.issued = z.issued
      /\ y.follow = IF other = {} THEN z.follow ELSE CHOOSE p \in other : TRUE
  BY <1>2, <1>3 DEF IsOp, OpFields
<1>5. y.follow \in party \cup {Nobody}
  <2>1. CASE other = {}
    BY <1>2, <1>4, <2>1
  <2>2. CASE other # {}
    <3>1. (CHOOSE p \in other : TRUE) \in other
      BY <2>2
    <3> QED  BY <1>4, <2>2, <3>1
  <2> QED  BY <2>1, <2>2
<1> QED  BY <1>2, <1>4, <1>5 DEF IsOp, Same

\* A supporter whose fighters live on turns back.
LEMMA ReleasedSupport ==
  ASSUME NEW S, NEW dead, NEW s \in UNION {Released(x, Standing(x), dead) : x \in S}
  PROVE  s \in S /\ Standing(s) \ dead # {}
<1>1. PICK x \in S : s \in Released(x, Standing(x), dead)
  OBVIOUS
<1>2. Standing(x) \ dead # {} /\ s = x
  BY <1>1 DEF Released
<1> QED  BY <1>2

\* A battle thins out both sides, and sends the attackers and the supporters who
\* are left home.
LEMMA BattleKeeps ==
  ASSUME WarInv, NEW o, Battle(o)
  PROVE  WarInv'
<1> DEFINE op      == ops[o]
           party   == Living(op.party)
           d       == Defenders(op)
<1>1. PICK harmed, dead, winner :
        /\ harmed \in SUBSET (Fit(party) \cup d) /\ dead \in SUBSET harmed
        /\ body' = [p \in People |-> IF p \in dead THEN "dead"
                                     ELSE IF p \in harmed THEN "hurt" ELSE body[p]]
        /\ Fought(o, harmed, dead, winner)
  BY DEF Battle
<1> DEFINE records == IF dead = {} THEN custody ELSE AfterBattle(custody, Dead \cup dead)
           rescued == IF party = {} THEN {} ELSE Rescued(op, winner, d, records)
           saved   == {c.who : c \in rescued}
           back    == UNION {Released(s, Standing(s), dead) : s \in Supports(op)}
           stood   == {s \in Supports(op) : Standing(s) # {}}
           other   == {x \in saved : Owner(x) # op.f}
           choices == Options(op, Fit(party) \ harmed, d \cap (harmed \ dead),
                              wealth[op.tgt], records)
           judged  == op.kind = "raid" /\ winner = "attack" /\ choices # {<<"withdraw">>}
           pruned  == PrunedOps(ops, dead)
           home    == Survived(op, (party \ dead) \cup saved, judged, other)
           rest    == [s \in DOMAIN pruned \ ((stood \ back) \cup {o}) |->
                           IF s \in back THEN TurnBack(pruned[s], Standing(s) \ dead)
                           ELSE pruned[s]]
<1>2. custody' = records \ rescued
  BY <1>1 DEF Fought
<1>3. roads' = PrunedRoads(roads, dead)
  BY <1>1 DEF Fought
<1>4. ops' = IF party \ dead = {} THEN rest ELSE With(rest, o, home)
  BY <1>1 DEF Fought
<1>5. due' = (due \ {<<"arrive", o>>}) \cup {Depart(s, "back") : s \in back}
               \cup (IF party \ dead = {} THEN {} ELSE {Depart(o, "back")})
  BY <1>1 DEF Fought
<1>6. pending' = IF judged THEN pending \cup {<<"aftermath", o, d, choices>>} ELSE pending
  BY <1>1 DEF Fought
<1>7. /\ Arrives(o) /\ Awaits(o) /\ op.kind # "aid" /\ committed' = committed
  BY DEF Battle
<1>8. /\ \A j \in pending \cup committed : j[1] = "aftermath" => j[2] # o
      /\ <<o, "out">> \notin DOMAIN roads
      /\ o \in DOMAIN ops /\ <<"arrive", o>> \in due /\ committed = {}
      /\ op.status \in {"traveling_outbound", "arrived_pending"}
  BY <1>7, ArrivingApart
<1>9. IsOp(op) /\ OpSound(o, op, custody, body) /\ op.kind = o[1]
  BY <1>8 DEF WarInv, WarTypes, OpsTyped, OpsSound, OpSound
<1>10. op.follow = Nobody /\ op.captives = {}
  BY <1>8, <1>9, SettingOut DEF Setting
<1>11. RecordsTyped(custody) /\ BodyTyped /\ OpsTyped(ops) /\ RoadsTyped(roads) /\ EventsTyped(due)
  BY DEF WarInv, WarTypes
<1>12. Dying(body, body', dead) /\ BodyTyped'
  <2>1. \A p \in Fit(party) \cup d : body[p] = "fit"
    BY DefendersAreFit DEF Fit
  <2> QED  BY <1>1, <1>11, <2>1, FallenDie
<1>13. Staying(custody, records, dead)
  BY <1>11, RecordsAfterBattle
<1>14. \A p \in saved : /\ p \in People /\ p \notin dead /\ body[p] # "dead"
                        /\ \A s : ~Serves(p, s)
                        /\ \E r \in custody : r.who = p
  <2>1. rescued \subseteq Rescued(op, winner, d, records)
    OBVIOUS
  <2> HIDE DEF rescued, records, d, op
  <2>2. SUFFICES ASSUME NEW c \in rescued
                 PROVE  /\ c.who \in People /\ c.who \notin dead /\ body[c.who] # "dead"
                        /\ \A s : ~Serves(c.who, s)
                        /\ \E r \in custody : r.who = c.who
    OBVIOUS
  <2> QED  BY <1>13, <2>1, RescuedServeNobody
<1>15. OpsTyped(pruned) /\ Spared(ops, dead, pruned)
  BY <1>11, PrunedAll
<1>16. \A s \in back : s \in Supports(op) /\ Standing(s) \ dead # {}
  BY ReleasedSupport
<1>17. \A s \in Supports(op) :
         /\ s \in DOMAIN ops /\ ops[s].status = "holding_defense" /\ s[1] = "aid" /\ s # o
         /\ IsOp(ops[s]) /\ OpSound(s, ops[s], custody, body)
         /\ Standing(s) \subseteq Members[s[2]] /\ Standing(s) \subseteq ops[s].party
         /\ ops[s].follow = Nobody /\ ops[s].captives = {}
         /\ \A p \in Standing(s) : body[p] = "fit"
  BY <1>8, SupportersAreAllies
<1>18. /\ DOMAIN rest = DOMAIN pruned \ ((stood \ back) \cup {o})
       /\ \A s \in DOMAIN rest : /\ s \in back => rest[s] = TurnBack(pruned[s], Standing(s) \ dead)
                                 /\ s \notin back => rest[s] = pruned[s]
  OBVIOUS
<1>19. /\ DOMAIN ops' \subseteq DOMAIN rest \cup {o}
       /\ \A s \in DOMAIN rest : s \in DOMAIN ops' /\ ops'[s] = rest[s] /\ s # o
       /\ o \in DOMAIN ops' => ops'[o] = home
  <2> HIDE DEF rest, home
  <2>1. o \notin DOMAIN rest
    BY <1>18
  <2>2. CASE party \ dead = {}
    BY <1>4, <2>1, <2>2
  <2>3. CASE party \ dead # {}
    <3>1. ops' = With(rest, o, home)
      BY <1>4, <2>3
    <3>2. /\ DOMAIN With(rest, o, home) = DOMAIN rest \cup {o} /\ With(rest, o, home)[o] = home
          /\ \A x \in DOMAIN rest : x # o => With(rest, o, home)[x] = rest[x]
      BY DEF With
    <3> QED  BY <2>1, <3>1, <3>2
  <2> QED  BY <2>2, <2>3
<1>20. stood \subseteq Supports(op)
  OBVIOUS
<1>21. other \subseteq saved
  OBVIOUS
<1>22. home = Survived(op, (party \ dead) \cup saved, judged, other)
  OBVIOUS
<1>23. party \subseteq op.party /\ \A p \in party : body[p] # "dead"
  BY DEF Living
<1>24. judged => op.kind = "raid"
  OBVIOUS
<1>25. Staying(custody, custody', dead)
  <2> HIDE DEF records, rescued
  <2>1. records \ rescued \subseteq records
    OBVIOUS
  <2>2. RecordsTyped(custody') /\ (Once(records) => Once(custody'))
    BY <1>2, <1>13, <2>1, Closed DEF Staying
  <2> QED  BY <1>2, <1>13, <2>2 DEF Staying
<1> HIDE DEF records, rescued, saved, back, stood, other, choices, judged, pruned, home, rest, party, d, op
<1>26. Fewer(custody, custody')
  BY <1>25 DEF Staying, Fewer
<1>27. IsOp(home) /\ Same(op, home) /\ home.status = "return_preparing"
       /\ home.party = (party \ dead) \cup saved
       /\ home.captives = {} /\ home.follow \in home.party \cup {Nobody}
  <2>1. PICK P : P = (party \ dead) \cup saved
    OBVIOUS
  <2>2. P \in SUBSET People /\ other \in SUBSET P
    BY <1>9, <1>14, <1>21, <1>23, <2>1 DEF IsOp
  <2>3. home = Survived(op, P, judged, other)
    BY <1>22, <2>1
  <2> QED  BY <1>9, <1>10, <2>1, <2>2, <2>3, SurvivedOp
<1>28. \A p \in home.party : body'[p] # "dead" /\ (p \in op.party \/ p \in saved)
  <2>1. SUFFICES ASSUME NEW p \in home.party PROVE body'[p] # "dead" /\ (p \in op.party \/ p \in saved)
    OBVIOUS
  <2>2. p \in People /\ p \notin dead /\ body[p] # "dead" /\ (p \in op.party \/ p \in saved)
    BY <1>9, <1>14, <1>23, <1>27, <2>1 DEF IsOp
  <2> QED  BY <1>12, <2>2 DEF Dying
<1>29. OpSound(o, home, custody', body')
  <2>1. home.kind = op.kind /\ home.f = op.f /\ home.tgt = op.tgt
    BY <1>27 DEF Same
  <2>2. o[1] # "aid"
    BY <1>7, <1>9
  <2>3. home.kind = o[1] /\ home.f = o[2] /\ (o[1] = "raid" => home.tgt = o[3] /\ home.tgt \in Factions)
    BY <1>9, <2>1 DEF OpSound
  <2>4. PICK h : h = home
    OBVIOUS
  <2>5. /\ h.status = "return_preparing" /\ h.captives = {} /\ h.follow \in h.party \cup {Nobody}
        /\ \A p \in h.party : body'[p] # "dead"
        /\ h.kind = o[1] /\ h.f = o[2] /\ (o[1] = "raid" => h.tgt = o[3] /\ h.tgt \in Factions)
    <3>1. h.status = "return_preparing" /\ h.captives = {} /\ h.follow \in h.party \cup {Nobody}
      BY <1>27, <2>4
    <3>2. \A p \in h.party : body'[p] # "dead"
      BY <1>28, <2>4
    <3>3. h.kind = o[1] /\ h.f = o[2] /\ (o[1] = "raid" => h.tgt = o[3] /\ h.tgt \in Factions)
      BY <2>3, <2>4
    <3> QED  BY <3>1, <3>2, <3>3
  <2>6. OpSound(o, h, custody', body')
    BY <2>2, <2>5 DEF OpSound, Setting
  <2> QED  BY <2>4, <2>6
<1>30. \A s \in DOMAIN rest :
         /\ s \in DOMAIN ops /\ s # o /\ IsOp(rest[s]) /\ rest[s].party \subseteq ops[s].party
         /\ OpSound(s, rest[s], custody', body')
         /\ rest[s].status = ops[s].status \/ ops[s].status = "holding_defense"
         /\ s \notin back => /\ rest[s].status = ops[s].status
                             /\ rest[s].party = ops[s].party \ dead
                             /\ rest[s].captives = ops[s].captives
  <2> SUFFICES ASSUME NEW s \in DOMAIN rest
      PROVE
         /\ s \in DOMAIN ops /\ s # o /\ IsOp(rest[s]) /\ rest[s].party \subseteq ops[s].party
         /\ OpSound(s, rest[s], custody', body')
         /\ rest[s].status = ops[s].status \/ ops[s].status = "holding_defense"
         /\ s \notin back => /\ rest[s].status = ops[s].status
                             /\ rest[s].party = ops[s].party \ dead
                             /\ rest[s].captives = ops[s].captives
    OBVIOUS
  <2>1. s \in DOMAIN pruned /\ s # o
    BY <1>18
  <2>2. /\ s \in DOMAIN ops /\ IsOp(pruned[s])
        /\ Same(ops[s], pruned[s]) /\ pruned[s].status = ops[s].status
        /\ pruned[s].party = ops[s].party \ dead
        /\ pruned[s].captives = ops[s].captives /\ pruned[s].follow = ops[s].follow
    BY <1>15, <2>1 DEF Spared, OpsTyped
  <2>3. IsOp(ops[s]) /\ OpSound(s, ops[s], custody, body)
    BY <1>11, <2>2 DEF OpsTyped, WarInv, OpsSound
  <2>4. OpSound(s, pruned[s], custody', body')
    BY <1>12, <1>26, <2>2, <2>3, OpStaysSound
  <2>5. CASE s \notin back
    <3>1. rest[s] = pruned[s]
      BY <1>18, <2>5
    <3> QED  BY <2>1, <2>2, <2>4, <2>5, <3>1
  <2>6. CASE s \in back
    <3>1. /\ s \in Supports(op) /\ ops[s].status = "holding_defense" /\ s[1] = "aid"
          /\ Standing(s) \subseteq Members[s[2]] /\ Standing(s) \subseteq ops[s].party
          /\ ops[s].follow = Nobody /\ ops[s].captives = {}
          /\ \A p \in Standing(s) : body[p] = "fit"
      BY <1>16, <1>17, <2>6
    <3>2. PICK P : P = Standing(s) \ dead
      OBVIOUS
    <3>3. rest[s] = TurnBack(pruned[s], P)
      BY <1>18, <2>6, <3>2
    <3>4. P \in SUBSET People
      BY <2>3, <3>1, <3>2 DEF IsOp
    <3>5. /\ IsOp(rest[s]) /\ Same(pruned[s], rest[s]) /\ rest[s].status = "return_preparing"
          /\ rest[s].party = P /\ rest[s].captives = {} /\ rest[s].follow = Nobody
      BY <2>2, <3>1, <3>3, <3>4, TurnedOp
    <3>6. \A p \in P : body'[p] # "dead"
      BY <1>12, <3>1, <3>2, <3>4 DEF Dying
    <3>7. rest[s].kind = s[1] /\ rest[s].f = s[2] /\ rest[s].tgt # s[2]
      <4>1. pruned[s].kind = s[1] /\ pruned[s].f = s[2] /\ pruned[s].tgt # s[2]
        BY <2>4, <3>1 DEF OpSound
      <4> QED  BY <3>5, <4>1 DEF Same
    <3>8. OpSound(s, rest[s], custody', body')
      BY <3>1, <3>2, <3>5, <3>6, <3>7 DEF OpSound, Setting
    <3> QED  BY <2>1, <2>2, <2>6, <3>1, <3>2, <3>5, <3>8
  <2> QED  BY <2>5, <2>6
<1>31. \A s \in DOMAIN ops' :
         /\ s \in DOMAIN ops /\ IsOp(ops'[s]) /\ OpSound(s, ops'[s], custody', body')
         /\ s = o => ops'[s] = home
         /\ s # o => s \in DOMAIN rest /\ ops'[s] = rest[s]
  BY <1>8, <1>19, <1>27, <1>29, <1>30
<1>32. OpsTyped(ops') /\ OpsSound'
  BY <1>31 DEF OpsTyped, OpsSound
<1>33. \A s : ops[s].status = "holding_defense" /\ s \in DOMAIN ops => <<s, "out">> \notin DOMAIN roads
  BY DEF WarInv, Outward
<1>34. Thinned(dead, o, saved)
  <2>1. ASSUME NEW s \in DOMAIN ops'
        PROVE  /\ s \in DOMAIN ops
               /\ ops'[s].status = ops[s].status \/ <<s, "out">> \notin DOMAIN roads
               /\ \A p \in ops'[s].party : Serves(p, s) \/ (s = o /\ p \in saved)
    <3>1. CASE s = o
      <4>1. \A p \in home.party : p \in ops[o].party \/ p \in saved
        BY <1>28 DEF op
      <4>2. ops'[s] = home /\ o \in DOMAIN ops /\ <<o, "out">> \notin DOMAIN roads
        BY <1>8, <1>31, <2>1, <3>1
      <4> QED  BY <3>1, <4>1, <4>2 DEF Serves
    <3>2. CASE s # o
      BY <1>30, <1>31, <1>33, <2>1, <3>2 DEF Serves
    <3> QED  BY <3>1, <3>2
  <2>2. ASSUME NEW s \in DOMAIN ops, ops[s].status = "traveling_return", ops[s].party \ dead # {}
        PROVE  /\ s \in DOMAIN ops' /\ ops'[s].status = "traveling_return"
               /\ ops'[s].party = ops[s].party \ dead /\ ops'[s].captives = ops[s].captives
    <3>1. s \notin Supports(op) /\ s # o
      BY <1>8, <1>17, <2>2 DEF op
    <3>2. s \in DOMAIN pruned /\ s \notin back /\ s \notin stood
      BY <1>15, <1>16, <1>20, <2>2, <3>1 DEF Spared
    <3>3. s \in DOMAIN rest
      BY <1>18, <3>1, <3>2
    <3> QED  BY <1>19, <1>30, <2>2, <3>2, <3>3
  <2> QED  BY <1>14, <2>1, <2>2 DEF Thinned
<1>35. ThinnedRecords(dead)
  BY <1>25 DEF Staying, ThinnedRecords, WarInv, Records
<1>36. ThinnedEvents /\ EventsTyped(due') /\ <<"arrive", o>> \notin due'
  <2> DEFINE New == {Depart(s, "back") : s \in back}
                      \cup (IF party \ dead = {} THEN {} ELSE {Depart(o, "back")})
  <2>1. due' = (due \ {<<"arrive", o>>}) \cup New
    BY <1>5
  <2>2. \A e \in New : \E s : e = Depart(s, "back")
    OBVIOUS
  <2> HIDE DEF New
  <2>3. \A s, t : /\ Depart(t, "back") # <<"arrive", s>> /\ Depart(t, "back") # <<"return", s>>
                  /\ Depart(t, "back") # Depart(s, "out") /\ <<"return", s>> # <<"arrive", o>>
    BY EventsApart
  <2>4. \A s : /\ <<"arrive", s>> \notin New /\ <<"return", s>> \notin New
               /\ Depart(s, "out") \notin New
    BY <2>2, <2>3
  <2>5. \A e \in New : IsEvent(e)
    BY <2>2, EventNames
  <2>6. EventsTyped(due')
    BY <1>11, <2>1, <2>5 DEF EventsTyped
  <2>7. <<"arrive", o>> \notin due'
    BY <2>1, <2>4
  <2>8. ThinnedEvents
    BY <2>1, <2>3, <2>4 DEF ThinnedEvents
  <2> QED  BY <2>6, <2>7, <2>8
<1>37. judged => o[1] = "raid" /\ op.tgt = o[3] /\ op.tgt \in Factions
  BY <1>9, <1>24 DEF OpSound
<1>38. op.tgt \in Factions => d \subseteq People /\ \A p \in d : p \in Members[op.tgt] => AtLiberty(p)
  BY DefendersAreFit DEF d
<1> DEFINE new == <<"aftermath", o, d, choices>>
<1>39. new[1] = "aftermath" /\ new[2] = o /\ new[3] = d
  OBVIOUS
<1>40. pending' = IF judged THEN pending \cup {new} ELSE pending
  BY <1>6
<1> HIDE DEF new
<1>41. ThinnedJudgments
  <2>1. SUFFICES ASSUME NEW j \in (pending \cup committed)', j[1] = "aftermath"
        PROVE  /\ j[2][1] = "raid" /\ <<"arrive", j[2]>> \notin due'
               /\ j[2] \in DOMAIN ops' => ops'[j[2]].status = "return_preparing"
               /\ \A p \in j[3] : p \in Members[j[2][3]] => AtLiberty(p)
    BY DEF ThinnedJudgments
  <2>2. CASE j \in pending \cup committed
    <3>1. Stands(j) /\ j[2] # o
      BY <1>8, <2>1, <2>2 DEF WarInv, Judged
    <3>2. <<"arrive", j[2]>> \notin due'
      BY <1>36, <3>1 DEF Stands, ThinnedEvents
    <3>3. ASSUME j[2] \in DOMAIN ops' PROVE ops'[j[2]].status = "return_preparing"
      <4>1. j[2] \in DOMAIN ops /\ j[2] \in DOMAIN rest /\ ops'[j[2]] = rest[j[2]]
        BY <1>31, <3>1, <3>3
      <4>2. ops[j[2]].status = "return_preparing"
        BY <3>1, <4>1 DEF Stands
      <4> QED  BY <1>30, <4>1, <4>2
    <3> QED  BY <3>1, <3>2, <3>3 DEF Stands
  <2>3. CASE j \notin pending \cup committed
    <3>1. j = new /\ judged
      BY <1>7, <1>40, <2>1, <2>3
    <3>2. j[2] = o /\ j[3] = d
      BY <1>39, <3>1
    <3>3. o \in DOMAIN ops' => ops'[o].status = "return_preparing"
      BY <1>27, <1>31
    <3>4. \A p \in d : p \in Members[o[3]] => AtLiberty(p)
      BY <1>37, <1>38, <3>1
    <3> QED  BY <1>36, <1>37, <3>1, <3>2, <3>3, <3>4
  <2> QED  BY <2>2, <2>3
<1>42. JudgesTyped(pending') /\ JudgesTyped(committed') /\ Aftermaths((pending \cup committed)')
  <2>1. JudgesTyped(pending) /\ JudgesTyped(committed) /\ \A j \in pending : j[1] = "aftermath"
    BY <1>7 DEF WarInv, WarTypes, Arrives
  <2>2. judged => IsJudgment(new)
    BY <1>37, <1>38, <1>39 DEF IsJudgment
  <2>3. IsFiniteSet(pending')
    BY <1>40, <2>1, FS_AddElement DEF JudgesTyped
  <2>4. \A j \in pending' : IsJudgment(j) /\ j[1] = "aftermath"
    BY <1>39, <1>40, <2>1, <2>2 DEF JudgesTyped
  <2> QED  BY <1>7, <1>8, <2>1, <2>3, <2>4 DEF JudgesTyped, Aftermaths
<1>43. RoadsTyped(roads')
  BY <1>3, <1>11, PrunedRoadsTyped
<1>44. WarTypes'
  <2>1. RecordsTyped(custody')
    BY <1>25 DEF Staying
  <2> QED  BY <1>12, <1>32, <1>36, <1>42, <1>43, <2>1 DEF WarTypes, OpsTyped, RoadsTyped, RecordsTyped, EventsTyped, JudgesTyped, Aftermaths
<1> QED  BY <1>3, <1>12, <1>32, <1>34, <1>35, <1>36, <1>41, <1>44, ThinningKeeps

-----------------------------------------------------------------------------
(* A settled batch.                                                         *)

\* Somebody the batch so far has put with the operation o: a fallen defender who
\* served nobody, now a prisoner.
Caught(p, o, st) ==
  /\ p \in st.ops[o].party /\ AtLiberty(p) /\ body[p] = "hurt" /\ p \in People
  /\ o[1] = "raid" /\ ops[o].status = "return_preparing"
  /\ \E r \in st.custody : r.who = p

\* Operations keep their purpose and their people, and gain the caught.
BatchOp(o, st) ==
  LET x == ops[o]
      y == st.ops[o]
  IN  /\ Same(x, y) /\ y.status = x.status /\ y.follow = x.follow
      /\ x.party \subseteq y.party /\ x.captives \subseteq y.captives
      /\ \A p \in y.party : p \in x.party \/ Caught(p, o, st)
      /\ \A p \in y.captives : p \in x.captives \/ Caught(p, o, st)

\* New records are of people who were free, at the place of the fight.
BatchRecords(C) ==
  /\ custody \subseteq C /\ Once(C)
  /\ \A r \in C \ custody : r.at[1] = "site" /\ AtLiberty(r.who) /\ body[r.who] = "hurt"

\* What holds after every choice of a batch.
BatchInv(st) ==
  /\ SheetTyped(st) /\ DOMAIN st.ops = DOMAIN ops /\ BatchRecords(st.custody)
  /\ \A o \in DOMAIN ops : BatchOp(o, st)
  /\ \A o, s \in DOMAIN ops : \A p :
       p \in st.ops[o].party \ ops[o].party /\ p \in st.ops[s].party \ ops[s].party => o = s

\* It holds before the first one.
LEMMA BatchOpens ==
  ASSUME WarInv
  PROVE  BatchInv(Opening)
<1>1. Opening.ops = ops /\ Opening.custody = custody
  BY DEF Opening
<1>2. SheetTyped(Opening)
  BY DEF WarInv, WarTypes, SheetTyped, Opening
<1>3. BatchRecords(custody)
  BY DEF WarInv, Records, BatchRecords
<1>4. \A o \in DOMAIN ops : BatchOp(o, Opening)
  BY <1>1 DEF BatchOp, Same
<1> QED  BY <1>1, <1>2, <1>3, <1>4 DEF BatchInv

\* Every choice keeps it.
LEMMA BatchStep ==
  ASSUME WarInv, NEW st, BatchInv(st), NEW j, Stands(j), j[3] \subseteq People,
         NEW t, SeizesOnce(st, t, j)
  PROVE  BatchInv(t)
<1>1. /\ SheetTyped(t) /\ DOMAIN t.ops = DOMAIN ops /\ DOMAIN st.ops = DOMAIN ops
      /\ \A o \in DOMAIN ops : o # j[2] => t.ops[o] = st.ops[o]
      /\ BatchRecords(st.custody) /\ \A o \in DOMAIN ops : BatchOp(o, st)
  BY DEF SeizesOnce, BatchInv
<1>2. CASE t.custody = st.custody /\ \A o \in DOMAIN t.ops : Like(st.ops[o], t.ops[o])
  <2>1. \A o \in DOMAIN ops : t.ops[o].party = st.ops[o].party /\ t.ops[o].captives = st.ops[o].captives
    BY <1>1, <1>2 DEF Like
  <2>2. ASSUME NEW o \in DOMAIN ops PROVE BatchOp(o, t)
    <3>1. BatchOp(o, st) /\ Like(st.ops[o], t.ops[o])
      BY <1>1, <1>2
    <3> QED  BY <1>2, <3>1 DEF BatchOp, Like, Same, Caught
  <2> QED  BY <1>1, <1>2, <2>1, <2>2 DEF BatchInv
<1>3. CASE \E p, g : Takes(st, t, j, p, g)
  <2>1. PICK p, g : Takes(st, t, j, p, g)
    BY <1>3
  <2>2. PICK o : o = j[2]
    OBVIOUS
  <2>3. /\ o \in DOMAIN ops /\ p \in FallenOf(st.ops[o], j[3]) /\ \A r \in st.custody : r.who # p
        /\ t.custody = st.custody \cup {Capture(p, g, o)}
        /\ Same(st.ops[o], t.ops[o])
        /\ t.ops[o].status = st.ops[o].status /\ t.ops[o].follow = st.ops[o].follow
        /\ t.ops[o].party = st.ops[o].party \cup {p}
        /\ t.ops[o].captives = st.ops[o].captives \cup {p}
    BY <1>1, <2>1, <2>2 DEF Takes
  <2>4. o[1] = "raid" /\ ops[o].status = "return_preparing" /\ ops[o].tgt = o[3]
    BY <2>2, <2>3 DEF Stands, WarInv, OpsSound, OpSound
  <2>5. st.ops[o].tgt = o[3]
    BY <1>1, <2>3, <2>4 DEF BatchOp, Same
  <2>6. p \in j[3] /\ p \in Members[o[3]] /\ body[p] = "hurt" /\ p \in People
    BY <2>3, <2>5 DEF FallenOf
  <2>7. AtLiberty(p)
    BY <2>2, <2>6 DEF Stands
  <2>8. PICK c : c = Capture(p, g, o)
    OBVIOUS
  <2>9. c.who = p /\ c.at[1] = "site"
    BY <2>6, <2>8, CaptureTyped
  <2>10. t.custody = st.custody \cup {c}
    BY <2>3, <2>8
  <2>11. BatchRecords(t.custody)
    BY <1>1, <2>3, <2>6, <2>7, <2>9, <2>10 DEF BatchRecords, Once
  <2>12. Caught(p, o, t)
    BY <2>3, <2>4, <2>6, <2>7, <2>9, <2>10 DEF Caught
  <2>13. \A s \in DOMAIN ops : st.ops[s].party \subseteq t.ops[s].party
    BY <1>1, <2>2, <2>3
  <2>14. \A s \in DOMAIN ops : \A q : Caught(q, s, st) => Caught(q, s, t)
    BY <2>10, <2>13 DEF Caught
  <2>15. ASSUME NEW s \in DOMAIN ops PROVE BatchOp(s, t)
    <3>1. BatchOp(s, st)
      BY <1>1
    <3>2. CASE s # o
      <4>1. t.ops[s] = st.ops[s]
        BY <1>1, <2>2, <3>2
      <4> QED  BY <2>14, <3>1, <4>1 DEF BatchOp
    <3>3. CASE s = o
      <4>1. \A q : Caught(q, o, st) => Caught(q, o, t)
        BY <2>3, <2>14
      <4>2. BatchOp(o, st)
        BY <3>1, <3>3
      <4>3. BatchOp(o, t)
        BY <2>3, <2>12, <4>1, <4>2 DEF BatchOp, Same
      <4> QED  BY <3>3, <4>3
    <3> QED  BY <3>2, <3>3
  <2>16. \A s \in DOMAIN ops : p \notin st.ops[s].party \ ops[s].party
    BY <1>1, <2>3 DEF BatchOp, Caught
  <2>17. ASSUME NEW u \in DOMAIN ops, NEW s \in DOMAIN ops, NEW q,
                q \in t.ops[u].party \ ops[u].party, q \in t.ops[s].party \ ops[s].party
         PROVE  u = s
    <3>1. \A x \in DOMAIN ops : q \in t.ops[x].party =>
            q \in st.ops[x].party \/ (x = o /\ q = p)
      BY <1>1, <2>2, <2>3
    <3>2. CASE q = p
      BY <2>16, <2>17, <3>1, <3>2
    <3>3. CASE q # p
      BY <2>17, <3>1, <3>3 DEF BatchInv
    <3> QED  BY <3>2, <3>3
  <2> QED  BY <1>1, <2>11, <2>15, <2>17 DEF BatchInv
<1> QED  BY <1>2, <1>3 DEF SeizesOnce

\* So it holds at the end: the first choice to break it would have been made on
\* a sheet where it held.
LEMMA BatchEnds ==
  ASSUME WarInv, NEW order \in SetToSeqs(committed), \A j \in committed : j[1] = "aftermath"
  PROVE  BatchInv(Batch(order))
<1>1. IsFiniteSet(committed)
  BY DEF WarInv, WarTypes, JudgesTyped
<1>2. PICK n \in Nat : \E s :
        /\ s[0] = Opening /\ Batch(order) = s[n]
        /\ \A i \in 1 .. n : order[i] \in committed /\ s[i] = Seize(s[i - 1], order[i])
  BY <1>1, BatchIsChain
<1>3. PICK s :
        /\ s[0] = Opening /\ Batch(order) = s[n]
        /\ \A i \in 1 .. n : order[i] \in committed /\ s[i] = Seize(s[i - 1], order[i])
  BY <1>2
<1> DEFINE N == {i \in 0 .. n : ~BatchInv(s[i])}
<1>4. SUFFICES ASSUME N # {} PROVE FALSE
  BY <1>3
<1>5. PICK i \in N : \A k \in N : i <= k
  <2>1. N \subseteq Nat
    OBVIOUS
  <2> HIDE DEF N
  <2> QED  BY <1>4, <2>1, LeastNatural
<1>6. i # 0
  BY <1>3, <1>5, BatchOpens
<1>7. i - 1 \in 0 .. n /\ i - 1 \notin N /\ i \in 1 .. n
  BY <1>5, <1>6
<1>8. BatchInv(s[i - 1])
  BY <1>7
<1>9. PICK st, j, t : st = s[i - 1] /\ j = order[i] /\ t = s[i]
  OBVIOUS
<1>10. j \in committed /\ t = Seize(st, j) /\ BatchInv(st)
  BY <1>3, <1>7, <1>8, <1>9
<1>11. Stands(j) /\ j[3] \subseteq People
  BY <1>10 DEF WarInv, WarTypes, JudgesTyped, IsJudgment, Judged
<1>12. SeizesOnce(st, t, j)
  BY <1>10, <1>11, SeizeStep DEF BatchInv
<1>13. BatchInv(t)
  BY <1>10, <1>11, <1>12, BatchStep
<1> QED  BY <1>5, <1>9, <1>13

\* The state after a batch.
LEMMA BatchKeeps ==
  ASSUME WarInv, NEW st, BatchInv(st), ops' = st.ops, custody' = st.custody,
         committed' = {}, pending' = {}, UNCHANGED <<roads, due, body>>
  PROVE  WarInv'
<1>1. /\ SheetTyped(st) /\ DOMAIN ops' = DOMAIN ops /\ BatchRecords(custody')
      /\ \A o \in DOMAIN ops : BatchOp(o, st)
  BY DEF BatchInv
<1>2. WarTypes'
  <2>1. IsFiniteSet({})
    BY FS_EmptySet
  <2> QED  BY <1>1, <2>1 DEF SheetTyped, WarInv, WarTypes, OpsTyped, RoadsTyped, RecordsTyped, EventsTyped,
             JudgesTyped, Aftermaths, BodyTyped
<1>3. ASSUME NEW o \in DOMAIN ops
      PROVE  /\ IsOp(ops[o]) /\ OpSound(o, ops[o], custody, body)
             /\ Same(ops[o], ops'[o]) /\ ops'[o].status = ops[o].status
             /\ ops'[o].follow = ops[o].follow
             /\ ops[o].party \subseteq ops'[o].party /\ ops[o].captives \subseteq ops'[o].captives
             /\ \A p \in ops'[o].party : p \in ops[o].party \/ Caught(p, o, st)
             /\ \A p \in ops'[o].captives : p \in ops[o].captives \/ Caught(p, o, st)
  BY <1>1 DEF BatchOp, WarInv, WarTypes, OpsTyped, OpsSound
<1>4. \A r \in custody' : r \in custody \/ (AtLiberty(r.who) /\ r.at[1] = "site" /\ body[r.who] = "hurt")
  BY <1>1 DEF BatchRecords
<1>5. ASSUME NEW o \in DOMAIN ops PROVE OpSound(o, ops'[o], custody', body')
  <2>1. PICK x, y : x = ops[o] /\ y = ops'[o]
    OBVIOUS
  <2>2. /\ IsOp(x) /\ OpSound(o, x, custody, body) /\ Same(x, y) /\ y.status = x.status
        /\ y.follow = x.follow /\ x.party \subseteq y.party /\ x.captives \subseteq y.captives
        /\ \A p \in y.party : p \in x.party \/ Caught(p, o, st)
        /\ \A p \in y.captives : p \in x.captives \/ Caught(p, o, st)
    BY <1>3, <2>1
  <2>3. \A p : Caught(p, o, st) => /\ p \in y.party /\ body[p] = "hurt" /\ o[1] = "raid"
                                   /\ x.status = "return_preparing"
    BY <2>1 DEF Caught
  <2>4. /\ y.kind = o[1] /\ y.f = o[2] /\ (o[1] = "raid" => y.tgt = o[3] /\ y.tgt \in Factions)
        /\ o[1] = "aid" => y.party \subseteq Members[o[2]] /\ y.tgt # o[2]
    BY <2>2, <2>3 DEF OpSound, Same
  <2>5. y.follow # Nobody => /\ y.status \in {"return_preparing", "traveling_return"}
                             /\ y.follow \in y.party \/ body[y.follow] = "dead"
    BY <2>2 DEF OpSound
  <2>6. \A p \in y.party : body[p] = "dead" => o = HomeRef(p)
    BY <2>2, <2>3 DEF OpSound
  <2>7. /\ y.captives # {} => o[1] = "raid" /\ y.status \notin Setting \cup {"holding_defense"}
        /\ \A p \in y.captives : p \in y.party \/ body[p] = "dead"
    BY <2>2, <2>3 DEF OpSound, Setting
  <2>8. ASSUME y.status \in Setting, NEW r \in custody' PROVE r.who \notin y.party
    <3>1. y.party = x.party
      BY <2>2, <2>3, <2>8 DEF Setting
    <3>2. CASE r \in custody
      BY <2>2, <2>8, <3>1, <3>2 DEF OpSound
    <3>3. CASE AtLiberty(r.who)
      BY <2>1, <3>1, <3>3 DEF AtLiberty, Serves
    <3> QED  BY <1>4, <3>2, <3>3
  <2>9. OpSound(o, y, custody', body)
    BY <2>4, <2>5, <2>6, <2>7, <2>8 DEF OpSound
  <2> QED  BY <2>1, <2>9
<1>6. OpsSound'
  BY <1>1, <1>5 DEF OpsSound
<1>7. RoadsSound'
  <2>1. ASSUME NEW m \in DOMAIN roads PROVE RoadSound(m, roads[m], custody', body)
    <3>1. RoadSound(m, roads[m], custody, body) /\ m = <<m[1], m[2]>> /\ m[2] \in {"out", "back"}
      BY DEF WarInv, WarTypes, RoadsTyped, RoadsSound
    <3>2. \A r \in custody' : r \in custody \/ r.who \notin roads[m].party
      BY <1>4, <3>1 DEF AtLiberty, Serves
    <3> QED  BY <3>1, <3>2 DEF RoadSound
  <2> QED  BY <2>1 DEF RoadsSound
<1>8. Records'
  BY <1>1, <1>4 DEF BatchRecords, Records, WarInv
<1>9. Outward'
  BY <1>1, <1>3 DEF WarInv, Outward
<1>10. Homebound'
  BY <1>1, <1>3 DEF WarInv, Homebound
<1>11. Recorded'
  <2>1. ASSUME NEW r \in custody'
        PROVE  /\ r.at[1] = "road" => <<r.at[2], "back">> \in DOMAIN roads
                                      /\ r.who \in roads[<<r.at[2], "back">>].captives
               /\ r.at[1] = "op" => /\ r.at[2] \in DOMAIN ops' /\ r.who \in ops'[r.at[2]].captives
                                    /\ ops'[r.at[2]].status = "traveling_return"
                                    /\ <<"return", r.at[2]>> \in due
                                    /\ <<r.at[2], "back">> \notin DOMAIN roads
    <3>1. CASE r.at[1] = "site"
      BY <3>1
    <3>2. CASE r \in custody
      BY <1>1, <1>3, <3>2 DEF WarInv, Recorded
    <3> QED  BY <1>4, <3>1, <3>2
  <2> QED  BY <2>1 DEF Recorded
<1>12. Judged'
  BY DEF Judged
<1>13. Alone'
  <2> DEFINE N == {<<p, o>> : p \in People, o \in DOMAIN ops}
             New == {e \in N : e[1] \in ops'[e[2]].party \ ops[e[2]].party}
  <2>1. \A p, o : <<p, o>> \in New <=> /\ p \in People /\ o \in DOMAIN ops
                                       /\ p \in ops'[o].party /\ p \notin ops[o].party
    OBVIOUS
  <2> HIDE DEF New
  <2>2. ASSUME NEW p \in People, NEW o, Serves(p, o)' PROVE Serves(p, o) \/ <<p, o>> \in New
    BY <1>1, <2>1, <2>2 DEF Serves
  <2>3. ASSUME NEW p, NEW o, <<p, o>> \in New PROVE \A s : ~Serves(p, s)
    BY <1>3, <2>1, <2>3 DEF Caught, AtLiberty
  <2>4. ASSUME NEW p, NEW o, NEW s, <<p, o>> \in New, <<p, s>> \in New PROVE o = s
    BY <2>1, <2>4 DEF BatchInv
  <2>5. Alone
    BY DEF WarInv
  <2> QED  BY <2>2, <2>3, <2>4, <2>5, AloneStays
<1> QED  BY <1>2, <1>6, <1>7, <1>8, <1>9, <1>10, <1>11, <1>12, <1>13 DEF WarInv

\* Aftermaths are settled together or not at all.
LEMMA SettleAftermathsKeeps ==
  ASSUME WarInv, SettleAftermaths
  PROVE  WarInv'
<1>1. pending = {} /\ UNCHANGED <<roads, due, pending, body>>
  BY DEF SettleAftermaths
<1>2. \A j \in committed : j[1] = "aftermath"
  BY <1>1 DEF SettleAftermaths, WarInv, WarTypes, Aftermaths
<1>3. PICK order, st :
        /\ order \in SetToSeqs(committed) /\ st = Batch(order)
        /\ IF st.ok
           THEN ops' = st.ops /\ custody' = st.custody /\ committed' = {}
           ELSE UNCHANGED <<ops, custody, committed>>
  BY DEF SettleAftermaths
<1>4. BatchInv(st)
  BY <1>2, <1>3, BatchEnds
<1>5. CASE st.ok
  BY <1>1, <1>3, <1>4, <1>5, BatchKeeps
<1>6. CASE ~st.ok
  BY <1>1, <1>3, <1>6, IdleKeeps
<1> QED  BY <1>5, <1>6

-----------------------------------------------------------------------------
(* The steps of the system.                                                 *)

Marching == \E o : \E d \in {"out", "back"} : DepartLocal(o, d) \/ DepartRoad(o, d)
Meeting  == \E o : ArriveDropped(o) \/ ArriveToDefend(o) \/ ArriveInPeace(o) \/ Battle(o)
Coming   == \E o : LocalReturn(o) \/ RoadArriveHome(o) \/ RaidReturns(o)
Ending   == \E o : RoadArriveOut(o) \/ RoadStopped(o) \/ ReturnLost(o) \/ RaidLost(o)
Dropping == \E o, d : DepartDropped(o, d) \/ RoadEnds(o, d)
Asking   == \/ \E x : CaptorReview(x) \/ ResponseDue(x) \/ Freed(x)
            \/ \E j : \E choice : Commit(j, choice)
Settling == \E j : SettleCaptor(j) \/ Deferred(j) \/ StartRescue(j) \/ PayLater(j) \/ PayRansom(j)
Mishaps  == \E p \in People : Die(p) \/ Hurt(p) \/ Recover(p)
Reviews  == \/ \E q \in Plans : Launch(q)
            \/ \E f \in Factions : ReviewRaises(f)

\* Every step is one of these.
LEMMA StepKinds ==
  ASSUME WarInv, Next
  PROVE  Marching \/ Meeting \/ Coming \/ Ending \/ Dropping \/ Asking \/ Settling \/ Mishaps
           \/ Reviews \/ SettleAftermaths
<1>1. CASE Departures
  <2>1. PICK e \in due : e[1] = "depart" /\ \/ DepartDropped(e[2], e[3])
                                            \/ DepartLocal(e[2], e[3])
                                            \/ DepartRoad(e[2], e[3])
    BY <1>1 DEF Departures
  <2>2. e[3] \in {"out", "back"}
    BY <2>1 DEF WarInv, WarTypes, EventsTyped, IsEvent
  <2> QED  BY <2>1, <2>2 DEF Marching, Dropping
<1>2. CASE Arrivals
  BY <1>2 DEF Arrivals, Meeting
<1>3. CASE Homeward
  BY <1>3 DEF Homeward, Coming, Ending, Dropping
<1>4. CASE Captivity
  BY <1>4 DEF Captivity, Asking, Settling
<1>5. CASE pending # {} /\ LET j == CHOOSE x \in pending : TRUE
                           IN  \E choice \in j[4] : Commit(j, choice)
  BY <1>5 DEF Asking
<1>6. CASE \E p \in People : Die(p) \/ Hurt(p) \/ Recover(p)
  BY <1>6 DEF Mishaps
<1>7. CASE (\E q \in Plans : Launch(q)) \/ (\E f \in Factions : ReviewRaises(f))
  BY <1>7 DEF Reviews
<1> QED  BY <1>1, <1>2, <1>3, <1>4, <1>5, <1>6, <1>7 DEF Next

\* The invariant starts true.
LEMMA WarInit ==
  ASSUME Init
  PROVE  WarInv
<1>1. WarTypes
  <2>1. IsFiniteSet({})
    BY FS_EmptySet
  <2>2. OpsTyped(ops) /\ RoadsTyped(roads) /\ RecordsTyped(custody) /\ EventsTyped(due)
    BY <2>1 DEF Init, OpsTyped, RoadsTyped, RecordsTyped, EventsTyped
  <2>3. JudgesTyped(pending) /\ JudgesTyped(committed) /\ Aftermaths(pending \cup committed)
    BY <2>1 DEF Init, JudgesTyped, Aftermaths
  <2>4. BodyTyped
    BY DEF Init, BodyTyped
  <2> QED  BY <2>2, <2>3, <2>4 DEF WarTypes
<1>2. DOMAIN ops = {} /\ DOMAIN roads = {} /\ custody = {} /\ due = {} /\ pending = {} /\ committed = {}
  BY DEF Init
<1>3. OpsSound /\ RoadsSound /\ Records /\ Outward /\ Homebound /\ Recorded /\ Judged
  BY <1>2 DEF OpsSound, RoadsSound, Records, Once, Outward, Homebound, Recorded, Judged
<1>4. Alone
  BY <1>2 DEF Alone, Serves
<1> QED  BY <1>1, <1>3, <1>4 DEF WarInv

\* Every step keeps the invariant.
LEMMA NextKeeps ==
  ASSUME WarInv, Next
  PROVE  WarInv'
<1>1. CASE Marching
  BY <1>1, DepartLocalKeeps, DepartRoadKeeps DEF Marching
<1>2. CASE Meeting
  BY <1>2, ArriveDroppedKeeps, ArriveToDefendKeeps, ArriveInPeaceKeeps, BattleKeeps DEF Meeting
<1>3. CASE Coming
  BY <1>3, LocalReturnDropped, LocalReturnKeeps, RoadArriveHomeKeeps, RaidReturnsKeeps DEF Coming
<1>4. CASE Ending
  BY <1>4, RoadArriveOutKeeps, RoadStoppedKeeps, ReturnLostKeeps, RaidLostKeeps DEF Ending
<1>5. CASE Dropping
  BY <1>5, DepartDroppedKeeps, RoadEndsKeeps DEF Dropping
<1>6. CASE Asking
  BY <1>6, CaptorReviewKeeps, ResponseDueKeeps, FreedKeeps, CommitKeeps DEF Asking
<1>7. CASE Settling
  BY <1>7, SettleCaptorKeeps, DeferredKeeps, StartRescueKeeps, PayLaterKeeps, PayRansomKeeps
     DEF Settling
<1>8. CASE Mishaps
  BY <1>8, DieKeeps, HealthKeeps DEF Mishaps
<1>9. CASE Reviews
  <2>1. CASE \E q \in Plans : Launch(q)
    BY <2>1, LaunchKeeps
  <2>2. CASE \E f \in Factions : ReviewRaises(f)
    <3>1. UNCHANGED <<ops, roads, due, pending, committed, custody, body>>
      BY <2>2 DEF ReviewRaises
    <3> QED  BY <3>1, IdleKeeps
  <2> QED  BY <1>9, <2>1, <2>2 DEF Reviews
<1>10. CASE SettleAftermaths
  BY <1>10, SettleAftermathsKeeps
<1> QED  BY <1>1, <1>2, <1>3, <1>4, <1>5, <1>6, <1>7, <1>8, <1>9, <1>10, StepKinds

-----------------------------------------------------------------------------
(* Theorems.                                                                *)

\* In every reachable state the invariant holds.
LEMMA WarInvariant == Spec => []WarInv
<1>1. Init => WarInv
  BY WarInit
<1>2. ASSUME WarInv, [Next]_vars PROVE WarInv'
  <2>1. CASE Next
    BY <1>2, <2>1, NextKeeps
  <2>2. CASE UNCHANGED vars
    <3>1. UNCHANGED <<ops, roads, due, pending, committed, custody, body>>
      BY <2>2 DEF vars
    <3> QED  BY <1>2, <3>1, IdleKeeps
  <2> QED  BY <1>2, <2>1, <2>2
<1> QED  BY <1>1, <1>2, PTL DEF Spec

\* Deployments, movements, records, events and judgments are always what their
\* readers expect: every party, captive and prisoner is a person, every holder,
\* payer and answering house a faction.
THEOREM WarIsTyped == Spec => []WarTypes
<1>1. WarInv => WarTypes
  BY DEF WarInv
<1> QED  BY <1>1, WarInvariant, PTL

\* Nobody serves two operations at once, although reviews, calls for aid, rescues,
\* captures and releases all take people without asking one another; and nobody
\* has two custody records.
THEOREM EverybodyHasOnePlace == Spec => []OnePlacePerPerson
<1>1. WarInv => OnePlacePerPerson
  <2>1. ASSUME WarInv PROVE OnePlacePerPerson
    <3>1. ASSUME NEW o \in DOMAIN ops, NEW s \in DOMAIN ops, o # s
          PROVE  ops[o].party \cap ops[s].party = {}
      <4>1. SUFFICES ASSUME NEW p \in ops[o].party, p \in ops[s].party PROVE FALSE
        OBVIOUS
      <4>2. p \in People
        BY <2>1, <4>1 DEF WarInv, WarTypes, OpsTyped, IsOp
      <4>3. Serves(p, o) /\ Serves(p, s)
        BY <4>1 DEF Serves
      <4> QED  BY <2>1, <3>1, <4>2, <4>3 DEF WarInv, Alone
    <3>2. \A c, e \in custody : c.who = e.who => c = e
      BY <2>1 DEF WarInv, Records, Once
    <3> QED  BY <3>1, <3>2 DEF OnePlacePerPerson
  <2> QED  BY <2>1
<1> QED  BY <1>1, WarInvariant, PTL

\* A custody record names a living prisoner, and the movement or the party that
\* has him: no battle, death, loss on the road or settlement leaves it pointing at
\* an owner that is gone.
THEOREM PrisonersAreWhereRecorded == Spec => []PrisonerIsWhereRecorded
<1>1. WarInv => PrisonerIsWhereRecorded
  BY DEF WarInv, Records, Recorded, PrisonerIsWhereRecorded
<1> QED  BY <1>1, WarInvariant, PTL

=============================================================================
