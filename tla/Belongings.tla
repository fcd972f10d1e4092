------------------------------- MODULE Belongings -------------------------------
(***************************************************************************)
(* Who holds what and whose it is: the armories of the houses, what each   *)
(* person carries, the standing issue of a house to its people, the claims *)
(* of an owner on a thing that somebody else holds, and the demands to     *)
(* have it back (martial_world/property.py, operational_equipment.py,      *)
(* equipment_state.py, commands/jianghu_extended.py).                      *)
(*                                                                         *)
(* A person holds an item as a number of pieces without identity.  Of the  *)
(* pieces held, the standing issue belongs to the house, at most one other *)
(* owner has a claim on some, and the rest is the holder's own.  Where     *)
(* people stand, the state of repair of a piece and ammunition are left    *)
(* out; who is in no condition to defend a thing is a parameter.           *)
(***************************************************************************)
EXTENDS Integers, FiniteSets, FiniteSetsExt, Functions, TLC

CONSTANTS
  Person,    \* people, numbered in the order of their references
  House,     \* faction references
  Item,      \* everything an armory or a store may keep
  Weapon,    \* the equipment among them: what people carry
  Base,      \* Base[h][i]: what the loadout policy of house h issues of i
  Players,   \* the people commands may be given for
  Helpless,  \* the people others may take things from: bound, stunned or dead
  Restless,  \* bound: the people who may leave their house or be taken away
  MaxClaim,  \* bound: the pieces one claim may reach by seizures
  Nobody     \* no house, no owner

ASSUME BelongingsAssumption ==
  /\ Weapon \subseteq Item
  /\ Players \subseteq Person
  /\ Helpless \subseteq Person
  /\ Restless \subseteq Person \ Players
  /\ Base \in [House -> [Item -> Nat]]
  /\ MaxClaim \in Nat /\ Nobody \notin House \cup Person

VARIABLES
  goods,   \* [stock, held]: armory and stores of a house, loadout of a person
  title,   \* [policy, claims, demands]: whose standing issue a person carries,
           \* provenance_exceptions, recovery_demands
  member,  \* faction_ref of a person, or Nobody
  purse,   \* personal_cash
  field,   \* issued_equipment and its baseline, of the operation of a house
  outside  \* per item: pieces used up or lost, less the pieces made

belongings == <<goods, title, member, purse, field, outside>>

AtLeast0(n) == IF n < 0 THEN 0 ELSE n
Least(a, b) == IF a < b THEN a ELSE b

(*---------------------------------- title --------------------------------*)
ClaimQty(T, p, i) == IF <<p, i>> \in DOMAIN T.claims THEN T.claims[<<p, i>>].qty ELSE 0
ClaimOwner(T, p, i) == IF <<p, i>> \in DOMAIN T.claims THEN T.claims[<<p, i>>].owner ELSE Nobody

\* The part of a holding that is the standing issue of a house.
PolicyOwned(T, G, p, i) ==
  IF T.policy[p] = Nobody THEN 0 ELSE Least(Base[T.policy[p]][i], G.held[p][i])

PersonallyOwned(T, G, p, i) ==
  AtLeast0(G.held[p][i] - PolicyOwned(T, G, p, i) - ClaimQty(T, p, i))

\* set_nonholder_claim: a claim of the holder, or of nothing, is no claim.
SetClaim(C, p, i, owner, qty) ==
  LET others == Restrict(C, DOMAIN C \ {<<p, i>>})
  IN  IF qty <= 0 \/ owner = p THEN others
      ELSE (<<p, i>> :> [owner |-> owner, qty |-> qty]) @@ others

\* move_claim_after_seizure: the owner of the claim on the victim's pieces, else the
\* one the command names, keeps the title; a taker who already holds such pieces of
\* another owner is refused.
SeizedFrom(T, from, i, named) == IF <<from, i>> \in DOMAIN T.claims THEN ClaimOwner(T, from, i)
                                 ELSE named
MayMoveClaim(T, from, to, i, named) ==
  ClaimOwner(T, to, i) \in {Nobody, SeizedFrom(T, from, i, named)}
MoveClaim(T, from, to, i, qty, named) ==
  LET owner == SeizedFrom(T, from, i, named)
      taken == SetClaim(T.claims, to, i, owner, ClaimQty(T, to, i) + qty)
  IN  IF <<from, i>> \in DOMAIN T.claims
      THEN SetClaim(taken, from, i, owner, AtLeast0(ClaimQty(T, from, i) - qty))
      ELSE taken

\* property_evidence_ref: a live claim of somebody else on what the holder has.
HasEvidence(C, p, i) == <<p, i>> \in DOMAIN C

IssueDemand(D, owner, holder, i, qty) == (<<owner, holder, i>> :> qty) @@ D
ClearDemand(D, owner, holder, i) == Restrict(D, DOMAIN D \ {<<owner, holder, i>>})

\* detach_faction_policy_holders: what a leaver still holds of the standing issue is
\* claimed by the house; pieces another owner claims cannot be told apart from it.
MayDetach(T, G, h, p) ==
  T.policy[p] = h => \A i \in Item :
    PolicyOwned(T, G, p, i) > 0 => ClaimOwner(T, p, i) \in {Nobody, h}
DetachPolicy(T, G, h, p) ==
  LET kept == {i \in Item : PolicyOwned(T, G, p, i) > 0}
      claim(i) == [owner |-> h, qty |-> Least(G.held[p][i],
                                              PolicyOwned(T, G, p, i) + ClaimQty(T, p, i))]
  IN  IF T.policy[p] # h THEN T
      ELSE [T EXCEPT !.policy[p] = Nobody,
                     !.claims = [k \in {<<p, i>> : i \in kept} |-> claim(k[2])] @@ @]

\* transfer_faction_property_authority: claims, demands and the standing issue of an
\* absorbed house become claims and demands of its successor.
PolicyKeys(T, G, h) ==
  {k \in Person \X Item : T.policy[k[1]] = h /\ PolicyOwned(T, G, k[1], k[2]) > 0}
Renamed(C, s, t) == [k \in DOMAIN C |-> IF C[k].owner = s THEN [C[k] EXCEPT !.owner = t] ELSE C[k]]
MayTransfer(T, G, s, t) ==
  LET C == Renamed(T.claims, s, t)
  IN  \A k \in PolicyKeys(T, G, s) \cap DOMAIN C :
        /\ C[k].owner = t
        /\ C[k].qty + PolicyOwned(T, G, k[1], k[2]) <= G.held[k[1]][k[2]]
TransferAuthority(T, G, s, t) ==
  LET C == Renamed(T.claims, s, t)
      issued == [k \in PolicyKeys(T, G, s) |->
                   [owner |-> t, qty |-> ClaimQty(T, k[1], k[2]) + PolicyOwned(T, G, k[1], k[2])]]
      claims == issued @@ C
      backed(d) == /\ <<d[2], d[3]>> \in DOMAIN claims
                   /\ claims[<<d[2], d[3]>>].owner = t
      kept == {d \in DOMAIN T.demands : d[1] # s}
      moved == {d \in DOMAIN T.demands : d[1] = s /\ backed(d)}
  IN  [policy |-> [p \in Person |-> IF T.policy[p] = s THEN Nobody ELSE T.policy[p]],
       claims |-> claims,
       demands |-> [d \in {<<t, e[2], e[3]>> : e \in moved} |->
                      Least(T.demands[<<s, d[2], d[3]>>], claims[<<d[2], d[3]>>].qty)]
                   @@ Restrict(T.demands, kept)]

(*------------------------ the property command ---------------------------*)
Handed(G, from, to, i, qty) == [G EXCEPT !.held[from][i] = @ - qty, !.held[to][i] = @ + qty]

\* give_cash, seize_cash and accept_cash_offer.
PayCash(giver, receiver) ==
  /\ giver # receiver
  /\ \E cash \in 1 .. purse[giver] :
       purse' = [purse EXCEPT ![giver] = @ - cash, ![receiver] = @ + cash]
  /\ UNCHANGED <<goods, title, member, field, outside>>

\* A gift is of the giver's own; any claim on the receiver's pieces of the kind goes.
GiveItem(a, b, i) ==
  /\ b # a
  /\ \E qty \in 1 .. goods.held[a][i] :
       /\ PersonallyOwned(title, goods, a, i) >= qty
       /\ goods' = Handed(goods, a, b, i, qty)
       /\ title' = [title EXCEPT !.claims = SetClaim(@, b, i, b, 0)]
  /\ UNCHANGED <<member, purse, field, outside>>

\* What is claimed goes back to the owner, or to a member of the house that owns it,
\* who then holds it for the house; the demand on the holder is cleared.
ReturnItem(a, b, i) ==
  LET owner == ClaimOwner(title, a, i)
  IN  /\ b # a
      /\ owner \in {b, member[b]} \ {Nobody}
      /\ \E qty \in 1 .. Least(goods.held[a][i], ClaimQty(title, a, i)) :
           LET left == SetClaim(title.claims, a, i, owner, ClaimQty(title, a, i) - qty)
               before == IF ClaimOwner(title, b, i) = owner THEN ClaimQty(title, b, i) ELSE 0
           IN  /\ goods' = Handed(goods, a, b, i, qty)
               /\ title' = [title EXCEPT
                    !.claims = IF owner = member[b] THEN SetClaim(left, b, i, owner, before + qty)
                               ELSE SetClaim(left, b, i, b, 0),
                    !.demands = ClearDemand(@, owner, a, i)]
      /\ UNCHANGED <<member, purse, field, outside>>

\* A seizure from somebody in the actor's power: possession moves and title stays.  A
\* victim who sees it, of another house than the taker, demands it back.
SeizeItem(a, b, i, seen) ==
  LET claimed == ClaimQty(title, b, i)
      issued == PolicyOwned(title, goods, b, i)
      own == PersonallyOwned(title, goods, b, i)
      kinds == Cardinality({n \in {<<1, claimed>>, <<2, issued>>, <<3, own>>} : n[2] > 0})
      named(qty) == CASE claimed >= qty -> ClaimOwner(title, b, i)
                      [] claimed < qty /\ issued >= qty -> title.policy[b]
                      [] OTHER -> b
  IN  /\ b \in Helpless \ {a}
      /\ \E qty \in 1 .. goods.held[b][i] :
           LET claims == MoveClaim(title, b, a, i, qty, named(qty))
               strangers == {member[a], member[b]}
           IN  /\ ClaimQty(title, a, i) + qty <= MaxClaim
               /\ kinds > 1 => qty <= Max({claimed, issued, own})
               /\ MayMoveClaim(title, b, a, i, named(qty))
               /\ goods' = Handed(goods, b, a, i, qty)
               /\ title' = [title EXCEPT
                    !.claims = claims,
                    !.demands = IF /\ seen /\ HasEvidence(claims, a, i)
                                   /\ Cardinality(strangers) = 2 /\ Nobody \notin strangers
                                THEN IssueDemand(@, named(qty), a, i, qty) ELSE @]
      /\ UNCHANGED <<member, purse, field, outside>>

(*------------------------------ the armory -------------------------------*)
\* The issue of the armory leaves no claim behind.
ArmoryIssue(a, p, i) ==
  LET h == member[p]
  IN  /\ h # Nobody /\ member[a] = h /\ i \in Weapon
      /\ \E qty \in 1 .. goods.stock[h][i] :
           goods' = [goods EXCEPT !.stock[h][i] = @ - qty, !.held[p][i] = @ + qty]
      /\ UNCHANGED <<title, member, purse, field, outside>>

\* Anything held may be returned to the armory; only a claim of the house shrinks.
ArmoryReturn(a, p, i) ==
  LET h == member[p]
  IN  /\ h # Nobody /\ member[a] = h
      /\ \E qty \in 1 .. goods.held[p][i] :
           /\ goods' = [goods EXCEPT !.stock[h][i] = @ + qty, !.held[p][i] = @ - qty]
           /\ title' = IF ClaimOwner(title, p, i) # h THEN title
                       ELSE [title EXCEPT !.claims =
                               SetClaim(@, p, i, h, AtLeast0(ClaimQty(title, p, i) - qty))]
      /\ UNCHANGED <<member, purse, field, outside>>

(*------------------------- issue to an operation -------------------------*)
NoIssue == <<>>
Armed(p) == \E w \in Weapon : goods.held[p][w] > 0
MayBeIssued(h, p, w) == ClaimOwner(title, p, w) \in {Nobody, h}
Given(f, w) == Cardinality({p \in DOMAIN f : f[p] = w})

\* issue_operation_equipment: one weapon to each unarmed participant while there is
\* one he may be given; which one is a matter of skill and custom.
Issues(h, party) ==
  {f \in UNION {[S -> Weapon] : S \in SUBSET party} :
     /\ \A p \in DOMAIN f : ~Armed(p) /\ MayBeIssued(h, p, f[p])
     /\ \A w \in Weapon : Given(f, w) <= goods.stock[h][w]
     /\ \A p \in party \ DOMAIN f :
          Armed(p) \/ \A w \in Weapon : MayBeIssued(h, p, w) => Given(f, w) = goods.stock[h][w]}

IssuedGoods(h, f) ==
  [goods EXCEPT
    !.stock[h] = [i \in Item |-> @[i] - Given(f, i)],
    !.held = [p \in Person |-> [i \in Item |->
                @[p][i] + IF p \in DOMAIN f /\ f[p] = i THEN 1 ELSE 0]]]

FieldIssue(h, party) ==
  /\ field[h] = NoIssue
  /\ \E f \in Issues(h, party) :
       /\ f # NoIssue
       /\ goods' = IssuedGoods(h, f)
       /\ field' = [field EXCEPT ![h] = [p \in DOMAIN f |->
            [item |-> f[p], base |-> goods.held[p][f[p]], claimed |-> ClaimQty(title, p, f[p])]]]
  /\ UNCHANGED <<title, member, purse, outside>>

StillHeld(h, p) ==
  Least(1, AtLeast0(goods.held[p][field[h][p].item] - field[h][p].base))

\* detach_operation_issue_holders: somebody of the party is separated with the weapon,
\* which the house claims from now on.
FieldSeparate(h, p) ==
  LET i == field[h][p].item
      claim == Least(goods.held[p][i],
                     Max({ClaimQty(title, p, i), field[h][p].claimed}) + StillHeld(h, p))
  IN  /\ p \in DOMAIN field[h]
      /\ StillHeld(h, p) > 0 => ClaimOwner(title, p, i) \in {Nobody, h}
      /\ title' = IF StillHeld(h, p) = 0 THEN title
                  ELSE [title EXCEPT !.claims = SetClaim(@, p, i, h, claim)]
      /\ field' = [field EXCEPT ![h] = Restrict(@, DOMAIN @ \ {p})]
      /\ UNCHANGED <<goods, member, purse, outside>>

\* The pieces of an item that come back, and what people hold then.
Returning(h, i) == {p \in DOMAIN field[h] : field[h][p].item = i /\ StillHeld(h, p) = 1}
HeldAfterReturn(h) ==
  [p \in Person |-> IF p \notin DOMAIN field[h] THEN goods.held[p]
     ELSE [goods.held[p] EXCEPT ![field[h][p].item] = @ - StillHeld(h, p)]]

\* Mutation: the whole issue comes back, whatever became of it.
FieldReturnAll(h) ==
  /\ field[h] # NoIssue
  /\ goods' = [goods EXCEPT
       !.stock[h] = [i \in Item |-> @[i] +
                       Cardinality({p \in DOMAIN field[h] : field[h][p].item = i})],
       !.held = HeldAfterReturn(h)]
  /\ field' = [field EXCEPT ![h] = NoIssue]
  /\ UNCHANGED <<title, member, purse, outside>>

\* reclaim_operation_equipment: what is still held above the baseline comes back.
FieldReturn(h) ==
  /\ field[h] # NoIssue
  /\ goods' = [goods EXCEPT !.stock[h] = [i \in Item |-> @[i] + Cardinality(Returning(h, i))],
                            !.held = HeldAfterReturn(h)]
  /\ field' = [field EXCEPT ![h] = NoIssue]
  /\ UNCHANGED <<title, member, purse, outside>>

\* materialize_faction_field_equipment: an encounter without an operation arms the
\* people there and leaves a claim of the house on the weapon at once.
FieldContact(h, party) ==
  \E f \in Issues(h, party) :
    /\ f # NoIssue
    /\ goods' = IssuedGoods(h, f)
    /\ title' = [title EXCEPT !.claims =
         [k \in {<<p, f[p]>> : p \in DOMAIN f} |->
            [owner |-> h, qty |-> Least(goods.held[k[1]][k[2]] + 1,
                                        ClaimQty(title, k[1], k[2]) + 1)]] @@ @]
    /\ UNCHANGED <<member, purse, field, outside>>

\* A weapon thrown or broken in an exact combat is gone.
SpendItem(p, i) ==
  /\ goods.held[p][i] > 0
  /\ goods' = [goods EXCEPT !.held[p][i] = @ - 1]
  /\ outside' = [outside EXCEPT ![i] = @ + 1]
  /\ UNCHANGED <<title, member, purse, field>>

\* A member leaves the house: the standing issue becomes a claim.
LeaveHouse(p) ==
  LET h == member[p]
  IN  /\ h # Nobody
      /\ p \notin UNION {DOMAIN field[g] : g \in House}
      /\ MayDetach(title, goods, h, p)
      /\ title' = DetachPolicy(title, goods, h, p)
      /\ member' = [member EXCEPT ![p] = Nobody]
      /\ UNCHANGED <<goods, purse, field, outside>>

\* The houses with a weapon in store.
Armories == {h \in House : \E w \in Weapon : goods.stock[h][w] > 0}

BelongingsNext ==
  \/ \E p \in Players, q \in Person :
       \/ PayCash(p, q) \/ PayCash(q, p)
       \/ \E i \in Item :
            \/ GiveItem(p, q, i) \/ ReturnItem(p, q, i)
            \/ ArmoryIssue(p, q, i) \/ ArmoryReturn(p, q, i)
            \/ \E seen \in BOOLEAN : SeizeItem(p, q, i, seen)
  \/ \E h \in Armories : \E party \in SUBSET {p \in Person : member[p] = h} :
       FieldIssue(h, party) \/ FieldContact(h, party)
  \/ \E h \in House : FieldReturn(h) \/ \E p \in Person : FieldSeparate(h, p)
  \/ \E p \in Person, i \in Weapon : SpendItem(p, i)
  \/ \E p \in Restless : LeaveHouse(p)

(*-------------------------------- properties -----------------------------*)
HeldClaims == {k \in DOMAIN title.claims : title.claims[k].qty <= goods.held[k[1]][k[2]]}

(* Nobody is claimed to hold more of a thing than he holds.  The code promises  *)
(* it (transfer_faction_property_authority refuses a larger claim) and does not *)
(* keep it: a return to the armory leaves the claim of a third party behind.    *)
ClaimsArePhysical == DOMAIN title.claims = HeldClaims

(* A demand for the return of a thing rests on a claim of the owner on what the *)
(* holder has; not kept when the owner takes it back, or another takes it.      *)
DemandsRestOnClaims ==
  \A d \in DOMAIN title.demands : ClaimOwner(title, d[2], d[3]) = d[1]
================================================================================
