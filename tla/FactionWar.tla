------------------------------ MODULE FactionWar ------------------------------
(***************************************************************************)
(* Raids, war strikes, challenges and scouting between factions, the aid    *)
(* allies send, captives, their ransom and rescue, and the way home.        *)
(*                                                                          *)
(* An operation (deployment) owns its people and its purpose, a movement    *)
(* owns them on the road, a custody record owns a prisoner, and one-off     *)
(* events say what happens next.  Durations are left out: any waiting event *)
(* may be the next one, except that a judgment must be committed and        *)
(* settled in its own instant.  Only another arrival of that instant can    *)
(* still come in before the commit.  A settlement that raises is refused as *)
(* a whole and will raise again: the clock is stuck.                        *)
(*                                                                          *)
(* One kind of weapon stands for an armoury; raiders carry weapons off like *)
(* goods, and a fight may use up any weapon in it.                          *)
(*                                                                          *)
(* Left out: the player's own house (it only receives notices), relations,  *)
(* reputation and social duties, offices, training clocks, provisions (a    *)
(* party without food waits another day), conquest while a party marches    *)
(* (it turns back), and movements seized again on the road.                 *)
(***************************************************************************)
EXTENDS Integers, Sequences, FiniteSets, FiniteSetsExt, SequencesExt, Functions

CONSTANTS
    Factions, Members, Place,   \* members and settlement of each faction
    Household,      \* faction of each person's family household
    Allied,         \* pairs bound by an alliance or mutual defence
    Plans,          \* operations a review may author: <<kind, by, against, intent>>
    Frontage,       \* bodies of one side that reach a contact
    Carry,          \* cash or goods one raider carries away
    Toll, Ransom,
    Cash, Goods, Stock,         \* treasury, stores and weapons of a faction at the start
    MaxLaunches,    \* bound: operations that reviews author
    MaxMishaps,     \* bound: wounds, deaths and recoveries outside these battles
    Nobody

People == UNION {Members[f] : f \in Factions}

ASSUME WarAssumption ==
    /\ IsFiniteSet(Factions) /\ \A f \in Factions : IsFiniteSet(Members[f])
    /\ \A f, g \in Factions : f # g => Members[f] \cap Members[g] = {}
    /\ Nobody \notin Factions \cup People
    /\ \A p \in People : Household[p] \in Factions \cup {Nobody}
    /\ {Frontage, Carry, Toll, Ransom, Cash, Goods, Stock, MaxLaunches, MaxMishaps}
        \subseteq Nat
    /\ \A q \in Plans : /\ q[1] \in {"raid", "war", "challenge", "recon"}
                        /\ q[2] # q[3] /\ {q[2], q[3]} \subseteq Factions

Owner(p) == CHOOSE f \in Factions : p \in Members[f]
Near(f, g) == Place[f] = Place[g]

VARIABLES
    ops,        \* deployments by ref: <<kind, faction, target, captive or attack>>
    roads,      \* movements by <<operation, direction>>
    due,        \* one-off events
    pending, committed,     \* judgments to commit, and committed ones to settle
    custody,    \* active custody records
    body, at,   \* health of each person, compound of the stored location
    wealth, market,         \* cash, goods and weapons in treasury, store and armoury
    holds,          \* the armoury a weapon in hand came from
    lost,           \* weapons used up, and the prize of a party nobody is left of
    launched, mishaps, stuck

vars == <<ops, roads, due, pending, committed, custody, body, at, wealth, market,
          holds, lost, launched, mishaps, stuck>>
economy == <<wealth, market>>
armoury == <<holds, lost>>
bounds  == <<launched, mishaps>>

Kinds      == {"cash", "goods", "arms"}
NoLoot     == [k \in Kinds |-> 0]
Plus(a, b) == [k \in Kinds |-> a[k] + b[k]]
Minus(a, b) == [k \in Kinds |-> a[k] - b[k]]
Only(k, n) == [NoLoot EXCEPT ![k] = n]

Fit(S)    == {p \in S : body[p] = "fit"}
Living(S) == {p \in S : body[p] # "dead"}

Except(f, S) == Restrict(f, DOMAIN f \ S)
Joined(f, g) == [x \in DOMAIN f \cup DOMAIN g |-> IF x \in DOMAIN f THEN f[x] ELSE g[x]]
With(f, k, v) == [x \in DOMAIN f \cup {k} |-> IF x = k THEN v ELSE f[x]]

-----------------------------------------------------------------------------
(* Operations.                                                              *)

Op(kind, f, tgt, party) ==
    [kind |-> kind, f |-> f, tgt |-> tgt, src |-> f, dst |-> tgt, status |-> "mobilizing",
     party |-> party, intent |-> "", aim |-> <<>>, captives |-> {}, escorts |-> {},
     loot |-> NoLoot, decision |-> FALSE, follow |-> Nobody, issued |-> {}]

\* A released person goes from the compound d to the settlement of h.
HomeRef(p) == <<"home", Owner(p), p>>
HomeOp(p, h, d) ==
    [Op("home", Owner(p), d, {p}) EXCEPT !.src = h, !.status = "return_preparing"]

Local(op)    == Near(op.src, op.dst)
Depart(o, d) == <<"depart", o, d>>
Armed        == {"raid", "war", "rescue", "recon", "aid"}

\* Deployments, movements and custody: the derived occupancy of people.
OnOps  == UNION {ops[o].party : o \in DOMAIN ops}
Held   == {c.who : c \in custody}
Busy   == OnOps \cup Held \cup UNION {roads[m].party : m \in DOMAIN roads}

\* Mutation: those who serve elsewhere still count.
ReadyAll(f) == {p \in Fit(Members[f]) : Near(at[p], f)}

\* Members who are fit, free and in their own settlement.
Ready(f) == {p \in Fit(Members[f]) \ Busy : Near(at[p], f)}

Quiet == stuck = "no" /\ pending = {} /\ committed = {}

\* A monthly review authors a challenge, raid, strike or scouting party.
\* Someone stays at home; a challenger pays the tolls of both ways.
Launch(q) ==
    LET kind == q[1]
        f    == q[2]
        ref  == <<kind, f, q[3]>>
        n    == Cardinality(Ready(f))
        max  == IF kind = "challenge" THEN 1 ELSE n - 1
        toll == IF kind = "challenge" /\ ~Near(f, q[3]) THEN 2 * Toll ELSE 0
    IN  /\ Quiet /\ launched < MaxLaunches /\ ref \notin DOMAIN ops
        /\ toll <= wealth[f].cash
        /\ \E party \in (SUBSET Ready(f)) \ {{}} :
            /\ Cardinality(party) <= max
            /\ ops' = With(ops, ref, [Op(kind, f, q[3], party) EXCEPT !.intent = q[4]])
        /\ due' = due \cup {Depart(ref, "out")}
        /\ wealth' = [wealth EXCEPT ![f].cash = @ - toll]
        /\ market' = Plus(market, Only("cash", toll))
        /\ launched' = launched + 1
        /\ UNCHANGED <<roads, pending, committed, custody, body, at, armoury, mishaps, stuck>>

-----------------------------------------------------------------------------
(* Departures.                                                              *)

\* Armoury weapons for those who have none, as far as they go, once.
Issued(o, op, taken) ==
    /\ taken \subseteq {p \in op.party : holds[p] = Nobody}
    /\ Cardinality(taken) =
        IF op.kind \notin Armed \/ op.issued # {} THEN 0
        ELSE Min({wealth[op.f].arms, Cardinality({p \in op.party : holds[p] = Nobody})})

\* An ally keeps at least half of more than two ready fighters at home.
AidSize(n) == LET share == (n * 360 + 999) \div 1000
              IN  IF n > 2 THEN Min({share, n - n \div 2}) ELSE share

Callable(o, op) ==
    {a \in Factions \ {op.f, op.tgt} :
        {a, op.tgt} \in Allied /\ Ready(a) # {} /\ <<"aid", a, o>> \notin DOMAIN ops}

\* The defender may notice the departure and call his allies.
Called(o, op, answer) ==
    /\ DOMAIN answer \subseteq IF op.kind \in {"raid", "war"} THEN Callable(o, op) ELSE {}
    /\ \A a \in DOMAIN answer : /\ answer[a] \subseteq Ready(a)
                                /\ Cardinality(answer[a]) = AidSize(Cardinality(Ready(a)))

Aids(o, op, answer) ==
    [r \in {<<"aid", a, o>> : a \in DOMAIN answer} |->
        [Op("aid", r[2], op.tgt, answer[r[2]]) EXCEPT !.aim = o]]

Answers(o, op) ==
    LET some == SUBSET (IF op.kind \in {"raid", "war"} THEN Callable(o, op) ELSE {})
    IN  UNION {[S -> SUBSET People] : S \in some}

Expected(d) == IF d = "out" THEN {"mobilizing", "traveling_outbound"}
               ELSE {"return_preparing", "traveling_return", "holding_defense"}

\* Whatever an earlier operation of that name left due is past by then: a party
\* prepares for longer than an event waits within a settlement, and within a
\* settlement there is no road.
Departs(o, d) ==
    /\ Quiet /\ Depart(o, d) \in due /\ o \in DOMAIN ops
    /\ ops[o].status \in Expected(d) /\ ops[o].party # {}
    /\ <<o, d>> \notin DOMAIN roads
    /\ <<"arrive", o>> \notin due /\ <<"return", o>> \notin due
    /\ ops[o].kind = "home" => Fit(ops[o].party) = ops[o].party

DepartDropped(o, d) ==
    /\ Quiet /\ Depart(o, d) \in due
    /\ ~(/\ o \in DOMAIN ops
         /\ ops[o].status \in Expected(d) /\ ops[o].party # {}
         /\ <<o, d>> \notin DOMAIN roads)
    /\ due' = due \ {Depart(o, d)}
    /\ UNCHANGED <<ops, roads, pending, committed, custody, body, at, economy, armoury, bounds, stuck>>

\* The captives of a party that sets off are where the party is.
Carried(who, where) ==
    {IF c.who \in who THEN [c EXCEPT !.at = where] ELSE c : c \in custody}

\* Within a settlement the deployment itself is the owner of the short way.
DepartLocal(o, d) ==
    /\ Departs(o, d) /\ Local(ops[o])
    /\ \E taken \in SUBSET ops[o].party, answer \in Answers(o, ops[o]) :
        LET op  == ops[o]
            now == [op EXCEPT !.status = IF d = "out" THEN "traveling_outbound" ELSE "traveling_return",
                              !.issued = @ \cup taken]
        IN  /\ IF d = "out" THEN Issued(o, op, taken) /\ Called(o, op, answer)
               ELSE taken = {} /\ answer = <<>>
            /\ ops' = Joined(With(ops, o, now), Aids(o, op, answer))
            /\ due' = (due \ {Depart(o, d)})
                        \cup {IF d = "out" THEN <<"arrive", o>> ELSE <<"return", o>>}
                        \cup {Depart(<<"aid", a, o>>, "out") : a \in DOMAIN answer}
            /\ wealth' = [wealth EXCEPT ![op.f].arms = @ - Cardinality(taken)]
            /\ holds' = [p \in People |-> IF p \in taken THEN op.f ELSE holds[p]]
            /\ custody' = IF d = "out" THEN custody ELSE Carried(op.captives, <<"op", o>>)
    /\ UNCHANGED <<roads, pending, committed, body, at, market, lost, bounds, stuck>>

\* On the road the movement owns seized value and prisoners, not the operation.
Payload(op, d) == d = "back" /\ op.kind = "raid" /\ (op.loot # NoLoot \/ op.captives # {})

Movement(op, d) ==
    LET raid == Payload(op, d)
        saved == IF op.kind = "rescue" /\ d = "back" THEN {op.aim[1]} \cap op.party ELSE {}
    IN  [kind |-> IF raid THEN "raid_return" ELSE "travel", party |-> op.party,
         carried |-> IF raid THEN op.captives ELSE saved,
         captives |-> IF raid THEN op.captives ELSE {},
         loot |-> IF raid THEN op.loot ELSE NoLoot, lost |-> FALSE]

Handed(op, d) == IF Payload(op, d) THEN [op EXCEPT !.loot = NoLoot, !.captives = {}, !.escorts = {}]
                 ELSE op

DepartRoad(o, d) ==
    /\ Departs(o, d) /\ ~Local(ops[o])
    /\ \E taken \in SUBSET ops[o].party, answer \in Answers(o, ops[o]) :
        LET op  == ops[o]
            now == [Handed(op, d) EXCEPT
                        !.status = IF d = "out" THEN "traveling_outbound" ELSE "traveling_return",
                        !.issued = @ \cup taken]
        IN  /\ IF d = "out" THEN Issued(o, op, taken) /\ Called(o, op, answer)
               ELSE taken = {} /\ answer = <<>>
            /\ ops' = Joined(With(ops, o, now), Aids(o, op, answer))
            /\ roads' = With(roads, <<o, d>>, Movement(op, d))
            /\ due' = (due \ {Depart(o, d)}) \cup {Depart(<<"aid", a, o>>, "out") : a \in DOMAIN answer}
            /\ wealth' = [wealth EXCEPT ![op.f].arms = @ - Cardinality(taken)]
            /\ holds' = [p \in People |-> IF p \in taken THEN op.f ELSE holds[p]]
            /\ custody' = IF d = "out" THEN custody ELSE Carried(op.captives, <<"road", o>>)
    /\ UNCHANGED <<pending, committed, body, at, market, lost, bounds, stuck>>

-----------------------------------------------------------------------------
(* Deaths: every authority that names the dead closes in the same step.     *)

Extinct(dead) == {f \in Factions : Members[f] \subseteq dead}

\* A weapon in a dead hand stays with the body: the operation forgets it.
PrunedOp(op, dead) == [op EXCEPT !.party = @ \ dead, !.issued = @ \ dead]
PrunedOps(old, dead) ==
    LET kept == {o \in DOMAIN old : old[o].party \ dead # {}}
    IN  [o \in kept |-> PrunedOp(old[o], dead)]

\* A party without anyone who can lead it is lost.
PrunedRoads(old, dead) ==
    [m \in DOMAIN old |->
        IF old[m].party \cap dead = {} THEN old[m]
        ELSE [old[m] EXCEPT !.party = @ \ dead, !.carried = @ \ dead, !.captives = @ \ dead,
                            !.lost = (old[m].party \ dead) \subseteq old[m].carried]]

\* In war an institution keeps its prisoners without the guard it lost.
AfterBattle(records, dead) ==
    {IF c.guard \in dead THEN [c EXCEPT !.guard = Nobody] ELSE c :
        c \in {r \in records : r.who \notin dead /\ r.holder \notin Extinct(dead)}}

\* Elsewhere another raider of the same party or a guard at home takes over.
Relief(c, gone) ==
    LET road == {m \in DOMAIN roads : c.who \in roads[m].captives}
        with == UNION {roads[m].party \ roads[m].carried : m \in road}
    IN  IF (with \cap Members[c.holder]) \ gone # {} THEN (with \cap Members[c.holder]) \ gone
        ELSE IF c.at[1] = "site" /\ Near(c.at[2], c.holder) THEN Ready(c.holder) \ gone
        ELSE {}

AfterDeath(records, p, gone) ==
    LET kept == {c \in records : c.who # p /\ c.holder \notin Extinct(gone)}
    IN  {[c EXCEPT !.guard = IF @ = p THEN CHOOSE g \in Relief(c, gone) : TRUE ELSE @] :
            c \in {r \in kept : r.guard = p => Relief(r, gone) # {}}}

Dead == {p \in People : body[p] = "dead"}

LootOf(S, k)  == FoldSet(LAMBDA o, acc : acc + ops[o].loot[k], 0, S)
Dropped(dead) == LET gone == {o \in DOMAIN ops : ops[o].party \subseteq dead}
                 IN  [k \in Kinds |-> LootOf(gone, k)]

\* A death or a wound outside these battles, a recovery.  The prize of a party that
\* has not set off goes with the operation when nobody of it is left.
Die(p) ==
    /\ Quiet /\ mishaps < MaxMishaps /\ body[p] # "dead"
    /\ lost' = Plus(lost, Dropped({p}))
    /\ body' = [body EXCEPT ![p] = "dead"]
    /\ ops' = PrunedOps(ops, {p})
    /\ roads' = PrunedRoads(roads, {p})
    /\ custody' = AfterDeath(custody, p, Dead \cup {p})
    /\ mishaps' = mishaps + 1
    /\ UNCHANGED <<due, pending, committed, at, economy, holds, launched, stuck>>

Hurt(p) ==
    /\ Quiet /\ mishaps < MaxMishaps /\ body[p] = "fit"
    /\ body' = [body EXCEPT ![p] = "hurt"]
    /\ mishaps' = mishaps + 1
    /\ UNCHANGED <<ops, roads, due, pending, committed, custody, at, economy, armoury, launched, stuck>>

Recover(p) ==
    /\ Quiet /\ mishaps < MaxMishaps /\ body[p] = "hurt"
    /\ body' = [body EXCEPT ![p] = "fit"]
    /\ mishaps' = mishaps + 1
    /\ UNCHANGED <<ops, roads, due, pending, committed, custody, at, economy, armoury, launched, stuck>>

-----------------------------------------------------------------------------
(* Arrivals.                                                                *)

TurnBack(op, party) == [op EXCEPT !.status = "return_preparing", !.party = party]

Awaits(o) == o \in DOMAIN ops /\ ops[o].status \in {"traveling_outbound", "arrived_pending"}

\* Arrivals of one instant share it with the judgments of the earlier ones.
Arrives(o) ==
    /\ stuck = "no" /\ committed = {} /\ <<"arrive", o>> \in due
    /\ \A j \in pending : j[1] = "aftermath"

ArriveDropped(o) ==
    /\ Arrives(o) /\ ~Awaits(o)
    /\ due' = due \ {<<"arrive", o>>}
    /\ UNCHANGED <<ops, roads, pending, committed, custody, body, at, economy, armoury, bounds, stuck>>

ArriveToDefend(o) ==
    /\ Arrives(o) /\ Awaits(o) /\ ops[o].kind = "aid"
    /\ ops' = [ops EXCEPT ![o].status = "holding_defense"]
    /\ at' = [p \in People |-> IF p \in ops[o].party THEN ops[o].dst ELSE at[p]]
    /\ due' = (due \ {<<"arrive", o>>}) \cup {Depart(o, "back")}
    /\ UNCHANGED <<roads, pending, committed, custody, body, economy, armoury, bounds, stuck>>

\* A treaty or a new master of the place turns the party back; scouts who are
\* not seen go home with their report.
ArriveInPeace(o) ==
    /\ Arrives(o) /\ Awaits(o) /\ ops[o].kind # "aid"
    /\ ops' = [ops EXCEPT ![o] = TurnBack(@, Living(@.party))]
    /\ due' = (due \ {<<"arrive", o>>}) \cup {Depart(o, "back")}
    /\ UNCHANGED <<roads, pending, committed, custody, body, at, economy, armoury, bounds, stuck>>

\* Allied detachments that hold the place, and their fighters on the spot.
Supports(op) ==
    {s \in DOMAIN ops : /\ ops[s].kind = "aid" /\ ops[s].status = "holding_defense"
                        /\ ops[s].tgt = op.tgt /\ Near(ops[s].dst, op.dst)
                        /\ ops[s].f # op.f}
Standing(s) == {p \in Fit(ops[s].party) \ Held : Near(at[p], ops[s].dst)}

Defenders(op) == (IF Near(op.dst, op.tgt) THEN Ready(op.tgt) ELSE {})
                    \cup UNION {Standing(s) : s \in Supports(op)}

Wave(S, n) == {w \in SUBSET S : Cardinality(w) = Min({n, Cardinality(S)})}

\* Who wins a fight of the fit attackers a with the fit defenders d in which
\* harmed fall: one contact of two waves, or contact after contact to the end.
Decides(kind, a, d, harmed, winner) ==
    LET front == IF kind = "challenge" THEN 1 ELSE Frontage
        one   == kind \in {"challenge", "raid", "recon"}
    IN  CASE a = {} \/ d = {} -> /\ harmed = {}
                                 /\ winner = IF a # {} \/ d = {} THEN "attack" ELSE "defence"
          [] one   -> \E wa \in Wave(a, front), wd \in Wave(d, front) :
                        /\ harmed \subseteq wa \cup wd
                        /\ winner = IF wd \subseteq harmed /\ ~(wa \subseteq harmed) THEN "attack"
                                    ELSE IF wa \subseteq harmed /\ ~(wd \subseteq harmed)
                                    THEN "defence" ELSE "none"
          [] OTHER -> /\ harmed \subseteq a \cup d
                      /\ (winner = "attack") = (d \subseteq harmed /\ ~(a \subseteq harmed))
                      /\ winner = "defence" => /\ ~(d \subseteq harmed)
                                               /\ \E wa \in Wave(a, front) : wa \subseteq harmed

\* What a victorious party may take: cash, or goods or weapons, up to what it can
\* carry, or one fallen defender, whoever he fights for.
Amounts(k, max) ==
    IF max = 0 THEN {}
    ELSE {max, Max({1, max \div 2}), IF k = "cash" THEN Max({1, max \div 4}) ELSE 1}

Carriers(party, f) == Fit(party \cap Members[f])

Options(op, carriers, fallen, wealthOf, records) ==
    LET max(k) == Min({wealthOf[k], Carry * Cardinality(carriers)})
    IN  {<<"withdraw">>} \cup
        CASE carriers = {} -> {}
          [] op.intent = "robbery" -> {<<"seize", "cash", n>> : n \in Amounts("cash", max("cash"))}
          [] op.intent = "cargo" ->
                UNION {{<<"seize", k, n>> : n \in Amounts(k, max(k))} : k \in {"goods", "arms"}}
          [] op.intent = "kidnapping" ->
                {<<"capture", p, g>> : p \in fallen \ {c.who : c \in records}, g \in carriers}
          [] OTHER -> {}

\* The way back of the allies who stood in the fight and live.
Released(o, stood, dead) ==
    LET s == stood \ dead IN IF s = {} THEN {} ELSE {o}

\* The rest of the party goes home; the copy made before the battle is what is
\* written, with the weapons it had issued then.
Survived(op, party, judged, other) ==
    [TurnBack(op, party) EXCEPT !.decision = judged,
                                !.follow = IF other = {} THEN @ ELSE CHOOSE p \in other : TRUE]

Rescued(op, winner, defenders, records) ==
    {c \in records : /\ op.kind = "rescue" /\ op.aim = c.id /\ c.holder = op.tgt
                     /\ c.at[1] = "site" /\ Near(c.at[2], op.dst)
                     /\ c.who \notin OnOps
                     /\ defenders = {} \/ winner = "attack"}

\* What the fight leaves of the operations, the prisoners and the plans.
Fought(o, harmed, dead, winner) ==
    LET op      == ops[o]
        party   == Living(op.party)
        d       == Defenders(op)
        records == IF dead = {} THEN custody ELSE AfterBattle(custody, Dead \cup dead)
        rescued == IF party = {} THEN {} ELSE Rescued(op, winner, d, records)
        saved   == {c.who : c \in rescued}
        back    == UNION {Released(s, Standing(s), dead) : s \in Supports(op)}
        stood   == {s \in Supports(op) : Standing(s) # {}}
        other   == {x \in saved : Owner(x) # op.f}
        choices == Options(op, Fit(party) \ harmed, d \cap (harmed \ dead),
                           wealth[op.tgt], records)
        judged  == op.kind = "raid" /\ winner = "attack" /\ choices # {<<"withdraw">>}
        pruned  == PrunedOps(ops, dead)
        home    == Survived(op, (party \ dead) \cup saved, judged, other)
        rest    == [s \in DOMAIN pruned \ ((stood \ back) \cup {o}) |->
                        IF s \in back THEN TurnBack(pruned[s], Standing(s) \ dead)
                        ELSE pruned[s]]
    IN  /\ custody' = records \ rescued
        /\ roads' = PrunedRoads(roads, dead)
        /\ ops' = IF party \ dead = {} THEN rest ELSE With(rest, o, home)
        /\ due' = (due \ {<<"arrive", o>>}) \cup {Depart(s, "back") : s \in back}
                    \cup (IF party \ dead = {} THEN {} ELSE {Depart(o, "back")})
        /\ pending' = IF judged THEN pending \cup {<<"aftermath", o, d, choices>>} ELSE pending

\* Arrows and thrown weapons are used up in it.
Battle(o) ==
    /\ Arrives(o) /\ Awaits(o) /\ ops[o].kind # "aid"
    /\ LET party == Living(ops[o].party)
           d     == Defenders(ops[o])
           met   == Fit(party) # {} /\ d # {}
       IN  \E harmed \in SUBSET (Fit(party) \cup d) : \E dead \in SUBSET harmed :
           \E winner \in {"attack", "defence", "none"} :
            /\ Decides(ops[o].kind, Fit(party), d, harmed, winner)
            /\ body' = [p \in People |-> IF p \in dead THEN "dead"
                                         ELSE IF p \in harmed THEN "hurt" ELSE body[p]]
            /\ at' = [p \in People |-> IF p \in party THEN ops[o].dst ELSE at[p]]
            /\ Fought(o, harmed, dead, winner)
            /\ \E used \in SUBSET {p \in Fit(party) \cup d : met /\ holds[p] # Nobody} :
                /\ holds' = [p \in People |-> IF p \in used THEN Nobody ELSE holds[p]]
                /\ lost' = Plus(lost, Only("arms", Cardinality(used)))
    /\ UNCHANGED <<committed, economy, bounds, stuck>>

-----------------------------------------------------------------------------
(* Judgments.                                                               *)

\* The game master picks one of the offered options; it cannot be changed.
Commit(j, choice) ==
    /\ stuck = "no" /\ j \in pending /\ choice \in j[4]
    /\ pending' = pending \ {j}
    /\ committed' = committed \cup {<<j[1], j[2], j[3], choice>>}
    /\ UNCHANGED <<ops, roads, due, custody, body, at, economy, armoury, bounds, stuck>>

Capture(p, g, o) ==
    [who |-> p, id |-> <<p, o>>, holder |-> ops[o].f, guard |-> g, at |-> <<"site", ops[o].dst>>,
     demand |-> 0, to |-> Nobody, informed |-> {}]

\* Of the defenders only the target's own people are looked up again.
FallenOf(op, d) == {p \in d \cap Members[op.tgt] : body[p] = "hurt"}

\* One committed choice, applied to what the earlier ones of the batch left.
Seize(st, j) ==
    LET o  == j[2]
        op == st.ops[o]
        carriers == Carriers(op.party, op.f)
        done == [op EXCEPT !.decision = FALSE, !.escorts = carriers]
        pick == j[4]
    IN  IF ~st.ok \/ o \notin DOMAIN st.ops \/ carriers = {} THEN st
        ELSE IF pick \notin Options(op, carriers, FallenOf(op, j[3]), st.wealth[op.tgt], st.custody)
        THEN [st EXCEPT !.ok = FALSE]
        ELSE CASE pick[1] = "withdraw" -> [st EXCEPT !.ops[o] = done]
               [] pick[1] = "seize" ->
                    [st EXCEPT !.ops[o] = [done EXCEPT !.loot = Plus(@, Only(pick[2], pick[3]))],
                               !.wealth[op.tgt] = Minus(@, Only(pick[2], pick[3]))]
               [] OTHER ->
                    [st EXCEPT !.ops[o] = [done EXCEPT !.party = @ \cup {pick[2]},
                                                       !.captives = @ \cup {pick[2]}],
                               !.custody = @ \cup {Capture(pick[2], pick[3], o)}]

\* What a batch comes to, one choice after another.
Batch(order) ==
    LET after[i \in 0 .. Len(order)] ==
            IF i = 0 THEN [ops |-> ops, wealth |-> wealth, custody |-> custody, ok |-> TRUE]
            ELSE Seize(after[i - 1], order[i])
    IN  after[Len(order)]

\* All aftermaths of an instant are settled together or not at all.
SettleAftermaths ==
    /\ stuck = "no" /\ pending = {}
    /\ \E j \in committed : j[1] = "aftermath"
    /\ \E order \in SetToSeqs(committed) :
        LET st == Batch(order)
        IN  IF st.ok
            THEN /\ ops' = st.ops /\ wealth' = st.wealth /\ custody' = st.custody
                 /\ committed' = {} /\ stuck' = stuck
            ELSE /\ stuck' = "aftermath"
                 /\ UNCHANGED <<ops, wealth, custody, committed>>
    /\ UNCHANGED <<roads, due, pending, body, at, market, armoury, bounds>>

-----------------------------------------------------------------------------
(* The way home.                                                            *)

\* What a party was issued and still holds goes back to its own armoury, the
\* weapons of its dead included when the operation still names them.
Reclaimed(op) == {p \in op.issued : holds[p] = op.f}

Credit(op, loot) ==
    wealth' = [wealth EXCEPT ![op.f] = Plus(Plus(@, loot), Only("arms", Cardinality(Reclaimed(op))))]

\* Mutation: the armoury is credited and the holder keeps the weapon.
ReclaimCopied(op, loot) == Credit(op, loot) /\ UNCHANGED holds

Reclaim(op, loot) ==
    /\ Credit(op, loot)
    /\ holds' = [p \in People |-> IF p \in Reclaimed(op) THEN Nobody ELSE holds[p]]

\* A person of another faction who was freed sets off for home from f's place.
Onward(op, left) ==
    LET p == op.follow
    IN  IF p = Nobody \/ HomeRef(p) \in DOMAIN left THEN left
        ELSE With(left, HomeRef(p), HomeOp(p, Owner(p), op.f))

OnwardDue(op, left) ==
    IF op.follow = Nobody \/ HomeRef(op.follow) \in DOMAIN left THEN {}
    ELSE {Depart(HomeRef(op.follow), "back")}

Moved(who, f) == [p \in People |-> IF p \in who THEN f ELSE at[p]]

\* Mutation: the record still names the road he came by.
AtHomeStale(who, f) == {IF c.who \in who THEN [c EXCEPT !.holder = f] ELSE c : c \in custody}

AtHome(who, f) ==
    {IF c.who \in who THEN [c EXCEPT !.at = <<"site", f>>, !.holder = f] ELSE c : c \in custody}

\* A return within the settlement.  No captor review follows it.
LocalReturn(o) ==
    /\ Quiet /\ <<"return", o>> \in due
    /\ IF o \in DOMAIN ops /\ ops[o].status \in {"traveling_return", "arrived_pending"}
       THEN LET op   == ops[o]
                left == Except(ops, {o})
            IN  /\ ops' = Onward(op, left)
                /\ due' = (due \ {<<"return", o>>}) \cup OnwardDue(op, left)
                /\ at' = Moved(op.party, op.f)
                /\ custody' = AtHome(op.captives, op.f)
                /\ Reclaim(op, op.loot)
       ELSE /\ due' = due \ {<<"return", o>>}
            /\ UNCHANGED <<ops, at, wealth, custody, holds>>
    /\ UNCHANGED <<roads, pending, committed, body, market, lost, bounds, stuck>>

OnRoad(o, d, kind) == Quiet /\ <<o, d>> \in DOMAIN roads /\ roads[<<o, d>>].kind = kind
Dismiss(o, d) == roads' = Except(roads, {<<o, d>>})

\* The journey of an operation that has ended ends with it.
RoadEnds(o, d) ==
    /\ OnRoad(o, d, "travel") /\ o \notin DOMAIN ops
    /\ Dismiss(o, d)
    /\ UNCHANGED <<ops, due, pending, committed, custody, body, at, economy, armoury, bounds, stuck>>

RoadArriveOut(o) ==
    /\ OnRoad(o, "out", "travel") /\ o \in DOMAIN ops /\ ~roads[<<o, "out">>].lost
    /\ Dismiss(o, "out")
    /\ ops' = [ops EXCEPT ![o].status = "arrived_pending", ![o].party = roads[<<o, "out">>].party]
    /\ at' = Moved(roads[<<o, "out">>].party, ops[o].dst)
    /\ due' = due \cup {<<"arrive", o>>}
    /\ UNCHANGED <<pending, committed, custody, body, economy, armoury, bounds, stuck>>

RoadArriveHome(o) ==
    /\ OnRoad(o, "back", "travel") /\ o \in DOMAIN ops /\ ~roads[<<o, "back">>].lost
    /\ LET op   == ops[o]
           left == Except(ops, {o})
       IN  /\ ops' = Onward(op, left)
           /\ due' = due \cup OnwardDue(op, left)
           /\ at' = Moved(roads[<<o, "back">>].party, op.f)
           /\ Reclaim(op, NoLoot)
    /\ Dismiss(o, "back")
    /\ UNCHANGED <<pending, committed, custody, body, market, lost, bounds, stuck>>

\* Raiders bring their prize home; a captor review is due for each prisoner.
RaidReturns(o) ==
    /\ OnRoad(o, "back", "raid_return") /\ ~roads[<<o, "back">>].lost
    /\ LET m == roads[<<o, "back">>]
           f == o[2]
           brought == {c \in custody : c.who \in m.captives}
       IN  /\ at' = Moved(m.party, f)
           /\ custody' = AtHome(m.captives, f)
           /\ due' = due \cup {<<"captor", c.id>> : c \in {x \in brought : x.demand = 0}}
           /\ ops' = Except(ops, {o})
           /\ IF o \in DOMAIN ops THEN Reclaim(ops[o], m.loot)
              ELSE wealth' = [wealth EXCEPT ![f] = Plus(@, m.loot)] /\ UNCHANGED holds
    /\ Dismiss(o, "back")
    /\ UNCHANGED <<pending, committed, body, market, lost, bounds, stuck>>

\* Stopped by an enemy on the way out: the operation is over, its people are
\* where they were stored, at home, and keep what they were issued.
RoadStopped(o) ==
    /\ OnRoad(o, "out", "travel") /\ o \in DOMAIN ops
    /\ Dismiss(o, "out") /\ ops' = Except(ops, {o})
    /\ UNCHANGED <<due, pending, committed, custody, body, at, economy, armoury, bounds, stuck>>

\* A lost homeward party leaves a rescued survivor at the nearer end of the road.
ReturnLost(o) ==
    /\ OnRoad(o, "back", "travel") /\ o \in DOMAIN ops /\ roads[<<o, "back">>].lost
    /\ \E f \in {ops[o].src, ops[o].dst} :
        LET saved == roads[<<o, "back">>].carried
            away  == {p \in saved : ~Near(Owner(p), f) /\ HomeRef(p) \notin DOMAIN ops \ {o}}
        IN  /\ at' = [p \in People |-> IF p \notin saved THEN at[p]
                                       ELSE IF Near(Owner(p), f) THEN Owner(p) ELSE f]
            /\ ops' = Joined([r \in {HomeRef(p) : p \in away} |-> HomeOp(r[3], Owner(r[3]), f)],
                             Except(ops, {o}))
            /\ due' = due \cup {Depart(HomeRef(p), "back") : p \in away}
    /\ Dismiss(o, "back")
    /\ UNCHANGED <<pending, committed, custody, body, economy, armoury, bounds, stuck>>

\* The prize of lost raiders falls to the market there; their prisoners are
\* free where they are.
RaidLost(o) ==
    /\ OnRoad(o, "back", "raid_return") /\ roads[<<o, "back">>].lost
    /\ LET m == roads[<<o, "back">>]
       IN  /\ \E f \in {o[2], o[3]} : at' = Moved(m.carried, f)
           /\ market' = Plus(market, m.loot)
           /\ custody' = {c \in custody : c.who \notin m.captives}
           /\ ops' = Except(ops, {o})
    /\ Dismiss(o, "back")
    /\ UNCHANGED <<due, pending, committed, body, wealth, armoury, bounds, stuck>>

-----------------------------------------------------------------------------
(* Ransom and rescue.                                                       *)

Record(id) == {c \in custody : c.id = id}
Family(c)  == IF Household[c.who] = Nobody THEN Owner(c.who) ELSE Household[c.who]

\* Some time after the prisoner is in, the holder may name a price.
CaptorReview(id) ==
    /\ Quiet /\ <<"captor", id>> \in due
    /\ due' = due \ {<<"captor", id>>}
    /\ pending' = {<<"captor", id, <<c.holder, Family(c)>>, {<<"hold">>, <<"demand", Ransom>>}>> :
                    c \in {r \in Record(id) : Family(r) # r.holder /\ r.demand = 0}}
    /\ UNCHANGED <<ops, roads, committed, custody, body, at, economy, armoury, bounds, stuck>>

SettleCaptor(j) ==
    /\ stuck = "no" /\ pending = {} /\ j \in committed /\ j[1] = "captor"
    /\ committed' = committed \ {j}
    /\ IF j[4] = <<"hold">> \/ Record(j[2]) = {} THEN UNCHANGED <<custody, due>>
       ELSE /\ custody' = {IF c.id = j[2] THEN [c EXCEPT !.demand = j[4][2], !.to = j[3][2]] ELSE c :
                            c \in custody}
            /\ due' = due \cup {<<"response", j[2], j[3][2], j[3][1]>>}
    /\ UNCHANGED <<ops, roads, pending, body, at, economy, armoury, bounds, stuck>>

\* The message reaches its addressee, the family and the owning faction; each
\* of them has its own answer to give.
Responders(c, addressee) == {addressee, Family(c), Owner(c.who)} \ {c.holder}

ResponseDue(e) ==
    /\ Quiet /\ e \in due /\ e[1] = "response"
    /\ due' = due \ {e}
    /\ LET live == {c \in Record(e[2]) : c.holder = e[4]}
       IN  /\ custody' = (custody \ live)
                \cup {[c EXCEPT !.informed = @ \cup Responders(c, e[3])] : c \in live}
           /\ pending' = UNION {{<<"response", c.id, f,
                                   {<<"defer">>, <<"rescue">>}
                                      \cup (IF c.demand > 0 THEN {<<"pay">>} ELSE {})>> :
                                 f \in Responders(c, e[3])} : c \in live}
    /\ UNCHANGED <<ops, roads, committed, body, at, economy, armoury, bounds, stuck>>

Settles(j, pick) ==
    /\ stuck = "no" /\ pending = {} /\ j \in committed /\ j[1] = "response" /\ j[4] = pick
    /\ committed' = committed \ {j}

\* Nothing is done: a deferred, refused or outdated answer asks for no other.
Deferred(j) ==
    /\ \/ Settles(j, <<"defer">>)
       \/ Settles(j, <<"rescue">>)
       \/ /\ Settles(j, <<"pay">>)
          /\ \A c \in Record(j[2]) : \/ wealth[j[3]].cash < c.demand
                                    \/ HomeRef(c.who) \in DOMAIN ops \/ c.who \in OnOps
    /\ UNCHANGED <<ops, roads, due, pending, custody, body, at, economy, armoury, bounds, stuck>>

\* The informed dispatch a party to the place where the prisoner is held.
StartRescue(j) ==
    /\ Settles(j, <<"rescue">>)
    /\ \E c \in Record(j[2]) :
        LET f   == j[3]
            ref == <<"rescue", f, c.id>>
        IN  /\ f \in c.informed /\ f # c.holder
            /\ c.at[1] = "site" /\ Near(c.at[2], c.holder)
            /\ ref \notin DOMAIN ops
            /\ \E party \in (SUBSET Ready(f)) \ {{}} :
                ops' = With(ops, ref, [Op("rescue", f, c.holder, party) EXCEPT
                                        !.dst = c.at[2], !.aim = c.id])
            /\ due' = due \cup {Depart(ref, "out")}
    /\ UNCHANGED <<roads, pending, custody, body, at, economy, armoury, bounds, stuck>>

\* Payment waits until the prisoner can walk.
PayLater(j) ==
    /\ Settles(j, <<"pay">>)
    /\ \E c \in Record(j[2]) :
        /\ wealth[j[3]].cash >= c.demand /\ body[c.who] # "fit"
        /\ due' = due \cup {<<"response", c.id, j[3], c.holder>>}
    /\ UNCHANGED <<ops, roads, pending, custody, body, at, economy, armoury, bounds, stuck>>

Transfer(from, to, n) ==
    wealth' = [wealth EXCEPT ![from] = Minus(@, Only("cash", n)), ![to] = Plus(@, Only("cash", n))]

\* Money, custody and the way home change hands in one step.
PayRansom(j) ==
    /\ Settles(j, <<"pay">>)
    /\ \E c \in Record(j[2]) :
        LET p == c.who
        IN  /\ wealth[j[3]].cash >= c.demand /\ body[p] = "fit"
            /\ HomeRef(p) \notin DOMAIN ops /\ p \notin OnOps
            /\ Transfer(j[3], c.holder, c.demand)
            /\ custody' = custody \ {c}
            /\ ops' = With(ops, HomeRef(p), HomeOp(p, j[3], c.holder))
            /\ due' = due \cup {Depart(HomeRef(p), "back")}
    /\ UNCHANGED <<roads, pending, body, at, market, armoury, bounds, stuck>>

\* The player's rescue, or the prisoner's escape, when no member of the holder
\* who is on his feet is there.  Nothing but the record changes.
Watched(c) ==
    \E g \in Fit(Members[c.holder]) \ {c.who} :
        IF c.at[1] = "site" THEN g \notin OnOps /\ Near(at[g], c.at[2])
        ELSE \E o \in DOMAIN ops : c.at[2] = o /\ g \in ops[o].party

Freed(c) ==
    /\ Quiet /\ c \in custody /\ body[c.who] = "fit" /\ ~Watched(c)
    /\ custody' = custody \ {c}
    /\ UNCHANGED <<ops, roads, due, pending, committed, body, at, economy, armoury, bounds, stuck>>

\* The monthly review of an institution that knows of a prisoner reconsiders
\* the rescue with one argument too few: it raises.
ReviewRaises(f) ==
    /\ Quiet
    /\ \E c \in custody : f \in c.informed /\ f # c.holder
    /\ stuck' = "review"
    /\ UNCHANGED <<ops, roads, due, pending, committed, custody, body, at, economy, armoury, bounds>>

-----------------------------------------------------------------------------
Init ==
    /\ ops = <<>> /\ roads = <<>> /\ due = {} /\ pending = {} /\ committed = {} /\ custody = {}
    /\ body = [p \in People |-> "fit"]
    /\ at = [p \in People |-> Owner(p)]
    /\ wealth = [f \in Factions |-> [cash |-> Cash, goods |-> Goods, arms |-> Stock]]
    /\ market = NoLoot
    /\ holds = [p \in People |-> Nobody] /\ lost = NoLoot
    /\ launched = 0 /\ mishaps = 0 /\ stuck = "no"

Departures == \E e \in due : e[1] = "depart" /\ \/ DepartDropped(e[2], e[3])
                                                \/ DepartLocal(e[2], e[3])
                                                \/ DepartRoad(e[2], e[3])
Arrivals   == \E e \in due : e[1] = "arrive" /\ \/ ArriveDropped(e[2])
                                                \/ ArriveToDefend(e[2])
                                                \/ ArriveInPeace(e[2])
                                                \/ Battle(e[2])
Homeward   == \/ \E e \in due : e[1] = "return" /\ LocalReturn(e[2])
              \/ \E m \in DOMAIN roads : \/ RoadEnds(m[1], m[2])
                                         \/ RoadArriveOut(m[1])
                                         \/ RoadArriveHome(m[1])
                                         \/ RaidReturns(m[1])
                                         \/ RoadStopped(m[1])
                                         \/ ReturnLost(m[1])
                                         \/ RaidLost(m[1])
Captivity  == \/ \E e \in due : \/ e[1] = "captor" /\ CaptorReview(e[2])
                                \/ ResponseDue(e)
              \/ \E j \in committed : \/ SettleCaptor(j)
                                      \/ Deferred(j)
                                      \/ StartRescue(j)
                                      \/ PayLater(j)
                                      \/ PayRansom(j)
              \/ \E c \in custody : Freed(c)

Next ==
    \/ \E q \in Plans : Launch(q)
    \/ Departures \/ Arrivals \/ Homeward \/ Captivity
    \/ pending # {} /\ LET j == CHOOSE x \in pending : TRUE    \* their order is immaterial
                       IN  \E choice \in j[4] : Commit(j, choice)
    \/ SettleAftermaths
    \/ \E f \in Factions : ReviewRaises(f)
    \/ \E p \in People : Die(p) \/ Hurt(p) \/ Recover(p)

Spec == Init /\ [][Next]_vars

-----------------------------------------------------------------------------
(* Properties.                                                              *)

FactionWarTypeOK ==
    /\ \A o \in DOMAIN ops : ops[o].party \subseteq People /\ ops[o].f \in Factions
    /\ \A m \in DOMAIN roads : roads[m].party \subseteq People
    /\ \A c \in custody : /\ c.who \in People /\ c.holder \in Factions
                          /\ c.guard \in People \cup {Nobody} /\ c.at[1] \in {"site", "road", "op"}
                          /\ c.demand \in {0, Ransom} /\ c.informed \subseteq Factions
    /\ body \in [People -> {"fit", "hurt", "dead"}] /\ at \in [People -> Factions]
    /\ wealth \in [Factions -> [Kinds -> Nat]]

SumOf(table, k) == FoldSet(LAMBDA x, acc : acc + table[x][k], 0, DOMAIN table)
Carrying(k)     == FoldSet(LAMBDA m, acc : acc + roads[m].loot[k], 0, DOMAIN roads)
InHand(k)       == IF k = "arms" THEN Cardinality({p \in People : holds[p] # Nobody}) ELSE 0

\* What the factions began with is, to the last coin and the last weapon, in a treasury,
\* store or armoury, in one hand, with one party of raiders or one movement, on the market
\* or lost: equipment handed out is reclaimed at most once, a prize changes its owner once,
\* whatever deaths, retreats, used weapons and refused settlements come between.
ValueIsAccounted ==
    \A k \in Kinds :
        SumOf(wealth, k) + market[k] + lost[k] + InHand(k) + LootOf(DOMAIN ops, k) + Carrying(k)
            = Cardinality(Factions) * (CASE k = "cash" -> Cash [] k = "goods" -> Goods
                                         [] k = "arms" -> Stock)

\* Nobody serves two operations, and nobody is a prisoner twice.
OnePlacePerPerson ==
    /\ \A o, s \in DOMAIN ops : o # s => ops[o].party \cap ops[s].party = {}
    /\ \A c, d \in custody : c.who = d.who => c = d

\* A prisoner on the road is with the movement that carries him, and one with a
\* party is in it: the record never points at an owner that is gone.
PrisonerIsWhereRecorded ==
    \A c \in custody :
        /\ body[c.who] # "dead"
        /\ c.at[1] = "road" => <<c.at[2], "back">> \in DOMAIN roads
                               /\ c.who \in roads[<<c.at[2], "back">>].captives
        /\ c.at[1] = "op" => c.at[2] \in DOMAIN ops /\ c.who \in ops[c.at[2]].captives

\* Every operation has its next step scheduled or its party on the road: no
\* deployment keeps people busy for ever.
EveryOperationMoves ==
    \A o \in DOMAIN ops :
        \/ \E e \in due : e[1] \in {"depart", "arrive", "return"} /\ e[2] = o
        \/ \E d \in {"out", "back"} : <<o, d>> \in DOMAIN roads

\* The choices offered after a victory can be carried out (warfare.py:262-273,
\* "Return feasible post-victory choices without selecting one").
AftermathsSettle == stuck # "aftermath"

\* An institution that knows of a prisoner can reconsider at its review
\* (autonomy_frontier.py:1509).
ReviewsFinish == stuck # "review"

\* What a dead hand holds stays with the body (death_lifecycle.py:668).
CorpsesKeepTheirArms ==
    [][\A p \in People : body[p] = "dead" => holds'[p] = holds[p]]_vars

=============================================================================
