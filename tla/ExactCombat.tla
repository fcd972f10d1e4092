------------------------------ MODULE ExactCombat ------------------------------
(***************************************************************************)
(* One exact fight on its microclock.  An exchange declares intents, then  *)
(* resolves blows and shots in the order of their contacts up to the       *)
(* player's decision horizon; what is still under way is carried into the  *)
(* next exchange.  Bodies fail at whole seconds of the same clock, a       *)
(* defence may cancel an action that is being prepared, a withdrawal takes *)
(* one second, a medic treats between the blows, and the player may walk   *)
(* out between two exchanges.                                              *)
(*                                                                         *)
(* Times are ticks of a quarter of a second or coarser.  Geometry, skill,  *)
(* anatomy, qi and equipment decide which outcome a blow has; here every   *)
(* outcome the control flow distinguishes may happen.                      *)
(***************************************************************************)
EXTENDS Integers, FiniteSets

CONSTANTS
    SideA, SideB,   \* the player's side and the enemy
    Player, Medic,  \* both on SideA
    Late,           \* fighters who start as reinforcements
    ArrivalTime,    \* when they may take part
    Blows, Shots,   \* timings of melee and projectile actions, from readiness
    Archers,        \* who shoots with the hand that guards
    Throwers,       \* who throws a hidden weapon with the free hand
    Second,         \* ticks in a second, also what a withdrawal or a support step takes
    MinAccess,      \* continuous access a treatment needs
    MaxTime,        \* bound: no exchange is declared from here on
    Quiver,         \* projectiles of each fighter
    Supplies,       \* medical supplies of the medic
    MayDisengage    \* whether the player may walk out between exchanges

Fighters == SideA \cup SideB
Never == -1         \* 10**18 in the code, or an absent key
Earlier(time, limit) == time # Never /\ time < limit

Timings == [start : Nat, commit : Nat, release : Nat, contact : Nat, recovery : Nat]

ASSUME CombatAssumption ==
    /\ SideA \cap SideB = {} /\ {Player, Medic} \subseteq SideA /\ Player # Medic
    /\ Late \subseteq Fighters \ {Player} /\ Archers \cup Throwers \subseteq Fighters
    /\ {ArrivalTime, MinAccess, MaxTime, Quiver, Supplies} \subseteq Nat
    /\ Second \in Nat \ {0} /\ MayDisengage \in BOOLEAN
    /\ Blows \cup Shots \subseteq Timings
    /\ \A t \in Blows \cup Shots :
           /\ t.start <= t.commit /\ t.commit <= t.release
           /\ t.release <= t.contact /\ t.contact <= t.recovery /\ 0 < t.contact

VARIABLES
    status,       \* "active" or "resolved"
    elapsed,      \* elapsed_ms
    health,       \* "ready", "injured" or "fallen" (dead or incapacitated)
    presence,     \* "here", "reinforcing" or "escaped"
    fellAt,       \* incapacitated_at_ms
    escapedAt,    \* escaped_at_ms
    recovery,     \* recovery_until_ms
    freeHand,     \* offhand_recovery_until_ms
    quiver,
    scheduled,    \* scheduled_actions; during an exchange, those not yet resolved
    interrupted,  \* when a defence that cancels the fighter's action began
    exchange,     \* the exchange in progress
    task,         \* the medic's support_task
    supplies,
    broken,       \* history: actions under way that their actor's defence cancelled
    landed,       \* history: what was wrong with the blows that landed
    slipped       \* history: the player walked out on actions under way

vars == <<status, elapsed, health, presence, fellAt, escapedAt, recovery, freeHand,
          quiver, scheduled, interrupted, exchange, task, supplies, broken, landed, slipped>>

traces == <<broken, landed, slipped>>
bodies == <<health, presence, fellAt, escapedAt>>
hands == <<recovery, freeHand>>

Rest == [on |-> FALSE, declared |-> 0, horizon |-> 0, withdrawing |-> {}, cut |-> FALSE]
NoTask == [status |-> "none", since |-> Never]

Larger(m, n) == IF m > n THEN m ELSE n
Foes(r) == IF r \in SideA THEN SideB ELSE SideA
Active(r) == health[r] # "fallen" /\ presence[r] = "here"
Standing(side, h, pr) == {r \in side : h[r] # "fallen" /\ pr[r] = "here"}
Decided(h, pr) == Standing(SideA, h, pr) = {} \/ Standing(SideB, h, pr) = {}

-----------------------------------------------------------------------------
Init ==
    /\ status = "active" /\ elapsed = 0
    /\ health = [r \in Fighters |-> "ready"]
    /\ presence = [r \in Fighters |-> IF r \in Late THEN "reinforcing" ELSE "here"]
    /\ fellAt = [r \in Fighters |-> Never] /\ escapedAt = [r \in Fighters |-> Never]
    /\ recovery = [r \in Fighters |-> 0] /\ freeHand = [r \in Fighters |-> 0]
    /\ quiver = [r \in Fighters |-> Quiver] /\ supplies = Supplies
    /\ scheduled = {} /\ interrupted = [r \in Fighters |-> Never]
    /\ exchange = Rest /\ task = NoTask
    /\ broken = {} /\ landed = {} /\ slipped = FALSE

-----------------------------------------------------------------------------
(* The clock.  Bodies are settled when it crosses a whole second; whoever  *)
(* is wounded may collapse then, and did so at that second.                *)

Crossed(to) == (to \div Second) > (elapsed \div Second)
Collapses(to) == IF Crossed(to) THEN SUBSET {r \in Fighters : health[r] = "injured"}
                 ELSE {{}}
HealthAfter(who) == [r \in Fighters |-> IF r \in who THEN "fallen" ELSE health[r]]
FallsAfter(who, to) ==
    [r \in Fighters |-> IF r \in who /\ fellAt[r] = Never THEN (to \div Second) * Second
                        ELSE fellAt[r]]

-----------------------------------------------------------------------------
(* Declaring an exchange.                                                  *)

Arrivals == [r \in Fighters |->
    IF presence[r] = "reinforcing" /\ elapsed >= ArrivalTime THEN "here" ELSE presence[r]]

Carried == {a \in scheduled : Active(a.actor)}

\* A throw with the free hand waits for that hand only.
Action(r, target, t, shot, offhand) ==
    LET ready == Larger(elapsed, IF offhand THEN freeHand[r] ELSE recovery[r])
    IN  [actor |-> r, target |-> target, shot |-> shot, offhand |-> offhand,
         declared |-> elapsed, start |-> ready + t.start, commit |-> ready + t.commit,
         release |-> ready + t.release, contact |-> ready + t.contact,
         recovery |-> ready + t.recovery]

\* What a fighter with a live choice may declare; a hold, a hidden target or a
\* rejected action declares nothing.
Targets(r, pr) == Standing(Foes(r), health, pr)

Shooting(r) == {offhand \in BOOLEAN : r \in IF offhand THEN Throwers ELSE Archers}

Declarable(r, pr) ==
    {{}} \cup {{Action(r, target, t, FALSE, FALSE)} : target \in Targets(r, pr), t \in Blows}
         \cup {{Action(r, target, t, TRUE, offhand)} :
                  target \in Targets(r, pr), t \in Shots, offhand \in Shooting(r)}

Declarations(who, pr) ==
    {UNION {d[r] : r \in who} : d \in {f \in [who -> UNION {Declarable(r, pr) : r \in who}] :
                                        \A r \in who : f[r] \in Declarable(r, pr)}}

\* Whom wounds, losses or exhaustion may make leave: anybody but the player and the
\* medic at work.
MayLeave(able, support) == able \ (support \cup {Player})

\* The support step of the medic, on the player as patient.
Approach == task' = [status |-> "active", since |-> Never] /\ UNCHANGED supplies

Access(lost) ==
    LET disturbed == lost \/ recovery[Medic] > elapsed
    IN  IF task.status # "active" \/ task.since = Never \/ disturbed
        THEN task' = [status |-> "active", since |-> elapsed] /\ UNCHANGED supplies
        ELSE IF elapsed - task.since < MinAccess THEN UNCHANGED <<task, supplies>>
        ELSE IF health[Player] = "ready" \/ supplies = 0
        THEN task' = [task EXCEPT !.status = "blocked"] /\ UNCHANGED supplies
        ELSE task' = [task EXCEPT !.status = "completed"] /\ supplies' = supplies - 1

Support(treats) ==
    IF treats THEN Approach \/ \E lost \in BOOLEAN : Access(lost)
    ELSE UNCHANGED <<task, supplies>>

\* The horizon is the player's new contact, or a quarter of a second.
Horizon(new) ==
    LET own == {a \in new : a.actor = Player}
    IN  IF own = {} THEN elapsed + 1 ELSE (CHOOSE a \in own : TRUE).contact

Declare ==
    /\ ~exchange.on /\ status = "active" /\ elapsed < MaxTime
    /\ presence' = Arrivals
    /\ LET able == Standing(Fighters, health, Arrivals)
           busy == {a.actor : a \in Carried}
       IN  \E ordered \in BOOLEAN :
           LET treats == Medic \in able /\ (ordered \/ task.status = "active")
               support == IF treats THEN {Medic} ELSE {}
           IN  /\ Support(treats)
               /\ recovery' = IF treats /\ task'.status # "completed"
                              THEN [recovery EXCEPT ![Medic] = Larger(@, elapsed + Second)]
                              ELSE recovery
               /\ \E leaving \in SUBSET MayLeave(able, support) :
                  \E new \in Declarations(able \ (leaving \cup support \cup busy), Arrivals) :
                     /\ scheduled' = Carried \cup new
                     /\ exchange' = [on |-> TRUE, declared |-> elapsed, cut |-> FALSE,
                                     horizon |-> Horizon(new), withdrawing |-> leaving]
    /\ UNCHANGED <<status, elapsed, health, fellAt, escapedAt, freeHand, quiver, interrupted,
                   traces>>

-----------------------------------------------------------------------------
(* Resolving the actions in the order of their contacts.                   *)

Before(a, b) == a.contact < b.contact \/ (a.contact = b.contact /\ a.commit <= b.commit)
Due == {a \in scheduled : a.contact <= exchange.horizon}
WithdrawalEnd == exchange.declared + Second

Leaving == exchange.withdrawing # {} /\ WithdrawalEnd <= exchange.horizon

\* Mutation: withdrawals are settled before any blow.
WithdrawalsBeforeAll(a) == Leaving

WithdrawalsFirst(a) == Leaving /\ WithdrawalEnd < a.contact

\* The action that is resolved now, unless the withdrawals come first.
Now(a) ==
    /\ exchange.on /\ ~exchange.cut /\ a \in Due
    /\ \A b \in scheduled : Before(a, b)
    /\ ~WithdrawalsFirst(a)

\* Friendly blood on the line withholds an autonomous attack before its clock runs.
Withhold(a) ==
    /\ a.actor # Player
    /\ scheduled' = scheduled \ {a}
    /\ UNCHANGED <<status, elapsed, bodies, hands, quiver, interrupted, exchange, task,
                   supplies, traces>>

LoseTarget(a) ==
    /\ Earlier(escapedAt[a.target], a.commit)
    /\ elapsed' = Larger(elapsed, escapedAt[a.target])
    /\ scheduled' = scheduled \ {a}
    /\ UNCHANGED <<status, bodies, hands, quiver, interrupted, exchange, task, supplies,
                   traces>>

CancelledByDefence(a) == interrupted[a.actor] \in a.declared .. a.release - 1

\* A cancelled action of the player opens a new decision: uncommitted plans go.
Interrupt(a) ==
    /\ ~Earlier(escapedAt[a.target], a.commit) /\ CancelledByDefence(a)
    /\ LET cutoff == Larger(elapsed, interrupted[a.actor])
       IN  IF a.actor # Player
           THEN scheduled' = scheduled \ {a} /\ UNCHANGED exchange
           ELSE /\ scheduled' = {b \in scheduled \ {a} : b.commit <= cutoff}
                /\ exchange' = [exchange EXCEPT !.cut = TRUE, !.horizon = cutoff]
    /\ UNCHANGED <<status, elapsed, bodies, hands, quiver, interrupted, task, supplies,
                   traces>>

Disabled(a, falls) ==
    Earlier(falls[a.actor], a.commit + 1) \/ Earlier(falls[a.actor], a.release)

\* Bodies refuse to be settled backwards: an action that lies behind the clock rejects
\* the exchange, and nothing of that exchange is kept.
Reached(a) ==
    /\ ~Earlier(escapedAt[a.target], a.commit) /\ ~CancelledByDefence(a)
    /\ elapsed <= a.contact
    /\ elapsed' = a.contact /\ scheduled' = scheduled \ {a}

\* A fall, a lost mount, a lost hand or weapon stops the action.
Stop(a) ==
    /\ Reached(a)
    /\ \E who \in Collapses(a.contact) :
           health' = HealthAfter(who) /\ fellAt' = FallsAfter(who, a.contact)
    /\ UNCHANGED <<status, presence, escapedAt, hands, quiver, interrupted, exchange, task,
                   supplies, traces>>

\* An action spends the hand it is made with; whoever answers it is spent as well.
Spent(a) == freeHand' = IF a.offhand
                        THEN [freeHand EXCEPT ![a.actor] = Larger(@, a.recovery)]
                        ELSE freeHand
Recovering(a) == IF a.offhand THEN recovery
                 ELSE [recovery EXCEPT ![a.actor] = Larger(@, a.recovery)]

\* The actor is spent, but nobody is met: out of reach, no projectile, or a miss.
Miss(a) ==
    /\ Reached(a)
    /\ \E who \in Collapses(a.contact) :
           /\ health' = HealthAfter(who) /\ fellAt' = FallsAfter(who, a.contact)
           /\ ~Disabled(a, fellAt')
    /\ recovery' = Recovering(a) /\ Spent(a)
    /\ quiver' \in IF a.shot /\ quiver[a.actor] > 0
                   THEN {quiver, [quiver EXCEPT ![a.actor] = @ - 1]} ELSE {quiver}
    /\ UNCHANGED <<status, presence, escapedAt, interrupted, exchange, task, supplies,
                   traces>>

\* How one answers: with the guarding hand, by bracing, or with the whole body (evasions
\* and counters).  A guard spares the throw of the other hand, and a brace spares what
\* has started.
Kinds == {"guard", "brace", "body"}
Spares(kind, start, b) ==
    \/ kind = "guard" /\ b.offhand
    \/ kind = "brace" /\ b.start <= start

\* What the defender is preparing and this answer cancels.
Cancelled(v, kind, start) ==
    {b \in scheduled : b.actor = v /\ start < b.release /\ ~Spares(kind, start, b)}

RecordInterruption(v, start, cancelled) ==
    IF start # Never /\ cancelled # {}
    THEN [interrupted EXCEPT ![v] = IF Earlier(@, start) THEN @ ELSE start]
    ELSE interrupted

\* Whose body is met: the target, or another on the line of a projectile, whom only the
\* player does not spare.  A projectile that is turned aside may strike anybody.
Met(a) == IF a.shot THEN (IF a.actor = Player THEN Fighters ELSE Foes(a.actor)) \ {a.actor}
          ELSE {a.target}
Struck(a, v, start) == IF a.shot /\ start # Never THEN Fighters ELSE {v}

\* History: what a blow that hurts should not have been.
Faults(a) == {f \in {"defending", "departed"} :
    CASE f = "defending" -> a \in broken
      [] f = "departed" -> Earlier(escapedAt[a.actor], a.release)}

Hurt(h, falls, v, fallen, at) ==
    /\ health' = [h EXCEPT ![v] = IF fallen \/ @ = "fallen" THEN "fallen" ELSE "injured"]
    /\ fellAt' = [falls EXCEPT ![v] = IF fallen /\ @ = Never THEN at ELSE @]

\* When the defender notices an attack in time and begins to answer it; Never if not.
Answers(a) == (exchange.declared .. a.contact) \cup {Never}

\* What the answer does: only who began before the attack was committed meets it with a
\* counter, and whoever does not answer is hit.
Results(a, start) ==
    {result \in {"stopped", "countered", "wound"} :
        /\ start = Never => result = "wound"
        /\ result = "countered" => a.commit >= start}

KindsFor(result) == IF result = "countered" THEN {"body"} ELSE Kinds

\* An answer costs a recovery, cancels what the defender prepares, and may hurt the
\* attacker.  A counter fells without incapacitated_at_ms.
Contact(a) ==
    /\ Reached(a) /\ (a.shot => quiver[a.actor] > 0)
    /\ \E who \in Collapses(a.contact), v \in Met(a), fallen \in BOOLEAN,
          start \in Answers(a) : \E result \in Results(a, start) :
       \E cancelled \in {Cancelled(v, kind, start) : kind \in KindsFor(result)} :
          LET h == HealthAfter(who)
              falls == FallsAfter(who, a.contact)
          IN  /\ ~Disabled(a, falls)
              /\ interrupted' = RecordInterruption(v, start, cancelled)
              /\ broken' = broken \cup {b \in cancelled \ {a} : b.declared <= start}
              /\ recovery' = [Recovering(a) EXCEPT
                     ![v] = IF start = Never THEN @ ELSE Larger(@, a.contact + 1)]
              /\ Spent(a)
              /\ CASE result = "wound" ->
                        /\ \E w \in Struck(a, v, start) : Hurt(h, falls, w, fallen, a.contact)
                        /\ landed' = landed \cup Faults(a)
                   [] result = "countered" ->
                        /\ health' = [h EXCEPT ![a.actor] = IF fallen \/ @ = "fallen"
                                                            THEN "fallen" ELSE "injured"]
                        /\ fellAt' = falls /\ UNCHANGED landed
                   [] OTHER -> /\ ~fallen
                               /\ health' = h /\ fellAt' = falls /\ UNCHANGED landed
    /\ quiver' = IF a.shot THEN [quiver EXCEPT ![a.actor] = @ - 1] ELSE quiver
    /\ UNCHANGED <<status, presence, escapedAt, exchange, task, supplies, slipped>>

Resolve == \E a \in scheduled :
    /\ Now(a)
    /\ Withhold(a) \/ LoseTarget(a) \/ Interrupt(a) \/ Stop(a) \/ Miss(a) \/ Contact(a)

-----------------------------------------------------------------------------
(* Leaving the fight.                                                      *)

\* A melee action that is committed contests a retreat, unless its actor has left.
Pursued(w, at, left) == \E b \in scheduled :
    /\ b.target = w /\ ~b.shot /\ b.actor \in Foes(w) \ left
    /\ b.commit <= at /\ at <= b.contact /\ Active(b.actor)

\* Those who moved are recovering; those who are clear and not pursued are gone.  The
\* player's side is settled first, so its pursuers may be gone before the others leave.
Depart(moved, clear, at) ==
    LET first == {w \in clear \cap SideA : ~Pursued(w, at, {})}
        gone == first \cup {w \in clear \cap SideB : ~Pursued(w, at, first)}
    IN  /\ recovery' = [r \in Fighters |-> IF r \in moved THEN Larger(recovery[r], at + 1)
                                           ELSE recovery[r]]
        /\ presence' = [r \in Fighters |-> IF r \in gone THEN "escaped" ELSE presence[r]]
        /\ escapedAt' = [r \in Fighters |-> IF r \in gone THEN at ELSE escapedAt[r]]

WithdrawalsTurn == exchange.cut \/ \A b \in Due : WithdrawalsFirst(b)

\* Concurrent withdrawals settle at one moment.  If that empties a side while actions
\* are due, the exchange ends there and nothing is carried.
Withdraw ==
    /\ exchange.on /\ Leaving /\ WithdrawalsTurn
    /\ LET end == Larger(elapsed, WithdrawalEnd)
           early == ~exchange.cut /\ Due # {}
       IN  \E who \in Collapses(end) :
           /\ health' = HealthAfter(who) /\ fellAt' = FallsAfter(who, end)
           /\ elapsed' = end
           /\ \E moved \in SUBSET {w \in exchange.withdrawing : Active(w) /\ w \notin who} :
              \E clear \in SUBSET moved :
                 Depart(moved, clear, WithdrawalEnd)
           /\ IF early /\ Decided(health', presence')
              THEN /\ scheduled' = {}
                   /\ exchange' = [exchange EXCEPT !.withdrawing = {}, !.horizon = end]
              ELSE /\ exchange' = [exchange EXCEPT !.withdrawing = {}]
                   /\ UNCHANGED scheduled
    /\ UNCHANGED <<status, freeHand, quiver, interrupted, task, supplies, traces>>

\* Mutation: what a defence cancelled is forgotten between two exchanges.
ForgetInterruptions(carried) == [r \in Fighters |-> Never]

RelevantInterruptions(carried) ==
    [r \in Fighters |-> IF \E a \in carried : a.actor = r /\ CancelledByDefence(a)
                        THEN interrupted[r] ELSE Never]

Close ==
    /\ exchange.on /\ (exchange.cut \/ Due = {}) /\ ~Leaving
    /\ LET end == Larger(elapsed, exchange.horizon)
       IN  \E who \in Collapses(end) :
           /\ elapsed' = end
           /\ health' = HealthAfter(who) /\ fellAt' = FallsAfter(who, end)
           /\ status' = IF Decided(health', presence) THEN "resolved" ELSE "active"
    /\ interrupted' = RelevantInterruptions(scheduled)
    /\ exchange' = Rest /\ broken' = broken \cap scheduled
    /\ UNCHANGED <<presence, escapedAt, hands, quiver, scheduled, task, supplies,
                   landed, slipped>>

\* The player walks out between two exchanges: a second passes, bodies are not
\* settled, carried actions stay as they are and do not contest the retreat.
Disengage ==
    /\ MayDisengage /\ ~exchange.on /\ elapsed < MaxTime /\ health[Player] # "fallen"
    /\ elapsed' = elapsed + Second
    /\ recovery' = [recovery EXCEPT ![Player] = Larger(@, elapsed + Second + 1)]
    /\ \E clear \in BOOLEAN :
           IF clear
           THEN /\ presence' = [presence EXCEPT ![Player] = "escaped"]
                /\ escapedAt' = [escapedAt EXCEPT ![Player] = elapsed + Second]
                /\ status' = IF \/ {r \in SideA : health[r] # "fallen" /\
                                                   presence'[r] # "escaped"} = {}
                                \/ {r \in SideB : health[r] # "fallen" /\
                                                   presence[r] # "escaped"} = {}
                             THEN "resolved" ELSE status
           ELSE UNCHANGED <<presence, escapedAt, status>>
    /\ slipped' = (slipped \/ scheduled # {})
    /\ UNCHANGED <<health, fellAt, freeHand, quiver, scheduled, interrupted, exchange, task,
                   supplies, broken, landed>>

Next == Declare \/ Resolve \/ Withdraw \/ Close \/ Disengage

Spec == Init /\ [][Next]_vars

-----------------------------------------------------------------------------
Actions == [actor : Fighters, target : Fighters, shot : BOOLEAN, offhand : BOOLEAN,
            declared : Nat, start : Nat, commit : Nat, release : Nat, contact : Nat,
            recovery : Nat]

\* Type correctness.
ExactCombatTypeOK ==
    /\ status \in {"active", "resolved"} /\ elapsed \in Nat
    /\ health \in [Fighters -> {"ready", "injured", "fallen"}]
    /\ presence \in [Fighters -> {"here", "reinforcing", "escaped"}]
    /\ {fellAt, escapedAt, interrupted} \subseteq [Fighters -> Nat \cup {Never}]
    /\ {recovery, freeHand, quiver} \subseteq [Fighters -> Nat]
    /\ scheduled \subseteq Actions /\ supplies \in Nat /\ slipped \in BOOLEAN
    /\ task \in [status : {"none", "active", "blocked", "completed"}, since : Nat \cup {Never}]

\* "combat physiology time regressed" (exact_combat.py:1373): nothing that is still to
\* happen lies behind the clock, through cancelled intents, withdrawals that settle
\* between two blows, collapses and reinforcements, while the player stays or walks
\* out with nothing under way.  Otherwise the next exchange is rejected, and every
\* later one with it.
ActionsAhead ==
    status = "active" /\ ~slipped =>
        \A a \in scheduled : Active(a.actor) => a.contact >= elapsed

\* A defence that cancels what its maker prepares cancels it for good: no blow lands that
\* was cancelled so, through any number of exchanges the action is carried across, other
\* defences of the same fighter, earlier or later ones and those that spare it, and new
\* declarations (exact_combat.py:2339-2389, 4391-4410).
BlowsAreCausal == "defending" \notin landed

\* A declared withdrawal is settled by the exchange that declared it whenever that
\* exchange lasts a second; none is forgotten between two blows (exact_combat.py:4311,
\* 4383).
WithdrawalsAreSettled == [][
    exchange.on /\ ~exchange'.on /\ exchange.withdrawing # {}
        => elapsed' < exchange.declared + Second]_vars

\* The same promise without the exemption for a retreat.
CarriedActionsAhead ==
    status = "active" => \A a \in scheduled : Active(a.actor) => a.contact >= elapsed

\* "A successful disengagement is a real physical separation" (SKILL.md:170): whoever has
\* left hurts nobody with what was not yet released.
DepartedAreGone == "departed" \notin landed
=============================================================================
