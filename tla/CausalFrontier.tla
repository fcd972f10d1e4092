--------------------------- MODULE CausalFrontier ---------------------------
(***************************************************************************)
(* shinobi_runtime.martial_world.scheduler and its settlement: the compact *)
(* schedule that says what the offscreen world owes next, and the time     *)
(* command that walks the campaign clock from one causal frontier to the   *)
(* next.  A recurring class of work keeps its next due date, its owners    *)
(* and a cursor into them; a one-off wake is one unresolved obligation.    *)
(*                                                                         *)
(* Time is counted in half seconds: obligations may fall between two       *)
(* seconds, the campaign clock never does.  settled_through is the clock   *)
(* itself: every command that moves one moves the other.  A time command   *)
(* settles up to four frontiers and a player decision may end it after any *)
(* of them, so each frontier is a step and commands fall in between.       *)
(***************************************************************************)
EXTENDS Integers, FiniteSets

CONSTANTS
  Faction, Region, Route,  \* owners of recurring work, numbered in name order
  Interval,     \* class -> half seconds between two due dates
  ChunkSize,    \* class -> owners settled in one frontier
  Wake,         \* one-off wakes that domain reducers register
  KindsOf,      \* wake -> what it may be: "physiology", "operation", "review", "other"
  Judgment,     \* decisions of non-player characters, to be made by the GM
  Calendar,     \* times of the calendar's events
  Horizon,      \* bound: the last time a player asks for
  MaxChanges    \* bound: changes to the registry or to the routes

Class == {"region_monthly", "faction_monthly", "faction_annual", "route_daily"}
FactionClass == {"faction_monthly", "faction_annual"}
Owner == Faction \cup Region \cup Route

ASSUME FrontierAssumption ==
  /\ Owner \subseteq Nat /\ IsFiniteSet(Owner)
  /\ Interval \in [Class -> {n \in Nat : n > 0 /\ n % 2 = 0}]
  /\ ChunkSize \in [Class -> Nat \ {0}]
  /\ KindsOf \in [Wake -> SUBSET {"physiology", "operation", "review", "other"}]
  /\ Wake \cap Judgment = {}
  /\ Horizon \in {n \in Nat : n % 2 = 0} /\ MaxChanges \in Nat
  /\ Calendar \subseteq {n \in 0..Horizon : n % 2 = 0}

Kind == {"physiology", "operation", "review", "other", "judgment_due", "judgment_committed"}
Rows == [due : Nat, cursor : Nat, owners : SUBSET Owner]
Events == [id : Wake \cup Judgment, kind : Kind, due : Int]

VARIABLES
  now,       \* the campaign clock
  recurring, \* class -> row, for the classes that have owners
  oneOff,    \* unresolved wakes
  factions,  \* the faction registry
  routes,    \* routes with a movement that needs service
  unused,    \* wakes and judgments not registered yet
  changes,
  fired,     \* calendar events that happened
  round      \* class -> owners of its last or current date, and their turns

frontierVars == <<now, recurring, oneOff, factions, routes, unused, changes, fired, round>>

FrontierTypeOK ==
  /\ now \in {n \in 0..Horizon : n % 2 = 0}
  /\ DOMAIN recurring \subseteq Class
  /\ \A c \in DOMAIN recurring :
       /\ recurring[c] \in Rows
       /\ recurring[c].owners # {}
       /\ recurring[c].cursor < Cardinality(recurring[c].owners)
  /\ oneOff \subseteq Events
  /\ factions \subseteq Faction
  /\ routes \subseteq Route
  /\ unused \subseteq Wake \cup Judgment
  /\ changes \in 0..MaxChanges
  /\ fired \subseteq Calendar
  /\ round \in [Class -> [owners : SUBSET Owner, turns : [Owner -> Nat], over : BOOLEAN]]

NoTurns == [o \in Owner |-> 0]

NewRow(c, owners, at) == [due |-> at + Interval[c], cursor |-> 0, owners |-> owners]

\* Routes wake on demand only.
InitialOwners ==
  [c \in Class |-> CASE c \in FactionClass -> Faction
                     [] c = "region_monthly" -> Region
                     [] OTHER -> {}]

\* initial_schedule.
FrontierInit ==
  /\ now = 0
  /\ factions = Faction
  /\ routes = {}
  /\ recurring = [c \in {k \in Class : InitialOwners[k] # {}} |-> NewRow(c, InitialOwners[c], 0)]
  /\ oneOff = {}
  /\ unused = Wake \cup Judgment
  /\ changes = 0
  /\ fired = {}
  /\ round = [c \in Class |-> [owners |-> {}, turns |-> NoTurns, over |-> TRUE]]

-----------------------------------------------------------------------------
(* Keeping the schedule in step with the world *)

FactionOwners(registry) == [c \in FactionClass |-> registry]
RouteOwners(active) == [c \in {"route_daily"} |-> active]

SyncedRow(rows, c, owners, at) ==
  IF c \in DOMAIN rows THEN [rows[c] EXCEPT !.owners = owners] ELSE NewRow(c, owners, at)

\* Mutation: the owners change under a cursor.
SyncUnderCursor(rows, owed, at) ==
  LET kept == DOMAIN rows \ DOMAIN owed
  IN  [c \in kept \cup {k \in DOMAIN owed : owed[k] # {}} |->
        IF c \in kept THEN rows[c] ELSE SyncedRow(rows, c, owed[c], at)]

\* A class that is half way through its owners keeps them until it is through.
SyncClasses(rows, owed, at) ==
  LET kept == {c \in DOMAIN rows : c \notin DOMAIN owed \/ rows[c].cursor > 0}
  IN  [c \in kept \cup {k \in DOMAIN owed : owed[k] # {}} |->
        IF c \in kept THEN rows[c] ELSE SyncedRow(rows, c, owed[c], at)]

SyncFactions(rows, registry, at) == SyncClasses(rows, FactionOwners(registry), at)

\* A route class whose date was left behind starts again a day from now.
SyncRoutes(rows, active, at) ==
  LET synced == SyncClasses(rows, RouteOwners(active), at)
  IN  [c \in DOMAIN synced |->
        IF c = "route_daily" /\ synced[c].cursor = 0 /\ synced[c].due < at
        THEN [synced[c] EXCEPT !.due = at + Interval[c]]
        ELSE synced[c]]

-----------------------------------------------------------------------------
(* due_events: the earliest piece of work up to a time *)

\* _campaign_frontier_time: it belongs to the next second.
FrontierTime(t) == t + (t % 2)

ClassOrder ==
  [region_monthly |-> 10, faction_monthly |-> 20, faction_annual |-> 25, route_daily |-> 30,
   physiology |-> 5, one_off |-> 80, calendar |-> 90]

WorkOf(event) == IF event.kind = "physiology" THEN "physiology" ELSE "one_off"

\* Mutation: work due exactly now counts as settled.
DueAfter(after, t, through) == after < t /\ t <= through

DueWithin(after, t, through) == after <= t /\ t <= through

\* The calendar is not a pending row: it is looked up strictly after the clock.
DueWork(rows, through) ==
     {[at |-> FrontierTime(rows[c].due), work |-> c] :
        c \in {k \in DOMAIN rows : DueWithin(now, FrontierTime(rows[k].due), through)}}
  \cup
     {[at |-> FrontierTime(e.due), work |-> WorkOf(e)] :
        e \in {k \in oneOff : DueWithin(now, FrontierTime(k.due), through)}}
  \cup
     {[at |-> t, work |-> "calendar"] : t \in {k \in Calendar : now < k /\ k <= through}}

Earlier(x, y) ==
  \/ x.at < y.at
  \/ x.at = y.at /\ ClassOrder[x.work] <= ClassOrder[y.work]

\* Every time command first brings the faction classes up to the registry.
Prepared == SyncFactions(recurring, factions, now)

\* The next frontier, if the player asks for a time at or past it.
Frontiers ==
  LET due == DueWork(Prepared, Horizon)
  IN  {x \in due : now < Horizon /\ \A y \in due : Earlier(x, y)}

FrontiersOf(works) == {x \in Frontiers : x.work \in works}

-----------------------------------------------------------------------------
(* settle_schedule *)

Rank(owners, o) == Cardinality({p \in owners : p <= o})

Chunk(c, row) ==
  {o \in row.owners : Rank(row.owners, o) \in row.cursor + 1 .. row.cursor + ChunkSize[c]}

AdvanceRow(c, row, at) ==
  LET cursor == row.cursor + Cardinality(Chunk(c, row))
  IN  IF cursor >= Cardinality(row.owners)
      THEN [row EXCEPT !.due = at + Interval[c], !.cursor = 0]
      ELSE [row EXCEPT !.cursor = cursor]

Turns(c, row, at) ==
  LET before == IF row.cursor = 0 THEN NoTurns ELSE round[c].turns
  IN  [owners |-> row.owners,
       turns |-> [o \in Owner |-> before[o] + IF o \in Chunk(c, row) THEN 1 ELSE 0],
       over |-> AdvanceRow(c, row, at).cursor = 0]

-----------------------------------------------------------------------------
(* What domain reducers may do to the world in one frontier, at most one of *)
(* each: found or dissolve a faction, start or end service on a route,      *)
(* register a wake or a judgment, withdraw a wake that lost its reason.     *)

Toggle(set, x) == (set \ {x}) \cup ({x} \ set)

ChangeFactions ==
  /\ changes < MaxChanges /\ changes' = changes + 1
  /\ \E f \in Faction : factions' = Toggle(factions, f)
  /\ UNCHANGED routes

ChangeRoutes ==
  /\ changes < MaxChanges /\ changes' = changes + 1
  /\ \E r \in Route : routes' = Toggle(routes, r)
  /\ UNCHANGED factions

WorldMayChange ==
  UNCHANGED <<factions, routes, changes>> \/ ChangeFactions \/ ChangeRoutes

\* Only the deadlines of a body fall between two seconds; a judgment is due at
\* the frontier that raised it.
NewEvents(at) ==
     {e \in [id : unused \cap Wake, kind : Kind, due : at - 1 .. Horizon] :
        /\ e.kind \in KindsOf[e.id]
        /\ FrontierTime(e.due) >= at
        /\ e.kind # "physiology" => e.due % 2 = 0}
  \cup
     {[id |-> j, kind |-> "judgment_due", due |-> at] : j \in unused \cap Judgment}

AtMostOne(set) == {{}} \cup {{x} : x \in set}

Ids(events) == {e.id : e \in events}

Withdrawable == {e \in oneOff : e.kind \in {"physiology", "other"}}

\* The end of settle_shared_frontier, on the world its reducers leave.
Resync(rows, at, registry, active) ==
  SyncRoutes(SyncFactions(rows, registry, at), active, at)

\* One frontier through the shared bridge: batch holds the wakes it settles.
Bridge(rows, at, batch, judged, offers) ==
  /\ now' = at
  /\ WorldMayChange
  /\ recurring' = Resync(rows, at, factions', routes')
  /\ \E staged \in AtMostOne(NewEvents(at)), withdrawn \in AtMostOne(Withdrawable) :
       /\ Ids(staged) \cap Ids(judged \cup offers) = {}
       /\ oneOff' = ((oneOff \ batch) \ withdrawn) \cup staged
                       \cup IF offers = {} THEN judged ELSE offers
       /\ unused' = unused \ Ids(staged \cup judged \cup offers)

-----------------------------------------------------------------------------
(* One frontier of a time command *)

SettleChunk(c) ==
  /\ \E f \in FrontiersOf({c}) :
       LET row == Prepared[c]
       IN  /\ Chunk(c, row) # {}
           /\ Bridge([Prepared EXCEPT ![c] = AdvanceRow(c, row, f.at)], f.at, {}, {}, {})
           /\ round' = [round EXCEPT ![c] = Turns(c, row, f.at)]
  /\ UNCHANGED fired

Batch(f) == {e \in oneOff : FrontierTime(e.due) = f.at /\ WorkOf(e) = f.work}

SettlePhysiology ==
  /\ \E f \in FrontiersOf({"physiology"}) : Bridge(Prepared, f.at, Batch(f), {}, {})
  /\ UNCHANGED <<fired, round>>

Extracted(event) == event.kind \in {"operation", "review"}

\* A retinue review raises a judgment, and a judgment that was deferred asks for
\* another review; the offers that the same frontier stages are added to the
\* schedule as it was before that.
Progression(at, batch) ==
  {staging \in
      AtMostOne({e \in NewEvents(at) : e.kind \in {"judgment_due", "review"}})
        \X AtMostOne({e \in NewEvents(at) : e.kind = "other"}) :
     /\ Ids(staging[1]) \cap Ids(staging[2]) = {}
     /\ \A e \in staging[1] :
          \E d \in batch :
            <<d.kind, e.kind>> \in {<<"review", "judgment_due">>,
                                   <<"judgment_committed", "review">>}}

SettleOneOff ==
  /\ \E f \in FrontiersOf({"one_off"}) :
       /\ \E e \in Batch(f) : ~Extracted(e)
       /\ \E staging \in Progression(f.at, Batch(f)) :
            Bridge(Prepared, f.at, Batch(f), staging[1], staging[2])
  /\ UNCHANGED <<fired, round>>

HasOperation(batch) == \E e \in batch : e.kind = "operation"

\* A departure that is due puts its route on the schedule.
Depart(batch, at) ==
  /\ HasOperation(batch)
  /\ changes < MaxChanges /\ changes' = changes + 1
  /\ \E r \in Route : routes' = routes \cup {r}
  /\ recurring' = SyncRoutes(Prepared, routes', at)

\* A frontier of directly owned events bypasses the bridge and its resync.  An
\* operation may stage its next wake: a segment, an arrival, a retry, a return.
Bypass(batch, at) ==
  /\ now' = at
  /\ \/ UNCHANGED <<routes, changes>> /\ recurring' = Prepared
     \/ Depart(batch, at)
  /\ \E staged \in AtMostOne(NewEvents(at)), staging \in Progression(at, batch) :
       /\ staged # {} => HasOperation(batch)
       /\ Ids(staged) \cap Ids(staging[1] \cup staging[2]) = {}
       /\ oneOff' = (oneOff \ batch) \cup staged
                       \cup IF staging[2] = {} THEN staging[1] ELSE staging[2]
       /\ unused' = unused \ Ids(staged \cup staging[1] \cup staging[2])
  /\ UNCHANGED factions

SettleExtracted ==
  /\ \E f \in FrontiersOf({"one_off"}) :
       /\ \A e \in Batch(f) : Extracted(e)
       /\ Bypass(Batch(f), f.at)
  /\ UNCHANGED <<fired, round>>

\* A ranking publication or a demography review bypasses the bridge.
SettleCalendar ==
  /\ \E f \in FrontiersOf({"calendar"}) :
       /\ Bridge(Prepared, f.at, {}, {}, {}) \/ Bypass({}, f.at)
       /\ fired' = fired \cup {f.at}
  /\ UNCHANGED round

\* With nothing due, or a class without a chunk, the clock goes to the target.
PassTime ==
  \E target \in {t \in now + 1 .. Horizon : t % 2 = 0} :
    /\ \A x \in DueWork(Prepared, target) :
         /\ x \in Frontiers
         /\ x.work \in Class
         /\ Chunk(x.work, Prepared[x.work]) = {}
    /\ now' = target
    /\ recurring' = Prepared
    /\ UNCHANGED <<oneOff, factions, routes, unused, changes, fired, round>>

Advance ==
  \/ \E c \in Class : SettleChunk(c)
  \/ SettlePhysiology \/ SettleOneOff \/ SettleExtracted \/ SettleCalendar
  \/ PassTime

-----------------------------------------------------------------------------
(* The other commands, at the present moment *)

FactionLifecycle ==
  /\ ChangeFactions
  /\ recurring' = SyncFactions(recurring, factions', now)
  /\ UNCHANGED <<now, oneOff, unused, fired, round>>

\* stage_route_journey, route recovery, the start of an escort and the
\* settlement of a route contact; a journey also wakes at the end of its segment.
RouteOperation ==
  /\ ChangeRoutes
  /\ recurring' = SyncRoutes(recurring, routes', now)
  /\ \E segment \in AtMostOne({e \in NewEvents(now) : e.kind = "other"}) :
       /\ oneOff' = oneOff \cup segment
       /\ unused' = unused \ Ids(segment)
  /\ UNCHANGED <<now, factions, fired, round>>

UpsertOneOffEvent ==
  /\ \E e \in NewEvents(now) :
       /\ oneOff' = oneOff \cup {e}
       /\ unused' = unused \ {e.id}
  /\ UNCHANGED <<now, recurring, factions, routes, changes, fired, round>>

WithdrawOneOffEvent ==
  /\ \E e \in Withdrawable : oneOff' = oneOff \ {e}
  /\ UNCHANGED <<now, recurring, factions, routes, unused, changes, fired, round>>

Committed(j) == [j EXCEPT !.kind = "judgment_committed"]

\* jianghu_npc_judgment_resolution: the choice becomes an event of this moment.
NpcJudgmentResolution ==
  /\ \E j \in oneOff :
       /\ j.kind = "judgment_due" /\ j.due = now
       /\ oneOff' = (oneOff \ {j}) \cup {Committed(j)}
  /\ UNCHANGED <<now, recurring, factions, routes, unused, changes, fired, round>>

PlayerCommand ==
  \/ FactionLifecycle \/ RouteOperation \/ UpsertOneOffEvent
  \/ WithdrawOneOffEvent \/ NpcJudgmentResolution

FrontierNext == Advance \/ PlayerCommand

FrontierSpec == FrontierInit /\ [][FrontierNext]_frontierVars

-----------------------------------------------------------------------------
(* Properties *)

\* No obligation falls behind the clock, where no later frontier would look for
\* it (scheduler.py:60 "without skipping work").
NothingLeftBehind ==
  /\ \A c \in DOMAIN recurring : FrontierTime(recurring[c].due) >= now
  /\ \A e \in oneOff : FrontierTime(e.due) >= now

\* owner_cursor "is a resumable work cursor, not a cardinality cap": whatever is
\* founded or dissolved between the chunks of one date, each owner that the date
\* began with gets exactly one turn.
EveryOwnerOncePerDate ==
  \A c \in Class, o \in Owner :
    /\ round[c].turns[o] <= 1
    /\ round[c].over /\ o \in round[c].owners => round[c].turns[o] = 1

\* The schedule follows the world: between two dates the living factions are
\* exactly the owners of the faction classes, every route in service has its
\* daily turn, and nobody waits longer than one interval.
ScheduleCoversWorld ==
  /\ \A c \in FactionClass :
       IF c \in DOMAIN recurring
       THEN recurring[c].cursor = 0 => recurring[c].owners = factions
       ELSE factions = {}
  /\ IF "route_daily" \in DOMAIN recurring
     THEN recurring["route_daily"].cursor = 0 => routes \subseteq recurring["route_daily"].owners
     ELSE routes = {}
  /\ \A c \in DOMAIN recurring : recurring[c].due <= now + Interval[c]

\* A calendar event that shares its moment with other work still happens.
CalendarEventsHappen == \A t \in Calendar : t < now => t \in fired

\* "Durable GM-private frontiers" (npc_judgment.py:1): a judgment leaves the
\* schedule only as the choice that the game master committed.
JudgmentsAreAuthored ==
  [][\A j \in oneOff : j.kind = "judgment_due" =>
       j \in oneOff' \/ Committed(j) \in oneOff']_frontierVars
=============================================================================
