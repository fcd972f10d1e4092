# Jianghu runtime: a verification project

TLA+ models, TLC runs and TLAPS proofs for the Shinobi RPG "Jianghu" runtime
(`src/runtime/shinobi_runtime`). The runtime keeps a campaign as JSON files in a
Git checkout; a game master reads it and moves it with semantic commands over
HTTP and MCP; every accepted command is one atomic, idempotent, remotely durable
transaction; and an offscreen world owes work at dates that a time command
settles one causal frontier at a time.

Contents: 1 inventory, 2 modules, 3 runs, 4 what was found, 5 proofs, 6 limits
and plan. `PROJECT.json` lists the components, the runs with their properties and
mutants, the source lines of every definition, the hazards and the theorems.

## 1. Inventory

### The parts, their state and their operations

| part | state it keeps | operations |
|---|---|---|
| transaction coordinator (`tx/coordinator.py`, `tx/campaign_coordinator.py`) | none of its own; drives all stores below | `execute`, `lookup_receipt`, `recover`, the abort handler |
| write-ahead log (`tx/wal.py`) | `wal/pending`, `wal/terminal`: one record per transaction, with before-images | `prepare`, `mark_applied`, `mark_committed`, `rollback`, `finish`, `archive_terminal` |
| receipts (`tx/receipts.py`) | one immutable file per request id, and a maximum-revision index | `lookup`, `put`, `rebuild_index` |
| persistence (`tx/persistence.py`, `store/repository.py`) | campaign files under `state/`, `state/meta.json` last | `apply`, `restore_images` |
| Git (`tx/git.py`), remote (`tx/remote.py`) | HEAD, index, worktree; the shared branch `main` | `stage`, `unstage`, `commit`, `find_transaction_commit`, `verify_synchronized`, `ensure_commit_durable` |
| writer lock (`tx/locking.py`) | one `flock` | `acquire`, `release` |
| campaign operations (`api/operations.py`), planner (`commands/planner.py`) | threads of one process; the one validated preview | `execute_command`, `lookup_command_receipt`, `preview_command`, reads; `preview`, `plan` |
| bootstrap (`bootstrap.py`, `release_baseline.py`) | checkout and recovery store on a persistent volume | `ensure_checkout`, baseline reset, retirement |
| scheduler (`martial_world/scheduler.py`) | recurring classes (date, owners, cursor), one-off wakes, `settled_through` | `due_events`, `settle_schedule`, `sync_*`, `upsert_one_off_event` |
| time command and frontiers (`commands/jianghu_time.py`, `martial_world/time_*.py`, `frontier_bridge.py`) | the campaign clock | `advance_time`, `settle_core_frontier`, the shared bridge |
| judgments (`martial_world/npc_judgment.py`) | one-off rows that wait for the game master | `jianghu_npc_judgment_resolution` |
| escort commissions (`martial_world/contracts.py`, `escort.py`, `commands/jianghu_contracts.py`) | the contract index with its escrow, one expiry wake per offer, the dossier of an accepted commission | monthly funding, `accept`, `start`, autonomous acceptance, the expiry sweep |
| roads (`martial_world/route_frontier.py`, `route_activity.py`, `physical_travel.py`) | movements: who travels, who controls, cargo, progress, rest; contacts with raiders | the daily service of a route: progress, stops, interceptions, closing, returns |
| exact combat (`martial_world/exact_combat.py`, `combat/`) | one fight: bodies, clock, actions under way, the support task | exchange, withdrawal, disengagement |
| tournaments (`martial_world/tournaments.py`, `tournament_frontier.py`) | the tournament's row with draw and escrow, trips, delegations, one-off events | registration, sponsors' choices, sessions, the player's matches, purses, returns |
| faction operations (`martial_world/warfare.py`, `allied_support.py`, `operational_equipment.py`), custody (`captivity_frontier.py`, `crime_custody.py`) | deployments, their movements and issued arms; custody records | mobilize, depart, arrive, fight, judge the aftermath, return; review, ransom, rescue, free |
| missions of the player's House (`institutional_operations.py`, `institutional_progression.py`, `commands/jianghu_institutional*.py`) | dossiers, judgments, service records | propose, offer, accept, plan, dispatch, close, reward, promote |
| lives and houses (`faction_cycle_frontier.py`, `life_frontier.py`, `family_*.py`, `death_lifecycle.py`, `institutional_evolution_frontier.py`) | rosters, family, offices, births, judgments | month, year, birth, death, dissolution, merger, split, foundation |
| economy (`autonomy_frontier.py`, `project_frontier.py`, `infrastructure.py`, `regional_economy.py`, `property.py`, `operational_equipment.py`, `commands/jianghu*.py`) | treasuries, stores, markets, what people carry, claims, projects, caravans | monthly review, trade, production, projects, issue and return, gifts and seizures, claiming an estate |
| transport (`api/app.py`, `api/mcp*.py`, `api/middleware.py`), attestation, repair, audits | credentials, sessions | HTTP and MCP endpoints; guarded variants of execute and reads |
| bodies and numbers (`physiology_frontier.py`, `health.py`, `poison.py`, `training.py`, ...), scene sessions, game data, GM skill, tools, tests | - | - |

### How they interact

A request thread calls an operation; the operation reads the receipt index
without a lock, takes the writer lock for a receipt lookup, again for planning,
and a third time for the transaction. Inside the last section the coordinator
first recovers whatever a previous holder left, then checks a pristine checkout
and a synchronized remote, plans, logs, validates, replaces files, stages,
commits, pushes, marks, receipts and archives. Bootstrap runs before the process
serves and decides what the checkout on the volume becomes. Source releases use
the same remote branch. A time command is one such transaction: its plan asks
the scheduler for the earliest work up to a target, settles it through the
shared bridge (or around it), and writes the schedule and the clock together.

The domain reducers share owners rather than call each other. A party on a road
is a movement; an operation, a tournament trip, a commission, a caravan or a
muster is another owner that names the movement and the people; the schedule
holds the next step of each; who is busy is derived from all of them
(`derived_commitment_state`). A choice that somebody in the world has to make
becomes a judgment row of the schedule: it is asked at a date, committed by a
command of the game master at the same date, and settled by the next frontier.
Deaths prune every owner that names the dead.

### What is hard here

Death between any two steps; a push whose acknowledgement is lost; releases that
race deliveries; retries of requests in every state; checks made before a lock
and used after it; a preview reused for an execution; a reset that moves the
checkout before it is verified; a cursor into a list that changes; many
obligations at one timestamp; work that bypasses the place where the schedule is
resynchronised; a death that empties a party in the middle of a commission; a
fight that stays open over many commands; actions that outlast an exchange; a
reserve that leaves a treasury long before it is spent; a captive whose column is
beaten; judgments answered out of order; a frontier that writes back a copy of an
owner somebody else changed; work whose house dies. `PROJECT.json` lists each of
these at its line.

### What makes each part correct

- coordinator: a request commits at most once; acknowledgements are durable and
  negative answers true; whatever is dirty is recoverable; the advertised
  revision is never newer than the files; the shared branch is only extended;
  recovery ends.
- operations: what is committed is what was planned from the files it replaces;
  reads show committed revisions.
- bootstrap: what is served was certified and what answers is of its baseline,
  unless the very reset that brought it was cut short; the revision never goes back.
- scheduler: nothing falls behind the clock; one turn per owner and date.
- escorts: silver and goods are conserved; a commission is in performance exactly
  while a party performs it; nobody is in two parties; guild commissions end.
- combat: nothing falls behind the clock; no blow lands that its actor's own
  defence had cancelled.
- tournaments: one place per person in the draw; silver accounted for; everyone
  gets home.
- war and custody: silver, goods and weapons are in one place each; nobody serves
  twice; a prisoner is where the record says.
- missions: rewards paid once; one current offer of promotion; nobody in the field
  without a dossier, but for talks that name it and proposals linked to a
  commission.
- lives: one row per person; marriages and pregnancies of the living; silver only
  moves.
- economy: land promised once; work stays scheduled; nobody booked twice; coins and
  pieces conserved.

## 2. Modules

| module | models | composes |
|---|---|---|
| `CampaignLedger` | the abstract promise of the transaction layer: commands entered at the revision their sender saw, once per request, delivered before the next is entered, receipted after delivery | - |
| `TransactionCoordinator` | the lock-scoped service: every step of `execute`, recovery and abort, and its environment | implements `CampaignLedger` (`INSTANCE ... WITH`) |
| `CampaignOperations` | request threads, the planner's preview slot, the unlocked integrity check | extends `TransactionCoordinator` |
| `CampaignBootstrap` | start-up reconciliation, baseline reset, retirement | its own coarse transaction |
| `CausalFrontier` | schedule, clock, time commands and the commands that touch the schedule | - |
| `EscortContracts` | funded escort commissions: index, movements, fights, raids, dossier, deaths | - |
| `ExactCombat` | one fight on its microclock | - |
| `Tournaments` | one championship from registration to the way home | - |
| `FactionWar` | raids, war, challenges and scouting, allied aid, captives | - |
| `HouseMissions` | the missions of the player's House | - |
| `HouseLife` | months, years, births, deaths, marriages, and what becomes of houses | - |
| `Belongings` | stores, possessions, standing issue, claims, demands | - |
| `Estates` | compounds, projects, bookings | extends `Belongings` |
| `HouseEconomy` | monthly reviews, caravans, trade, aid, claims of estates | extends `Estates` |
| `SumTheorems` | lemmas about the sums of the community modules | - |
| `ServiceFrontierAndTournamentProofs` | theorems about `TransactionCoordinator`, `CampaignOperations`, `CausalFrontier` and `Tournaments` | extends them |
| `BootstrapAndCombatProofs` | theorems about `CampaignBootstrap` and `ExactCombat` | extends them |
| `EscortContractsProofs`, `FactionWarProofs`, `HouseMissionsProofs`, `HouseLifeProofs`, `HouseEconomyProofs` | theorems about the module they are named after | extend it |
| `MC*` | the instances TLC checks | extend it |

### TransactionCoordinator

`pc` is the next step of the process that holds the lock ("idle": lock free,
"down": no process); `op`, `cmd` are the public operation and its command;
`ctx`, `tx` say on whose behalf a transaction is driven (the main path, recovery
or the abort handler), since the three share code. `log` and `origin` are the
histories of the local and the remote branch, so equal histories are equal heads
and the parent of a head is its `Front`. `tree`, `index` and `disk` are the
campaign files at HEAD, in the Git index and in the worktree; the contents of a
file are named by the command that last wrote it, which is all the properties
tell apart. `wal`, `archive`, `before` are the log's statuses and before-images;
`receipts`, `highWater` the receipt store. Files are replaced one per step, so a
death may fall between any two; a death inside a replacement may leave a whole or
(`TornTemp`) a half-written temporary. `Fault` raises before a step's effect,
which covers an exception after the previous step's effect; `Raise` does what the
handler does: undo before a commit exists, leave it alone after. `Boot` is the
part of bootstrap that concerns one lineage.

`CampaignLedger` has a revision and three sets: `ledger` (committed), `delivered`
and `receipted`. The refinement mapping reads them off the coordinator: the
revision at HEAD, the commands on the local branch, those on the shared branch,
and those with a receipt. Sets instead of a sequence keep the mapping first-order;
the order of the ledger is the order of revisions, each command being entered at
exactly the revision it was planned for.

### CampaignOperations

A call is one request thread. `ReadRevision .. RecheckIndex` are
`_assert_receipt_integrity`, unlocked; `Acquire` starts the coordinator's
operation, `HolderStep` runs it, `Return` resumes the call with its answer;
`PlanBegin`/`PlanEnd` and `ViewBegin`/`Preview`/`Snapshot` are the two kinds of
locked reads; `Guarded` is the validator's check of the planned head. A waiter may
time out whenever the lock is held. `play_context` is not modelled: it reads its
main owners under the lock and the rest after releasing it (see section 4).

### CampaignBootstrap

A head is its history of commit records (campaign identity, baseline, revision,
and `truth`, a name for the campaign files). The decisions of `ensure_checkout`
are actions in the order of the code; the reset is three steps (`verify`,
`retire_wal`, `retire_receipts`) after the checkout moved, and a death may fall
between any two. `ResetRaises` is a call that raises between the checkout's reset
and the verdict (`bootstrap.py:541-543`), which undoes nothing; a rename that fails
is undone (`UndoReset`). `git reset --hard` is one step: what it leaves half done,
the next start-up resets again. The rename back, whose failure the code swallows, is
the first of two: all it can leave behind is the directory of finished log records
under its retired name, which nothing reads. `start` keeps what an attempt must
restore, `cut` is the history of baselines whose reset ended between two of its
steps. Transactions are reduced to the stages a start-up can find.
From outside come releases, rebaselines (as a commit or an unrelated history,
certified or not) and replaced histories of this or another campaign.

### CausalFrontier

Time counts half seconds because bodies' deadlines fall between two seconds and
`_campaign_frontier_time` rounds them up, while the clock stays on seconds.
`recurring` maps a class to its date, owners and cursor; `oneOff` are wakes;
`factions` and `routes` are what owners are synchronized with. One frontier of a
time command is one step: `SettleChunk` (a recurring class), `SettlePhysiology`,
`SettleOneOff` (through the bridge), `SettleExtracted` (around it),
`SettleCalendar` (either way) and `PassTime`. Reducers may change the registry or
the routes and stage or withdraw wakes, at most one of each per frontier.
`settled_through` is the clock itself: every command that moves one moves the
other, so the catch-up branch of `_advance_time_single_frontier` is unreachable
and left out. `round` and `fired` are history that the properties read. A wake is
registered at most once: the model does not reuse an id.

### EscortContracts

`contract` is the index entry of a commission ("unoffered" before, "popped"
after); `movements` the escort party on the road for it, of kind
`escort_contract` or `escort_return`, with the roster, the stored `escort_refs`
(`Unlisted`: the key is absent), the clients, the legs still to travel and the
goods; `contacts` the raiders of a fight the player must settle and its winner;
`raids` the raiders of a finished fight on their way to the camp; `wakes` the
`contract_expiry_due` rows; `dossier` the phase of the linked institutional
operation; `cash` and `stock` the purses and stores. `away` are the people whose
location is not the source place.

`Offer`, `Accept`, `Start` and `NpcAcceptStart` are the market, the two player
actions and the autonomous guild. `NextDay` is the calendar with the sweep, which
runs only if `FrontierDue`: the shared frontier exists only where work is due.
`Arrive` is a day on which a leg is completed, with the stop or the closing that
follows in the same service (days of mere progress change nothing here);
`RestEnds`, `RetryReturn`, `Extinguished` the other statuses the service handles;
`Interception` a fight without the player, settled in one service, `PlayerContact`,
`CombatResolved` and `CloseContact` one with the player, over many commands (the
planner may close a resolved contact within the command that resolved it: the
model has that as two steps in a row); `RaidEnds` the raiders' arrival, or the
salvage when nobody is left; `Die` a death for any other reason. `Delivered`,
`Failed`, `CloseReturn` are the branches of `_close_escort`; `Compact` is applied
wherever the code writes a movement back.

Left out: kidnapped clients and their report, a second force that attacks
raiders on their way home, the return of a party the player abandons in an
emergency, travellers who are alive but unfit, rations, mounts and logistics,
quotes, reputation. Nobody leaves a party alive. In the code raiders first mobilize
a pursuit, which holds them until it meets the convoy; here they are taken at the
meeting, so a pursuit that finds nobody is left out. A House convoy always has the
player in it (`start` requires it), so its fights are player contacts.

A player's fight holds its raiders while it lasts and no longer
(`active_combat_person_refs`): between its end and the service that learns of it
they are free, and may attack the other convoy. Their way home is then reserved
like any other, and refused (`attackers_unavailable_for_return`) if one of them is
taken; the prize stays where it was. A commission whose client dies, or whose
accepted party is wiped out, is closed before departure and refunded
(`death_lifecycle.py:912-974`). The player may die like anybody. The House walks back by ordinary travel, which is
not an action here: people who are `away` start nothing more. A commission is
funded once, and raiders form one band for each road at a time.

### ExactCombat

Times are ticks of a quarter of a second or coarser. `Declare` opens an exchange:
arrivals of reinforcements, intents, the medic's support step, the horizon (the
player's own contact, or the next tick). `Resolve` takes the earliest action under
way: it is withheld, loses its target, is cancelled by its own actor's defence, is
stopped by a fall, misses, or meets somebody, whose answer may stop it or hurt the
attacker. Whole seconds settle bodies (`Collapses`). `Withdraw` is the batch of
concurrent withdrawals, `Close` the end of the exchange with what is carried into
the next, `Disengage` the player walking out between two. A defence interrupts what
its maker has under way, except a shot from a hand that does not guard and a hidden
weapon thrown with the free hand (`Archers`, `Throwers`; `_record_defensive_interruption`,
`exact_combat.py:2349-2363`). Repeats of a declared action (`exact_combat.py:4351-4383`)
are left out: they are skipped while the game master judges for the others, which live
play always asks for (`require_gm_npc_judgments`). Withdrawals of one instant are settled
at once, in the code one after the other. `broken`, `landed` and `slipped` are history. Geometry, skill, anatomy, qi and equipment choose between
these outcomes in the code; here each outcome the control flow tells apart may
happen.

### Tournaments

`tour` is the row of the registry with the draw, the pair in the ring and the
escrow; `ops` the trips and delegations with their reserves (fee, board, seats);
`roads` their movements; `agenda` the one-off events with the days left; `silver`
treasuries, markets and purses. Sponsors `Decide` at a judgment; `SetOut`,
`RoadOut`, `TravelArrival` bring people to the host, `RegistrationCloses`,
`Convergence` and `Competition` run the event, with the player's `Register`,
`Spectate`, `AdvanceTournament` and fights between them. A session (`Session`) takes
one entry of the bracket after another, a table over the number of entries instead
of the loop of `advance_individual_competition`: a bye, a forfeit, a match that waits
for the player, or a fight that either may win and one may not survive; `Awarded` pays the purse,
`ReturnEvents` send everyone home. A settlement that raises is refused as a whole
and would raise again: `stuck`. People may be called away, come back and die at
any moment.

### FactionWar

`ops` are the deployments, `roads` their movements, `due` the one-off events,
`pending` and `committed` the judgments, `custody` the prisoners, `wealth`, `arms`
and `holds` who has what. `Launch` mobilizes (raid, war, challenge, scouting),
`DepartLocal`/`DepartRoad` set off with issued arms and a call to allies, the
arrivals fight (`Battle`) against defenders and supporters, and a victory opens an
aftermath judgment whose `Seize` takes silver, stores or captives. `CaptorReview`,
`PayRansom`, `StartRescue` and `Freed` end a captivity. Durations are left out: any
waiting event may be next, except that a judgment is committed and settled in its
own instant. Two battles of one instant may name the same supporter here; the code
keeps a set of those it has used (`warfare.py:1411`), so the model has more behaviours
there, not fewer.

A raid may take silver, goods or weapons of the armoury, of each kind one, half or all
it can carry, and a fight may use up any weapon in it; `lost` collects those, and the
prize of a party nobody is left of, which the code drops with the emptied operation
(`death_lifecycle.py:694-712`). One kind of weapon stands for an armoury.

### HouseMissions

`dossiers` and `archive` are the missions by reference; `field`, `convoys` and
`musters` own the people on the road; `contracts` the commissions some missions
perform; `service` and `grade` the careers. Each event of the world is followed in
the same frontier by the settlement of closed missions (`Settled`): reward, service
record, offer of promotion. Judgments last one moment (`Review`, `Commit`,
`SettleJudgments`), and the player acts in between (`Propose`, `AcceptAssignment`,
`SubmitPlan`, `Dispatch`, `Decline`, `Cancel`, `SettleReward`, `ServiceReview`,
`AnswerCareer`). `Diplomacy` is open to the officers the code names, the chief steward
included, and may move silver from or to another House, whose treasury is not followed
(`outside`). `talked` is history: the dossiers that talks closed over people on the
road. The archive keeps every row; the code keeps 256, so the assumption is that there
are no more missions than that. Treaties and exchanges of prisoners are left out.

### HouseLife

`people` holds the rosters with their dead rows, the independents and the offices;
`family` marriages, households, parents and courtships; `births` and `asked`,
`committed` the rows of the schedule. `MonthlyCycle` is the order of
`settle_faction_cycle_frontier` (stipends, departures, courtship, conception,
requests), `AnnualReview` the deaths of age and the changes of houses, `Birth`,
`Fall` and the judgments the rest. A person is a number so that "first by
reference" has a meaning. Ages, places, trust and the calendar enter as choices.

### Belongings, Estates, HouseEconomy

`Belongings`: of the pieces a person holds, the standing issue belongs to the
house, at most one other owner has a claim on some, the rest is the holder's own.
`Estates`: a site is one compound with one building and one enterprise; `project`
and `wake` the funded work and its reviews; a crew is a set of workers; `Crews` is
`derived_commitment_state`. `HouseEconomy`: a monthly `Review` is one step, its
operations functions from the worlds they may find to the worlds they may leave,
applied in the order of the code, one coin or piece at a time; caravans settle
between and inside reviews; houses die out, and their estate is claimed with the
work that was left.

A boundary project takes in a parcel and lengthens the walls, which stand on land that
nobody reserved. `Parcel` and `WallGrowth` are constants with `WallGrowth <= Parcel`,
which is a fact of the world's data and of the quote, not of `_apply_completion`: walls
take two square metres a metre, a perimeter keeps the shape of its estate
(`infrastructure.py:423`), the walled estates have 455 to 1360 metres around 12,100 to
108,000 square metres, and no parcel is smaller than 500 (`infrastructure.py:410`), so
that walls take about 20 of it. An estate of few square metres inside long walls would
break it. A command of the house that buys or makes something must find room in the
storehouse (`Stored`); reviews and caravans do not ask. A completion on a compound that
is not of the house builds nothing and leaves a row without a wake
(`project_site_invalid`): the model has it, and the invariant shows that it does not
happen. The two other exits without a wake, a row without a site and one whose last
review lies ahead, need rows that no command writes.

## 3. Runs

| run | question |
|---|---|
| `Coordinator` | all safety of the service, the inductive invariant, the refinement of the ledger |
| `CoordinatorLive` | interrupted work ends, delivered work is receipted |
| `Operations` | do threads commit what they planned, and read what is committed? |
| `Bootstrap` | what may be served after any start-up |
| `Frontier` | does the schedule forget or repeat anyone? |
| `Escort` | are money, goods, people and performance of commissions kept through deaths and fights? |
| `Combat` | does the microclock keep causes before effects? |
| `Tournament` | is the draw sound, the silver accounted for, does everyone get home? |
| `War` | are arms, people and prisoners in one place? |
| `Missions` | are rewards, offers and the field kept in step with the dossiers? |
| `Houses` | are rows, marriages and silver kept through births, deaths and changes of houses? |
| `Economy` | land, work, bookings, coins and pieces |

All twelve hold. Every property has a mutant in `PROJECT.json`: a plausible bug in
one mapped definition under which TLC finds the property violated in the same
configuration. Properties that are stated in the modules but are in no
configuration are either proved (section 5), refuted (section 4), type invariants,
or weaker consequences of what is run.

### Bounds, and why they are enough

- `Coordinator`: three commands cover the relations two requests can have: `c1`
  and `c2` compete for a revision, `c3` follows it and reuses the id of `c1` with
  other bytes. Three paths (one the meta file) give every partial order of
  replacement. Two deaths allow a death during the recovery of a death; one
  exception allows the handler to be interrupted too. `CoordinatorLive` has one of
  each, and neither release nor torn temporary: with either the promise is false
  (section 4).
- `Operations`: two executions that compete, the preview that one of them may
  reuse and a snapshot, with one death, one fault and one release.
- `Bootstrap`: two transactions, one release, a good and a bad rebaseline and one
  replaced history, each pushed at any time, revisions up to 2, one death at any
  point, inside a reset too, and one failing rename or raising call.
- `Frontier`: three factions in chunks of one, so that a date takes three
  frontiers and the registry may change in each gap; an annual class in chunks
  of two, which ends on a partial chunk; one route that comes and goes; one
  region; two wakes, one of which may fall between two seconds; one judgment and
  one calendar event; 4 seconds; two changes of the world.
- `Escort`: a mixed convoy with a client and a plain shipment; a House of two, a
  guild of two and two raiders: a party can be thinned and then emptied, the
  raiders can be wiped out (`MaxDeaths` is 2), and a band that is free between its
  fight and the service that closes it can be split over both roads. Two legs give one stop on the way.
  Offers stay open two days; the market has five silver for two rewards of two and
  a toll of one, so an offer or a toll can also be out of reach.
- `Combat`: the player and the enemy strike and shoot with timings that outlast
  the exchange they are declared in, a medic arrives late, three ticks of
  declarations with seconds of two ticks: exchanges with and without a whole second,
  a shot carried over one, a withdrawal between two contacts.
- `Tournament`: four entrants (player, a local, two guests) fill a draw with a
  losers' bracket; one match per session, so a session always ends inside the draw;
  purses of 5, 3, 1, 1 parts that do not divide the escrow; six silver per sponsor,
  so that a delegation, but not two, is affordable; one mishap (death, call away).
- `War`: two neighbours who are allies and bound by a marriage, and a larger house a
  road away; six plans, of which one is launched, two mishaps. Frontage one makes
  battles come in waves; one weapon per armoury makes an issue exclusive.
- `Missions`: a House of three (the player, who is the steward, a leader and a
  member) and two of four possible missions: a scouting and talks the player may
  propose, the talks linked to a commission, and that commission, which both the House
  and the public notice may offer. Talks may cost three silver.
- `Houses`: three worlds of four adults and one child to be: a house of three
  beside one of one, a house of four that may split, a house of two beside two
  independents; three months with a year's end after the second; one violent death.
- `Economy`: four settings, because one world with everything exceeds TLC: building
  and restaffing, trade between two markets with a caravan, a house that dies and is
  claimed, and arms. Each has four people, two houses and two regions with different
  prices; money is small enough that every purchase can also be out of reach.

`CHECK_DEADLOCK FALSE` stands in every configuration because each bound really
ends the behaviour: commands already committed, calls answered, pushes done, the
horizon, the calendar or the mishaps exhausted, a fight decided, a process that
stays down when its start-up is refused.

### Fairness

`FairSpec` of the coordinator: the lock holder's thread runs on (`WF(Work)`); the
platform restarts a dead service (`WF(Boot)`, the restart policy of
`railway.toml`); players keep calling (`WF(Call)`), which matters because only
the next operation recovers what an exception left; and a redeployment is not put
off for ever although calls keep the service busy (`SF(Redeploy)`). Exceptions,
deaths and pushes are not fair.

`Fairness` of `EscortContracts`: days pass (`NextDay`), and each day the road is
served, so a party arrives, a rest ends, an emptied party is settled and raiders
get home. Weak fairness of `Arrive` says that a party that keeps travelling
arrives; interceptions may come first any number of times until one decides.
Nothing is assumed of the player, so a fight may stay open for ever and only the
guild's commissions are claimed to end; nothing of deaths, raiders, the market,
or of a return that waits for provisions (`RetryReturn`).

`Tournaments` assumes that time is advanced again and again (`WF(Timed)`) and
nothing of the player's own matches: `EveryoneGetsHome` excepts a match that waits
for the player, and the states in which time cannot pass any more (section 4).
The other modules state no fairness and their runs claim no liveness.

## 4. What was found

Places where the code does not do what one of its comments, docs or obvious
intentions says. Each was met while modelling; those marked (TLC) are
counterexamples TLC produced for a definition that stays in the module named,
without a configuration. The paths are below `src/runtime/shinobi_runtime/`.

### Transactions and start-up

- A release on top of a delivered but unreceipted command blocks the recovery of
  that command (`tx/coordinator.py:235`). (TLC, `DeliveredIsFinalized` with a
  `Release`)
- A release that lands between a local commit and its push leaves a checkout that no
  retry or restart brings to the new head (`tx/remote.py:288`).
- A death while the temporary file is being written leaves bytes that match
  neither image, and recovery refuses (`tx/coordinator.py:163`). (TLC,
  `RecoveryCompletes` with `TornTemp`)
- The receipt index may be rebuilt, outside the lock, to less than a receipt that
  is published meanwhile. (TLC, `HighWaterCovers` in `CampaignOperations`; the
  theorems of section 5 show that no promise of the protocol rests on the index)
- A retry may be told "stale" although its receipt exists by then, since lookup and
  planning are two critical sections (`api/operations.py:1371`).
- `play_context` reads the scene, the player and the contract index under the lock
  and live combat, social state and `settled_through` after releasing it
  (`api/operations.py:592`), so one answer may mix two revisions. (Not modelled)
- A baseline reset that is cut short after the checkout moved, by a death or by a call
  that raises (`bootstrap.py:541-543`), undoes nothing, and lets the next start serve
  the new baseline unverified and with the old receipts, against
  `docs/RUNTIME_SERVICE_DEPLOYMENT.md:50` ("a bad or incomplete reset rolls back to the
  previous local head and fails closed"). `ServedBaselineIsCertified` and
  `ReceiptsOfTheBaseline` except exactly such baselines (`cut`); TLC refutes both
  without the exception.

### Time and judgments

- A calendar event that shares its timestamp with other work never happens
  (`martial_world/scheduler.py:272`). (TLC, `CalendarEventsHappen`)
- Advancing time consumes pending judgments instead of asking for them
  (`martial_world/frontier_bridge.py:2453`). (TLC, `JudgmentsAreAuthored`)
- Offers staged beside a retinue review overwrite the judgment that review
  registered (`martial_world/time_progression.py:539`).
- Committed appointments and departures are applied twice, by
  `faction_cycle_frontier.py:61-162` and again by `life_frontier.py:240-349`; the
  second raises, and time is refused for ever. (TLC, `CommittedJudgmentsApply`)

### Roads, combat, tournaments

- A delivered House convoy does not travel home: the list of escorts the delivery
  reads was compacted away (`martial_world/route_frontier.py:2480`).
- The tournament command that reads a fought match is refused because the waiting
  match itself makes the fighters busy (`commands/jianghu.py:1046`).
- A registration still open on the day of the competition would be closed in a copy
  that the row with the tickets replaces at once (`martial_world/tournament_frontier.py:1720`,
  `1737`), and the session then raises. The calendar closes it days before
  (`StillOpen` never holds there in a run).
- A purse nobody earned (both finalists dead or gone) raises in the settlement:
  every later time command is refused (`martial_world/tournament_frontier.py:1969`).
- Whoever has left the fight may still hurt somebody with a blow that was under
  way and not released, against `SKILL.md:170` ("a real physical separation";
  `martial_world/exact_combat.py:2482`, `4049`). (TLC, `DepartedAreGone`)
- A treatment starves: the support step asks for 1000 ms of recovery and the hold
  is 250 ms (`exact_combat.py:3068`). A projectile carried past the horizon is
  dropped if its shooter falls. A fighter who retreats with an action under way
  makes later exchanges raise "combat physiology time regressed".

### War, custody and missions

- A rescue review calls a function of three arguments with two
  (`martial_world/autonomy_frontier.py:1534`, `frontier_bridge.py:664`), against the
  comment at 1509: reviews of captives raise. (TLC, `ReviewsFinish`)
- The choices offered after two victories judged in one instant may exclude each
  other; applying the second raises and refuses the whole frontier
  (`martial_world/warfare.py:1205-1230`, against the docstring at 273, "feasible
  post-victory choices"). (TLC, `AftermathsSettle`) Raiders who all die before they
  set off take their prize out of the world (`death_lifecycle.py:694-712`; `lost`).
- A hurt supporter is dropped from its own support operation, attackers who are all
  incapacitated at an undefended site win, freed captives get no journey home, the
  gear of corpses is reclaimed while it is still theirs (`death_lifecycle.py:668`).
  (TLC for the last, `CorpsesKeepTheirArms`)
- A dossier may stay open after its commission expired (`NoOrphans`, against the
  docstring of `institutional_progression.py:537`) or with nobody in the field
  (`MissionsClose`), and a decision of the House may be outdated by what the player
  does before it is settled, which refuses time (`SettlementGoesOn`). (TLC)
- A leader, deputy or chief steward who names a dossier of his House with a proposal of
  talks closes it whatever its kind and phase, with its people still on the road
  (`commands/jianghu_extended.py:1969-1974`, against `:1958`, which requires an approved
  diplomatic mission of anybody else). A proposal of another kind than an escort may
  name a commission (`commands/jianghu_institutional.py:171-178`), and its dossier is
  then closed by that commission. `FieldIsOnPaper` excepts the dossiers of the first and
  the commissions of the second, and says that nothing else in the code has that effect.
  Without the first exception TLC refutes it in the shipped instance. Without the second
  it takes a reconnaissance linked to the commission and listed before the escort, with a
  roster of its own: the start of the escort puts that first dossier in the field, and
  the scouts' return files it away while the convoy is still out.
- A cancelled or expired mission posts a completed service to everyone on its roll
  (`institutional_operations.py:57`), and the player's settlement pays a commander
  who did not return, which the autonomous one does not.

### Houses and economy

- Stipends and training are undone in every house with a dead row
  (`faction_cycle_frontier.py:259-326`); natural deaths of penniless members are undone
  (`life_frontier.py:503`). (TLC for the latter, `WidowsLostSomebody`)
- A merger or split settled with another committed judgment of a touched house
  loses or doubles silver (`frontier_bridge.py:2488-2497`). (TLC, `SilverIsConserved`
  of `HouseLife`)
- Restaffing replaces every worker: a site's own workers count as unavailable,
  against the comment at `project_frontier.py:97`.
- Two concurrent expansions each check only the current scale. (TLC,
  `ScaleWithinBasis`) Two upgrades of one building may set its level back.
- Returning a claimed piece to the armoury leaves a claim on more than is held.
  (TLC, `ClaimsArePhysical`) A demand survives the claim it rests on. (TLC,
  `DemandsRestOnClaims`) Gifts and returns erase claims of third parties.
- Poisons in a dead house's store stay there when its estate is claimed.

## 5. Proofs

Checked by TLAPS for every value of the constants that the named `ASSUME`s of the
modules allow; there are no other assumptions. Eight modules hold theorems.

### The transaction layer

`ServiceFrontierAndTournamentProofs`, first part: every set of commands, requests, paths and
releases, any number of deaths and faults. `ExactlyOnce` is not inductive: a
second commit of a request is prevented by its receipt, but the receipt comes many
steps after the commit and a death may delay it. `IInv` therefore says where a commit
without a receipt can be: in the write-ahead log, still pending (`WalInv`); that at
most one transaction is, and none once recovery has passed; that commands on the
shared branch are on the local one and receipts name delivered commands only
(`BranchInv`); that a request being executed has no receipt (`RequestInv`); what an
answer under way is entitled to say (`AnswerInv`); and who holds the lock for whom
(`ControlInv`), since main path, recovery and abort handler share their steps. These
six are `ProtocolInv`. What the receipt index knows (`IndexInv`) is kept apart,
because the protocol does not depend on it, and in the composition it is false (no
theorem and no run claims it).
`FileInv` (`TreeInv`, `DiskInv`) relates HEAD, index, worktree and before-images at
every step: which file holds which command's contents, and who can put it back.

- `Invariance`, `TypeCorrect`, `RequestsCommitOnce`, `AcknowledgementsAreDurable`,
  `OneTransactionPending`;
- `RemoteIsNeverRewritten`, `NegativeAnswersHold`: action properties;
- `FileInvariance`, `OwnersAreNeverStale`, `DirtCanBeUndone`,
  `ReceiptsFollowTheCampaign`;
- `CoordinatorIsLedger`: every step maps to a step of `CampaignLedger` or a stutter.

Its second part carries this through the composition with threads:
`ServiceInv` joins `ProtocolInv` and `FileInv` to what a call knows before it has
the lock, while it has it and after. `ServiceInvariance`, `SnapshotsAreCommitted`
(no read shows an uncommitted file), `CommitsArePlanned` (what is committed was
planned from the files it replaces), `ServiceKeepsPromises`, `ServiceIsLedger`.

`BootstrapAndCombatProofs`, first part: `BootInv` says which histories share a name, which
transactions are accounted for by a receipt or the log, and how far an interrupted
start-up got. `BootstrapInvariance`, `StartUpsMoveForward` (the served revision of a
lineage never goes back), `ServedBaselinesAreVerified` and
`ReceiptsAnswerTheirBaseline`, for any number of deaths and raising calls inside resets;
the exception of both, a baseline whose own reset was cut short, is part of the
statement (section 4).

### The world

- `ServiceFrontierAndTournamentProofs`, third part: `NoObligationIsSkipped` and `OneTurnPerDate`. The invariant
  ties the cursor of a class to the owners already served at its date (`RoundInv`);
  without it nothing excludes that a shrinking registry moves a cursor past an owner.
- `BootstrapAndCombatProofs`, second part: `CombatTypeCorrect`, `TimeNeverRegresses`,
  `NoBlowOutOfTime` (no blow lands that its actor's own defence had cancelled).
  `ClockInv` bounds every instant of an exchange by its horizon, `InterruptionInv` and
  `BrokenInv` say what is left under way of the fallen and of those who defend.
- `EscortContractsProofs`: `PerformanceIsOwned`, `NobodyTravelsTwice`, and with the
  money, `SilverIsConserved` and `LotsAreConserved`. A band that is free before its fight
  is closed keeps its seats apart because every seat, the way home included, is checked
  against the movements, and only the player's fight can be waiting to be closed. The latter need `AccountInv`:
  sums over purses, escrows and cargo are functions of finite sets, so each step is a
  change at one or two points of them.
- `HouseEconomyProofs`: `LandIsNeverPromisedTwice`, `WorkIsAlwaysDue`,
  `NobodyWorksTwice`; `EconomyInv` says in addition that whoever is left of an extinct
  house is dead or away, that a living house owns its home, and that work stands on a
  compound of its house. The land needs `WallGrowth <= Parcel`. `CoinsAreKept` and
  `PiecesAreKept`: the columns of stores, people, markets and carts are sums over
  finite sets, and each operation changes at most one row of each. A review is a chain
  of choices: each of its stages leaves only worlds with as much in them as the one it
  found (`AllEven`), so the length and order of the chain do not matter. They need
  `Waiting`, which no run asks for: a caravan that waits has no food left, or the food
  it is sent for the way home would replace what it has.
- `HouseLifeProofs`: `RowsAreUnique`, `BondsAreOfTheLiving`, `SilverMoves`, from
  `LifeInv` (`LifeInvariance`), whose parts need each other. One row per person
  (`Placed`) survives a split or a foundation only because a house that was never
  founded is empty (`Empty`) and what a judgment proposes is checked against the rows
  again when it is settled; it survives a birth because the child is in no row yet
  (`Awaited`). Bonds stay exclusive (`Bonds`) because a settled judgment is about a
  couple, and of new courtships at most one is pending (`Pleas`): two settled together
  could share a person. For the same reason it does not matter that `Settle` applies
  at once what the code applies one by one.
  A pregnancy has its birth (`Expected`), and only one, since a child is awaited once.
  Silver: each operation is `Booked` with the treasuries it may touch. Stipends and
  the cost of a foundation are paid person by person until nothing is left or owed;
  `PaidInOrder` gives what they come to.
- `FactionWarProofs`: `WarIsTyped`, `EverybodyHasOnePlace`, `PrisonersAreWhereRecorded`
  from `WarInv`. That a record points at the
  party that has the prisoner is not inductive: the party may be moved by an event
  nobody cancelled, thinned by a battle elsewhere, or be sent out again. `OpsSound` and
  `RoadsSound` say what an operation and a road hold at each stage (captives travel with
  the party that took them; the dead serve nothing, except a way home booked too late);
  `Outward` and `Homebound` that a road and its operation agree and that the wake which
  would move the party again is not due; `Records` that a prisoner lives and has one
  record; `Recorded` the place; `Judged` that an aftermath is judged about people who
  are still nobody's soldiers or prisoners; `Alone` that nobody serves twice. Each kind
  of step has its lemma: nobody moves, an operation begins, one advances, people leave
  one, a death thins every party. Calls to allies are an `Alone` argument: the called
  are free, and the answers are disjoint because houses are. A batch of aftermaths is a
  recursive function of the sequence; the proof follows it from the start to the least
  index at which a choice is refused.
- `HouseMissionsProofs`: `MissionTypesHold`, `RewardsArePaidOnce`, `OpenOffersAreCurrent`
  from `LedgerInv`: what is unpaid is not entered (`Clean`), a mission filed before its
  end has no pay (`FiledUnpaid`), purses hold what the archive entered and treasury,
  purses and the world outside what there was (`MoneyIsEntered`), an open offer names
  the grade it was counted from and is alone (`OffersSound`). Each event is followed by
  the settlement of all closed missions, a recursive function: if some prefix broke the
  invariant, the shortest one would have done so in one settlement. `FieldStaysOnPaper`
  needs `RoadInv` as well (`RoadsAreTaken`: who owns which road), and has no hypothesis on
  offices or links: its two exceptions are part of the property (section 4), and the
  instance TLC checks has officers who name other dossiers for talks and talks linked to
  the commission.
- `ServiceFrontierAndTournamentProofs`, last part: `TournamentTypes`, `DrawStaysSound`,
  `SilverStaysAccounted` and `SessionsAlwaysEnd` from `TournamentInv`. `DrawIsSound` says
  nothing of the runner-up, the last loser or the rounds people lost in, and so is not
  inductive: the crowning writes the first two places from them and draws the second
  bracket from the third. `Separate` (nobody stands twice), `Ranked` (whoever has a
  place stands no more, and no two places are one person's) and `Awaiting` (the
  loser of a final stands no more, and the places of a bracket stay open until it ends)
  are what a row keeps while it runs.
  They hold of a draw because the rank of a person in a list by seed, or by the round
  of the loss, numbers the list (`RankNumbers`), so that best against worst meets nobody
  twice (`DrawSeparates`). A session is a table of its entries: the least entry after
  which a row were out of order would have had one in order before it (`SessionRuns`).
  The same argument with a measure, three for each entry of the bracket, two for each
  winner, and three for each person while the second bracket is to come, shows that the
  loop is over before the table is (`SessionsAlwaysEnd`): in the code it terminates, in
  the model `MaxEntries` cuts nothing off. Silver: `TripInv` says that whoever is at
  the tournament keeps no reserve, so sending everyone home gives nothing away; a purse
  is divided over the earned places with the rest in the last (`WholePurse`), and each
  award into two rounded shares (`AllAwarded`); deaths refund exactly the deployments
  they empty (`Refunded`).
- `SumTheorems`: sums of `SumFunction` and columns of tables: one row changes, two rows
  exchange, a column counts a set, payments in turn out of a limited amount. The
  library's induction theorems take operators and cannot be used, so these are proved
  by the smallest counterexample.

### Only model-checked, and why

- Liveness (`RecoveryCompletes`, `DeliveredIsFinalized`, `GuildContractsEnd`,
  `EveryoneGetsHome`): fairness is ENABLED, out of the prover's reach. In
  `CausalFrontier` liveness is out of TLC's reach too, so the module states none.
- `ValueIsAccounted` of `FactionWar`: the sums over operations, movements, hands and
  armouries change at several points in one battle or one settlement of many, and the
  proof of that has not been done.

The assumptions on constants say: names of people and houses are finite and
distinct, rosters of houses are disjoint, amounts are natural numbers
(`WarAssumption`); a mission of kind escort names its commission
(`jianghu_institutional.py:178`), and a commission is on one public notice
(`institutional_operations.py`, `ensure_contract_dossier`, which names the dossier after
the contract; `MissionAssumption`); a boundary takes in at least the land of its walls
(`EstatesAssumption`). TLC evaluates each of them in every run of its module.

## 6. Limits and plan

Not modelled: the arithmetic of bodies, prices, training and combat rolls (numbers
no property tells apart, so outcomes are choices); projections for the game master
(pure reads); transport and credentials (I/O); preview attestation, repair and
freshness (guards and tools around the operations modelled); scene sessions; the
emergency return of an abandoned convoy (`route_frontier.py:2063-2136`); the monthly
regeneration of markets (`regional_frontier.py`); game data, tools and tests.

What would be worth doing next: that the agenda of `Tournaments` holds
every event the way home needs, the safety half of `EveryoneGetsHome`; of `HouseLife`,
that households follow their house and the dead own nothing; scene sessions and
attestation as further guards of `CampaignOperations`.
