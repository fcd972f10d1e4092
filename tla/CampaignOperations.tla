------------------------- MODULE CampaignOperations -------------------------
(***************************************************************************)
(* The operations of shinobi_runtime.api as the worker threads of one      *)
(* service process run them over the transaction coordinator.  Each call   *)
(* is one HTTP or MCP request.  Executing a command is not one critical    *)
(* section but three: a receipt lookup, a planning pass and the            *)
(* transaction each take the writer lock and give it back, and before the  *)
(* first and the last the receipt index is read, and may be rewritten,     *)
(* without any lock.                                                       *)
(*                                                                         *)
(* This module composes the threads with TransactionCoordinator: a call    *)
(* that takes the lock starts one of its operations, and its answer        *)
(* resumes the call.                                                       *)
(***************************************************************************)
EXTENDS TransactionCoordinator

CONSTANTS
  CallId,    \* the requests in flight
  CommandOf, \* [CallId -> Command]: the envelope each one carries
  KindOf,    \* [CallId -> Kinds]
  NoPlan     \* no plan, no holder

Kinds == {"execute", "lookup", "preview", "snapshot"}

\* A plan was built for one command, from one state of the files, at one head.
Plans == [for : Command, basis : [Path -> Content], head : Seq(Commits)]

ASSUME OperationsAssumption ==
  /\ CommandOf \in [CallId -> Command]
  /\ KindOf \in [CallId -> Kinds]
  /\ NoPlan \notin CallId \cup Plans

VARIABLES
  at,       \* where each call is
  phase,    \* which coordinator operation it is heading for
  seen,     \* the revision it read from state/meta.json
  newest,   \* the newest receipt its index rebuild found
  plan,     \* the plan it carries from planning to the transaction
  cache,    \* the planner's one validated preview
  holder,   \* the call that holds the writer lock
  outcome   \* what it was answered

callVars == <<at, phase, seen, newest, plan, cache, holder, outcome>>
opsVars == <<vars, callVars>>

Places == {"new", "read", "index", "scan", "rebuild", "write", "recheck", "lock",
           "held", "plan", "planning", "view", "viewing", "done"}
Outcomes == Answers \cup {"refused", "unavailable", "rejected", "ready", "read"}

OperationsTypeOK ==
  /\ TypeOK
  /\ at \in [CallId -> Places]
  /\ phase \in [CallId -> {"lookup", "execute"}]
  /\ seen \in [CallId -> Nat]
  /\ newest \in [CallId -> Nat]
  /\ plan \in [CallId -> Plans \cup {NoPlan}]
  /\ cache \in Plans \cup {NoPlan}
  /\ holder \in CallId \cup {NoPlan}
  /\ outcome \in [CallId -> Outcomes]

OperationsInit ==
  /\ Init
  /\ at = [t \in CallId |-> "new"]
  /\ phase = [t \in CallId |-> "lookup"]
  /\ seen = [t \in CallId |-> 0]
  /\ newest = seen
  /\ plan = [t \in CallId |-> NoPlan]
  /\ cache = NoPlan
  /\ holder = NoPlan
  /\ outcome = [t \in CallId |-> "none"]

-----------------------------------------------------------------------------
(* Helpers *)

Serving == pc # "down" /\ op # "boot"
LockFree == pc = "idle" /\ holder = NoPlan

MoveTo(t, place) == at' = [at EXCEPT ![t] = place]

Finish(t, answer) ==
  /\ MoveTo(t, "done")
  /\ outcome' = [outcome EXCEPT ![t] = answer]

-----------------------------------------------------------------------------
(* A request arrives *)

Arrive(t) ==
  /\ Serving
  /\ at[t] = "new"
  /\ MoveTo(t, IF KindOf[t] \in {"execute", "lookup"} THEN "read" ELSE "view")
  /\ UNCHANGED <<vars, phase, seen, newest, plan, cache, holder, outcome>>

-----------------------------------------------------------------------------
(* _assert_receipt_integrity, before each coordinator operation, unlocked *)

ReadRevision(t) ==
  /\ at[t] = "read"
  /\ seen' = [seen EXCEPT ![t] = RevisionOf(disk[Meta])]
  /\ MoveTo(t, "index")
  /\ UNCHANGED <<vars, phase, newest, plan, cache, holder, outcome>>

ReadIndex(t) ==
  /\ at[t] = "index"
  /\ MoveTo(t, IF highWater <= seen[t] THEN "lock" ELSE "scan")
  /\ UNCHANGED <<vars, phase, seen, newest, plan, cache, holder, outcome>>

ScanFuture(t) ==
  /\ at[t] = "scan"
  /\ IF \E c \in receipts : RevisionOf(c) > seen[t]
     THEN Finish(t, "refused")
     ELSE MoveTo(t, "rebuild") /\ UNCHANGED outcome
  /\ UNCHANGED <<vars, phase, seen, newest, plan, cache, holder>>

\* rebuild_index reads every receipt, then replaces the index file.
ScanReceipts(t) ==
  /\ at[t] = "rebuild"
  /\ \E n \in {0} \cup {RevisionOf(c) : c \in receipts} :
       /\ \A c \in receipts : RevisionOf(c) <= n
       /\ newest' = [newest EXCEPT ![t] = n]
  /\ MoveTo(t, "write")
  /\ UNCHANGED <<vars, phase, seen, plan, cache, holder, outcome>>

WriteIndex(t) ==
  /\ at[t] = "write"
  /\ highWater' = newest[t]
  /\ MoveTo(t, "recheck")
  /\ UNCHANGED <<origin, gitVars, fileVars, walVars, receipts, jobVars, reply,
                 budgetVars, phase, seen, newest, plan, cache, holder, outcome>>

RecheckIndex(t) ==
  /\ at[t] = "recheck"
  /\ IF highWater > seen[t]
     THEN Finish(t, "refused")
     ELSE MoveTo(t, "lock") /\ UNCHANGED outcome
  /\ UNCHANGED <<vars, phase, seen, newest, plan, cache, holder>>

-----------------------------------------------------------------------------
(* The writer lock *)

\* The call's thread runs coordinator.lookup_receipt or coordinator.execute.
Acquire(t) ==
  /\ at[t] = "lock"
  /\ holder = NoPlan
  /\ Start(CommandOf[t], phase[t])
  /\ holder' = t
  /\ MoveTo(t, "held")
  /\ UNCHANGED <<phase, seen, newest, plan, cache, outcome>>

\* A waiter gives up after lock_timeout_seconds.
TimeOut(t) ==
  /\ at[t] \in {"lock", "plan", "view"}
  /\ Serving /\ ~LockFree
  /\ Finish(t, "unavailable")
  /\ UNCHANGED <<vars, phase, seen, newest, plan, cache, holder>>

\* guarded(): the planned head must still be the head when the overlay is
\* validated.
Guarded(t) == pc = "validate" /\ pc' = "apply" => plan[t].head = log

\* The coordinator answers and releases the lock.
Return(t) ==
  /\ holder' = NoPlan
  /\ IF phase[t] = "lookup" /\ KindOf[t] = "execute" /\ reply'[CommandOf[t]] = "absent"
     THEN MoveTo(t, "plan") /\ UNCHANGED outcome
     ELSE Finish(t, reply'[CommandOf[t]])

\* One step of the operation that the holder runs.
HolderStep(t) ==
  /\ holder = t
  /\ at[t] = "held"
  /\ Work \/ Fault \/ PushUnacknowledged
  /\ Guarded(t)
  /\ IF pc' = "idle" THEN Return(t) ELSE UNCHANGED <<at, holder, outcome>>
  /\ UNCHANGED <<phase, seen, newest, plan, cache>>

-----------------------------------------------------------------------------
(* Planning and reading, each under the lock *)

TakeLock(t, from, to) ==
  /\ at[t] = from
  /\ LockFree
  /\ IF Pristine
     THEN holder' = t /\ MoveTo(t, to) /\ UNCHANGED outcome
     ELSE Finish(t, "unavailable") /\ UNCHANGED holder

PlanBegin(t) ==
  /\ TakeLock(t, "plan", "planning")
  /\ UNCHANGED <<vars, phase, seen, newest, plan, cache>>

Build(t) == [for |-> CommandOf[t], basis |-> disk, head |-> log]

\* Mutation: the cache is keyed by the base revision alone.
CachedByRevision(t) ==
  cache # NoPlan /\ Base[cache.for] = Base[CommandOf[t]]

\* A preview of the very same command at the very same base is used once.
Cached(t) == cache # NoPlan /\ cache.for = CommandOf[t]

\* CommandPlanner.plan: stale, rejected, or a plan for the transaction.
PlanEnd(t) ==
  /\ at[t] = "planning"
  /\ holder' = NoPlan
  /\ IF RevisionOf(disk[Meta]) # Base[CommandOf[t]]
     THEN Finish(t, "stale") /\ UNCHANGED <<phase, plan, cache>>
     ELSE \/ /\ ~Cached(t)
             /\ Finish(t, "rejected")
             /\ UNCHANGED <<phase, plan, cache>>
          \/ /\ plan' = [plan EXCEPT ![t] =
                           IF Cached(t) THEN [cache EXCEPT !.head = log] ELSE Build(t)]
             /\ cache' = IF Cached(t) THEN NoPlan ELSE cache
             /\ phase' = [phase EXCEPT ![t] = "execute"]
             /\ MoveTo(t, "read")
             /\ UNCHANGED outcome
  /\ UNCHANGED <<vars, seen, newest>>

ViewBegin(t) ==
  /\ TakeLock(t, "view", "viewing")
  /\ UNCHANGED <<vars, phase, seen, newest, plan, cache>>

\* preview_command keeps the plan it validated.
Preview(t) ==
  /\ at[t] = "viewing"
  /\ KindOf[t] = "preview"
  /\ holder' = NoPlan
  /\ IF RevisionOf(disk[Meta]) # Base[CommandOf[t]]
     THEN Finish(t, "stale") /\ UNCHANGED cache
     ELSE \/ Finish(t, "rejected") /\ UNCHANGED cache
          \/ Finish(t, "ready") /\ cache' = Build(t)
  /\ UNCHANGED <<vars, phase, seen, newest, plan>>

\* Mutation: the snapshot waits for no lock and accepts a dirty checkout.
SnapshotUnlocked(t) ==
  /\ at[t] \in {"view", "viewing"}
  /\ Serving
  /\ KindOf[t] = "snapshot"
  /\ holder' = IF holder = t THEN NoPlan ELSE holder
  /\ seen' = [seen EXCEPT ![t] = RevisionOf(disk[Meta])]
  /\ Finish(t, "read")
  /\ UNCHANGED <<vars, phase, newest, plan, cache>>

\* campaign_snapshot answers with the revision it read.
Snapshot(t) ==
  /\ at[t] = "viewing"
  /\ KindOf[t] = "snapshot"
  /\ holder' = NoPlan
  /\ seen' = [seen EXCEPT ![t] = RevisionOf(disk[Meta])]
  /\ Finish(t, "read")
  /\ UNCHANGED <<vars, phase, newest, plan, cache>>

-----------------------------------------------------------------------------
(* The process around the threads *)

\* Recovery runs before the service accepts requests.
StartUp ==
  /\ \/ Boot
     \/ op = "boot" /\ (Work \/ Fault \/ PushUnacknowledged)
  /\ UNCHANGED callVars

\* The process ends, and with it every request in flight and the preview.
Stop ==
  /\ Crash \/ Redeploy
  /\ at' = [t \in CallId |-> IF at[t] = "new" THEN "new" ELSE "done"]
  /\ outcome' = [t \in CallId |->
                   IF at[t] \in {"new", "done"} THEN outcome[t] ELSE "lost"]
  /\ holder' = NoPlan
  /\ cache' = NoPlan
  /\ UNCHANGED <<phase, seen, newest, plan>>

Release_(r) == PushRelease(r) /\ UNCHANGED callVars

CallStep(t) ==
  \/ ReadRevision(t) \/ ReadIndex(t) \/ ScanFuture(t) \/ ScanReceipts(t)
  \/ WriteIndex(t) \/ RecheckIndex(t)
  \/ Acquire(t) \/ TimeOut(t) \/ HolderStep(t)
  \/ PlanBegin(t) \/ PlanEnd(t) \/ ViewBegin(t) \/ Preview(t) \/ Snapshot(t)

OperationsNext ==
  \/ \E t \in CallId : Arrive(t) \/ CallStep(t)
  \/ StartUp \/ Stop
  \/ \E r \in Release : Release_(r)

OperationsSpec == OperationsInit /\ [][OperationsNext]_opsVars

-----------------------------------------------------------------------------
(* Properties *)

\* Whatever is committed was planned for that very command, from exactly the
\* files the commit replaces: no other writer came between the critical
\* sections, and no preview of another command was reused.
CommitsWhatWasPlanned ==
  [][\A t \in CallId :
       holder = t /\ at[t] = "held" /\ tx # None /\ Len(log') > Len(log) =>
         plan[t].for = tx /\ plan[t].basis = tree]_opsVars

\* A revision that a snapshot has shown is a committed one and stays so.
ReadsAreCommitted ==
  \A t \in CallId : outcome[t] = "read" => seen[t] <= RevisionOf(tree[Meta])
=============================================================================
