----------------------- MODULE TransactionCoordinator -----------------------
(***************************************************************************)
(* The lock-scoped transaction service of shinobi_runtime.tx: one writer   *)
(* applies a manifest of campaign files, records it in a write-ahead log,  *)
(* commits it with Git, delivers it to the shared remote branch and        *)
(* publishes an idempotency receipt.  The process may die before any step, *)
(* any step may raise, acknowledgements of a push may be lost, and source  *)
(* releases may be pushed to the same remote branch at any moment.         *)
(*                                                                         *)
(* A Git head is represented by its history: log is the sequence of        *)
(* commits the local branch reaches, origin the one the remote branch      *)
(* reaches, so two heads are the same commit iff the sequences are equal,  *)
(* and the parent of a head is its Front.  The contents of a campaign file *)
(* are named by the command that last wrote it.                            *)
(***************************************************************************)
EXTENDS Naturals, Sequences, SequencesExt

CONSTANTS
  Command,     \* distinct command envelopes; also their transaction ids
  Request,     \* request identities
  RequestOf,   \* [Command -> Request]
  Base,        \* [Command -> Nat]: expected_revision
  Path,        \* campaign files under state/
  Meta,        \* state/meta.json, the file that advertises the revision
  Writes,      \* [Command -> SUBSET Path]: the manifest paths
  Release,     \* source releases that may be pushed to the shared branch
  Initial,     \* contents no command has written yet
  None,        \* no command
  MaxCrashes,  \* bound: process deaths
  MaxFaults,   \* bound: ordinary exceptions, push failures included
  TornTemp     \* may a death leave a half-written temporary file?

Content == Command \cup {Initial}
Commits == Command \cup Release

ASSUME ConstantsAssumption ==
  /\ RequestOf \in [Command -> Request]
  /\ Base \in [Command -> Nat]
  /\ Writes \in [Command -> SUBSET Path]
  /\ Meta \in Path
  /\ \A c \in Command : Meta \in Writes[c]
  /\ Command \cap Release = {}
  /\ Initial \notin Command
  /\ None \notin Command
  /\ MaxCrashes \in Nat
  /\ MaxFaults \in Nat
  /\ TornTemp \in BOOLEAN

VARIABLES
  origin,     \* history of the remote branch
  log,        \* history of the local branch
  tree,       \* campaign files at the local HEAD
  index,      \* campaign files in the Git index
  disk,       \* campaign files in the worktree
  temp,       \* temporary files a death left beside their targets
  wal,        \* wal/pending: status of each transaction
  archive,    \* wal/terminal: status of each transaction
  before,     \* before-images recorded with each transaction
  receipts,   \* commands whose receipt is published
  highWater,  \* the receipt store's maximum-revision index
  pc,         \* next step of the lock holder; "idle": lock free
  op,         \* the public operation that holds the lock
  cmd,        \* the command it was called with
  ctx,        \* who drives tx: the main path, recovery or the abort handler
  tx,         \* the transaction being driven
  reply,      \* last answer each command's sender got
  crashes,
  faults

gitVars == <<log, tree, index>>
fileVars == <<disk, temp>>
walVars == <<wal, archive, before>>
receiptVars == <<receipts, highWater>>
jobVars == <<pc, op, cmd, ctx, tx>>
budgetVars == <<crashes, faults>>
vars == <<origin, gitVars, fileVars, walVars, receiptVars, jobVars, reply,
          budgetVars>>

Steps == {"recover", "unwind", "restore", "mark_rolled_back", "archive",
          "preflight", "integrity", "lookup", "prepare", "validate", "apply",
          "mark_applied", "stage", "commit", "readback", "durable", "push",
          "verify", "mark_committed", "note_revision", "receipt"}

Answers == {"none", "committed", "duplicate", "absent", "conflict", "stale",
            "error", "lost"}

TypeOK ==
  /\ origin \in Seq(Commits)
  /\ log \in Seq(Commits)
  /\ tree \in [Path -> Content]
  /\ index \in [Path -> Content]
  /\ disk \in [Path -> Content]
  /\ temp \in SUBSET (Path \X {"whole", "torn"})
  /\ wal \in [Command -> {"none", "prepared", "applied", "committed",
                          "rolled_back"}]
  /\ archive \in [Command -> {"none", "committed", "rolled_back"}]
  /\ before \in [Command -> [Path -> Content]]
  /\ receipts \in SUBSET Command
  /\ highWater \in Nat
  /\ pc \in Steps \cup {"idle", "down"}
  /\ op \in {"none", "boot", "lookup", "execute"}
  /\ cmd \in Command \cup {None}
  /\ ctx \in {"none", "main", "recovery", "abort"}
  /\ tx \in Command \cup {None}
  /\ reply \in [Command -> Answers]
  /\ crashes \in 0..MaxCrashes
  /\ faults \in 0..MaxFaults

-----------------------------------------------------------------------------
(* Helpers *)

Holds(history, commit) == \E i \in DOMAIN history : history[i] = commit

\* The revision that file contents advertise when they are state/meta.json.
RevisionOf(content) == IF content = Initial THEN 0 ELSE Base[content] + 1

Pending == {c \in Command : wal[c] # "none"}

Pristine == disk = index /\ index = tree /\ temp = {}

Synchronized == log = origin

\* Every manifest file holds its before-image or its after-image.
Classifiable(c) == \A p \in Writes[c] : disk[p] \in {before[c][p], c}
Applied(c) == \A p \in Writes[c] : disk[p] = c

\* Paths that differ between two views of the campaign files.
Differing(f, g) == {p \in Path : f[p] # g[p]}

OwnReceipt(c) == \E d \in receipts : RequestOf[d] = RequestOf[c]
OtherReceipt(c) == \E d \in receipts : RequestOf[d] = RequestOf[c] /\ d # c

Greater(m, n) == IF m > n THEN m ELSE n

GoTo(step) ==
  /\ pc' = step
  /\ UNCHANGED <<op, cmd, ctx, tx, reply>>

Idle ==
  /\ op' = "none"
  /\ cmd' = None
  /\ ctx' = "none"
  /\ tx' = None

\* The operation ends and releases the lock; a failed start-up ends the process.
Answer(a) ==
  /\ pc' = IF op = "boot" THEN "down" ELSE "idle"
  /\ Idle
  /\ reply' = IF cmd = None THEN reply ELSE [reply EXCEPT ![cmd] = a]

\* An ordinary exception: before a commit exists the handler rolls back.
Raise ==
  IF ctx = "main" /\ ~Holds(log, tx)
  THEN /\ pc' = "unwind"
       /\ ctx' = "abort"
       /\ UNCHANGED <<op, cmd, tx, reply>>
  ELSE Answer("error")

-----------------------------------------------------------------------------
Init ==
  /\ origin = <<>>
  /\ log = <<>>
  /\ tree = [p \in Path |-> Initial]
  /\ index = tree
  /\ disk = tree
  /\ temp = {}
  /\ wal = [c \in Command |-> "none"]
  /\ archive = wal
  /\ before = [c \in Command |-> tree]
  /\ receipts = {}
  /\ highWater = 0
  /\ pc = "down"
  /\ op = "none"
  /\ cmd = None
  /\ ctx = "none"
  /\ tx = None
  /\ reply = [c \in Command |-> "none"]
  /\ crashes = 0
  /\ faults = 0

-----------------------------------------------------------------------------
(* Entering: start-up and the two public operations *)

\* bootstrap.ensure_checkout within one lineage: a dirty checkout is kept only
\* beside a recoverable WAL at the remote head; a clean one is fast-forwarded,
\* or kept when it is ahead.  Anything else refuses to start.
Boot ==
  /\ pc = "down"
  /\ \/ /\ ~Pristine
        /\ Synchronized
        /\ Pending # {}
        /\ log' = log
     \/ /\ Pristine
        /\ IsPrefix(log, origin)
        /\ log' = origin
     \/ /\ Pristine
        /\ IsPrefix(origin, log)
        /\ log' = log
  /\ pc' = "recover"
  /\ op' = "boot"
  /\ UNCHANGED <<origin, tree, index, fileVars, walVars, receiptVars, cmd, ctx,
                 tx, reply, budgetVars>>

\* Mutation: take the lock without recovering.
StartUnrecovered(c, operation) ==
  /\ pc = "idle"
  /\ pc' = "preflight"
  /\ op' = operation
  /\ cmd' = c
  /\ UNCHANGED <<origin, gitVars, fileVars, walVars, receiptVars, ctx, tx,
                 reply, budgetVars>>

\* lookup_receipt(c) and execute(c) take the writer lock and recover first.
Start(c, operation) ==
  /\ pc = "idle"
  /\ pc' = "recover"
  /\ op' = operation
  /\ cmd' = c
  /\ UNCHANGED <<origin, gitVars, fileVars, walVars, receiptVars, ctx, tx,
                 reply, budgetVars>>

-----------------------------------------------------------------------------
(* _recover_locked *)

ToArchive(c) ==
  /\ wal' = [wal EXCEPT ![c] = "none"]
  /\ archive' = [archive EXCEPT ![c] = wal[c]]
  /\ UNCHANGED before

\* Mutation: a committed record is archived whether or not its receipt exists.
FinishedUnreceipted(c) == wal[c] \in {"rolled_back", "committed"}

\* A terminal record that was never archived needs no more than that.
Finished(c) ==
  \/ wal[c] = "rolled_back"
  \/ wal[c] = "committed" /\ c \in receipts /\ ~OtherReceipt(c)

RecoverTerminal(c) ==
  /\ pc = "recover"
  /\ Finished(c)
  /\ ToArchive(c)
  /\ UNCHANGED <<origin, gitVars, fileVars, receiptVars, jobVars, reply,
                 budgetVars>>

Drive(c, step) ==
  /\ pc' = step
  /\ ctx' = "recovery"
  /\ tx' = c
  /\ UNCHANGED <<op, cmd, reply>>

\* A Git commit carries the transaction: finish it.
CanFinish(c) == Holds(log, c) /\ Applied(c) /\ Pristine

\* Mutation: files of which only some were replaced are taken for divergent.
CanUnwindWhole(c) ==
  /\ ~Holds(log, c)
  /\ wal[c] # "committed"
  /\ c \notin receipts
  /\ Applied(c) \/ \A p \in Writes[c] : disk[p] = before[c][p]
  /\ Synchronized

\* No commit exists: roll back, but only at the remote head.
CanUnwind(c) ==
  /\ ~Holds(log, c)
  /\ wal[c] # "committed"
  /\ c \notin receipts
  /\ Classifiable(c)
  /\ Synchronized

RecoverPending(c) ==
  /\ pc = "recover"
  /\ c \in Pending /\ ~Finished(c)
  /\ CASE OtherReceipt(c) -> Answer("error")
       [] ~OtherReceipt(c) /\ CanFinish(c) -> Drive(c, "durable")
       [] ~OtherReceipt(c) /\ CanUnwind(c) -> Drive(c, "unwind")
       [] OTHER -> Answer("error")
  /\ UNCHANGED <<origin, gitVars, fileVars, walVars, receiptVars, budgetVars>>

RecoverDone ==
  /\ pc = "recover"
  /\ Pending = {}
  /\ GoTo("preflight")
  /\ UNCHANGED <<origin, gitVars, fileVars, walVars, receiptVars, budgetVars>>

-----------------------------------------------------------------------------
(* Rolling back: recovery and the abort handler share it *)

\* Remove proven temporaries, refuse any other dirt, unstage the manifest.
Unwind ==
  /\ pc = "unwind"
  /\ IF /\ Differing(tree, index) \cup Differing(index, disk) \subseteq Writes[tx]
        /\ temp \subseteq Writes[tx] \X {"whole"}
        /\ Classifiable(tx)
     THEN /\ temp' = {}
          /\ index' = [p \in Path |->
                         IF p \in Writes[tx] THEN tree[p] ELSE index[p]]
          /\ GoTo("restore")
     ELSE Answer("error") /\ UNCHANGED <<temp, index>>
  /\ UNCHANGED <<origin, log, tree, disk, walVars, receiptVars, budgetVars>>

\* Mutation: before-images go back in the order of the after-images.
NextToRestoreMetaLast(p) ==
  /\ p \in Writes[tx]
  /\ disk[p] # before[tx][p]
  /\ p = Meta => \A q \in Writes[tx] \ {Meta} : disk[q] = before[tx][q]

\* Before-images go back one file at a time, state/meta.json first.
NextToRestore(p) ==
  /\ p \in Writes[tx]
  /\ disk[p] # before[tx][p]
  /\ p = Meta \/ disk[Meta] = before[tx][Meta]

Restore(p) ==
  /\ pc = "restore"
  /\ NextToRestore(p)
  /\ disk' = [disk EXCEPT ![p] = before[tx][p]]
  /\ UNCHANGED <<origin, gitVars, temp, walVars, receiptVars, jobVars, reply,
                 budgetVars>>

MarkRolledBack ==
  /\ pc = "restore"
  /\ \A p \in Writes[tx] : disk[p] = before[tx][p]
  /\ wal' = [wal EXCEPT ![tx] = "rolled_back"]
  /\ GoTo("archive")
  /\ UNCHANGED <<origin, gitVars, fileVars, archive, before, receiptVars,
                 budgetVars>>

\* archive_terminal, the last step of a rollback and of a commit.
Archive ==
  /\ pc = "archive"
  /\ ToArchive(tx)
  /\ CASE ctx = "main" -> Answer("committed")
       [] ctx = "abort" -> Answer("error")
       [] ctx = "recovery" /\ Pristine ->
            /\ pc' = "recover"
            /\ ctx' = "none"
            /\ tx' = None
            /\ UNCHANGED <<op, cmd, reply>>
       [] OTHER -> Answer("error")
  /\ UNCHANGED <<origin, gitVars, fileVars, receiptVars, budgetVars>>

-----------------------------------------------------------------------------
(* execute: preflight, idempotency, plan and WAL *)

Preflight ==
  /\ pc = "preflight"
  /\ IF Pristine /\ Synchronized
     THEN GoTo(IF op = "boot" THEN "integrity" ELSE "lookup")
     ELSE Answer("error")
  /\ UNCHANGED <<origin, gitVars, fileVars, walVars, receiptVars, budgetVars>>

FutureReceipts == {c \in receipts : RevisionOf(c) > RevisionOf(disk[Meta])}

\* recover() ends with _assert_receipt_integrity; an index that overestimates
\* is rebuilt from the receipts themselves.
Integrity ==
  /\ pc = "integrity"
  /\ IF highWater > RevisionOf(disk[Meta]) /\ FutureReceipts # {}
     THEN Answer("error") /\ UNCHANGED highWater
     ELSE /\ pc' = "idle"
          /\ Idle
          /\ reply' = reply
          /\ IF highWater > RevisionOf(disk[Meta])
             THEN \E n \in 0..RevisionOf(disk[Meta]) :
                    /\ \A c \in receipts : RevisionOf(c) <= n
                    /\ \/ n = 0
                       \/ \E c \in receipts : RevisionOf(c) = n
                    /\ highWater' = n
             ELSE UNCHANGED highWater
  /\ UNCHANGED <<origin, gitVars, fileVars, walVars, receipts, budgetVars>>

\* Mutation: receipts are looked up by command digest, not by request id.
LookupByDigest ==
  /\ pc = "lookup"
  /\ CASE cmd \in receipts -> Answer("duplicate")
       [] cmd \notin receipts /\ op = "lookup" -> Answer("absent")
       [] OTHER -> GoTo("prepare")
  /\ UNCHANGED <<origin, gitVars, fileVars, walVars, receiptVars, budgetVars>>

Lookup ==
  /\ pc = "lookup"
  /\ CASE OtherReceipt(cmd) -> Answer("conflict")
       [] ~OtherReceipt(cmd) /\ cmd \in receipts -> Answer("duplicate")
       [] ~OwnReceipt(cmd) /\ op = "lookup" -> Answer("absent")
       [] OTHER -> GoTo("prepare")
  /\ UNCHANGED <<origin, gitVars, fileVars, walVars, receiptVars, budgetVars>>

\* planner.plan and wal.prepare.  An archived rollback may be prepared again
\* from the same base; an archived commit may not.
Prepare ==
  /\ pc = "prepare"
  /\ CASE RevisionOf(disk[Meta]) # Base[cmd] ->
            Answer("stale") /\ UNCHANGED walVars
       [] /\ RevisionOf(disk[Meta]) = Base[cmd]
          /\ \/ archive[cmd] = "none"
             \/ archive[cmd] = "rolled_back" /\ before[cmd] = disk ->
            /\ wal' = [wal EXCEPT ![cmd] = "prepared"]
            /\ before' = [before EXCEPT ![cmd] = disk]
            /\ pc' = "validate"
            /\ ctx' = "main"
            /\ tx' = cmd
            /\ UNCHANGED <<archive, op, cmd, reply>>
       [] OTHER -> Answer("error") /\ UNCHANGED walVars
  /\ UNCHANGED <<origin, gitVars, fileVars, receiptVars, budgetVars>>

-----------------------------------------------------------------------------
(* execute: the transaction itself *)

\* The caller's validator runs on the staged overlay and may reject it.
Validate ==
  /\ pc = "validate"
  /\ \/ /\ Pristine
        /\ RevisionOf(disk[Meta]) = Base[tx]
        /\ GoTo("apply")
     \/ Raise
  /\ UNCHANGED <<origin, gitVars, fileVars, walVars, receiptVars, budgetVars>>

\* After-images go out one file at a time, state/meta.json last.
NextToApply(p) ==
  /\ p \in Writes[tx]
  /\ disk[p] # tx
  /\ p = Meta => \A q \in Writes[tx] \ {Meta} : disk[q] = tx

Apply(p) ==
  /\ pc = "apply"
  /\ NextToApply(p)
  /\ disk' = [disk EXCEPT ![p] = tx]
  /\ UNCHANGED <<origin, gitVars, temp, walVars, receiptVars, jobVars, reply,
                 budgetVars>>

\* The main path stages next; recovery of a found commit goes on to finish it.
MarkApplied ==
  /\ \/ pc = "apply" /\ Applied(tx) /\ GoTo("stage")
     \/ pc = "mark_applied" /\ GoTo("mark_committed")
  /\ wal' = [wal EXCEPT ![tx] = "applied"]
  /\ UNCHANGED <<origin, gitVars, fileVars, archive, before, receiptVars,
                 budgetVars>>

Stage ==
  /\ pc = "stage"
  /\ IF index = tree /\ Differing(index, disk) = Writes[tx] /\ temp = {}
     THEN /\ index' = [p \in Path |->
                         IF p \in Writes[tx] THEN disk[p] ELSE index[p]]
          /\ GoTo("commit")
     ELSE Raise /\ UNCHANGED index
  /\ UNCHANGED <<origin, log, tree, fileVars, walVars, receiptVars, budgetVars>>

GitCommit ==
  /\ pc = "commit"
  /\ IF Differing(tree, index) = Writes[tx] /\ index = disk /\ temp = {}
     THEN /\ log' = Append(log, tx)
          /\ tree' = index
          /\ GoTo("readback")
     ELSE Raise /\ UNCHANGED <<log, tree>>
  /\ UNCHANGED <<origin, index, fileVars, walVars, receiptVars, budgetVars>>

Readback ==
  /\ pc = "readback"
  /\ IF Applied(tx) /\ Pristine THEN GoTo("durable") ELSE Raise
  /\ UNCHANGED <<origin, gitVars, fileVars, walVars, receiptVars, budgetVars>>

-----------------------------------------------------------------------------
(* remote.ensure_commit_durable, called by execute and by recovery *)

\* What follows delivery: recovery resumes from the recorded WAL status.
AfterDelivery ==
  GoTo(CASE wal[tx] = "prepared" -> "mark_applied"
         [] wal[tx] = "applied" -> "mark_committed"
         [] OTHER -> "note_revision")

AtParent == log # <<>> /\ origin = Front(log)

\* Mutation: a local commit counts as delivered.
DurableLocally ==
  /\ pc = "durable"
  /\ IF Last(log) = tx THEN AfterDelivery ELSE Raise
  /\ UNCHANGED <<origin, gitVars, fileVars, walVars, receiptVars, budgetVars>>

Durable ==
  /\ pc = "durable"
  /\ CASE Last(log) = tx /\ Synchronized -> AfterDelivery
       [] Last(log) = tx /\ AtParent -> GoTo("push")
       [] OTHER -> Raise
  /\ UNCHANGED <<origin, gitVars, fileVars, walVars, receiptVars, budgetVars>>

\* Mutation: the push is forced.
PushForced ==
  /\ pc = "push"
  /\ origin' = log
  /\ GoTo("verify")
  /\ UNCHANGED <<gitVars, fileVars, walVars, receiptVars, budgetVars>>

\* A non-forced push; the remote refuses it unless it is a fast-forward.
Push ==
  /\ pc = "push"
  /\ IF AtParent
     THEN origin' = log /\ GoTo("verify")
     ELSE Raise /\ UNCHANGED origin
  /\ UNCHANGED <<gitVars, fileVars, walVars, receiptVars, budgetVars>>

\* The push reached the remote but its acknowledgement did not come back.
PushUnacknowledged ==
  /\ pc = "push"
  /\ AtParent
  /\ faults < MaxFaults
  /\ faults' = faults + 1
  /\ origin' = log
  /\ Raise
  /\ UNCHANGED <<gitVars, fileVars, walVars, receiptVars, crashes>>

Verify ==
  /\ pc = "verify"
  /\ IF Synchronized THEN AfterDelivery ELSE Raise
  /\ UNCHANGED <<origin, gitVars, fileVars, walVars, receiptVars, budgetVars>>

-----------------------------------------------------------------------------
(* Completion: WAL status, then the receipt, then the archive *)

MarkCommitted ==
  /\ pc = "mark_committed"
  /\ IF Applied(tx)
     THEN wal' = [wal EXCEPT ![tx] = "committed"] /\ GoTo("note_revision")
     ELSE Raise /\ UNCHANGED wal
  /\ UNCHANGED <<origin, gitVars, fileVars, archive, before, receiptVars,
                 budgetVars>>

\* ReceiptStore.put raises the high-water index before it links the receipt.
NoteRevision ==
  /\ pc = "note_revision"
  /\ IF OtherReceipt(tx)
     THEN Raise /\ UNCHANGED highWater
     ELSE highWater' = Greater(highWater, RevisionOf(tx)) /\ GoTo("receipt")
  /\ UNCHANGED <<origin, gitVars, fileVars, walVars, receipts, budgetVars>>

PutReceipt ==
  /\ pc = "receipt"
  /\ receipts' = receipts \cup {tx}
  /\ GoTo("archive")
  /\ UNCHANGED <<origin, gitVars, fileVars, walVars, highWater, budgetVars>>

-----------------------------------------------------------------------------
(* The environment *)

\* Any step may raise before its effect; an effect followed by an exception is
\* the exception of the following step.
Fault ==
  /\ pc \in Steps
  /\ faults < MaxFaults
  /\ faults' = faults + 1
  /\ Raise
  /\ UNCHANGED <<origin, gitVars, fileVars, walVars, receiptVars, crashes>>

\* Death may leave the temporary file of the replacement it interrupted.
LeftBehind ==
  IF pc \in {"apply", "restore"}
  THEN {{}} \cup {{<<p, "whole">>} : p \in Writes[tx]}
            \cup (IF TornTemp THEN {{<<p, "torn">>} : p \in Writes[tx]} ELSE {})
  ELSE {{}}

Crash ==
  /\ pc # "down"
  /\ crashes < MaxCrashes
  /\ crashes' = crashes + 1
  /\ pc' = "down"
  /\ Idle
  /\ reply' = IF cmd = None THEN reply ELSE [reply EXCEPT ![cmd] = "lost"]
  /\ \E left \in LeftBehind : temp' = temp \cup left
  /\ UNCHANGED <<origin, gitVars, disk, walVars, receiptVars, faults>>

PushRelease(r) ==
  /\ ~Holds(origin, r)
  /\ origin' = Append(origin, r)
  /\ UNCHANGED <<gitVars, fileVars, walVars, receiptVars, jobVars, reply,
                 budgetVars>>

\* A release that the running image does not contain redeploys the service.
Redeploy ==
  /\ pc = "idle"
  /\ \E r \in Release : Holds(origin, r) /\ ~Holds(log, r)
  /\ pc' = "down"
  /\ UNCHANGED <<origin, gitVars, fileVars, walVars, receiptVars, op, cmd, ctx,
                 tx, reply, budgetVars>>

-----------------------------------------------------------------------------
Call == \E c \in Command : Start(c, "lookup") \/ Start(c, "execute")

RecoverStep ==
  \/ \E c \in Command : RecoverTerminal(c) \/ RecoverPending(c)
  \/ RecoverDone

RollbackStep == Unwind \/ MarkRolledBack \/ Archive \/ \E p \in Path : Restore(p)

TransactionStep ==
  \/ Preflight \/ Integrity \/ Lookup \/ Prepare \/ Validate
  \/ MarkApplied \/ Stage \/ GitCommit \/ Readback
  \/ \E p \in Path : Apply(p)

DeliveryStep ==
  Durable \/ Push \/ Verify \/ MarkCommitted \/ NoteRevision \/ PutReceipt

\* One step of the process that holds the lock.
Work == RecoverStep \/ RollbackStep \/ TransactionStep \/ DeliveryStep

Environment ==
  \/ Fault \/ PushUnacknowledged \/ Crash \/ Redeploy
  \/ \E r \in Release : PushRelease(r)

Next == Boot \/ Call \/ Work \/ Environment

Spec == Init /\ [][Next]_vars

\* A started operation runs on, the platform restarts a dead service, players
\* keep calling, and a redeployment, which stops the old process whatever it is
\* asked next, is not put off for ever.
FairSpec ==
  /\ Spec
  /\ WF_vars(Work)
  /\ WF_vars(Boot)
  /\ SF_vars(Redeploy)
  /\ WF_vars(Call)

-----------------------------------------------------------------------------
(* Safety *)

UniqueIn(history) ==
  \A i, j \in DOMAIN history :
    /\ {history[i], history[j]} \subseteq Command
    /\ RequestOf[history[i]] = RequestOf[history[j]]
    => i = j

\* A request identity moves the campaign at most once, whatever is retried,
\* reordered or interrupted: coordinator.execute resolves the receipt only
\* after recovery has finished every interrupted commit.
ExactlyOnce == UniqueIn(log)

\* A receipt, or a positive answer to the sender, exists only for a command
\* that the remote branch already holds.
AcknowledgedDurable ==
  /\ \A c \in receipts : Holds(origin, c)
  /\ \A c \in Command :
       reply[c] \in {"committed", "duplicate"} => c \in receipts

\* The revision on disk is never newer than an owner file of the command that
\* made it: state/meta.json is written last and restored first.
NoStaleOwner ==
  LET newest == disk[Meta] IN
  newest # Initial =>
    \A p \in Writes[newest] : RevisionOf(disk[p]) >= RevisionOf(newest)

\* Whatever differs from the local HEAD, at any instant, belongs to one
\* recorded transaction that has no commit, and holds one of its two images:
\* a start-up can always undo it.
DirtIsRecoverable ==
  LET dirt == Differing(tree, index) \cup Differing(tree, disk) IN
  dirt # {} =>
    \E c \in Pending :
      /\ dirt \subseteq Writes[c]
      /\ Classifiable(c)
      /\ ~Holds(log, c)
      /\ \A p \in Writes[c] : before[c][p] = tree[p]

\* Recovery never meets two interrupted transactions: each operation resolves
\* the one before it under the same lock.
OnePending == \A c, d \in Pending : c = d

\* The index never hides a receipt: it is raised before the receipt is linked.
HighWaterCovers == \A c \in receipts : RevisionOf(c) <= highWater

\* Under the lock discipline no receipt is ahead of the campaign on disk, so
\* the integrity guard of campaign_coordinator.recover never refuses a start.
ReceiptsNotAhead == FutureReceipts = {}

\* "stale" (409) and "absent" are final: neither is ever said of a command
\* that the campaign has committed, interrupted commits included.
NegativeAnswersAreTrue ==
  [][\A c \in Command :
       reply'[c] # reply[c] /\ reply'[c] \in {"stale", "absent"} =>
         ~Holds(log', c)]_vars

\* Delivery only ever extends the shared branch; a source release that raced a
\* gameplay commit is never overwritten (docs/RUNTIME_SERVICE_DEPLOYMENT.md:48).
RemoteOnlyExtended == [][IsPrefix(origin, origin')]_origin

-----------------------------------------------------------------------------
(* The inductive invariant behind ExactlyOnce and AcknowledgedDurable *)

Undecided == {"validate", "apply", "stage", "commit"}
Undoing == {"unwind", "restore"}
Delivering == {"readback", "durable", "push", "verify"}
Delivered == {"mark_applied", "mark_committed", "note_revision", "receipt"}
Driven == Undecided \cup Undoing \cup Delivering \cup Delivered \cup {"archive"}
Settled == {"preflight", "integrity", "lookup", "prepare"}

\* Who holds the lock, and on whose behalf.
ControlInv ==
  /\ pc \notin Steps => op = "none" /\ cmd = None
  /\ pc \in Steps =>
       \/ op = "boot" /\ cmd = None
       \/ op \in {"lookup", "execute"} /\ cmd \in Command
  /\ pc \in {"lookup", "prepare"} => op # "boot"
  /\ ctx # "none" <=> pc \in Driven
  /\ ctx = "none" <=> tx = None
  /\ ctx = "main" => tx = cmd
  /\ ctx = "abort" => pc \in Undoing \cup {"archive"}
  /\ pc \in Undecided => ctx = "main"
  /\ pc \in Undoing => ctx # "main"

\* The write-ahead log never loses a committed command before its receipt.
WalInv ==
  /\ OnePending
  /\ pc \in Settled => Pending = {}
  /\ ctx # "none" => tx \in Pending
  /\ \A c \in Command :
       /\ Holds(log, c) => c \in receipts \/ c \in Pending
       /\ wal[c] = "rolled_back" => ~Holds(log, c)
  /\ pc \in Undecided \cup Undoing =>
       wal[tx] \in {"prepared", "applied"} /\ ~Holds(log, tx)
  /\ pc \in Delivering \cup Delivered =>
       wal[tx] \in {"prepared", "applied", "committed"} /\ Holds(log, tx)
  /\ pc \in {"note_revision", "receipt"} => wal[tx] = "committed"
  /\ pc = "archive" =>
       \/ wal[tx] = "rolled_back" /\ ctx # "main"
       \/ wal[tx] = "committed" /\ tx \in receipts

\* Local branch, remote branch and receipts agree about commands.
BranchInv ==
  /\ \A c \in Command : Holds(origin, c) => Holds(log, c)
  /\ \A c \in receipts : Holds(origin, c)
  /\ pc \in Delivered => Holds(origin, tx)

RequestInv ==
  /\ UniqueIn(log)
  /\ UniqueIn(origin)
  /\ pc = "prepare" => ~OwnReceipt(cmd)
  /\ pc \in Undecided => ~OwnReceipt(tx)

AnswerInv ==
  \A c \in Command :
    reply[c] \in {"committed", "duplicate"} => c \in receipts

IndexInv ==
  /\ HighWaterCovers
  /\ pc = "receipt" => RevisionOf(tx) <= highWater

\* The protocol itself does not depend on the index.
ProtocolInv ==
  TypeOK /\ ControlInv /\ WalInv /\ BranchInv /\ RequestInv /\ AnswerInv

IInv == ProtocolInv /\ IndexInv

-----------------------------------------------------------------------------
(* Refinement: files, logs and crashes implement the ledger *)

CommittedCommands == {c \in Command : Holds(log, c)}
DeliveredCommands == {c \in Command : Holds(origin, c)}

Ledger == INSTANCE CampaignLedger
  WITH revision <- RevisionOf(tree[Meta]),
       ledger <- CommittedCommands,
       delivered <- DeliveredCommands,
       receipted <- receipts

\* Every step of the coordinator is a step of the ledger or changes nothing a
\* caller is promised.
ImplementsLedger == Ledger!LedgerSpec

-----------------------------------------------------------------------------
(* Liveness *)

\* Every recorded transaction is eventually finished or undone
\* (coordinator.recover: "Finish committed WALs and roll back all safe
\* uncommitted WALs"; persistence.py relies on the WAL for interrupted writes).
RecoveryCompletes == \A c \in Command : (c \in Pending) ~> (c \notin Pending)

\* A command that reached the remote branch eventually has its receipt, so its
\* sender's retry is answered.
DeliveredIsFinalized ==
  \A c \in Command : Holds(origin, c) ~> (c \in receipts)
=============================================================================
