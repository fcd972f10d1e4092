------------------------- MODULE CampaignBootstrap -------------------------
(***************************************************************************)
(* shinobi_runtime.bootstrap: how a starting service reconciles the        *)
(* checkout on its persistent volume with the shared remote branch, which  *)
(* may have received source releases, a new certified release baseline, or *)
(* a replaced history while the service was away.  The transactions of the *)
(* running service are TransactionCoordinator's, reduced here to the steps *)
(* that a start-up can find half done.                                     *)
(*                                                                         *)
(* A head is its history, a nonempty sequence of commits, and the tree of  *)
(* a head is described by its last commit.                                 *)
(***************************************************************************)
EXTENDS Naturals, Sequences, SequencesExt

CONSTANTS
  Command,      \* gameplay transactions
  Release,      \* source releases: the campaign files stay as they are
  Rebaseline,   \* releases with a new release_baseline_id
  Replacement,  \* histories an operator publishes in place of the branch
  Genesis,      \* name of the first commit, its baseline and its campaign
  Foreign,      \* the identity of another campaign
  Certified,    \* rebaselines whose contract matches their state tree
  MaxRevision,  \* bound: revisions
  MaxCrashes,   \* bound: process deaths
  MaxFaults     \* bound: failing renames and raising git calls in a reset

Names == Command \cup Release \cup Rebaseline \cup Replacement \cup {Genesis}

ASSUME BootstrapAssumption ==
  /\ Certified \subseteq Rebaseline
  /\ Genesis \notin Command \cup Release \cup Rebaseline \cup Replacement
  /\ Foreign # Genesis
  /\ Command \cap (Release \cup Rebaseline \cup Replacement) = {}
  /\ Rebaseline \cap Replacement = {}
  /\ {MaxRevision, MaxCrashes, MaxFaults} \subseteq Nat

\* truth names the contents of the campaign files.
CommitRecords ==
  [id : Names, campaign : {Genesis, Foreign}, baseline : Rebaseline \cup {Genesis},
   revision : 0..MaxRevision, truth : Names]

NoTransaction == <<>>

VARIABLES
  local,     \* the checkout's HEAD
  dirty,     \* are campaign files half replaced?
  remote,    \* the head of the shared branch
  wal,       \* the unfinished transaction: <<parent, commit>>, or none
  receipts,  \* commits whose receipt answers retries
  retired,   \* receipts moved under retired-release-baselines/
  pc,
  start,     \* the head that a baseline reset started from
  cut,       \* history: baselines whose reset ended between two of its steps
  served,    \* the last commit the running service served
  published, \* what was pushed from outside so far
  crashes,
  faults

diskVars == <<local, dirty, wal, receipts, retired>>
bootVars == <<diskVars, remote, pc, start, cut, served, published, crashes, faults>>

ResetSteps == {"verify", "retire_wal", "retire_receipts"}

BootstrapTypeOK ==
  /\ local \in Seq(CommitRecords) \ {<<>>}
  /\ remote \in Seq(CommitRecords) \ {<<>>}
  /\ dirty \in BOOLEAN
  /\ wal = NoTransaction \/ wal \in CommitRecords \X CommitRecords
  /\ receipts \in SUBSET CommitRecords
  /\ retired \in SUBSET CommitRecords
  /\ pc \in ResetSteps \cup {"down", "recover", "serving"}
  /\ dirty => wal # NoTransaction
  /\ start \in Seq(CommitRecords) \ {<<>>}
  /\ cut \subseteq Rebaseline \cup {Genesis}
  /\ served \in CommitRecords
  /\ published \in SUBSET (Release \cup Rebaseline \cup Replacement)
  /\ crashes \in 0..MaxCrashes
  /\ faults \in 0..MaxFaults

GenesisCommit ==
  [id |-> Genesis, campaign |-> Genesis, baseline |-> Genesis, revision |-> 0,
   truth |-> Genesis]

BootstrapInit ==
  /\ local = <<GenesisCommit>>
  /\ remote = local
  /\ dirty = FALSE
  /\ wal = NoTransaction
  /\ receipts = {}
  /\ retired = {}
  /\ pc = "down"
  /\ start = local
  /\ cut = {}
  /\ served = GenesisCommit
  /\ published = {}
  /\ crashes = 0
  /\ faults = 0

-----------------------------------------------------------------------------
(* ensure_checkout, in the order of its decisions *)

NewBaseline == Last(remote).baseline # Last(local).baseline

Continue(head) ==
  /\ local' = head
  /\ pc' = "recover"
  /\ UNCHANGED <<dirty, remote, wal, receipts, retired, start, cut, served, published, crashes, faults>>

\* Dirty files are kept only at the remote head and beside a recoverable WAL.
KeepDirty ==
  /\ pc = "down" /\ dirty
  /\ local = remote /\ wal # NoTransaction
  /\ Continue(local)

KeepEqual ==
  /\ pc = "down" /\ ~dirty
  /\ local = remote
  /\ Continue(local)

\* A new release_baseline_id is decided before ancestry: the whole checkout is
\* reset to the remote head and verified there.
BeginReset ==
  /\ pc = "down" /\ ~dirty
  /\ NewBaseline
  /\ Last(local).campaign = Last(remote).campaign
  /\ wal = NoTransaction
  /\ start' = local
  /\ local' = remote
  /\ pc' = "verify"
  /\ UNCHANGED <<dirty, remote, wal, receipts, retired, cut, served, published, crashes, faults>>

FastForward ==
  /\ pc = "down" /\ ~dirty /\ ~NewBaseline
  /\ IsStrictPrefix(local, remote)
  /\ Continue(remote)

KeepAhead ==
  /\ pc = "down" /\ ~dirty /\ ~NewBaseline
  /\ IsStrictPrefix(remote, local)
  /\ Continue(local)

Diverged ==
  /\ ~NewBaseline
  /\ ~IsPrefix(local, remote) /\ ~IsPrefix(remote, local)

AdoptEquivalent ==
  /\ pc = "down" /\ ~dirty /\ Diverged
  /\ Last(local).truth = Last(remote).truth
  /\ Continue(remote)

\* Mutation: any replaced history of the same campaign is adopted.
AdoptAny ==
  /\ pc = "down" /\ ~dirty /\ Diverged
  /\ Last(local).campaign = Last(remote).campaign
  /\ Continue(remote)

AdoptNewer ==
  /\ pc = "down" /\ ~dirty /\ Diverged
  /\ Last(local).truth # Last(remote).truth
  /\ Last(local).campaign = Last(remote).campaign
  /\ Last(remote).revision > Last(local).revision
  /\ Continue(remote)

-----------------------------------------------------------------------------
(* The baseline reset *)

\* The old head comes back.  The log's directory moves first and the receipts
\* last: when a rename fails the receipts have not moved, and the log, whose own
\* rename back may fail too, holds finished records only.
UndoReset ==
  /\ local' = start
  /\ pc' = "down"

\* The contract describes the state tree the baseline was published with.
MatchesContract(k) == k.truth = k.baseline /\ k.baseline \in Certified \cup {Genesis}

\* Mutation: the replacement is trusted as published.
VerifyNothing ==
  /\ pc = "verify"
  /\ pc' = "retire_wal" /\ UNCHANGED local
  /\ UNCHANGED <<dirty, remote, wal, receipts, retired, start, cut, served, published,
                 crashes, faults>>

\* verify_release_baseline_core compares identity, player, revision, time and
\* the digest of the state tree with the packaged contract.
VerifyBaseline ==
  /\ pc = "verify"
  /\ IF MatchesContract(Last(local))
     THEN pc' = "retire_wal" /\ UNCHANGED local
     ELSE UndoReset
  /\ UNCHANGED <<dirty, remote, wal, receipts, retired, start, cut, served, published,
                 crashes, faults>>

\* The log holds only finished records here; what moves is their directory.
RetireWal ==
  /\ pc = "retire_wal"
  /\ pc' = "retire_receipts"
  /\ UNCHANGED <<diskVars, remote, start, cut, served, published, crashes, faults>>

\* Mutation: the receipts survive the reset.
RetireNoReceipts ==
  /\ pc = "retire_receipts"
  /\ pc' = "recover"
  /\ UNCHANGED <<diskVars, remote, start, cut, served, published, crashes, faults>>

RetireReceipts ==
  /\ pc = "retire_receipts"
  /\ retired' = retired \cup receipts
  /\ receipts' = {}
  /\ pc' = "recover"
  /\ UNCHANGED <<local, dirty, wal, remote, start, cut, served, published, crashes, faults>>

RetirementFails ==
  /\ pc \in {"retire_wal", "retire_receipts"}
  /\ faults < MaxFaults
  /\ faults' = faults + 1
  /\ UndoReset
  /\ UNCHANGED <<dirty, remote, wal, receipts, retired, start, cut, served, published, crashes>>

\* The reset ends where it is: the moved checkout and the receipts both stay.
CutShort == cut' = IF pc \in ResetSteps THEN cut \cup {Last(local).baseline} ELSE cut

\* Neither the check that the moved checkout is clean, nor a verification that
\* raises, nor a failing reset back to the old head is followed by any undo.
ResetRaises ==
  /\ pc \in ResetSteps
  /\ faults < MaxFaults
  /\ faults' = faults + 1
  /\ CutShort
  /\ pc' = "down"
  /\ UNCHANGED <<diskVars, remote, start, served, published, crashes>>

-----------------------------------------------------------------------------
(* The service: create_app_from_env recovers, then transactions run *)

HoldsCommit(history, commit) == \E i \in DOMAIN history : history[i] = commit

RestoreImages == dirty' = FALSE

\* The log's transaction is rolled back, or its commit delivered and receipted;
\* whatever neither fits keeps the service down.
Recover ==
  /\ pc = "recover"
  /\ wal # NoTransaction
  /\ \/ /\ ~HoldsCommit(local, wal[2])
        /\ dirty \/ Last(local).truth = wal[1].truth
        /\ local = remote
        /\ UNCHANGED <<remote, receipts>>
     \/ /\ Last(local) = wal[2] /\ ~dirty
        /\ wal[2] \notin receipts
        /\ remote \in {local, Front(local)}
        /\ remote' = local
        /\ receipts' = receipts \cup {wal[2]}
     \/ /\ HoldsCommit(local, wal[2]) /\ ~dirty
        /\ wal[2] \in receipts
        /\ UNCHANGED <<remote, receipts>>
  /\ wal' = NoTransaction
  /\ RestoreImages
  /\ UNCHANGED <<local, retired, pc, start, cut, served, published, crashes, faults>>

\* campaign_coordinator.recover refuses receipts ahead of the campaign.
Serve ==
  /\ pc = "recover"
  /\ wal = NoTransaction
  /\ \A k \in receipts : k.revision <= Last(local).revision
  /\ pc' = "serving"
  /\ served' = Last(local)
  /\ UNCHANGED <<diskVars, remote, start, cut, published, crashes, faults>>

\* Whatever recovery refuses, or cannot reach, ends the process: it restarts.
StartUpFails ==
  /\ pc = "recover"
  /\ pc' = "down"
  /\ UNCHANGED <<diskVars, remote, start, cut, served, published, crashes, faults>>

CommitOf(c) ==
  [Last(local) EXCEPT !.id = c, !.truth = c, !.revision = @ + 1]

\* Bounds: a gameplay transaction runs once, up to MaxRevision of them.
Prepare(c) ==
  /\ pc = "serving"
  /\ wal = NoTransaction /\ local = remote
  /\ Last(local).revision < MaxRevision
  /\ \A k \in receipts \cup retired : k.id # c
  /\ wal' = <<Last(local), CommitOf(c)>>
  /\ UNCHANGED <<local, dirty, receipts, retired, remote, pc, start, cut, served,
                 published, crashes, faults>>

Apply ==
  /\ pc = "serving"
  /\ wal # NoTransaction /\ ~dirty /\ Last(local) = wal[1]
  /\ dirty' = TRUE
  /\ UNCHANGED <<local, wal, receipts, retired, remote, pc, start, cut, served,
                 published, crashes, faults>>

Commit ==
  /\ pc = "serving"
  /\ dirty
  /\ local' = Append(local, wal[2])
  /\ dirty' = FALSE
  /\ served' = wal[2]
  /\ UNCHANGED <<wal, receipts, retired, remote, pc, start, cut, published, crashes, faults>>

Deliver ==
  /\ pc = "serving"
  /\ wal # NoTransaction /\ Last(local) = wal[2]
  /\ remote = Front(local)
  /\ remote' = local
  /\ UNCHANGED <<diskVars, pc, start, cut, served, published, crashes, faults>>

PublishReceipt ==
  /\ pc = "serving"
  /\ wal # NoTransaction /\ Last(local) = wal[2]
  /\ local = remote
  /\ wal[2] \notin receipts
  /\ receipts' = receipts \cup {wal[2]}
  /\ UNCHANGED <<local, dirty, wal, retired, remote, pc, start, cut, served, published, crashes, faults>>

Archive ==
  /\ pc = "serving"
  /\ wal # NoTransaction /\ wal[2] \in receipts
  /\ wal' = NoTransaction
  /\ UNCHANGED <<local, dirty, receipts, retired, remote, pc, start, cut, served,
                 published, crashes, faults>>

-----------------------------------------------------------------------------
(* The outside *)

Crash ==
  /\ pc \notin {"down", "recover"}
  /\ crashes < MaxCrashes
  /\ crashes' = crashes + 1
  /\ CutShort
  /\ pc' = "down"
  /\ UNCHANGED <<diskVars, remote, start, served, published, faults>>

\* A release redeploys the service between two transactions.
Redeploy ==
  /\ pc = "serving"
  /\ wal = NoTransaction
  /\ local # remote
  /\ pc' = "down"
  /\ UNCHANGED <<diskVars, remote, start, cut, served, published, crashes, faults>>

\* Each of the outside pushes happens at most once.
Publish(name, history) ==
  /\ name \notin published
  /\ published' = published \cup {name}
  /\ remote' = history
  /\ UNCHANGED <<diskVars, pc, start, cut, served, crashes, faults>>

PublishRelease(r) ==
  Publish(r, Append(remote, [Last(remote) EXCEPT !.id = r]))

\* A rebaseline comes as an ordinary commit or as an unrelated history.
PublishRebaseline(b) ==
  \E revision \in 0..MaxRevision, history \in {<<>>, remote} :
    Publish(b, Append(history,
      [id |-> b, campaign |-> Genesis, baseline |-> b, revision |-> revision,
       truth |-> b]))

\* A recreated repository: the same campaign files, other ones, or another
\* campaign, under the same baseline.
ReplaceHistory(h) ==
  \/ Publish(h, <<[Last(remote) EXCEPT !.id = h]>>)
  \/ \E revision \in 0..MaxRevision, campaign \in {Genesis, Foreign} :
       Publish(h, <<[Last(remote) EXCEPT !.id = h, !.truth = h,
                       !.revision = revision, !.campaign = campaign]>>)

EnsureCheckout ==
  \/ KeepDirty \/ KeepEqual \/ BeginReset \/ FastForward \/ KeepAhead
  \/ AdoptEquivalent \/ AdoptNewer

BaselineReset ==
  VerifyBaseline \/ RetireWal \/ RetireReceipts \/ RetirementFails \/ ResetRaises

Service ==
  \/ Recover \/ Serve \/ StartUpFails \/ Apply \/ Commit \/ Deliver \/ PublishReceipt \/ Archive
  \/ \E c \in Command : Prepare(c)

Outside ==
  \/ Crash \/ Redeploy
  \/ \E r \in Release : PublishRelease(r)
  \/ \E b \in Rebaseline : PublishRebaseline(b)
  \/ \E h \in Replacement : ReplaceHistory(h)

BootstrapNext == EnsureCheckout \/ BaselineReset \/ Service \/ Outside

BootstrapSpec == BootstrapInit /\ [][BootstrapNext]_bootVars

-----------------------------------------------------------------------------
(* Properties *)

\* A player never sees the campaign go back, whatever was published and
\* whichever crash came between: within one baseline the service resumes at
\* the revision it last served or later, and never as another campaign
\* (bootstrap.py:524 "the one safe case where a lower remote campaign revision
\* may replace a newer persistent-volume revision").
RevisionMovesForward ==
  [][pc # "serving" /\ pc' = "serving" =>
       /\ Last(local).campaign = served.campaign
       /\ \/ Last(local).baseline # served.baseline
          \/ Last(local).revision >= served.revision]_bootVars

\* A baseline that was refused, or never looked at, is served only when its own
\* reset was cut short: the process died, or a call raised, between the reset of
\* the checkout (bootstrap.py:541) and the verdict, and the next start-up keeps a
\* checkout that equals the remote head.  No fast-forward, adopted history,
\* refused verification or undone retirement ever leads there.  The documented
\* "a bad or incomplete reset rolls back to the previous local head and fails
\* closed" (docs/RUNTIME_SERVICE_DEPLOYMENT.md:50) is met up to that case.
ServedBaselineIsCertified ==
  pc = "serving" => Last(local).baseline \in Certified \cup {Genesis} \cup cut

\* Receipts "must never answer requests inside a replacement release baseline
\* merely because the persistent volume survived deployment" (bootstrap.py:193):
\* whatever was reset, undone, replaced or restarted since, the receipts that
\* answer are of the baseline served, unless its reset was cut short.
ReceiptsOfTheBaseline ==
  pc = "serving" =>
    \/ Last(local).baseline \in cut
    \/ \A k \in receipts : k.baseline = Last(local).baseline
=============================================================================
