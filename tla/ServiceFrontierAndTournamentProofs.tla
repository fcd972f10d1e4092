---------------------- MODULE ServiceFrontierAndTournamentProofs ----------------------
(***************************************************************************)
(* Theorems about the campaign service, about the clock it serves, and     *)
(* about the championship that the clock runs.  The first part is the      *)
(* service: the transaction coordinator and the threads that run it.  The  *)
(* second part is the schedule by which a time command walks from frontier *)
(* to frontier.  The third part is the championship.  The parts share no   *)
(* state: for the service a command is a list of changed paths, and the    *)
(* championship is one of the things a frontier changes.                   *)
(***************************************************************************)
EXTENDS CampaignOperations, CausalFrontier, Tournaments, SumTheorems, TLAPS,
        SequenceTheorems, FiniteSetTheorems, FunctionTheorems

-----------------------------------------------------------------------------
(***************************************************************************)
(* Proofs about TransactionCoordinator and about CampaignOperations, the   *)
(* service that runs it, for every set of calls, commands, paths and       *)
(* releases and every bound on crashes and faults.                         *)
(*                                                                         *)
(* What is proved of the coordinator rests on one inductive invariant,     *)
(* ProtocolInv.  Its heart is the protocol between three durable records:  *)
(* a command on the local branch has its receipt or a pending log record;  *)
(* at most one record is pending, and none while a request is looked up;   *)
(* so a request whose receipt is absent is not on the branch, and          *)
(* committing it keeps identities unique.  Receipts follow only after the  *)
(* push, so they never run ahead of origin.                                *)
(*                                                                         *)
(* The threads of the service add to the coordinator only one step of      *)
(* their own on its state: an index rebuild that replaces the index        *)
(* outside the lock.  The protocol does not depend on the index, so what   *)
(* is proved of the coordinator holds of the service.  The critical        *)
(* sections of one call are tied together by the planned head: no commit   *)
(* came between if the head is still the planned one.                      *)
(***************************************************************************)

-----------------------------------------------------------------------------
(* Histories *)

\* A history extended by x holds x and what it held before.
LEMMA HoldsAppend ==
  ASSUME NEW S, NEW s \in Seq(S), NEW x \in S, NEW y
  PROVE  Holds(Append(s, x), y) <=> (Holds(s, y) \/ x = y)
<1>1. /\ DOMAIN s = 1..Len(s)
      /\ DOMAIN Append(s, x) = 1..(Len(s) + 1)
      /\ Append(s, x)[Len(s) + 1] = x
      /\ \A i \in 1..Len(s) : Append(s, x)[i] = s[i]
  OBVIOUS
<1>2. ASSUME Holds(Append(s, x), y) PROVE Holds(s, y) \/ x = y
  <2>1. PICK i \in 1..(Len(s) + 1) : Append(s, x)[i] = y
    BY <1>1, <1>2 DEF Holds
  <2>2. CASE i = Len(s) + 1
    BY <1>1, <2>1, <2>2
  <2>3. CASE i # Len(s) + 1
    BY <1>1, <2>1, <2>3 DEF Holds
  <2>4. QED
    BY <2>2, <2>3
<1>3. ASSUME Holds(s, y) PROVE Holds(Append(s, x), y)
  <2>1. PICK i \in 1..Len(s) : s[i] = y
    BY <1>1, <1>3 DEF Holds
  <2>2. QED
    BY <1>1, <2>1 DEF Holds
<1>4. ASSUME x = y PROVE Holds(Append(s, x), y)
  <2>1. Len(s) + 1 \in DOMAIN Append(s, x)
    BY <1>1
  <2>2. QED
    BY <1>1, <1>4, <2>1 DEF Holds
<1>5. QED
  BY <1>2, <1>3, <1>4

\* Contents advertise a natural revision.
LEMMA RevisionIsNat ==
  ASSUME NEW x \in Content
  PROVE  RevisionOf(x) \in Nat
  BY ConstantsAssumption DEF RevisionOf, Content

\* A command of a request that the history does not know keeps it unique.
LEMMA UniqueAppendCommand ==
  ASSUME NEW s \in Seq(Commits), NEW x \in Command, UniqueIn(s),
         \A c \in Command : Holds(s, c) => RequestOf[c] # RequestOf[x]
  PROVE  UniqueIn(Append(s, x))
  BY DEF UniqueIn, Holds, Commits

\* A source release is no command, so it never repeats a request.
LEMMA UniqueAppendRelease ==
  ASSUME NEW s \in Seq(Commits), NEW x \in Release, UniqueIn(s)
  PROVE  UniqueIn(Append(s, x))
  BY ConstantsAssumption DEF UniqueIn, Holds, Commits

\* The parent of a head precedes it.
LEMMA FrontIsPrefix ==
  ASSUME NEW S, NEW s \in Seq(S), s # <<>>
  PROVE  IsPrefix(Front(s), s)
<1>1. Len(s) \in Nat \ {0}
  BY EmptySeq
<1>2. Front(s) \in Seq(S) /\ Len(Front(s)) = Len(s) - 1
  <2>1. 1 \in Int /\ Len(s) - 1 \in Int /\ \A i \in 1..(Len(s) - 1) : s[i] \in S
    BY <1>1
  <2>2. /\ SubSeq(s, 1, Len(s) - 1) \in Seq(S)
        /\ Len(SubSeq(s, 1, Len(s) - 1)) =
             IF 1 <= Len(s) - 1 THEN Len(s) - 1 - 1 + 1 ELSE 0
    BY <2>1, SubSeqProperties
  <2>3. (IF 1 <= Len(s) - 1 THEN Len(s) - 1 - 1 + 1 ELSE 0) = Len(s) - 1
    <3>1. \A n \in Nat : n # 0 => (IF 1 <= n - 1 THEN n - 1 - 1 + 1 ELSE 0) = n - 1
      OBVIOUS
    <3>2. QED
      BY <1>1, <3>1, Zenon
  <2>4. Front(s) = SubSeq(s, 1, Len(s) - 1)
    BY DEF Front
  <2>5. QED
    BY <2>2, <2>3, <2>4, Zenon
<1>3. SubSeq(Front(s), 1, Len(Front(s))) = Front(s)
  BY <1>2
<1>4. QED
  BY <1>1, <1>2, <1>3 DEF IsPrefix, Front

\* A new commit extends the history.
LEMMA AppendExtends ==
  ASSUME NEW S, NEW s \in Seq(S), NEW x \in S
  PROVE  IsPrefix(s, Append(s, x))
  BY DEF IsPrefix

-----------------------------------------------------------------------------
(* Groups of variables and of steps are abbreviations and always expanded. *)
USE DEF gitVars, fileVars, walVars, receiptVars, jobVars, budgetVars,
        Steps, Driven, Undecided, Undoing, Delivering, Delivered, Settled

\* An operation that ends without changing anything but its sender's answer.
LEMMA AnswerKeeps ==
  ASSUME ProtocolInv, pc \in Steps, NEW a \in Answers, Answer(a),
         a \in {"committed", "duplicate"} => cmd \in receipts,
         UNCHANGED <<origin, gitVars, fileVars, walVars, receiptVars, crashes>>,
         faults' \in 0..MaxFaults
  PROVE  ProtocolInv'
<1>1. TypeOK'
  BY DEF ProtocolInv, TypeOK, ControlInv, Answer, Idle, Answers
<1>2. ControlInv'
  BY DEF ProtocolInv, ControlInv, Answer, Idle
<1>3. WalInv'
  BY DEF ProtocolInv, ControlInv, WalInv, OnePending, Pending, Answer, Idle
<1>4. BranchInv'
  BY DEF ProtocolInv, BranchInv, Answer
<1>5. RequestInv'
  BY DEF ProtocolInv, RequestInv, Answer
<1>6. AnswerInv'
  BY DEF ProtocolInv, TypeOK, ControlInv, AnswerInv, Answer, RevisionOf
<1>7. QED
  BY <1>1, <1>2, <1>3, <1>4, <1>5, <1>6 DEF ProtocolInv

\* An exception: the abort handler starts only while no commit exists.
LEMMA RaiseKeeps ==
  ASSUME ProtocolInv, pc \in Steps, Raise,
         UNCHANGED <<origin, gitVars, fileVars, walVars, receiptVars, crashes>>,
         faults' \in 0..MaxFaults
  PROVE  ProtocolInv'
<1>1. CASE ctx = "main" /\ ~Holds(log, tx)
  <2>1. TypeOK'
    BY <1>1 DEF Raise, ProtocolInv, TypeOK
  <2>2. ControlInv'
    BY <1>1 DEF Raise, ProtocolInv, ControlInv
  <2>3. wal[tx] \in {"prepared", "applied"}
    BY <1>1 DEF ProtocolInv, ControlInv, WalInv, BranchInv
  <2>4. WalInv'
    BY <1>1, <2>3 DEF Raise, ProtocolInv, ControlInv, WalInv, OnePending, Pending
  <2>5. BranchInv' /\ RequestInv'
    BY <1>1 DEF Raise, ProtocolInv, BranchInv, RequestInv
  <2>6. AnswerInv'
    BY <1>1 DEF Raise, ProtocolInv, AnswerInv, RevisionOf
  <2>7. QED
    BY <2>1, <2>2, <2>4, <2>5, <2>6 DEF ProtocolInv
<1>2. CASE ~(ctx = "main" /\ ~Holds(log, tx))
  <2>1. Answer("error")
    BY <1>2 DEF Raise
  <2>2. QED
    BY <2>1, AnswerKeeps DEF Answers
<1>3. QED
  BY <1>1, <1>2

\* Delivery is established: the rest of the completion follows the WAL status.
LEMMA AfterDeliveryKeeps ==
  ASSUME ProtocolInv, pc \in Delivering, Holds(origin, tx), AfterDelivery,
         UNCHANGED <<origin, gitVars, fileVars, walVars, receiptVars, budgetVars>>
  PROVE  ProtocolInv'
<1>1. PICK s \in {"mark_applied", "mark_committed", "note_revision"} :
        GoTo(s) /\ (s = "note_revision" => wal[tx] = "committed")
  BY DEF AfterDelivery, ProtocolInv, WalInv
<1>2. TypeOK' /\ ControlInv'
  BY <1>1 DEF GoTo, ProtocolInv, TypeOK, ControlInv
<1>3. WalInv'
  BY <1>1 DEF GoTo, ProtocolInv, WalInv, OnePending, Pending
<1>4. BranchInv' /\ RequestInv'
  BY <1>1 DEF GoTo, ProtocolInv, BranchInv, RequestInv
<1>5. AnswerInv'
  BY <1>1 DEF GoTo, ProtocolInv, AnswerInv, RevisionOf
<1>6. QED
  BY <1>2, <1>3, <1>4, <1>5 DEF ProtocolInv

-----------------------------------------------------------------------------
(* One lemma per action: it preserves the inductive invariant *)

\* Start-up: a fast-forward to origin brings no command the branch lacked.
LEMMA BootStep ==
  ASSUME ProtocolInv, Boot
  PROVE  ProtocolInv'
  BY ConstantsAssumption, RevisionIsNat, SMTT(30)
     DEF ProtocolInv, TypeOK, ControlInv, WalInv, BranchInv, RequestInv, AnswerInv,
         OnePending, Pending, OwnReceipt, Content, Answers,
         Boot, Pristine, Synchronized

\* Taking the lock changes no durable state.
LEMMA StartStep ==
  ASSUME ProtocolInv, NEW c \in Command,
         NEW o \in {"lookup", "execute"},
         Start(c, o)
  PROVE  ProtocolInv'
  BY ConstantsAssumption, RevisionIsNat, SMTT(30)
     DEF ProtocolInv, TypeOK, ControlInv, WalInv, BranchInv, RequestInv, AnswerInv,
         OnePending, Pending, OwnReceipt, Content, Answers,
         Start

\* Archiving a terminal record: a committed one has its receipt.
LEMMA RecoverTerminalStep ==
  ASSUME ProtocolInv, NEW c \in Command,
         RecoverTerminal(c)
  PROVE  ProtocolInv'
  BY ConstantsAssumption, RevisionIsNat, SMTT(30)
     DEF ProtocolInv, TypeOK, ControlInv, WalInv, BranchInv, RequestInv, AnswerInv,
         OnePending, Pending, OwnReceipt, Content, Answers,
         RecoverTerminal, Finished, ToArchive

\* Recovery drives a pending record forward iff the branch holds it.
LEMMA RecoverPendingStep ==
  ASSUME ProtocolInv, NEW c \in Command,
         RecoverPending(c)
  PROVE  ProtocolInv'
<1>1. CASE Answer("error")
  BY <1>1, AnswerKeeps DEF ProtocolInv, TypeOK, RecoverPending, Answers
<1>2. CASE CanFinish(c) /\ Drive(c, "durable")
  BY <1>2, ConstantsAssumption
     DEF ProtocolInv, TypeOK, ControlInv, WalInv, BranchInv, RequestInv, AnswerInv,
         OnePending, Pending, OwnReceipt, Content, Answers,
         RecoverPending, Finished, CanFinish, Drive
<1>3. CASE CanUnwind(c) /\ Drive(c, "unwind")
  BY <1>3, ConstantsAssumption
     DEF ProtocolInv, TypeOK, ControlInv, WalInv, BranchInv, RequestInv, AnswerInv,
         OnePending, Pending, OwnReceipt, Content, Answers,
         RecoverPending, Finished, CanUnwind, Drive
<1>4. QED
  BY <1>1, <1>2, <1>3 DEF RecoverPending

\* Recovery ends only when nothing is pending.
LEMMA RecoverDoneStep ==
  ASSUME ProtocolInv, RecoverDone
  PROVE  ProtocolInv'
  BY ConstantsAssumption, RevisionIsNat, SMTT(30)
     DEF ProtocolInv, TypeOK, ControlInv, WalInv, BranchInv, RequestInv, AnswerInv,
         OnePending, Pending, OwnReceipt, Content, Answers,
         RecoverDone, GoTo

\* A rollback begins by cleaning the index, never the branch.
LEMMA UnwindStep ==
  ASSUME ProtocolInv, Unwind
  PROVE  ProtocolInv'
<1>1. CASE Answer("error") /\ UNCHANGED <<temp, index>>
  BY <1>1, AnswerKeeps DEF ProtocolInv, TypeOK, Unwind, Answers
<1>2. CASE /\ temp' = {}
           /\ index' = [p \in Path |->
                          IF p \in Writes[tx] THEN tree[p] ELSE index[p]]
           /\ GoTo("restore")
  <2>1. index' \in [Path -> Content]
    BY <1>2 DEF ProtocolInv, TypeOK
  <2>2. QED
    BY <1>2, <2>1, SMTT(30)
       DEF ProtocolInv, TypeOK, ControlInv, WalInv, BranchInv, RequestInv, AnswerInv,
           OnePending, Pending, OwnReceipt, Content, Answers,
           Unwind, GoTo
<1>3. QED
  BY <1>1, <1>2 DEF Unwind

\* Restoring a file concerns neither log nor branch.
LEMMA RestoreStep ==
  ASSUME ProtocolInv, NEW p \in Path, Restore(p)
  PROVE  ProtocolInv'
  BY ConstantsAssumption, RevisionIsNat, SMTT(30)
     DEF ProtocolInv, TypeOK, ControlInv, WalInv, BranchInv, RequestInv, AnswerInv,
         OnePending, Pending, OwnReceipt, Content, Answers,
         Restore, NextToRestore

\* Only an uncommitted transaction is marked as rolled back.
LEMMA MarkRolledBackStep ==
  ASSUME ProtocolInv, MarkRolledBack
  PROVE  ProtocolInv'
  BY ConstantsAssumption, RevisionIsNat, SMTT(30)
     DEF ProtocolInv, TypeOK, ControlInv, WalInv, BranchInv, RequestInv, AnswerInv,
         OnePending, Pending, OwnReceipt, Content, Answers,
         MarkRolledBack, GoTo

\* The record leaves the working set once it is settled.
LEMMA ArchiveStep ==
  ASSUME ProtocolInv, Archive
  PROVE  ProtocolInv'
<1>1. /\ tx \in Command /\ Pending = {tx} /\ Pending' = {}
      /\ \A c \in Command : wal'[c] = "none"
  BY DEF ProtocolInv, TypeOK, ControlInv, WalInv, OnePending, Pending, Archive, ToArchive
<1>2. /\ UNCHANGED <<origin, gitVars, fileVars, before, receiptVars, budgetVars>>
      /\ wal' = [wal EXCEPT ![tx] = "none"] /\ archive' = [archive EXCEPT ![tx] = wal[tx]]
      /\ wal[tx] \in {"rolled_back", "committed"}
      /\ wal[tx] = "rolled_back" => ~Holds(log, tx)
      /\ wal[tx] = "committed" => tx \in receipts
  BY <1>1 DEF Archive, ToArchive, ProtocolInv, WalInv
<1>3. /\ pc' \in {"idle", "down", "recover"} /\ ctx' = "none" /\ tx' = None
      /\ IF pc' = "recover" THEN UNCHANGED <<op, cmd, reply>> ELSE op' = "none" /\ cmd' = None
      /\ \/ reply' = reply
         \/ reply' = [reply EXCEPT ![cmd] = "error"]
         \/ ctx = "main" /\ reply' = [reply EXCEPT ![cmd] = "committed"]
  BY DEF Archive, Answer, Idle
<1>4. TypeOK'
  BY <1>1, <1>2, <1>3 DEF ProtocolInv, TypeOK, Answers
<1>5. ControlInv'
  <2>1. pc = "archive" /\ op # "none"
    BY DEF Archive, ProtocolInv, ControlInv
  <2>2. QED
    BY <1>3, <2>1 DEF ProtocolInv, ControlInv
<1>6. WalInv' /\ BranchInv' /\ RequestInv'
  BY <1>1, <1>2, <1>3 DEF ProtocolInv, WalInv, OnePending, BranchInv, RequestInv
<1>7. AnswerInv'
  <2>1. \A c \in Command : reply'[c] \in {"committed", "duplicate"} => c \in receipts
    BY <1>2, <1>3 DEF Archive, ProtocolInv, TypeOK, ControlInv, WalInv, AnswerInv
  <2>2. QED
    BY <1>2, <1>3, <2>1 DEF ProtocolInv, AnswerInv, RevisionOf
<1>8. QED
  BY <1>4, <1>5, <1>6, <1>7 DEF ProtocolInv

\* The preflight check only decides whether to go on.
LEMMA PreflightStep ==
  ASSUME ProtocolInv, Preflight
  PROVE  ProtocolInv'
<1>1. CASE Answer("error")
  BY <1>1, AnswerKeeps DEF ProtocolInv, TypeOK, Preflight, Answers
<1>2. CASE op = "boot" /\ GoTo("integrity")
  BY <1>2, ConstantsAssumption, RevisionIsNat, SMTT(30)
     DEF ProtocolInv, TypeOK, ControlInv, WalInv, BranchInv, RequestInv, AnswerInv,
         OnePending, Pending, OwnReceipt, Content, Answers,
         Preflight, GoTo
<1>3. CASE op # "boot" /\ GoTo("lookup")
  BY <1>3, ConstantsAssumption, RevisionIsNat, SMTT(30)
     DEF ProtocolInv, TypeOK, ControlInv, WalInv, BranchInv, RequestInv, AnswerInv,
         OnePending, Pending, OwnReceipt, Content, Answers,
         Preflight, GoTo
<1>4. QED
  BY <1>1, <1>2, <1>3 DEF Preflight

\* Rebuilding the index leaves it at the newest receipt.
LEMMA IntegrityStep ==
  ASSUME ProtocolInv, Integrity
  PROVE  ProtocolInv'
<1>1. CASE Answer("error") /\ UNCHANGED highWater
  BY <1>1, AnswerKeeps DEF ProtocolInv, TypeOK, Integrity, Answers
<1>2. CASE /\ pc' = "idle" /\ Idle /\ reply' = reply
           /\ UNCHANGED highWater
  BY <1>2, SMTT(30)
     DEF ProtocolInv, TypeOK, ControlInv, WalInv, BranchInv, RequestInv, AnswerInv,
         OnePending, Pending, OwnReceipt, Content, Answers,
         Integrity, Idle, RevisionOf
<1>3. CASE /\ pc' = "idle" /\ Idle /\ reply' = reply
           /\ \E n \in 0..RevisionOf(disk[Meta]) :
                /\ \A c \in receipts : RevisionOf(c) <= n
                /\ highWater' = n
  <2>1. highWater' \in Nat /\ \A c \in receipts : RevisionOf(c) <= highWater'
    BY <1>3
  <2>2. QED
    BY <1>3, <2>1, SMTT(30)
       DEF ProtocolInv, TypeOK, ControlInv, WalInv, BranchInv, RequestInv, AnswerInv,
           OnePending, Pending, OwnReceipt, Content, Answers,
           Integrity, Idle, RevisionOf
<1>4. QED
  BY <1>1, <1>2, <1>3 DEF Integrity

\* Past the lookup, the request has no receipt.
LEMMA LookupStep ==
  ASSUME ProtocolInv, Lookup
  PROVE  ProtocolInv'
<1>1. CASE Answer("conflict") \/ Answer("absent")
  BY <1>1, AnswerKeeps DEF ProtocolInv, TypeOK, Lookup, Answers
<1>2. CASE cmd \in receipts /\ Answer("duplicate")
  BY <1>2, AnswerKeeps DEF ProtocolInv, TypeOK, Lookup, Answers
<1>3. CASE ~OwnReceipt(cmd) /\ GoTo("prepare")
  BY <1>3, SMTT(30)
     DEF ProtocolInv, TypeOK, ControlInv, WalInv, BranchInv, RequestInv, AnswerInv,
         OnePending, Pending, OwnReceipt, Content, Answers,
         Lookup, GoTo, RevisionOf
<1>4. OtherReceipt(cmd) \/ cmd \in receipts \/ ~OwnReceipt(cmd)
  BY DEF OwnReceipt, OtherReceipt
<1>5. QED
  BY <1>1, <1>2, <1>3, <1>4 DEF Lookup

\* A prepared command has neither receipt nor commit.
LEMMA PrepareStep ==
  ASSUME ProtocolInv, Prepare
  PROVE  ProtocolInv'
<1>1. CASE (Answer("stale") \/ Answer("error")) /\ UNCHANGED walVars
  BY <1>1, AnswerKeeps DEF ProtocolInv, TypeOK, Prepare, Answers
<1>2. CASE /\ wal' = [wal EXCEPT ![cmd] = "prepared"]
           /\ before' = [before EXCEPT ![cmd] = disk]
           /\ pc' = "validate" /\ ctx' = "main" /\ tx' = cmd
           /\ UNCHANGED <<archive, op, cmd, reply>>
  <2>1. cmd \in Command /\ cmd # None /\ Pending = {}
    BY ConstantsAssumption DEF Prepare, ProtocolInv, ControlInv, WalInv
  <2>2. TypeOK' /\ ControlInv'
    BY <1>2, <2>1 DEF Prepare, ProtocolInv, TypeOK, ControlInv
  <2>3. Pending' = {cmd} /\ wal'[cmd] = "prepared"
    BY <1>2, <2>1 DEF ProtocolInv, TypeOK, Pending
  <2>4. ~Holds(log, cmd)
    BY <2>1 DEF Prepare, ProtocolInv, WalInv, RequestInv, OwnReceipt
  <2>5. WalInv'
    BY <1>2, <2>1, <2>3, <2>4 DEF Prepare, ProtocolInv, TypeOK, WalInv, OnePending, Pending
  <2>6. BranchInv' /\ RequestInv'
    BY <1>2, <2>1 DEF Prepare, ProtocolInv, BranchInv, RequestInv, OwnReceipt
  <2>7. AnswerInv'
    BY <1>2, <2>1 DEF Prepare, ProtocolInv, AnswerInv, RevisionOf
  <2>8. QED
    BY <2>2, <2>5, <2>6, <2>7 DEF ProtocolInv
<1>3. QED
  BY <1>1, <1>2 DEF Prepare

\* The validator changes nothing.
LEMMA ValidateStep ==
  ASSUME ProtocolInv, Validate
  PROVE  ProtocolInv'
  BY ConstantsAssumption, RevisionIsNat, SMTT(30)
     DEF ProtocolInv, TypeOK, ControlInv, WalInv, BranchInv, RequestInv, AnswerInv,
         OnePending, Pending, OwnReceipt, Content, Answers,
         Validate, GoTo, Raise, Answer, Idle

\* Replacing a file concerns neither log nor branch.
LEMMA ApplyStep ==
  ASSUME ProtocolInv, NEW p \in Path, Apply(p)
  PROVE  ProtocolInv'
  BY ConstantsAssumption, RevisionIsNat, SMTT(30)
     DEF ProtocolInv, TypeOK, ControlInv, WalInv, BranchInv, RequestInv, AnswerInv,
         OnePending, Pending, OwnReceipt, Content, Answers,
         Apply

\* The applied mark precedes the commit, or follows delivery.
LEMMA MarkAppliedStep ==
  ASSUME ProtocolInv, MarkApplied
  PROVE  ProtocolInv'
  BY ConstantsAssumption, RevisionIsNat, SMTT(30)
     DEF ProtocolInv, TypeOK, ControlInv, WalInv, BranchInv, RequestInv, AnswerInv,
         OnePending, Pending, OwnReceipt, Content, Answers,
         MarkApplied, GoTo

\* Staging concerns only the index.
LEMMA StageStep ==
  ASSUME ProtocolInv, Stage
  PROVE  ProtocolInv'
<1>1. CASE Raise /\ UNCHANGED index
  BY <1>1, RaiseKeeps DEF Stage, ProtocolInv, TypeOK
<1>2. CASE /\ index' = [p \in Path |-> IF p \in Writes[tx] THEN disk[p] ELSE index[p]]
           /\ GoTo("commit")
  <2>1. index' \in [Path -> Content]
    BY <1>2 DEF ProtocolInv, TypeOK
  <2>2. TypeOK' /\ ControlInv'
    BY <1>2, <2>1 DEF Stage, GoTo, ProtocolInv, TypeOK, ControlInv
  <2>3. WalInv' /\ BranchInv'
    BY <1>2 DEF Stage, GoTo, ProtocolInv, WalInv, OnePending, Pending, BranchInv
  <2>4. RequestInv'
    BY <1>2 DEF Stage, GoTo, ProtocolInv, RequestInv, OwnReceipt
  <2>5. AnswerInv'
    BY <1>2 DEF Stage, GoTo, ProtocolInv, AnswerInv, RevisionOf
  <2>6. QED
    BY <2>2, <2>3, <2>4, <2>5 DEF ProtocolInv
<1>3. QED
  BY <1>1, <1>2 DEF Stage

\* The commit: the one step that adds a command to the branch.
LEMMA GitCommitStep ==
  ASSUME ProtocolInv, GitCommit
  PROVE  ProtocolInv'
<1>1. CASE Raise /\ UNCHANGED <<log, tree>>
  BY <1>1, RaiseKeeps DEF ProtocolInv, TypeOK, GitCommit
<1>2. CASE /\ log' = Append(log, tx) /\ tree' = index /\ GoTo("readback")
  <2>1. /\ tx \in Command /\ tx \in Commits /\ Pending = {tx}
        /\ ~OwnReceipt(tx) /\ ~Holds(log, tx)
    BY DEF GitCommit, ProtocolInv, TypeOK, ControlInv, WalInv, OnePending, Pending,
           RequestInv, Commits
  <2>2. \A c \in Command : Holds(log', c) <=> Holds(log, c) \/ c = tx
    BY <1>2, <2>1, HoldsAppend DEF ProtocolInv, TypeOK
  <2>3. TypeOK' /\ ControlInv'
    BY <1>2, <2>1 DEF GitCommit, GoTo, ProtocolInv, TypeOK, ControlInv
  <2>4. WalInv'
    BY <1>2, <2>1, <2>2 DEF GitCommit, GoTo, ProtocolInv, ControlInv, WalInv, OnePending,
                            Pending
  <2>5. BranchInv'
    BY <1>2, <2>2 DEF GitCommit, GoTo, ProtocolInv, BranchInv
  <2>6. \A c \in Command : Holds(log, c) => RequestOf[c] # RequestOf[tx]
    BY <2>1 DEF ProtocolInv, WalInv, OwnReceipt
  <2>7. UniqueIn(log')
    BY <1>2, <2>1, <2>6, UniqueAppendCommand DEF ProtocolInv, TypeOK, RequestInv
  <2>8. RequestInv'
    BY <1>2, <2>7 DEF GitCommit, GoTo, ProtocolInv, RequestInv
  <2>9. AnswerInv'
    BY <1>2 DEF GitCommit, GoTo, ProtocolInv, AnswerInv, RevisionOf
  <2>10. QED
    BY <2>3, <2>4, <2>5, <2>8, <2>9 DEF ProtocolInv
<1>3. QED
  BY <1>1, <1>2 DEF GitCommit

\* Reading back changes nothing.
LEMMA ReadbackStep ==
  ASSUME ProtocolInv, Readback
  PROVE  ProtocolInv'
<1>1. CASE Raise
  BY <1>1, RaiseKeeps DEF ProtocolInv, TypeOK, Readback
<1>2. CASE GoTo("durable")
  BY <1>2, ConstantsAssumption, RevisionIsNat, SMTT(30)
     DEF ProtocolInv, TypeOK, ControlInv, WalInv, BranchInv, RequestInv, AnswerInv,
         OnePending, Pending, OwnReceipt, Content, Answers,
         Readback, GoTo, RevisionOf
<1>3. QED
  BY <1>1, <1>2 DEF Readback

\* A commit counts as delivered only if origin already holds it.
LEMMA DurableStep ==
  ASSUME ProtocolInv, Durable
  PROVE  ProtocolInv'
<1>1. CASE Raise
  BY <1>1, RaiseKeeps DEF ProtocolInv, TypeOK, Durable
<1>2. CASE GoTo("push")
  BY <1>2, SMTT(30)
     DEF ProtocolInv, TypeOK, ControlInv, WalInv, BranchInv, RequestInv, AnswerInv,
         OnePending, Pending, OwnReceipt, Content, Answers,
         Durable, GoTo, RevisionOf
<1>3. CASE Synchronized /\ AfterDelivery
  <2>1. UNCHANGED <<origin, gitVars, fileVars, walVars, receiptVars, budgetVars>>
    BY DEF Durable
  <2>2. pc \in Delivering /\ Holds(origin, tx)
    BY <1>3 DEF Durable, ProtocolInv, WalInv, Synchronized
  <2>3. QED
    BY <1>3, <2>1, <2>2, AfterDeliveryKeeps
<1>4. QED
  BY <1>1, <1>2, <1>3 DEF Durable

\* The push makes origin equal to the local branch.
LEMMA PushStep ==
  ASSUME ProtocolInv, Push
  PROVE  ProtocolInv'
<1>1. CASE Raise /\ UNCHANGED origin
  BY <1>1, RaiseKeeps DEF ProtocolInv, TypeOK, Push
<1>2. CASE origin' = log /\ GoTo("verify")
  BY <1>2, SMTT(30)
     DEF ProtocolInv, TypeOK, ControlInv, WalInv, BranchInv, RequestInv, AnswerInv,
         OnePending, Pending, OwnReceipt, Content, Answers,
         Push, GoTo, RevisionOf
<1>3. QED
  BY <1>1, <1>2 DEF Push

\* A push whose answer is lost delivers all the same.
LEMMA PushUnacknowledgedStep ==
  ASSUME ProtocolInv, PushUnacknowledged
  PROVE  ProtocolInv'
<1>1. pc = "push" /\ Holds(log, tx) /\ Answer("error")
  BY DEF PushUnacknowledged, Raise, ProtocolInv, WalInv
<1>2. TypeOK' /\ ControlInv'
  BY <1>1, ConstantsAssumption
     DEF PushUnacknowledged, Answer, Idle, ProtocolInv, TypeOK, ControlInv, Answers
<1>3. WalInv'
  BY <1>1 DEF PushUnacknowledged, Answer, Idle, ProtocolInv, ControlInv, WalInv,
              OnePending, Pending
<1>4. BranchInv' /\ RequestInv'
  BY <1>1 DEF PushUnacknowledged, Answer, ProtocolInv, TypeOK, BranchInv, RequestInv
<1>5. AnswerInv'
  BY <1>1 DEF PushUnacknowledged, Answer, ProtocolInv, TypeOK, ControlInv, AnswerInv,
              RevisionOf
<1>6. QED
  BY <1>2, <1>3, <1>4, <1>5 DEF ProtocolInv

\* After the push, the heads are compared again.
LEMMA VerifyStep ==
  ASSUME ProtocolInv, Verify
  PROVE  ProtocolInv'
<1>1. CASE Raise
  BY <1>1, RaiseKeeps DEF ProtocolInv, TypeOK, Verify
<1>2. CASE Synchronized /\ AfterDelivery
  <2>1. UNCHANGED <<origin, gitVars, fileVars, walVars, receiptVars, budgetVars>>
    BY DEF Verify
  <2>2. pc \in Delivering /\ Holds(origin, tx)
    BY <1>2 DEF Verify, ProtocolInv, WalInv, Synchronized
  <2>3. QED
    BY <1>2, <2>1, <2>2, AfterDeliveryKeeps
<1>3. QED
  BY <1>1, <1>2 DEF Verify

\* The committed mark follows delivery.
LEMMA MarkCommittedStep ==
  ASSUME ProtocolInv, MarkCommitted
  PROVE  ProtocolInv'
<1>1. CASE Raise /\ UNCHANGED wal
  BY <1>1, RaiseKeeps DEF ProtocolInv, TypeOK, MarkCommitted
<1>2. CASE wal' = [wal EXCEPT ![tx] = "committed"] /\ GoTo("note_revision")
  BY <1>2, ConstantsAssumption, SMTT(30)
     DEF ProtocolInv, TypeOK, ControlInv, WalInv, BranchInv, RequestInv, AnswerInv,
         OnePending, Pending, OwnReceipt, Content, Answers,
         MarkCommitted, GoTo, RevisionOf
<1>3. QED
  BY <1>1, <1>2 DEF MarkCommitted

\* The index is raised to the revision of the receipt to come.
LEMMA NoteRevisionStep ==
  ASSUME ProtocolInv, NoteRevision
  PROVE  ProtocolInv'
<1>1. CASE Raise /\ UNCHANGED highWater
  BY <1>1, RaiseKeeps DEF ProtocolInv, TypeOK, NoteRevision
<1>2. CASE highWater' = Greater(highWater, RevisionOf(tx)) /\ GoTo("receipt")
  <2>1. tx \in Command
    BY DEF NoteRevision, ProtocolInv, TypeOK, ControlInv
  <2>2. /\ RevisionOf(tx) \in Nat
        /\ \A c \in receipts : RevisionOf(c) \in Nat
    BY <2>1, RevisionIsNat DEF ProtocolInv, TypeOK, Content
  <2>3. highWater' \in Nat
    BY <1>2, <2>2 DEF Greater, ProtocolInv, TypeOK
  <2>4. QED
    BY <1>2, <2>3, SMTT(30)
       DEF ProtocolInv, TypeOK, ControlInv, WalInv, BranchInv, RequestInv, AnswerInv,
           OnePending, Pending, OwnReceipt, Content, Answers,
           NoteRevision, GoTo, RevisionOf
<1>3. QED
  BY <1>1, <1>2 DEF NoteRevision

\* The receipt: its command is delivered and the index covers it.
LEMMA PutReceiptStep ==
  ASSUME ProtocolInv, PutReceipt
  PROVE  ProtocolInv'
  BY ConstantsAssumption, RevisionIsNat, SMTT(30)
     DEF ProtocolInv, TypeOK, ControlInv, WalInv, BranchInv, RequestInv, AnswerInv,
         OnePending, Pending, OwnReceipt, Content, Answers,
         PutReceipt, GoTo

\* An exception at any step.
LEMMA FaultStep ==
  ASSUME ProtocolInv, Fault
  PROVE  ProtocolInv'
  BY RaiseKeeps, ConstantsAssumption DEF Fault, ProtocolInv, TypeOK

\* A death keeps log, branch and receipts.
LEMMA CrashStep ==
  ASSUME ProtocolInv, Crash
  PROVE  ProtocolInv'
  BY ConstantsAssumption, RevisionIsNat, SMTT(30)
     DEF ProtocolInv, TypeOK, ControlInv, WalInv, BranchInv, RequestInv, AnswerInv,
         OnePending, Pending, OwnReceipt, Content, Answers,
         Crash, Idle, LeftBehind

\* A release changes origin but no command on it.
LEMMA PushReleaseStep ==
  ASSUME ProtocolInv, NEW r \in Release, PushRelease(r)
  PROVE  ProtocolInv'
<1>1. origin \in Seq(Commits) /\ r \in Commits
  BY DEF ProtocolInv, TypeOK, Commits
<1>2. \A c \in Command : Holds(origin', c) <=> Holds(origin, c)
  BY <1>1, HoldsAppend, ConstantsAssumption DEF PushRelease
<1>3. UniqueIn(origin')
  BY <1>1, UniqueAppendRelease DEF PushRelease, ProtocolInv, RequestInv
<1>4. TypeOK' /\ ControlInv' /\ WalInv'
  BY <1>1 DEF PushRelease, ProtocolInv, TypeOK, ControlInv, WalInv, OnePending, Pending
<1>5. BranchInv'
  BY <1>2 DEF PushRelease, ProtocolInv, TypeOK, ControlInv, BranchInv
<1>6. RequestInv' /\ AnswerInv'
  BY <1>3 DEF PushRelease, ProtocolInv, RequestInv, AnswerInv,
              OwnReceipt, RevisionOf
<1>7. QED
  BY <1>4, <1>5, <1>6 DEF ProtocolInv

\* Stopping an idle service changes nothing durable.
LEMMA RedeployStep ==
  ASSUME ProtocolInv, Redeploy
  PROVE  ProtocolInv'
  BY ConstantsAssumption, RevisionIsNat, SMTT(30)
     DEF ProtocolInv, TypeOK, ControlInv, WalInv, BranchInv, RequestInv, AnswerInv,
         OnePending, Pending, OwnReceipt, Content, Answers,
         Redeploy

-----------------------------------------------------------------------------
(* The theorems *)

\* The initial state satisfies the inductive invariant.
LEMMA InitInv == Init => ProtocolInv
  BY ConstantsAssumption
     DEF Init, UniqueIn, Holds, Commits, ProtocolInv, TypeOK, ControlInv, WalInv, BranchInv, RequestInv, AnswerInv,
         OnePending, Pending, OwnReceipt, Content, Answers

\* Every step of the process and of its environment preserves it.
LEMMA NextInv == ProtocolInv /\ [Next]_vars => ProtocolInv'
<1> SUFFICES ASSUME ProtocolInv, [Next]_vars
             PROVE  ProtocolInv'
  OBVIOUS
<1>1. CASE UNCHANGED vars
  BY <1>1 DEF ProtocolInv, TypeOK, ControlInv, WalInv, BranchInv, RequestInv, AnswerInv,
         OnePending, Pending, OwnReceipt, Content, Answers, vars
<1>2. CASE Boot
  BY <1>2, BootStep
<1>3. CASE Call
  BY <1>3, StartStep DEF Call
<1>4. CASE RecoverStep
  BY <1>4, RecoverTerminalStep, RecoverPendingStep, RecoverDoneStep DEF RecoverStep
<1>5. CASE RollbackStep
  BY <1>5, UnwindStep, MarkRolledBackStep, ArchiveStep, RestoreStep DEF RollbackStep
<1>6. CASE TransactionStep
  BY <1>6, PreflightStep, IntegrityStep, LookupStep, PrepareStep, ValidateStep,
     MarkAppliedStep, StageStep, GitCommitStep, ReadbackStep, ApplyStep
     DEF TransactionStep
<1>7. CASE DeliveryStep
  BY <1>7, DurableStep, PushStep, VerifyStep, MarkCommittedStep, NoteRevisionStep,
     PutReceiptStep DEF DeliveryStep
<1>8. CASE Environment
  BY <1>8, FaultStep, PushUnacknowledgedStep, CrashStep, RedeployStep, PushReleaseStep
     DEF Environment
<1>9. QED
  BY <1>1, <1>2, <1>3, <1>4, <1>5, <1>6, <1>7, <1>8 DEF Next, Work

\* The protocol between the durable records holds.
LEMMA ProtocolHolds == Spec => []ProtocolInv
  BY InitInv, NextInv, PTL DEF Spec

\* The index is raised before a receipt is linked and lowered never below one.
LEMMA IndexStep ==
  ASSUME ProtocolInv, IndexInv, [Next]_vars
  PROVE  IndexInv'
<1>1. receipts \subseteq Command /\ highWater \in Nat /\ tx \in Command \cup {None}
  BY DEF ProtocolInv, TypeOK
<1>2. \A c \in Command : RevisionOf(c) \in Nat
  BY RevisionIsNat DEF Content
<1>3. CASE NoteRevision
  <2>1. CASE highWater' = Greater(highWater, RevisionOf(tx)) /\ GoTo("receipt")
    <3>1. tx \in Command /\ UNCHANGED <<receipts, tx>>
      BY <1>3, <2>1 DEF NoteRevision, GoTo, ProtocolInv, TypeOK, ControlInv
    <3>2. highWater' \in Nat /\ highWater <= highWater' /\ RevisionOf(tx) <= highWater'
      BY <1>1, <1>2, <2>1, <3>1 DEF Greater
    <3>3. \A c \in receipts : RevisionOf(c) <= highWater'
      BY <1>1, <1>2, <3>2 DEF IndexInv, HighWaterCovers
    <3>4. QED
      BY <3>1, <3>2, <3>3 DEF IndexInv, HighWaterCovers, RevisionOf
  <2>2. CASE Raise /\ UNCHANGED highWater
    <3>1. pc' # "receipt" /\ UNCHANGED <<receipts, highWater>>
      BY <1>3, <2>2 DEF NoteRevision, Raise, Answer
    <3>2. QED
      BY <3>1 DEF IndexInv, HighWaterCovers, RevisionOf
  <2>3. QED
    BY <1>3, <2>1, <2>2 DEF NoteRevision
<1>4. CASE PutReceipt
  <2>1. pc' # "receipt" /\ receipts' = receipts \cup {tx} /\ UNCHANGED highWater
    BY <1>4 DEF PutReceipt, GoTo
  <2>2. RevisionOf(tx) <= highWater
    BY <1>4 DEF PutReceipt, IndexInv
  <2>3. QED
    BY <2>1, <2>2 DEF IndexInv, HighWaterCovers, RevisionOf
<1>5. CASE Integrity
  <2>1. UNCHANGED receipts /\ pc' # "receipt"
    BY <1>5 DEF Integrity, Answer, GoTo
  <2>2. \A c \in receipts : RevisionOf(c) <= highWater'
    BY <1>1, <1>2, <1>5 DEF Integrity, IndexInv, HighWaterCovers
  <2>3. QED
    BY <2>1, <2>2 DEF IndexInv, HighWaterCovers, RevisionOf
<1>6. CASE UNCHANGED <<receipts, highWater>> /\ (pc' = "receipt" => pc = "receipt" /\ tx' = tx)
  BY <1>6 DEF IndexInv, HighWaterCovers, RevisionOf
<1>7. NoteRevision \/ PutReceipt \/ Integrity \/ UNCHANGED <<receipts, highWater>>
  BY DEF Next, Work, Call, RecoverStep, RollbackStep, TransactionStep, DeliveryStep,
         Environment, vars, Boot, Start, RecoverTerminal, RecoverPending, RecoverDone,
         Unwind, Restore, MarkRolledBack, Archive, Preflight, Lookup, Prepare, Validate,
         Apply, MarkApplied, Stage, GitCommit, Readback, Durable, Push, PushUnacknowledged,
         Verify, MarkCommitted, Fault, Crash, PushRelease, Redeploy
<1>8. NoteRevision \/ PutReceipt \/ Integrity \/ (pc' = "receipt" => pc = "receipt" /\ tx' = tx)
  BY DEF Next, Work, Call, RecoverStep, RollbackStep, TransactionStep, DeliveryStep,
         Environment, vars, Boot, Start, RecoverTerminal, RecoverPending, RecoverDone,
         Unwind, Restore, MarkRolledBack, Archive, Preflight, Lookup, Prepare, Validate,
         Apply, MarkApplied, Stage, GitCommit, Readback, Durable, AfterDelivery, Push,
         PushUnacknowledged, Verify, MarkCommitted, Fault, Crash, PushRelease, Redeploy,
         Raise, Answer, GoTo, Drive
<1>9. QED
  BY <1>3, <1>4, <1>5, <1>6, <1>7, <1>8

\* The write-ahead log, the branch and the receipts agree in every reachable
\* state, whatever the commands, crashes, faults and releases.
THEOREM Invariance == Spec => []IInv
<1>1. Init => IndexInv
  BY DEF Init, IndexInv, HighWaterCovers
<1>2. ProtocolInv /\ IndexInv /\ [Next]_vars => IndexInv'
  BY IndexStep
<1>3. QED
  BY <1>1, <1>2, ProtocolHolds, PTL DEF Spec, IInv

\* Every variable keeps its type.
THEOREM TypeCorrect == Spec => []TypeOK
<1>1. ProtocolInv => TypeOK
  BY DEF ProtocolInv
<1>2. QED
  BY <1>1, ProtocolHolds, PTL

\* No request identity is committed twice, however often it is retried and
\* whatever crash or exception interrupts it.
THEOREM RequestsCommitOnce == Spec => []ExactlyOnce
<1>1. ProtocolInv => ExactlyOnce
  BY DEF ProtocolInv, RequestInv, ExactlyOnce
<1>2. QED
  BY <1>1, ProtocolHolds, PTL

\* Receipts and positive answers are only given for what the remote branch
\* already holds.
THEOREM AcknowledgementsAreDurable == Spec => []AcknowledgedDurable
<1>1. ProtocolInv => AcknowledgedDurable
  BY DEF ProtocolInv, BranchInv, AnswerInv, AcknowledgedDurable
<1>2. QED
  BY <1>1, ProtocolHolds, PTL

\* At most one transaction is ever waiting for recovery.
THEOREM OneTransactionPending == Spec => []OnePending
<1>1. ProtocolInv => OnePending
  BY DEF ProtocolInv, WalInv
<1>2. QED
  BY <1>1, ProtocolHolds, PTL

\* A step changes the remote branch by a fast-forward or not at all.
LEMMA OriginStep == ProtocolInv /\ [Next]_vars => [IsPrefix(origin, origin')]_origin
<1> SUFFICES ASSUME ProtocolInv, [Next]_vars, origin' # origin
             PROVE  IsPrefix(origin, origin')
  OBVIOUS
<1>1. origin \in Seq(Commits) /\ log \in Seq(Commits)
  BY DEF ProtocolInv, TypeOK
<1>2. ASSUME AtParent, origin' = log PROVE IsPrefix(origin, origin')
  BY <1>1, <1>2, FrontIsPrefix DEF AtParent
<1>3. ASSUME NEW r \in Release, PushRelease(r) PROVE IsPrefix(origin, origin')
  BY <1>1, <1>3, AppendExtends DEF PushRelease, Commits
<1>4. CASE Push \/ PushUnacknowledged
  BY <1>2, <1>4 DEF Push, PushUnacknowledged
<1>5. Push \/ PushUnacknowledged \/ \E r \in Release : PushRelease(r)
  BY DEF Next, Work, Call, RecoverStep, RollbackStep, TransactionStep, DeliveryStep,
         Environment, vars, Boot, Start, RecoverTerminal, RecoverPending, RecoverDone,
         Unwind, Restore, MarkRolledBack, Archive, Preflight, Integrity, Lookup,
         Prepare, Validate, Apply, MarkApplied, Stage, GitCommit, Readback, Durable,
         Verify, MarkCommitted, NoteRevision, PutReceipt, Fault, Crash, Redeploy
<1>6. QED
  BY <1>3, <1>4, <1>5

\* Delivery only fast-forwards the shared branch: no release is overwritten.
THEOREM RemoteIsNeverRewritten == Spec => RemoteOnlyExtended
  BY OriginStep, ProtocolHolds, PTL DEF Spec, RemoteOnlyExtended

\* "stale" and "absent" are said only where neither the branch nor a receipt
\* knows the command, and the step that says it commits nothing.
LEMMA NegativeStep ==
  ASSUME ProtocolInv, [Next]_vars, NEW c \in Command,
         reply'[c] # reply[c], reply'[c] \in {"stale", "absent"}
  PROVE  ~Holds(log', c)
<1>1. ASSUME NEW a \in Answers \ {"stale", "absent"}
      PROVE  ~Answer(a)
  BY DEF Answer, ProtocolInv, TypeOK
<1>2. reply' # reply
  OBVIOUS
<1>3. ~Raise /\ \A step : ~GoTo(step)
  BY <1>1, <1>2 DEF Raise, GoTo, Answers
<1>4. ~Archive /\ ~Crash /\ ~Integrity /\ ~\E d \in Command : RecoverPending(d)
  <2>1. ~Archive
    BY <1>1, <1>2 DEF Archive, Answers
  <2>2. ~Crash
    BY DEF Crash, ProtocolInv, TypeOK
  <2>3. ~Integrity
    BY <1>1, <1>2 DEF Integrity, Answers
  <2>4. ~\E d \in Command : RecoverPending(d)
    BY <1>1, <1>2 DEF RecoverPending, Drive, Answers
  <2>5. QED
    BY <2>1, <2>2, <2>3, <2>4
<1>5. ~Unwind /\ ~Preflight
  BY <1>1, <1>3 DEF Unwind, Preflight, Answers
<1>6. Lookup \/ Prepare
  BY <1>2, <1>3, <1>4, <1>5
     DEF Next, Work, Call, RecoverStep, RollbackStep, TransactionStep, DeliveryStep,
         Environment, vars, Boot, Start, RecoverTerminal, RecoverDone, Restore,
         MarkRolledBack, Validate, Apply, MarkApplied, Stage, GitCommit, Readback,
         Durable, AfterDelivery, Push, PushUnacknowledged, Verify, MarkCommitted,
         NoteRevision, PutReceipt, Fault, PushRelease, Redeploy
<1>7. CASE Lookup
  <2>1. CASE ~OwnReceipt(cmd) /\ Answer("absent")
    BY <1>7, <2>1 DEF Lookup, Answer, ProtocolInv, TypeOK, WalInv, OwnReceipt
  <2>2. QED
    BY <1>1, <1>3, <1>7, <2>1 DEF Lookup, Answers
<1>8. CASE Prepare
  <2>1. ~OwnReceipt(cmd) /\ Pending = {} /\ log' = log
    BY <1>8 DEF Prepare, ProtocolInv, WalInv, RequestInv
  <2>2. c = cmd
    BY <1>8 DEF Prepare, Answer, ProtocolInv, TypeOK
  <2>3. QED
    BY <2>1, <2>2 DEF ProtocolInv, WalInv, OwnReceipt
<1>9. QED
  BY <1>6, <1>7, <1>8

\* A negative answer is never given for a command the campaign has committed.
THEOREM NegativeAnswersHold == Spec => NegativeAnswersAreTrue
<1>1. ProtocolInv /\ [Next]_vars =>
        [\A c \in Command :
           reply'[c] # reply[c] /\ reply'[c] \in {"stale", "absent"} =>
             ~Holds(log', c)]_vars
  BY NegativeStep
<1>2. QED
  BY <1>1, ProtocolHolds, PTL DEF Spec, NegativeAnswersAreTrue

-----------------------------------------------------------------------------
(* The campaign files *)

\* Files at the head come from committed commands, the newest of which wrote
\* state/meta.json and left no owner file behind.
TreeInv ==
  /\ \A p \in Path : tree[p] # Initial => Holds(log, tree[p])
  /\ \A c \in CommittedCommands : RevisionOf(c) <= RevisionOf(tree[Meta])
  /\ tree[Meta] # Initial =>
       \A p \in Writes[tree[Meta]] : RevisionOf(tree[p]) >= RevisionOf(tree[Meta])

Clean == index = tree /\ disk = tree

\* The files of an uncommitted transaction: outside its manifest they are the
\* head's, inside it one of the two images, state/meta.json's after-image only
\* beside all the others.
HalfDone(c) ==
  /\ before[c] = tree
  /\ RevisionOf(tree[Meta]) = Base[c]
  /\ Differing(tree, index) \cup Differing(tree, disk) \subseteq Writes[c]
  /\ Classifiable(c)
  /\ disk[Meta] = c => Applied(c)
  /\ wal[c] = "rolled_back" => Clean

DiskInv ==
  /\ Pending = {} => Clean
  /\ \A c \in Pending : IF Holds(log, c) THEN Clean ELSE HalfDone(c)
  /\ pc = "restore" => index = tree

FileInv == TreeInv /\ DiskInv

\* A history holds what its prefix holds.
LEMMA PrefixHolds ==
  ASSUME NEW S, NEW s \in Seq(S), NEW t \in Seq(S), IsPrefix(s, t), NEW x, Holds(s, x)
  PROVE  Holds(t, x)
<1>1. PICK i \in 1..Len(s) : s[i] = x
  BY DEF Holds
<1>2. i \in 1..Len(t) /\ t[i] = x
  BY <1>1 DEF IsPrefix
<1>3. QED
  BY <1>2 DEF Holds

\* Steps that leave files, log and branch alone.
LEMMA FilesKept ==
  ASSUME FileInv, pc' = "restore" => index = tree,
         UNCHANGED <<gitVars, disk, wal, before>>
  PROVE  FileInv'
  BY DEF FileInv, TreeInv, DiskInv, CommittedCommands, Clean, HalfDone, Classifiable, Applied,
         Differing, Pending, RevisionOf

\* Status changes that keep a record pending.
LEMMA StatusKept ==
  ASSUME ProtocolInv, FileInv, tx \in Pending, NEW status \in {"applied", "committed"},
         wal' = [wal EXCEPT ![tx] = status], pc' # "restore",
         UNCHANGED <<gitVars, disk, before>>
  PROVE  FileInv'
<1>1. /\ Pending' = Pending /\ \A c \in Pending : wal'[c] = "rolled_back" => wal[c] = "rolled_back"
  BY DEF Pending, ProtocolInv, TypeOK
<1>2. TreeInv'
  BY DEF FileInv, TreeInv, CommittedCommands, RevisionOf
<1>3. \A c \in Pending : IF Holds(log, c) THEN Clean' ELSE HalfDone(c)'
  BY <1>1 DEF FileInv, DiskInv, Clean, HalfDone, Classifiable, Applied, Differing, RevisionOf
<1>4. DiskInv'
  BY <1>1, <1>3 DEF FileInv, DiskInv, Clean
<1>5. QED
  BY <1>2, <1>4 DEF FileInv

\* A settled record leaves clean files behind.
LEMMA ArchivedClean ==
  ASSUME ProtocolInv, FileInv, NEW c \in Command, c \in Pending, pc' # "restore",
         Pending' \subseteq Pending \ {c},
         wal[c] = "rolled_back" \/ (wal[c] = "committed" /\ c \in receipts),
         UNCHANGED <<gitVars, disk>>
  PROVE  FileInv'
<1>1. c \in Command /\ Pending = {c}
  BY DEF ProtocolInv, WalInv, OnePending, Pending
<1>2. Clean
  <2>1. CASE wal[c] = "rolled_back"
    BY <1>1, <2>1 DEF FileInv, DiskInv, HalfDone, ProtocolInv, WalInv
  <2>2. CASE c \in receipts
    BY <1>1, <2>2 DEF FileInv, DiskInv, ProtocolInv, BranchInv
  <2>3. QED
    BY <2>1, <2>2
<1>3. Pending' = {}
  BY <1>1 DEF Pending, ProtocolInv, TypeOK
<1>4. QED
  BY <1>2, <1>3 DEF FileInv, TreeInv, DiskInv, CommittedCommands, Clean, RevisionOf

\* Start-up: no command is gained or lost by a fast-forward.
LEMMA BootFiles ==
  ASSUME ProtocolInv, FileInv, Boot
  PROVE  FileInv'
<1>1. \A c \in Command : Holds(log', c) <=> Holds(log, c)
  BY PrefixHolds DEF Boot, ProtocolInv, TypeOK, BranchInv
<1>2. \A p \in Path : tree[p] \in Command \cup {Initial}
  BY DEF ProtocolInv, TypeOK, Content
<1>3. pc' = "recover" /\ UNCHANGED <<tree, index, disk, wal, before>>
  BY DEF Boot
<1>4. TreeInv'
  BY <1>1, <1>2, <1>3 DEF FileInv, TreeInv, CommittedCommands, RevisionOf
<1>5. Pending' = Pending /\ Pending \subseteq Command
  BY <1>3 DEF Pending
<1>6. \A c \in Pending : IF Holds(log', c) THEN Clean' ELSE HalfDone(c)'
  BY <1>1, <1>3, <1>5 DEF FileInv, DiskInv, Clean, HalfDone, Classifiable, Applied, Differing,
    RevisionOf
<1>7. DiskInv'
  BY <1>3, <1>5, <1>6 DEF FileInv, DiskInv, Clean
<1>8. QED
  BY <1>4, <1>7 DEF FileInv

\* The uncommitted transaction that is driven is the only pending one.
LEMMA DrivenHalfDone ==
  ASSUME ProtocolInv, FileInv, pc \in Undecided \cup Undoing
  PROVE  /\ tx \in Command /\ Pending = {tx} /\ ~Holds(log, tx) /\ HalfDone(tx)
         /\ Writes[tx] \subseteq Path /\ Meta \in Writes[tx]
         /\ wal[tx] \in {"prepared", "applied"}
         /\ \A p \in Path : tree[p] # tx
<1>1. tx \in Command /\ Pending = {tx} /\ ~Holds(log, tx)
  BY DEF ProtocolInv, TypeOK, ControlInv, WalInv, OnePending, Pending
<1>2. tx # Initial
  BY <1>1, ConstantsAssumption
<1>3. QED
  BY <1>1, <1>2, ConstantsAssumption DEF FileInv, TreeInv, DiskInv, ProtocolInv, WalInv

\* Rolling back first cleans the index.
LEMMA UnwindFiles ==
  ASSUME ProtocolInv, FileInv, Unwind
  PROVE  FileInv'
<1>1. CASE UNCHANGED index /\ pc' # "restore"
  BY <1>1, FilesKept DEF Unwind
<1>2. CASE /\ index' = [p \in Path |-> IF p \in Writes[tx] THEN tree[p] ELSE index[p]]
           /\ GoTo("restore")
  <2>1. pc \in Undoing
    BY DEF Unwind
  <2>2. index' = tree
    <3>1. \A p \in Path : p \notin Writes[tx] => index[p] = tree[p]
      BY <2>1, DrivenHalfDone DEF HalfDone, Differing
    <3>2. QED
      BY <1>2, <3>1 DEF ProtocolInv, TypeOK
  <2>3. UNCHANGED <<log, tree, disk, wal, before, tx>> /\ Pending' = Pending
    BY <1>2 DEF Unwind, GoTo, Answer, Pending
  <2>4. HalfDone(tx)'
    BY <2>1, <2>2, <2>3, DrivenHalfDone DEF HalfDone, Classifiable, Applied, Differing, RevisionOf
  <2>5. QED
    BY <1>2, <2>1, <2>2, <2>3, <2>4, DrivenHalfDone
       DEF FileInv, TreeInv, DiskInv, CommittedCommands, RevisionOf, GoTo
<1>3. QED
  BY <1>1, <1>2 DEF Unwind, Answer, GoTo

\* A restored file is the head's again; state/meta.json goes first.
LEMMA RestoreFiles ==
  ASSUME ProtocolInv, FileInv, NEW p \in Path, Restore(p)
  PROVE  FileInv'
<1>1. pc \in Undoing /\ index = tree /\ p \in Writes[tx]
  BY DEF Restore, NextToRestore, FileInv, DiskInv
<1>2. UNCHANGED <<log, tree, index, wal, before, tx>> /\ Pending' = Pending
  BY DEF Restore, Pending
<1>3. disk' = [disk EXCEPT ![p] = tree[p]] /\ disk \in [Path -> Content]
  BY <1>1, DrivenHalfDone DEF Restore, HalfDone, ProtocolInv, TypeOK
<1>4. disk'[Meta] # tx
  BY <1>1, <1>3, DrivenHalfDone DEF Restore, NextToRestore, HalfDone
<1>5. HalfDone(tx)'
  <2>1. Classifiable(tx)'
    BY <1>1, <1>2, <1>3, DrivenHalfDone DEF HalfDone, Classifiable
  <2>2. Differing(tree, index)' \cup Differing(tree, disk)' \subseteq Writes[tx]
    BY <1>1, <1>2, <1>3, DrivenHalfDone DEF HalfDone, Differing
  <2>3. wal'[tx] # "rolled_back"
    BY <1>1, <1>2, DrivenHalfDone
  <2>4. before'[tx] = tree' /\ RevisionOf(tree'[Meta]) = Base[tx]
    BY <1>1, <1>2, DrivenHalfDone DEF HalfDone
  <2>5. QED
    BY <1>2, <1>4, <2>1, <2>2, <2>3, <2>4 DEF HalfDone, RevisionOf
<1>6. QED
  BY <1>1, <1>2, <1>5, DrivenHalfDone DEF FileInv, TreeInv, DiskInv, CommittedCommands, RevisionOf

\* A rollback is recorded when every image is back.
LEMMA MarkRolledBackFiles ==
  ASSUME ProtocolInv, FileInv, MarkRolledBack
  PROVE  FileInv'
<1>1. pc \in Undoing /\ index = tree
  BY DEF MarkRolledBack, FileInv, DiskInv
<1>2. disk = tree
  <2>1. \A p \in Path : disk[p] = tree[p]
    BY <1>1, DrivenHalfDone DEF MarkRolledBack, HalfDone, Differing
  <2>2. QED
    BY <2>1 DEF ProtocolInv, TypeOK
<1>3. Pending' = {tx} /\ UNCHANGED <<gitVars, disk, before, tx>> /\ pc' = "archive"
  BY <1>1, DrivenHalfDone DEF MarkRolledBack, GoTo, Pending, ProtocolInv, TypeOK
<1>4. HalfDone(tx)'
  BY <1>1, <1>2, <1>3, DrivenHalfDone
     DEF HalfDone, Classifiable, Applied, Differing, RevisionOf, Clean
<1>5. QED
  BY <1>1, <1>3, <1>4, DrivenHalfDone
     DEF FileInv, TreeInv, DiskInv, CommittedCommands, RevisionOf

\* A new record begins on clean files at the revision its command expects.
LEMMA PrepareFiles ==
  ASSUME ProtocolInv, FileInv, Prepare
  PROVE  FileInv'
<1>1. CASE UNCHANGED walVars /\ pc' # "restore"
  BY <1>1, FilesKept DEF Prepare
<1>2. CASE /\ wal' = [wal EXCEPT ![cmd] = "prepared"]
           /\ before' = [before EXCEPT ![cmd] = disk]
           /\ pc' = "validate" /\ cmd' = cmd /\ RevisionOf(disk[Meta]) = Base[cmd]
  <2>1. cmd \in Command /\ Pending = {} /\ Clean
    BY DEF Prepare, ProtocolInv, ControlInv, WalInv, FileInv, DiskInv
  <2>2. Pending' = {cmd} /\ UNCHANGED <<gitVars, disk>>
    BY <1>2, <2>1 DEF ProtocolInv, TypeOK, Pending, Prepare
  <2>3. RevisionOf(cmd) = Base[cmd] + 1
    BY <2>1, ConstantsAssumption DEF RevisionOf
  <2>4. disk[Meta] # cmd
    BY <1>2, <2>1, <2>3, ConstantsAssumption
  <2>5. before'[cmd] = tree /\ wal'[cmd] = "prepared"
    BY <1>2, <2>1 DEF ProtocolInv, TypeOK, Clean
  <2>6. HalfDone(cmd)'
    BY <1>2, <2>1, <2>2, <2>4, <2>5
       DEF HalfDone, Classifiable, Differing, Clean, RevisionOf
  <2>7. ~Holds(log, cmd)
    BY <2>1 DEF Prepare, ProtocolInv, WalInv, RequestInv, OwnReceipt
  <2>8. QED
    BY <1>2, <2>2, <2>6, <2>7 DEF FileInv, TreeInv, DiskInv, CommittedCommands, RevisionOf
<1>3. QED
  BY <1>1, <1>2 DEF Prepare, Answer

\* An after-image replaces a before-image; state/meta.json goes last.
LEMMA ApplyFiles ==
  ASSUME ProtocolInv, FileInv, NEW p \in Path, Apply(p)
  PROVE  FileInv'
<1>1. pc \in Undecided /\ p \in Writes[tx] /\ pc # "restore"
  BY DEF Apply, NextToApply
<1>2. UNCHANGED <<log, tree, index, wal, before, pc>> /\ Pending' = Pending
  BY DEF Apply, Pending
<1>3. disk' = [disk EXCEPT ![p] = tx] /\ disk \in [Path -> Content]
  BY DEF Apply, ProtocolInv, TypeOK
<1>4. disk'[Meta] = tx => Applied(tx)'
  <2>1. CASE p = Meta
    BY <1>1, <1>3, <2>1, DrivenHalfDone DEF Apply, NextToApply, Applied
  <2>2. CASE p # Meta
    BY <1>1, <1>3, <2>2, DrivenHalfDone DEF HalfDone, Applied, Apply, NextToApply
  <2>3. QED
    BY <2>1, <2>2
<1>5. HalfDone(tx)'
  <2>1. Classifiable(tx)'
    BY <1>1, <1>2, <1>3, DrivenHalfDone DEF HalfDone, Classifiable, Apply
  <2>2. Differing(tree, index)' \cup Differing(tree, disk)' \subseteq Writes[tx]
    BY <1>1, <1>2, <1>3, DrivenHalfDone DEF HalfDone, Differing
  <2>3. tx' = tx
    BY DEF Apply
  <2>4. QED
    BY <1>1, <1>2, <1>4, <2>1, <2>2, <2>3, DrivenHalfDone DEF HalfDone, Differing, RevisionOf
<1>6. tx' = tx
  BY DEF Apply
<1>7. QED
  BY <1>1, <1>2, <1>5, <1>6, DrivenHalfDone
     DEF FileInv, TreeInv, DiskInv, CommittedCommands, RevisionOf

\* Staging copies only files of the manifest.
LEMMA StageFiles ==
  ASSUME ProtocolInv, FileInv, Stage
  PROVE  FileInv'
<1>1. CASE Raise /\ UNCHANGED index
  <2>1. pc' # "restore"
    BY <1>1 DEF Raise, Answer
  <2>2. QED
    BY <1>1, <2>1, FilesKept DEF Stage
<1>2. CASE /\ index = tree /\ GoTo("commit")
           /\ index' = [p \in Path |-> IF p \in Writes[tx] THEN disk[p] ELSE index[p]]
  <2>1. pc \in Undecided
    BY DEF Stage
  <2>2. UNCHANGED <<log, tree, disk, wal, before, tx>> /\ Pending' = Pending /\ pc' = "commit"
    BY <1>2 DEF Stage, Pending, GoTo
  <2>3. Differing(tree, index)' \subseteq Writes[tx]
    BY <1>2, <2>2 DEF Differing
  <2>4. HalfDone(tx)'
    BY <2>1, <2>2, <2>3, DrivenHalfDone DEF HalfDone, Classifiable, Applied, Differing, RevisionOf
  <2>5. QED
    BY <2>1, <2>2, <2>4, DrivenHalfDone
       DEF FileInv, TreeInv, DiskInv, CommittedCommands, RevisionOf
<1>3. QED
  BY <1>1, <1>2 DEF Stage

\* What is committed is exactly the complete after-image.
LEMMA CommittedImage ==
  ASSUME ProtocolInv, FileInv, GitCommit, log' = Append(log, tx), tree' = index,
         Differing(tree, index) = Writes[tx], index = disk
  PROVE  /\ tx \in Command /\ Pending = {tx} /\ ~Holds(log, tx)
         /\ RevisionOf(tree[Meta]) = Base[tx] /\ RevisionOf(tx) = Base[tx] + 1
         /\ Base[tx] \in Nat
         /\ \A p \in Path : tree'[p] = IF p \in Writes[tx] THEN tx ELSE tree[p]
         /\ tree'[Meta] = tx /\ CommittedCommands' = CommittedCommands \cup {tx}
         /\ disk' = tree' /\ index' = tree'
         /\ \A x : Holds(log', x) <=> Holds(log, x) \/ x = tx
<1>1. pc \in Undecided /\ UNCHANGED <<disk, index>>
  BY DEF GitCommit
<1>2. \A x : Holds(log', x) <=> Holds(log, x) \/ x = tx
  BY <1>1, DrivenHalfDone, HoldsAppend DEF ProtocolInv, TypeOK, Commits
<1>3. \A p \in Path : index[p] = IF p \in Writes[tx] THEN tx ELSE tree[p]
  BY <1>1, DrivenHalfDone DEF HalfDone, Differing, Classifiable
<1>4. QED
  BY <1>1, <1>2, <1>3, DrivenHalfDone, ConstantsAssumption
     DEF HalfDone, CommittedCommands, RevisionOf

\* A commit puts on the branch what the command wrote, or fails and stages nothing new.
LEMMA GitCommitFiles ==
  ASSUME ProtocolInv, FileInv, GitCommit
  PROVE  FileInv'
<1>1. CASE Raise /\ UNCHANGED <<log, tree>>
  <2>1. pc' # "restore"
    BY <1>1 DEF Raise, Answer
  <2>2. QED
    BY <1>1, <2>1, FilesKept DEF GitCommit
<1>2. CASE /\ Differing(tree, index) = Writes[tx] /\ index = disk
           /\ log' = Append(log, tx) /\ tree' = index /\ GoTo("readback")
  <2>1. pc' = "readback" /\ UNCHANGED <<wal, before, tx>> /\ Pending' = Pending
    BY <1>2 DEF GitCommit, GoTo, Pending
  <2>2. RevisionOf(tree'[Meta]) = Base[tx] + 1
    BY <1>2, CommittedImage
  <2>3. \A c \in CommittedCommands : RevisionOf(c) \in Nat /\ RevisionOf(c) <= Base[tx]
    BY <1>2, CommittedImage, RevisionIsNat DEF FileInv, TreeInv, CommittedCommands, Content
  <2>4. \A c \in CommittedCommands' : RevisionOf(c) <= RevisionOf(tree'[Meta])
    BY <1>2, <2>2, <2>3, CommittedImage
  <2>5. \A p \in Writes[tx] : tree'[p] = tx
    BY <1>2, CommittedImage, ConstantsAssumption
  <2>6. \A p \in Path : tree'[p] # Initial => Holds(log', tree'[p])
    BY <1>2, CommittedImage DEF FileInv, TreeInv
  <2>7. TreeInv'
    <3>1. \A p \in Writes[tree'[Meta]] : RevisionOf(tree'[p]) >= RevisionOf(tree'[Meta])
      BY <1>2, <2>5, <2>2, CommittedImage
    <3>2. QED
      BY <2>4, <2>6, <3>1 DEF TreeInv, RevisionOf
  <2>8. DiskInv'
    BY <1>2, <2>1, CommittedImage DEF DiskInv, Clean
  <2>9. QED
    BY <2>7, <2>8 DEF FileInv
<1>3. QED
  BY <1>1, <1>2 DEF GitCommit

\* A new campaign has its files in order.
LEMMA FileInvInit == Init => FileInv
  BY ConstantsAssumption
     DEF Init, FileInv, TreeInv, DiskInv, CommittedCommands, Clean, Pending, Holds

\* Every step keeps the files in order.
LEMMA FileInvStep ==
  ASSUME ProtocolInv, FileInv, [Next]_vars
  PROVE  FileInv'
<1>1. CASE UNCHANGED vars
  BY <1>1, FilesKept DEF vars, FileInv, DiskInv
<1>2. CASE Boot
  BY <1>2, BootFiles
<1>3. CASE Call
  BY <1>3, FilesKept DEF Call, Start
<1>4. CASE RecoverStep
  <2>1. ASSUME NEW c \in Command, RecoverTerminal(c) PROVE FileInv'
    <3>1. c \in Pending /\ pc' # "restore"
      BY <2>1 DEF RecoverTerminal, Finished, Pending
    <3>2. Pending' \subseteq Pending \ {c} /\ UNCHANGED <<gitVars, disk>>
      BY <2>1 DEF RecoverTerminal, ToArchive, Pending, ProtocolInv, TypeOK
    <3>3. wal[c] = "rolled_back" \/ (wal[c] = "committed" /\ c \in receipts)
      BY <2>1 DEF RecoverTerminal, Finished
    <3>4. QED
      BY <3>1, <3>2, <3>3, ArchivedClean
  <2>2. ASSUME NEW c \in Command, RecoverPending(c) PROVE FileInv'
    <3>1. pc' # "restore"
      BY <2>2 DEF RecoverPending, Answer, Drive
    <3>2. QED
      BY <2>2, <3>1, FilesKept DEF RecoverPending
  <2>3. CASE RecoverDone
    BY <2>3, FilesKept DEF RecoverDone, GoTo
  <2>4. QED
    BY <1>4, <2>1, <2>2, <2>3 DEF RecoverStep
<1>5. CASE RollbackStep
  <2>1. CASE Archive
    <3>1. tx \in Command /\ tx \in Pending /\ pc' # "restore"
      BY <2>1 DEF Archive, Answer, ProtocolInv, ControlInv, WalInv, Pending
    <3>2. Pending' \subseteq Pending \ {tx} /\ UNCHANGED <<gitVars, disk>>
      BY <2>1 DEF Archive, ToArchive, Pending, ProtocolInv, TypeOK
    <3>3. wal[tx] = "rolled_back" \/ (wal[tx] = "committed" /\ tx \in receipts)
      BY <2>1 DEF Archive, ProtocolInv, WalInv
    <3>4. QED
      BY <3>1, <3>2, <3>3, ArchivedClean
  <2>2. QED
    BY <1>5, <2>1, UnwindFiles, MarkRolledBackFiles, RestoreFiles DEF RollbackStep
<1>6. CASE TransactionStep
  <2>1. CASE Preflight \/ Integrity \/ Lookup \/ Validate \/ Readback
    <3>1. pc' # "restore"
      BY <2>1 DEF Preflight, Integrity, Lookup, Validate, Readback, Raise, Answer, GoTo
    <3>2. QED
      BY <2>1, <3>1, FilesKept DEF Preflight, Integrity, Lookup, Validate, Readback
  <2>2. CASE MarkApplied
    <3>1. tx \in Pending /\ pc' # "restore"
      BY <2>2 DEF MarkApplied, GoTo, ProtocolInv, ControlInv, WalInv
    <3>2. QED
      BY <2>2, <3>1, StatusKept DEF MarkApplied
  <2>3. QED
    BY <1>6, <2>1, <2>2, PrepareFiles, StageFiles, GitCommitFiles, ApplyFiles DEF TransactionStep
<1>7. CASE DeliveryStep
  <2>1. pc' # "restore"
    BY <1>7 DEF DeliveryStep, Durable, AfterDelivery, Push, Verify, MarkCommitted, NoteRevision,
      PutReceipt, Raise, Answer, GoTo
  <2>2. CASE wal' = wal
    BY <1>7, <2>1, <2>2, FilesKept
       DEF DeliveryStep, Durable, Push, Verify, MarkCommitted, NoteRevision, PutReceipt
  <2>3. CASE MarkCommitted /\ wal' # wal
    <3>1. tx \in Pending /\ wal' = [wal EXCEPT ![tx] = "committed"]
      BY <2>3 DEF MarkCommitted, ProtocolInv, ControlInv, WalInv
    <3>2. QED
      BY <2>1, <2>3, <3>1, StatusKept DEF MarkCommitted
  <2>4. QED
    BY <1>7, <2>2, <2>3 DEF DeliveryStep, Durable, Push, Verify, NoteRevision, PutReceipt
<1>8. CASE Environment
  <2>1. pc' = "restore" => pc = "restore"
    BY <1>8 DEF Environment, Fault, PushUnacknowledged, Crash, Redeploy, PushRelease, Raise, Answer
  <2>2. UNCHANGED <<gitVars, disk, wal, before>>
    BY <1>8 DEF Environment, Fault, PushUnacknowledged, Crash, Redeploy, PushRelease
  <2>3. QED
    BY <2>1, <2>2, FilesKept DEF FileInv, DiskInv
<1>9. QED
  BY <1>1, <1>2, <1>3, <1>4, <1>5, <1>6, <1>7, <1>8 DEF Next, Work

\* The campaign files are at every instant those of the head, or an interrupted
\* transaction's images in the order of persistence.py.
THEOREM FileInvariance == Spec => []FileInv
  BY FileInvInit, FileInvStep, ProtocolHolds, PTL DEF Spec

\* A new revision on disk is never beside an owner file of an older one
\* (persistence.py writes state/meta.json last and restores it first).
THEOREM OwnersAreNeverStale == Spec => []NoStaleOwner
<1>1. ProtocolInv /\ FileInv => NoStaleOwner
  <2> SUFFICES ASSUME ProtocolInv, FileInv, disk[Meta] # Initial, NEW p \in Writes[disk[Meta]]
               PROVE  RevisionOf(disk[p]) >= RevisionOf(disk[Meta])
    BY DEF NoStaleOwner
  <2>1. disk[Meta] \in Command /\ p \in Path /\ Meta \in Writes[disk[Meta]]
    BY ConstantsAssumption DEF ProtocolInv, TypeOK, Content
  <2>2. RevisionOf(disk[Meta]) \in Nat
    BY <2>1, RevisionIsNat DEF Content
  <2>3. CASE disk = tree
    BY <2>1, <2>3 DEF FileInv, TreeInv
  <2>4. CASE disk # tree
    <3>1. PICK c \in Pending : HalfDone(c)
      BY <2>4 DEF FileInv, DiskInv, Clean
    <3>2. c \in Command /\ Meta \in Writes[c] /\ RevisionOf(c) = Base[c] + 1 /\ Base[c] \in Nat
      BY ConstantsAssumption DEF Pending, RevisionOf
    <3>3. CASE disk[Meta] = c
      BY <2>2, <3>1, <3>3 DEF HalfDone, Applied
    <3>4. CASE disk[Meta] # c
      <4>1. disk[Meta] = tree[Meta] /\ RevisionOf(tree[Meta]) = Base[c]
        BY <3>1, <3>2, <3>4 DEF HalfDone, Classifiable
      <4>2. disk[p] \in {tree[p], c}
        BY <2>1, <3>1 DEF HalfDone, Classifiable, Differing
      <4>3. RevisionOf(tree[p]) >= RevisionOf(tree[Meta])
        BY <4>1 DEF FileInv, TreeInv
      <4>4. QED
        BY <3>2, <4>1, <4>2, <4>3
    <3>5. QED
      BY <3>3, <3>4
  <2>5. QED
    BY <2>3, <2>4
<1>2. QED
  BY <1>1, ProtocolHolds, FileInvariance, PTL

\* Whatever differs from the head can be undone at the next start-up.
THEOREM DirtCanBeUndone == Spec => []DirtIsRecoverable
<1>1. ProtocolInv /\ FileInv => DirtIsRecoverable
  BY DEF FileInv, DiskInv, Clean, HalfDone, Differing, DirtIsRecoverable
<1>2. QED
  BY <1>1, ProtocolHolds, FileInvariance, PTL

\* No receipt is ahead of the campaign on disk.
THEOREM ReceiptsFollowTheCampaign == Spec => []ReceiptsNotAhead
<1>1. ProtocolInv /\ FileInv => ReceiptsNotAhead
  <2> SUFFICES ASSUME ProtocolInv, FileInv PROVE ReceiptsNotAhead
    OBVIOUS
  <2> SUFFICES ASSUME NEW r \in receipts PROVE RevisionOf(r) <= RevisionOf(disk[Meta])
    <3>1. disk[Meta] \in Content /\ receipts \subseteq Content
      BY ConstantsAssumption DEF ProtocolInv, TypeOK, Content
    <3>2. RevisionOf(disk[Meta]) \in Nat /\ \A c \in receipts : RevisionOf(c) \in Nat
      BY <3>1, RevisionIsNat
    <3>3. QED
      BY <3>2 DEF ReceiptsNotAhead, FutureReceipts
  <2>1. /\ r \in CommittedCommands /\ RevisionOf(r) <= RevisionOf(tree[Meta])
        /\ RevisionOf(r) \in Nat /\ RevisionOf(tree[Meta]) \in Nat
    BY RevisionIsNat, ConstantsAssumption
       DEF ProtocolInv, TypeOK, BranchInv, FileInv, TreeInv, CommittedCommands, Content
  <2>2. RevisionOf(tree[Meta]) <= RevisionOf(disk[Meta])
    <3>1. CASE disk = tree
      BY <2>1, <3>1
    <3>2. CASE disk # tree
      <4>1. PICK c \in Pending : HalfDone(c)
        BY <3>2 DEF FileInv, DiskInv, Clean
      <4>2. disk[Meta] \in {tree[Meta], c} /\ RevisionOf(c) = Base[c] + 1
        BY <4>1, ConstantsAssumption DEF HalfDone, Classifiable, Pending, RevisionOf
      <4>3. QED
        BY <2>1, <4>1, <4>2 DEF HalfDone
    <3>3. QED
      BY <3>1, <3>2
  <2>3. RevisionOf(disk[Meta]) \in Nat
    BY RevisionIsNat, ConstantsAssumption DEF ProtocolInv, TypeOK
  <2>4. QED
    BY <2>1, <2>2, <2>3
<1>2. QED
  BY <1>1, ProtocolHolds, FileInvariance, PTL

-----------------------------------------------------------------------------
(* The refinement of CampaignLedger *)

\* Commands change hands in three places only.
LEMMA LedgerStep ==
  ASSUME ProtocolInv, FileInv, [Next]_vars
  PROVE  [Ledger!LedgerNext]_(Ledger!ledgerVars)
<1> DEFINE rev == RevisionOf(tree[Meta])
<1>1. CASE GitCommit
  <2>1. CASE UNCHANGED <<log, tree>>
    BY <1>1, <2>1 DEF GitCommit, Ledger!ledgerVars, CommittedCommands, DeliveredCommands, RevisionOf
  <2>2. CASE /\ log' = Append(log, tx) /\ tree' = index
             /\ Differing(tree, index) = Writes[tx] /\ index = disk
    <3>1. tx \in Command /\ Pending = {tx} /\ ~Holds(log, tx)
      BY <1>1, <2>2, CommittedImage
    <3>2. rev = Base[tx] /\ rev' = rev + 1 /\ CommittedCommands' = CommittedCommands \cup {tx}
      BY <1>1, <2>2, CommittedImage
    <3>3. UNCHANGED <<receipts, DeliveredCommands>>
      BY <1>1 DEF GitCommit, DeliveredCommands
    <3>4. DeliveredCommands = CommittedCommands
      BY <3>1 DEF ProtocolInv, WalInv, BranchInv, CommittedCommands, DeliveredCommands
    <3>5. \A d \in CommittedCommands : RequestOf[d] # RequestOf[tx]
      BY <1>1, <3>1 DEF GitCommit, ProtocolInv, WalInv, RequestInv, OwnReceipt, CommittedCommands
    <3>6. Ledger!CommitCommand(tx)
      BY <3>2, <3>3, <3>4, <3>5 DEF Ledger!CommitCommand
    <3>7. QED
      BY <3>1, <3>6 DEF Ledger!LedgerNext
  <2>3. QED
    BY <1>1, <2>1, <2>2 DEF GitCommit
<1>2. CASE PutReceipt
  <2>1. tx \in DeliveredCommands
    BY <1>2 DEF PutReceipt, ProtocolInv, TypeOK, ControlInv, BranchInv, DeliveredCommands
  <2>2. UNCHANGED <<rev, CommittedCommands, DeliveredCommands>> /\ receipts' = receipts \cup {tx}
    BY <1>2 DEF PutReceipt, CommittedCommands, DeliveredCommands, RevisionOf
  <2>3. CASE tx \in receipts
    BY <2>2, <2>3 DEF Ledger!ledgerVars
  <2>4. CASE tx \notin receipts
    <3>1. Ledger!PublishReceipt(tx)
      BY <2>1, <2>2, <2>4 DEF Ledger!PublishReceipt
    <3>2. QED
      BY <2>1, <3>1 DEF Ledger!LedgerNext, DeliveredCommands
  <2>5. QED
    BY <2>3, <2>4
<1>3. CASE (Push \/ PushUnacknowledged) /\ origin' = log
  <2>1. DeliveredCommands' = CommittedCommands /\ UNCHANGED <<rev, CommittedCommands, receipts>>
    BY <1>3 DEF Push, PushUnacknowledged, CommittedCommands, DeliveredCommands, RevisionOf
  <2>2. QED
    BY <2>1 DEF Ledger!LedgerNext, Ledger!Deliver, Ledger!ledgerVars
<1>4. CASE Boot
  <2>1. \A c \in Command : Holds(log', c) <=> Holds(log, c)
    BY <1>4, PrefixHolds DEF Boot, ProtocolInv, TypeOK, BranchInv
  <2>2. QED
    BY <1>4, <2>1 DEF Boot, Ledger!ledgerVars, CommittedCommands, DeliveredCommands, RevisionOf
<1>5. CASE \E r \in Release : PushRelease(r)
  <2>1. PICK r \in Release : PushRelease(r)
    BY <1>5
  <2>2. \A c \in Command : Holds(origin', c) <=> Holds(origin, c)
    <3>1. origin \in Seq(Commits) /\ r \in Commits
      BY DEF ProtocolInv, TypeOK, Commits
    <3>2. QED
      BY <2>1, <3>1, HoldsAppend, ConstantsAssumption DEF PushRelease
  <2>3. QED
    BY <2>1, <2>2 DEF PushRelease, Ledger!ledgerVars, CommittedCommands, DeliveredCommands,
      RevisionOf
<1>6. CASE UNCHANGED <<origin, log, tree, receipts>>
  BY <1>6 DEF Ledger!ledgerVars, CommittedCommands, DeliveredCommands, RevisionOf
<1>7. QED
  BY <1>1, <1>2, <1>3, <1>4, <1>5, <1>6
     DEF Next, Work, Call, RecoverStep, RollbackStep, TransactionStep, DeliveryStep,
         Environment, vars, Start, RecoverTerminal, RecoverPending, RecoverDone,
         Unwind, Restore, MarkRolledBack, Archive, Preflight, Integrity, Lookup,
         Prepare, Validate, Apply, MarkApplied, Stage, Readback, Durable, Push,
         PushUnacknowledged, Verify, MarkCommitted, NoteRevision, Fault, Crash, Redeploy

\* With files, logs, deaths, faults and releases, the coordinator still is the
\* ledger: a command is entered at exactly the revision its sender saw, once
\* per request, after everything before it was delivered.
THEOREM CoordinatorIsLedger == Spec => ImplementsLedger
<1>1. Init => Ledger!LedgerInit
  BY ConstantsAssumption
     DEF Init, Ledger!LedgerInit, CommittedCommands, DeliveredCommands, Holds, RevisionOf
<1>2. QED
  BY <1>1, LedgerStep, ProtocolHolds, FileInvariance, PTL
     DEF Spec, ImplementsLedger, Ledger!LedgerSpec

-----------------------------------------------------------------------------
(* The calls of the service *)

Inside == {"held", "planning", "viewing"}

CallsInv ==
  /\ at \in [CallId -> Places]
  /\ phase \in [CallId -> {"lookup", "execute"}]
  /\ seen \in [CallId -> Nat]
  /\ newest \in [CallId -> Nat]
  /\ plan \in [CallId -> Plans \cup {NoPlan}]
  /\ cache \in Plans \cup {NoPlan}
  /\ holder \in CallId \cup {NoPlan}
  /\ outcome \in [CallId -> Outcomes]

\* The lock has one holder, and the coordinator works for it or rests.
HolderInv ==
  \A t \in CallId :
    /\ at[t] \in Inside => holder = t
    /\ at[t] = "held" => pc \in Steps /\ op = phase[t] /\ cmd = CommandOf[t]
    /\ at[t] \in {"planning", "viewing"} => pc = "idle" /\ Pristine

\* Only an execution prepares a transaction.
ExecuteInv == ctx = "main" \/ pc = "prepare" => op = "execute"

Newest == RevisionOf(tree[Meta])

\* A plan whose head is the head was built from the files at the head; so was a
\* preview of a command whose base is the revision at the head.
PlanInv ==
  /\ \A t \in CallId :
       /\ phase[t] = "execute" => plan[t] # NoPlan /\ plan[t].for = CommandOf[t]
       /\ plan[t] # NoPlan =>
            /\ Len(plan[t].head) <= Len(log)
            /\ plan[t].head = log => plan[t].basis = tree
       /\ at[t] = "held" /\ pc \in {"apply", "stage", "commit"} => plan[t].head = log
  /\ cache # NoPlan =>
       /\ Base[cache.for] <= Newest
       /\ Base[cache.for] = Newest => cache.basis = tree

ReadInv ==
  \A t \in CallId : outcome[t] = "read" => at[t] = "done" /\ seen[t] <= Newest

ServiceInv ==
  /\ ProtocolInv /\ FileInv /\ ExecuteInv
  /\ CallsInv /\ HolderInv /\ PlanInv /\ ReadInv

-----------------------------------------------------------------------------
(* Groups of variables and of steps are abbreviations and always expanded. *)
USE DEF gitVars, fileVars, walVars, receiptVars, jobVars, budgetVars,
        Steps, Driven, Undecided, Undoing, Delivering, Delivered, Settled, Inside

-----------------------------------------------------------------------------
(* What the threads do to the coordinator *)

\* An index rebuild outside the lock replaces the index, and nothing else.
IndexRewritten ==
  /\ highWater' \in Nat
  /\ UNCHANGED <<origin, gitVars, fileVars, walVars, receipts, jobVars, reply, budgetVars>>

\* A step of the service is a step of the coordinator, or rewrites only the index.
LEMMA ServiceStep ==
  ASSUME CallsInv, [OperationsNext]_opsVars
  PROVE  [Next]_vars \/ IndexRewritten
<1>1. CASE UNCHANGED opsVars
  BY <1>1 DEF opsVars
<1>2. ASSUME NEW t \in CallId, WriteIndex(t) PROVE IndexRewritten
  BY <1>2 DEF WriteIndex, IndexRewritten, CallsInv
<1>3. ASSUME NEW t \in CallId, Acquire(t) PROVE Next
  BY <1>3, OperationsAssumption DEF Acquire, Next, Call, CallsInv
<1>4. ASSUME NEW t \in CallId, HolderStep(t) PROVE Next
  BY <1>4 DEF HolderStep, Next, Environment
<1>5. CASE StartUp \/ Stop \/ \E r \in Release : Release_(r)
  BY <1>5 DEF StartUp, Stop, Release_, Next, Environment
<1>6. ASSUME NEW t \in CallId,
             \/ Arrive(t) \/ ReadRevision(t) \/ ReadIndex(t) \/ ScanFuture(t) \/ ScanReceipts(t)
             \/ RecheckIndex(t) \/ TimeOut(t) \/ PlanBegin(t) \/ PlanEnd(t) \/ ViewBegin(t)
             \/ Preview(t) \/ Snapshot(t)
      PROVE  UNCHANGED vars
  BY <1>6 DEF Arrive, ReadRevision, ReadIndex, ScanFuture, ScanReceipts, RecheckIndex, TimeOut,
    PlanBegin, PlanEnd, ViewBegin, Preview, Snapshot
<1>7. QED
  BY <1>1, <1>2, <1>3, <1>4, <1>5, <1>6 DEF OperationsNext, CallStep

\* The protocol and the files stand on the log, the branch and the lock alone.
LEMMA ProtocolGoesOn ==
  ASSUME ProtocolInv, FileInv, [Next]_vars \/ IndexRewritten
  PROVE  ProtocolInv' /\ FileInv'
<1>1. CASE [Next]_vars
  BY <1>1, NextInv, FileInvStep
<1>2. CASE IndexRewritten
  <2>1. ProtocolInv'
    BY <1>2 DEF IndexRewritten, ProtocolInv, TypeOK, ControlInv, WalInv, BranchInv, RequestInv,
      AnswerInv, OnePending, Pending, OwnReceipt
  <2>2. FileInv'
    BY <1>2, FilesKept DEF IndexRewritten, FileInv, DiskInv
  <2>3. QED
    BY <2>1, <2>2
<1>3. QED
  BY <1>1, <1>2

\* The branch only grows; the files at its head change only with a commit of
\* the transaction that the lock holder drives, which is one revision newer.
LEMMA BranchGrows ==
  ASSUME ProtocolInv, FileInv, [Next]_vars \/ IndexRewritten
  PROVE  /\ Len(log) \in Nat /\ Len(log') \in Nat /\ Len(log) <= Len(log')
         /\ Len(log') = Len(log) => log' = log
         /\ Newest \in Nat /\ Newest' \in Nat
         /\ \/ UNCHANGED tree
            \/ GitCommit /\ pc = "commit" /\ Len(log) < Len(log') /\ Newest' = Newest + 1
<1>1. log \in Seq(Commits) /\ origin \in Seq(Commits) /\ Len(log) \in Nat
  BY DEF ProtocolInv, TypeOK
<1>2. tree[Meta] \in Content /\ tree'[Meta] \in Content
  BY ProtocolGoesOn, ConstantsAssumption DEF ProtocolInv, TypeOK
<1>3. Newest \in Nat /\ Newest' \in Nat
  BY <1>2, RevisionIsNat DEF Newest, RevisionOf
<1>4. CASE UNCHANGED <<log, tree>>
  BY <1>1, <1>3, <1>4
<1>5. CASE Boot
  <2>1. UNCHANGED tree /\ (log' = log \/ (log' = origin /\ IsPrefix(log, origin)))
    BY <1>5 DEF Boot
  <2>2. CASE log' = origin /\ IsPrefix(log, origin)
    <3>1. Len(log) <= Len(origin) /\ SubSeq(log, 1, Len(log)) = SubSeq(origin, 1, Len(log))
      BY <2>2 DEF IsPrefix
    <3>2. Len(log) = Len(origin) => log = origin
      BY <1>1, <3>1
    <3>3. QED
      BY <1>1, <1>3, <2>1, <2>2, <3>1, <3>2
  <2>3. QED
    BY <1>1, <1>3, <2>1, <2>2
<1>6. CASE GitCommit /\ ~UNCHANGED <<log, tree>>
  <2>1. /\ log' = Append(log, tx) /\ tree' = index
        /\ Differing(tree, index) = Writes[tx] /\ index = disk
    BY <1>6 DEF GitCommit
  <2>2. tx \in Commits
    BY <1>6, <2>1, CommittedImage DEF Commits
  <2>3. Len(log') = Len(log) + 1
    BY <1>1, <2>1, <2>2
  <2>4. Newest' = Newest + 1
    <3>1. /\ RevisionOf(tree[Meta]) = Base[tx] /\ RevisionOf(tx) = Base[tx] + 1
          /\ tree'[Meta] = tx
      BY <1>6, <2>1, CommittedImage
    <3>2. QED
      BY <3>1 DEF Newest, RevisionOf
  <2>5. QED
    BY <1>1, <1>3, <1>6, <2>3, <2>4 DEF GitCommit
<1>7. Boot \/ GitCommit \/ UNCHANGED <<log, tree>>
  BY DEF IndexRewritten,
         Next, Work, Call, RecoverStep, RollbackStep, TransactionStep, DeliveryStep,
         Environment, vars, Start, RecoverTerminal, RecoverPending, RecoverDone,
         Unwind, Restore, MarkRolledBack, Archive, Preflight, Integrity, Lookup,
         Prepare, Validate, Apply, MarkApplied, Stage, Readback, Durable, Push,
         PushUnacknowledged, Verify, MarkCommitted, NoteRevision, PutReceipt, Fault,
         Crash, PushRelease, Redeploy
<1>8. QED
  BY <1>4, <1>5, <1>6, <1>7

\* A lookup ends where an execution would prepare.
LEMMA ExecuteStep ==
  ASSUME ProtocolInv, ExecuteInv, [Next]_vars \/ IndexRewritten
  PROVE  ExecuteInv'
<1>1. CASE Lookup
  BY <1>1 DEF Lookup, OwnReceipt, OtherReceipt, Answer, Idle, GoTo, ExecuteInv, ProtocolInv,
    ControlInv
<1>2. CASE Prepare
  BY <1>2 DEF Prepare, Answer, Idle, ExecuteInv
<1> DEFINE Goes == /\ ctx' = "main" => ctx = "main" /\ op' = op
                   /\ pc' = "prepare" => pc = "prepare" /\ op' = op
<1>3. (RecoverStep \/ RollbackStep) => Goes
  BY DEF ProtocolInv, ControlInv, RecoverStep, RollbackStep, RecoverTerminal, RecoverPending,
         RecoverDone, Unwind, Restore, MarkRolledBack, Archive, Raise, Answer, Idle, GoTo, Drive
<1>4. TransactionStep => Lookup \/ Prepare \/ Goes
  BY DEF ProtocolInv, ControlInv, TransactionStep, Preflight, Integrity, Validate, Apply,
         MarkApplied, Stage, GitCommit, Readback, Raise, Answer, Idle, GoTo, Drive
<1>5. DeliveryStep => Goes
  BY DEF ProtocolInv, ControlInv, DeliveryStep, Durable, AfterDelivery, Push, Verify,
         MarkCommitted, NoteRevision, PutReceipt, Raise, Answer, Idle, GoTo, Drive
<1>6. (Boot \/ Call \/ Environment \/ UNCHANGED vars \/ IndexRewritten) => Goes
  BY DEF ProtocolInv, ControlInv, Boot, Call, Start, Environment, Fault, PushUnacknowledged, Crash,
         PushRelease, Redeploy, IndexRewritten, vars, AfterDelivery, Raise, Answer, Idle, GoTo, Drive
<1>7. Lookup \/ Prepare \/ Goes
  BY <1>3, <1>4, <1>5, <1>6 DEF Next, Work
<1>8. QED
  BY <1>1, <1>2, <1>7 DEF ExecuteInv

\* One step of the lock holder's operation: it goes on for the same command, or
\* ends.
LEMMA OperationGoesOn ==
  ASSUME ProtocolInv, pc \in Steps, op # "boot", Work \/ Fault \/ PushUnacknowledged
  PROVE  /\ pc' \in Steps \cup {"idle"}
         /\ pc' # "idle" => op' = op /\ cmd' = cmd
         /\ pc' \in {"stage", "commit"} => pc \in {"apply", "stage", "commit"}
         /\ pc' = "apply" => pc \in {"validate", "apply"}
<1> DEFINE GoesOn == /\ pc' \in Steps \cup {"idle"}
                     /\ pc' # "idle" => op' = op /\ cmd' = cmd
                     /\ pc' \in {"stage", "commit"} => pc \in {"apply", "stage", "commit"}
                     /\ pc' = "apply" => pc \in {"validate", "apply"}
<1>1. (RecoverStep \/ RollbackStep) => GoesOn
  BY DEF ProtocolInv, ControlInv, RecoverStep, RollbackStep, RecoverTerminal, RecoverPending,
         RecoverDone, Unwind, Restore, MarkRolledBack, Archive, Raise, Answer, Idle, GoTo, Drive
<1>2. TransactionStep => GoesOn
  BY DEF ProtocolInv, ControlInv, TransactionStep, Preflight, Integrity, Lookup, Prepare, Validate,
         Apply, MarkApplied, Stage, GitCommit, Readback, Raise, Answer, Idle, GoTo, Drive
<1>3. (DeliveryStep \/ Fault \/ PushUnacknowledged) => GoesOn
  BY DEF ProtocolInv, ControlInv, DeliveryStep, Durable, AfterDelivery, Push, PushUnacknowledged,
         Verify, MarkCommitted, NoteRevision, PutReceipt, Fault, Raise, Answer, Idle, GoTo, Drive
<1>4. QED
  BY <1>1, <1>2, <1>3 DEF Work

\* Whoever works, works at a step.
LEMMA WorkIsAtAStep ==
  ASSUME Work \/ Fault \/ PushUnacknowledged
  PROVE  pc \in Steps
  BY DEF Work, RecoverStep, RollbackStep, TransactionStep, DeliveryStep,
         RecoverTerminal, RecoverPending, RecoverDone,
         Unwind, Restore, MarkRolledBack, Archive, Preflight, Integrity, Lookup, Prepare,
         Validate, Apply, MarkApplied, Stage, GitCommit, Readback, Durable, Push,
         PushUnacknowledged, Verify, MarkCommitted, NoteRevision, PutReceipt, Fault
-----------------------------------------------------------------------------
(* What the coordinator does to the threads *)

\* The calls keep their types.
LEMMA CallsKeepTypes ==
  ASSUME ProtocolInv, CallsInv, [OperationsNext]_opsVars
  PROVE  CallsInv'
<1>1. /\ \A x \in Content : RevisionOf(x) \in Nat
      /\ RevisionOf(disk[Meta]) \in Nat /\ receipts \subseteq Content
      /\ disk \in [Path -> Content] /\ log \in Seq(Commits)
  BY RevisionIsNat, ConstantsAssumption DEF ProtocolInv, TypeOK, Content
<1>2. \A t \in CallId : CommandOf[t] \in Command /\ KindOf[t] \in Kinds
  BY OperationsAssumption
<1>3. CASE UNCHANGED opsVars
  BY <1>3 DEF opsVars, callVars, CallsInv
<1>4. ASSUME NEW t \in CallId,
             \/ Arrive(t) \/ ReadIndex(t) \/ ScanFuture(t) \/ WriteIndex(t) \/ RecheckIndex(t)
             \/ Acquire(t) \/ TimeOut(t) \/ PlanBegin(t) \/ ViewBegin(t)
      PROVE  CallsInv'
  BY <1>4 DEF Arrive, ReadIndex, ScanFuture, WriteIndex, RecheckIndex, Acquire, TimeOut,
    PlanBegin, ViewBegin, TakeLock, MoveTo, Finish, CallsInv, Places, Outcomes
<1>5. ASSUME NEW t \in CallId, ReadRevision(t) \/ Snapshot(t) PROVE CallsInv'
  <2>1. seen' \in [CallId -> Nat]
    BY <1>1, <1>5 DEF ReadRevision, Snapshot, CallsInv
  <2>2. QED
    BY <1>5, <2>1 DEF ReadRevision, Snapshot, MoveTo, Finish, CallsInv, Places, Outcomes
<1>6. ASSUME NEW t \in CallId, ScanReceipts(t) PROVE CallsInv'
  <2>1. \E n \in Nat : newest' = [newest EXCEPT ![t] = n]
    BY <1>1, <1>6 DEF ScanReceipts
  <2>2. QED
    BY <1>6, <2>1 DEF ScanReceipts, MoveTo, CallsInv, Places
<1>7. ASSUME NEW t \in CallId, HolderStep(t) PROVE CallsInv'
  <2>1. reply'[CommandOf[t]] \in Answers
    <3>1. Next
      BY <1>7 DEF HolderStep, Next, Environment
    <3>2. ProtocolInv'
      BY <3>1, NextInv
    <3>3. QED
      BY <1>2, <3>2 DEF ProtocolInv, TypeOK
  <2>2. QED
    BY <1>7, <2>1 DEF HolderStep, Return, MoveTo, Finish, CallsInv, Places, Outcomes
<1>8. ASSUME NEW t \in CallId, PlanEnd(t) \/ Preview(t) PROVE CallsInv'
  <2>1. Build(t) \in Plans
    BY <1>1, <1>2 DEF Build, Plans
  <2>2. cache \in Plans => [cache EXCEPT !.head = log] \in Plans
    BY <1>1 DEF Plans
  <2>3. Cached(t) => cache \in Plans
    BY DEF Cached, CallsInv
  <2>4. cache' \in Plans \cup {NoPlan} /\ plan' \in [CallId -> Plans \cup {NoPlan}]
    BY <1>8, <2>1, <2>2, <2>3 DEF PlanEnd, Preview, CallsInv
  <2>5. QED
    BY <1>8, <2>4 DEF PlanEnd, Preview, MoveTo, Finish, CallsInv, Places, Outcomes, Answers
<1>9. CASE StartUp \/ \E r \in Release : Release_(r)
  BY <1>9 DEF StartUp, Release_, callVars, CallsInv
<1>10. CASE Stop
  <2>1. at' \in [CallId -> Places] /\ outcome' \in [CallId -> Outcomes]
    BY <1>10 DEF Stop, CallsInv, Places, Outcomes, Answers
  <2>2. QED
    BY <1>10, <2>1 DEF Stop, CallsInv
<1>11. QED
  BY <1>3, <1>4, <1>5, <1>6, <1>7, <1>8, <1>9, <1>10 DEF OperationsNext, CallStep

\* Whoever has the lock excludes the others, until it answers or the process
\* stops.
LEMMA HolderStays ==
  ASSUME ProtocolInv, CallsInv, HolderInv, [OperationsNext]_opsVars
  PROVE  HolderInv'
<1>1. NoPlan \notin CallId
  BY OperationsAssumption
<1>2. CASE UNCHANGED opsVars
  BY <1>2 DEF opsVars, callVars, vars, HolderInv, Pristine
<1>3. ASSUME NEW t \in CallId,
             \/ Arrive(t) \/ ReadRevision(t) \/ ReadIndex(t) \/ ScanFuture(t) \/ ScanReceipts(t)
             \/ WriteIndex(t) \/ RecheckIndex(t) \/ TimeOut(t)
      PROVE  HolderInv'
  <2>1. UNCHANGED <<holder, phase, pc, op, cmd, tree, index, disk, temp>>
    BY <1>3 DEF Arrive, ReadRevision, ReadIndex, ScanFuture, ScanReceipts, WriteIndex,
      RecheckIndex, TimeOut, vars
  <2>2. \E place \in Places \ Inside : at' = [at EXCEPT ![t] = place]
    BY <1>3 DEF Arrive, ReadRevision, ReadIndex, ScanFuture, ScanReceipts, WriteIndex,
      RecheckIndex, TimeOut, MoveTo, Finish, Places
  <2>3. QED
    BY <2>1, <2>2 DEF HolderInv, CallsInv, Pristine
<1>4. ASSUME NEW t \in CallId, Acquire(t) PROVE HolderInv'
  <2>1. /\ pc = "idle" /\ holder = NoPlan /\ holder' = t /\ at' = [at EXCEPT ![t] = "held"]
        /\ pc' = "recover" /\ op' = phase[t] /\ cmd' = CommandOf[t] /\ phase' = phase
    BY <1>4 DEF Acquire, Start, MoveTo
  <2>2. \A s \in CallId : at[s] \notin Inside
    BY <1>1, <2>1 DEF HolderInv
  <2>3. QED
    BY <2>1, <2>2 DEF HolderInv, CallsInv
<1>5. ASSUME NEW t \in CallId, PlanBegin(t) \/ ViewBegin(t) PROVE HolderInv'
  <2>1. /\ pc = "idle" /\ holder = NoPlan /\ UNCHANGED <<vars, phase>>
        /\ \/ /\ Pristine /\ holder' = t
              /\ \E place \in {"planning", "viewing"} : at' = [at EXCEPT ![t] = place]
           \/ holder' = holder /\ at' = [at EXCEPT ![t] = "done"]
    BY <1>5 DEF PlanBegin, ViewBegin, TakeLock, LockFree, MoveTo, Finish
  <2>2. \A s \in CallId : at[s] \notin Inside
    BY <1>1, <2>1 DEF HolderInv
  <2>3. QED
    BY <2>1, <2>2 DEF HolderInv, CallsInv, vars, Pristine
<1>6. ASSUME NEW t \in CallId, PlanEnd(t) \/ Preview(t) \/ Snapshot(t) PROVE HolderInv'
  <2>1. /\ at[t] \in Inside /\ UNCHANGED vars
        /\ \E place \in {"done", "read"} : at' = [at EXCEPT ![t] = place]
    BY <1>6 DEF PlanEnd, Preview, Snapshot, MoveTo, Finish
  <2>2. \A s \in CallId : s # t => at[s] \notin Inside
    BY <2>1 DEF HolderInv
  <2>3. QED
    BY <2>1, <2>2 DEF HolderInv, CallsInv
<1>7. ASSUME NEW t \in CallId, HolderStep(t) PROVE HolderInv'
  <2>1. /\ holder = t /\ at[t] = "held" /\ UNCHANGED phase
        /\ pc \in Steps /\ op = phase[t] /\ op # "boot" /\ cmd = CommandOf[t]
    BY <1>7 DEF HolderStep, HolderInv, CallsInv
  <2>2. \A s \in CallId : s # t => at[s] \notin Inside
    BY <2>1 DEF HolderInv
  <2>3. CASE pc' = "idle"
    <3>1. \E place \in {"plan", "done"} : at' = [at EXCEPT ![t] = place]
      BY <1>7, <2>3 DEF HolderStep, Return, MoveTo, Finish
    <3>2. QED
      BY <2>2, <3>1 DEF HolderInv, CallsInv
  <2>4. CASE pc' # "idle"
    <3>1. pc' \in Steps /\ op' = op /\ cmd' = cmd /\ UNCHANGED <<at, holder>>
      BY <1>7, <2>1, <2>4, OperationGoesOn DEF HolderStep
    <3>2. QED
      BY <2>1, <2>2, <3>1 DEF HolderInv
  <2>5. QED
    BY <2>3, <2>4
<1>8. CASE StartUp
  <2>1. pc = "down" \/ (op = "boot" /\ pc \in Steps)
    BY <1>8, WorkIsAtAStep DEF StartUp, Boot
  <2>2. \A s \in CallId : at[s] \notin Inside
    BY <2>1 DEF HolderInv, CallsInv
  <2>3. QED
    BY <1>8, <2>2 DEF StartUp, callVars, HolderInv
<1>9. CASE Stop
  <2>1. \A s \in CallId : at'[s] \notin Inside
    BY <1>9 DEF Stop, CallsInv
  <2>2. QED
    BY <2>1 DEF HolderInv
<1>10. CASE \E r \in Release : Release_(r)
  BY <1>10 DEF Release_, PushRelease, callVars, HolderInv, Pristine
<1>11. QED
  BY <1>2, <1>3, <1>4, <1>5, <1>6, <1>7, <1>8, <1>9, <1>10 DEF OperationsNext, CallStep

-----------------------------------------------------------------------------
(* What a call carries from one critical section to the next *)

\* Plans and previews made before a step stay what they are after it.
LEMMA PlansKept ==
  ASSUME ProtocolInv, FileInv, ExecuteInv, CallsInv, HolderInv, PlanInv,
         [Next]_vars \/ IndexRewritten,
         \A t \in CallId : phase'[t] = phase[t] /\ plan'[t] = plan[t],
         cache' \in {cache, NoPlan},
         \A t \in CallId : at'[t] = "held" /\ pc' \in {"apply", "stage", "commit"} =>
           plan[t].head = log'
  PROVE  PlanInv'
<1>1. /\ Len(log) \in Nat /\ Len(log') \in Nat /\ Len(log) <= Len(log')
      /\ Len(log') = Len(log) => log' = log
      /\ Newest \in Nat /\ Newest' \in Nat
      /\ \/ UNCHANGED tree
         \/ GitCommit /\ pc = "commit" /\ Len(log) < Len(log') /\ Newest' = Newest + 1
  BY BranchGrows
<1>2. ASSUME NEW t \in CallId, plan[t] # NoPlan
      PROVE  /\ Len(plan[t].head) <= Len(log')
             /\ plan[t].head = log' => plan[t].basis = tree'
  <2>1. /\ Len(plan[t].head) <= Len(log) /\ Len(plan[t].head) \in Nat
        /\ plan[t].head = log => plan[t].basis = tree
    BY <1>2 DEF PlanInv, CallsInv, Plans
  <2>2. CASE plan[t].head = log'
    <3>1. log' = log /\ ~(Len(log) < Len(log'))
      BY <1>1, <2>1, <2>2
    <3>2. QED
      BY <1>1, <2>1, <2>2, <3>1
  <2>3. QED
    BY <1>1, <2>1, <2>2
<1>3. ASSUME cache # NoPlan
      PROVE  /\ Base[cache.for] <= Newest'
             /\ Base[cache.for] = Newest' => cache.basis = tree'
  <2>1. Base[cache.for] \in Nat /\ Base[cache.for] <= Newest
        /\ (Base[cache.for] = Newest => cache.basis = tree)
    BY <1>3, ConstantsAssumption DEF PlanInv, CallsInv, Plans
  <2>2. CASE UNCHANGED tree
    BY <2>1, <2>2 DEF Newest, RevisionOf
  <2>3. CASE Newest' = Newest + 1
    BY <1>1, <2>1, <2>3
  <2>4. QED
    BY <1>1, <2>2, <2>3
<1>4. \A t \in CallId : phase'[t] = "execute" => plan'[t] # NoPlan /\ plan'[t].for = CommandOf[t]
  BY DEF PlanInv
<1>5. QED
  BY <1>2, <1>3, <1>4 DEF PlanInv, Newest, RevisionOf

\* Every step keeps what ties a plan to the branch.
LEMMA PlansGoOn ==
  ASSUME ProtocolInv, FileInv, ExecuteInv, CallsInv, HolderInv, PlanInv, [OperationsNext]_opsVars
  PROVE  PlanInv'
<1>1. [Next]_vars \/ IndexRewritten
  BY ServiceStep
<1>2. CASE UNCHANGED opsVars
  BY <1>1, <1>2, PlansKept DEF opsVars, callVars, vars, PlanInv
<1>3. ASSUME NEW t \in CallId,
             \/ Arrive(t) \/ ReadRevision(t) \/ ReadIndex(t) \/ ScanFuture(t) \/ ScanReceipts(t)
             \/ WriteIndex(t) \/ RecheckIndex(t) \/ TimeOut(t) \/ PlanBegin(t) \/ ViewBegin(t)
             \/ Snapshot(t)
      PROVE  PlanInv'
  <2>1. UNCHANGED <<phase, plan, cache, pc, log>>
    BY <1>3 DEF Arrive, ReadRevision, ReadIndex, ScanFuture, ScanReceipts, WriteIndex,
      RecheckIndex, TimeOut, PlanBegin, ViewBegin, Snapshot, vars
  <2>2. \E place \in Places \ {"held"} : at' = [at EXCEPT ![t] = place]
    BY <1>3 DEF Arrive, ReadRevision, ReadIndex, ScanFuture, ScanReceipts, WriteIndex,
      RecheckIndex, TimeOut, PlanBegin, ViewBegin, Snapshot, TakeLock, MoveTo, Finish, Places
  <2>3. \A s \in CallId : at'[s] = "held" => at[s] = "held"
    BY <2>2 DEF CallsInv
  <2>4. QED
    BY <1>1, <2>1, <2>3, PlansKept DEF PlanInv
<1>4. ASSUME NEW t \in CallId, Acquire(t) PROVE PlanInv'
  BY <1>1, <1>4, PlansKept DEF Acquire, Start
<1>5. ASSUME NEW t \in CallId, HolderStep(t) PROVE PlanInv'
  <2>1. /\ holder = t /\ at[t] = "held" /\ UNCHANGED <<phase, plan, cache>>
        /\ pc \in Steps /\ op # "boot"
    BY <1>5 DEF HolderStep, HolderInv, CallsInv
  <2>2. /\ pc' \in {"stage", "commit"} => pc \in {"apply", "stage", "commit"}
        /\ pc' = "apply" => pc \in {"validate", "apply"}
    BY <1>5, <2>1, OperationGoesOn DEF HolderStep
  <2>3. \A s \in CallId : at'[s] = "held" => s = t
    BY <1>5 DEF HolderStep, Return, MoveTo, Finish, HolderInv, CallsInv
  <2>4. ASSUME pc' \in {"apply", "stage", "commit"} PROVE plan[t].head = log'
    <3>1. log' = log
      BY <1>5, <2>4 DEF HolderStep, Work, RecoverStep, RollbackStep, TransactionStep,
        DeliveryStep, RecoverTerminal, RecoverPending, RecoverDone, Unwind, Restore,
        MarkRolledBack, Archive, Preflight, Integrity, Lookup, Prepare, Validate, Apply,
        MarkApplied, Stage, GitCommit, Readback, Durable, Push, PushUnacknowledged, Verify,
        MarkCommitted, NoteRevision, PutReceipt, Fault, GoTo
    <3>2. CASE pc \in {"apply", "stage", "commit"}
      BY <2>1, <3>1, <3>2 DEF PlanInv
    <3>3. CASE pc = "validate" /\ pc' = "apply"
      BY <1>5, <3>1, <3>3 DEF HolderStep, Guarded
    <3>4. QED
      BY <2>2, <2>4, <3>2, <3>3
  <2>5. QED
    BY <1>1, <2>1, <2>3, <2>4, PlansKept
<1>6. ASSUME NEW t \in CallId, PlanEnd(t) \/ Preview(t) PROVE PlanInv'
  <2>1. /\ holder = t /\ pc = "idle" /\ Pristine /\ disk = tree
        /\ UNCHANGED <<pc, log, tree, Newest>>
    BY <1>6 DEF PlanEnd, Preview, HolderInv, Pristine, vars, Newest, RevisionOf
  <2>2. Len(log) \in Nat /\ Newest \in Nat /\ log \in Seq(Commits)
    BY <1>1, BranchGrows DEF ProtocolInv, TypeOK
  <2>3. /\ Build(t).for = CommandOf[t] /\ Build(t).basis = tree /\ Build(t).head = log
        /\ Build(t) # NoPlan
    <3>1. Build(t) \in Plans
      BY OperationsAssumption DEF Build, Plans, ProtocolInv, TypeOK
    <3>2. QED
      BY <2>1, <3>1, OperationsAssumption DEF Build
  <2>4. ASSUME Base[CommandOf[t]] = Newest,
               NEW new, new # NoPlan, new.for = CommandOf[t], new.basis = tree, new.head = log,
               plan' = [plan EXCEPT ![t] = new], phase' = [phase EXCEPT ![t] = "execute"],
               cache' \in {cache, NoPlan}
        PROVE  PlanInv'
    <3>1. \A s \in CallId : s # t => plan'[s] = plan[s] /\ phase'[s] = phase[s]
      BY <2>4 DEF CallsInv
    <3>2. plan'[t] = new /\ phase'[t] = "execute"
      BY <2>4 DEF CallsInv
    <3>3. \A s \in CallId :
            /\ phase'[s] = "execute" => plan'[s] # NoPlan /\ plan'[s].for = CommandOf[s]
            /\ plan'[s] # NoPlan =>
                 /\ Len(plan'[s].head) <= Len(log)
                 /\ plan'[s].head = log => plan'[s].basis = tree
      BY <2>2, <2>4, <3>1, <3>2 DEF PlanInv
    <3>4. cache' # NoPlan =>
            /\ Base[cache'.for] <= Newest
            /\ Base[cache'.for] = Newest => cache'.basis = tree
      BY <2>4 DEF PlanInv
    <3>5. QED
      BY <2>1, <3>3, <3>4 DEF PlanInv, Newest, RevisionOf
  <2>5. CASE UNCHANGED <<phase, plan, cache>>
    BY <1>1, <2>1, <2>5, PlansKept
  <2>6. ASSUME Base[CommandOf[t]] = Newest, cache' = Build(t), UNCHANGED <<phase, plan>>
        PROVE  PlanInv'
    BY <2>1, <2>2, <2>3, <2>6 DEF PlanInv, Newest, RevisionOf
  <2>7. CASE PlanEnd(t)
    <3>1. CASE ~UNCHANGED <<phase, plan, cache>>
      <4>1. /\ Base[CommandOf[t]] = Newest
            /\ plan' = [plan EXCEPT ![t] = IF Cached(t) THEN [cache EXCEPT !.head = log]
                                                        ELSE Build(t)]
            /\ phase' = [phase EXCEPT ![t] = "execute"] /\ cache' \in {cache, NoPlan}
        BY <2>1, <2>7, <3>1 DEF PlanEnd, Newest
      <4>2. CASE Cached(t)
        <5>1. cache \in Plans /\ cache.for = CommandOf[t] /\ cache.basis = tree
          BY <4>1, <4>2 DEF Cached, CallsInv, PlanInv
        <5> DEFINE new == [cache EXCEPT !.head = log]
        <5>2. new \in Plans /\ new.for = CommandOf[t] /\ new.basis = tree /\ new.head = log
          BY <2>2, <5>1 DEF Plans
        <5>3. plan' = [plan EXCEPT ![t] = new]
          BY <4>1, <4>2
        <5> HIDE DEF new
        <5>4. QED
          BY <2>4, <4>1, <5>2, <5>3, OperationsAssumption
      <4>3. CASE ~Cached(t)
        BY <2>3, <2>4, <4>1, <4>3
      <4>4. QED
        BY <4>2, <4>3
    <3>2. QED
      BY <2>5, <3>1
  <2>8. CASE Preview(t)
    BY <2>1, <2>5, <2>6, <2>8 DEF Preview, Newest
  <2>9. QED
    BY <1>6, <2>7, <2>8
<1>7. CASE StartUp
  <2>1. pc = "down" \/ (op = "boot" /\ pc \in Steps)
    BY <1>7, WorkIsAtAStep DEF StartUp, Boot
  <2>2. \A s \in CallId : at[s] # "held"
    BY <2>1 DEF HolderInv, CallsInv
  <2>3. QED
    BY <1>1, <1>7, <2>2, PlansKept DEF StartUp, callVars
<1>8. CASE Stop
  BY <1>1, <1>8, PlansKept DEF Stop
<1>9. CASE \E r \in Release : Release_(r)
  BY <1>1, <1>9, PlansKept DEF Release_, PushRelease, callVars, PlanInv
<1>10. QED
  BY <1>2, <1>3, <1>4, <1>5, <1>6, <1>7, <1>8, <1>9 DEF OperationsNext, CallStep

-----------------------------------------------------------------------------
(* The theorems *)

\* What a reader was shown is committed and stays so.
LEMMA ReadsGoOn ==
  ASSUME ProtocolInv, FileInv, CallsInv, HolderInv, ReadInv, [OperationsNext]_opsVars
  PROVE  ReadInv'
<1>1. Newest \in Nat /\ Newest' \in Nat /\ Newest <= Newest'
  <2>1. Newest \in Nat /\ Newest' \in Nat /\ (UNCHANGED tree \/ Newest' = Newest + 1)
    BY ServiceStep, BranchGrows
  <2>2. UNCHANGED tree => Newest' = Newest
    BY DEF Newest, RevisionOf
  <2>3. QED
    BY <2>1, <2>2
<1>2. ASSUME NEW t \in CallId, at'[t] = at[t], outcome'[t] = outcome[t], seen'[t] = seen[t],
             outcome'[t] = "read"
      PROVE  at'[t] = "done" /\ seen'[t] <= Newest'
  <2>1. at[t] = "done" /\ seen[t] <= Newest
    BY <1>2 DEF ReadInv
  <2>2. seen[t] \in Nat
    BY DEF CallsInv
  <2>3. QED
    BY <1>1, <1>2, <2>1, <2>2
<1>3. ASSUME NEW t \in CallId, outcome'[t] = "read"
      PROVE  at'[t] = "done" /\ seen'[t] <= Newest'
  <2>1. CASE Snapshot(t)
    <3>1. disk = tree /\ at' = [at EXCEPT ![t] = "done"]
          /\ seen' = [seen EXCEPT ![t] = RevisionOf(disk[Meta])]
      BY <2>1 DEF Snapshot, HolderInv, Pristine, Finish, MoveTo
    <3>2. at'[t] = "done" /\ seen'[t] = Newest
      BY <3>1 DEF CallsInv, Newest
    <3>3. QED
      BY <1>1, <3>2
  <2>2. CASE ~Snapshot(t)
    <3>1. at'[t] = at[t] /\ outcome'[t] = outcome[t] /\ seen'[t] = seen[t]
      <4>1. CASE at[t] = "done"
        BY <2>2, <4>1
           DEF OperationsNext, CallStep, opsVars, callVars, CallsInv, Arrive, ReadRevision,
               ReadIndex, ScanFuture, ScanReceipts, WriteIndex, RecheckIndex, Acquire, TimeOut,
               HolderStep, Return, PlanBegin, PlanEnd, ViewBegin, Preview, Snapshot, StartUp,
               Stop, Release_, TakeLock, MoveTo, Finish
      <4>2. CASE at[t] # "done"
        <5>1. outcome[t] # "read"
          BY <4>2 DEF ReadInv
        <5>2. \A s \in CallId : reply'[CommandOf[s]] # "read"
          <6>1. ProtocolInv'
            BY ServiceStep, ProtocolGoesOn
          <6>2. QED
            BY <6>1, OperationsAssumption DEF ProtocolInv, TypeOK, Answers
        <5>3. outcome'[t] # "read"
          BY <2>2, <5>1, <5>2
             DEF OperationsNext, CallStep, opsVars, callVars, CallsInv, Arrive, ReadRevision,
                 ReadIndex, ScanFuture, ScanReceipts, WriteIndex, RecheckIndex, Acquire, TimeOut,
                 HolderStep, Return, PlanBegin, PlanEnd, ViewBegin, Preview, Snapshot, StartUp,
                 Stop, Release_, TakeLock, MoveTo, Finish
        <5>4. QED
          BY <1>3, <5>3
      <4>3. QED
        BY <4>1, <4>2
    <3>2. QED
      BY <1>2, <1>3, <3>1
  <2>3. QED
    BY <2>1, <2>2
<1>4. QED
  BY <1>3 DEF ReadInv, Newest, RevisionOf

\* The service starts in order.
LEMMA InitialService == OperationsInit => ServiceInv
<1> SUFFICES ASSUME OperationsInit PROVE ServiceInv
  OBVIOUS
<1>1. ProtocolInv /\ FileInv /\ ExecuteInv
  BY InitInv, FileInvInit DEF OperationsInit, Init, ExecuteInv
<1>2. CallsInv
  BY DEF OperationsInit, CallsInv, Places, Outcomes, Answers
<1>3. HolderInv /\ PlanInv /\ ReadInv
  BY DEF OperationsInit, HolderInv, PlanInv, ReadInv
<1>4. QED
  BY <1>1, <1>2, <1>3 DEF ServiceInv

\* With any number of threads between the critical sections, the protocol, the
\* files and the plans stay consistent.
THEOREM ServiceInvariance == OperationsSpec => []ServiceInv
<1>1. ServiceInv /\ [OperationsNext]_opsVars => ServiceInv'
  <2> SUFFICES ASSUME ServiceInv, [OperationsNext]_opsVars PROVE ServiceInv'
    OBVIOUS
  <2>1. [Next]_vars \/ IndexRewritten
    BY ServiceStep DEF ServiceInv
  <2>2. ProtocolInv' /\ FileInv' /\ ExecuteInv'
    BY <2>1, ProtocolGoesOn, ExecuteStep DEF ServiceInv
  <2>3. CallsInv' /\ HolderInv' /\ PlanInv' /\ ReadInv'
    BY CallsKeepTypes, HolderStays, PlansGoOn, ReadsGoOn DEF ServiceInv
  <2>4. QED
    BY <2>2, <2>3 DEF ServiceInv
<1>2. QED
  BY <1>1, InitialService, PTL DEF OperationsSpec

\* A revision that a snapshot has shown (campaign_snapshot of operations.py) is
\* a committed one: the snapshot waits for the lock and a clean checkout.
THEOREM SnapshotsAreCommitted == OperationsSpec => []ReadsAreCommitted
<1>1. ServiceInv => ReadsAreCommitted
  BY DEF ServiceInv, ReadInv, ReadsAreCommitted, Newest
<1>2. QED
  BY <1>1, ServiceInvariance, PTL

\* Between planning and committing no other writer came, and a reused preview
\* is a plan of the very files the commit replaces (guarded() and the planner's
\* cache of operations.py).
THEOREM CommitsArePlanned == OperationsSpec => CommitsWhatWasPlanned
<1>1. ASSUME ServiceInv, [OperationsNext]_opsVars, NEW t \in CallId,
             holder = t, at[t] = "held", tx # None, Len(log') > Len(log)
      PROVE  plan[t].for = tx /\ plan[t].basis = tree
  <2>1. pc \in Steps /\ op = phase[t] /\ op # "boot" /\ cmd = CommandOf[t]
    BY <1>1 DEF ServiceInv, HolderInv, CallsInv
  <2>2. Len(log) \in Nat /\ log' # log
    BY <1>1, BranchGrows, ServiceStep DEF ServiceInv
  <2>3. GitCommit
    <3>1. ~IndexRewritten
      BY <2>2 DEF IndexRewritten
    <3>2. Next
      BY <1>1, <2>2, <3>1, ServiceStep DEF ServiceInv, vars
    <3>3. ~Boot
      BY <2>1 DEF Boot
    <3>4. QED
      BY <2>2, <3>2, <3>3
         DEF Next, Work, Call, RecoverStep, RollbackStep, TransactionStep, DeliveryStep,
             Environment, Start, RecoverTerminal, RecoverPending, RecoverDone,
             Unwind, Restore, MarkRolledBack, Archive, Preflight, Integrity, Lookup,
             Prepare, Validate, Apply, MarkApplied, Stage, Readback, Durable, Push,
             PushUnacknowledged, Verify, MarkCommitted, NoteRevision, PutReceipt, Fault,
             Crash, PushRelease, Redeploy
  <2>4. pc = "commit" /\ ctx = "main" /\ tx = cmd /\ op = "execute"
    <3>1. ControlInv /\ ExecuteInv /\ pc = "commit"
      BY <1>1, <2>3 DEF GitCommit, ServiceInv, ProtocolInv
    <3>2. QED
      BY <3>1 DEF ControlInv, ExecuteInv
  <2>5. plan[t] # NoPlan /\ plan[t].for = CommandOf[t] /\ plan[t].head = log
    BY <1>1, <2>1, <2>4 DEF ServiceInv, PlanInv
  <2>6. plan[t].basis = tree
    BY <1>1, <2>5 DEF ServiceInv, PlanInv
  <2>7. QED
    BY <2>1, <2>4, <2>5, <2>6
<1>2. ServiceInv /\ [OperationsNext]_opsVars =>
        [\A t \in CallId :
           holder = t /\ at[t] = "held" /\ tx # None /\ Len(log') > Len(log) =>
             plan[t].for = tx /\ plan[t].basis = tree]_opsVars
  BY <1>1
<1>3. QED
  BY <1>2, ServiceInvariance, PTL DEF OperationsSpec, CommitsWhatWasPlanned

\* The promises of the coordinator survive the threads and the index rebuild
\* that campaign_coordinator.py runs outside the lock.
THEOREM ServiceKeepsPromises == OperationsSpec => [](ExactlyOnce /\ AcknowledgedDurable)
<1>1. ServiceInv => ExactlyOnce /\ AcknowledgedDurable
  BY DEF ServiceInv, ProtocolInv, RequestInv, BranchInv, AnswerInv, ExactlyOnce,
    AcknowledgedDurable
<1>2. QED
  BY <1>1, ServiceInvariance, PTL

\* The service of many threads implements the ledger.
THEOREM ServiceIsLedger == OperationsSpec => ImplementsLedger
<1>1. OperationsInit => Ledger!LedgerInit
  BY ConstantsAssumption
     DEF OperationsInit, Init, Ledger!LedgerInit, CommittedCommands, DeliveredCommands, Holds,
         RevisionOf
<1>2. ServiceInv /\ [OperationsNext]_opsVars => [Ledger!LedgerNext]_(Ledger!ledgerVars)
  <2> SUFFICES ASSUME ServiceInv, [OperationsNext]_opsVars
               PROVE  [Ledger!LedgerNext]_(Ledger!ledgerVars)
    OBVIOUS
  <2>1. [Next]_vars \/ IndexRewritten
    BY ServiceStep DEF ServiceInv
  <2>2. CASE [Next]_vars
    BY <2>2, LedgerStep DEF ServiceInv
  <2>3. CASE IndexRewritten
    BY <2>3 DEF IndexRewritten, Ledger!ledgerVars, CommittedCommands, DeliveredCommands, RevisionOf
  <2>4. QED
    BY <2>1, <2>2, <2>3
<1>3. QED
  BY <1>1, <1>2, ServiceInvariance, PTL DEF OperationsSpec, ImplementsLedger, Ledger!LedgerSpec

-----------------------------------------------------------------------------
(***************************************************************************)
(* Proofs about CausalFrontier, for every set of owners, every interval    *)
(* and chunk size, every set of wakes and every horizon.                   *)
(*                                                                         *)
(* Two facts carry them.  The owners of a class are taken in the order of  *)
(* their ranks, and ranks number a finite set without gaps, so a cursor    *)
(* counts exactly the owners that had their turn.  And a frontier is the   *)
(* earliest piece of work that is due, so no other work lies before it     *)
(* when the clock moves there; whatever is put on the schedule at that     *)
(* moment is due then or later.                                            *)
(***************************************************************************)

\* A row that the settlement can go on with.
Serviceable(row) ==
  /\ row \in Rows /\ IsFiniteSet(row.owners) /\ row.owners # {}
  /\ row.cursor < Cardinality(row.owners)

Schedule(rows) == DOMAIN rows \subseteq Class /\ \A c \in DOMAIN rows : Serviceable(rows[c])

\* Half way through its owners, the turns of a date are those before the cursor.
HalfWay(c) ==
  /\ round[c].owners = recurring[c].owners
  /\ \A o \in Owner :
       round[c].turns[o] =
         IF o \in recurring[c].owners /\ Rank(recurring[c].owners, o) <= recurring[c].cursor
         THEN 1 ELSE 0

TypeInv ==
  /\ now \in Nat /\ now <= Horizon /\ now % 2 = 0
  /\ Schedule(recurring)
  /\ oneOff \subseteq Events
  /\ factions \subseteq Faction /\ routes \subseteq Route
  /\ unused \subseteq Wake \cup Judgment
  /\ round \in [Class -> [owners : SUBSET Owner, turns : [Owner -> Nat], over : BOOLEAN]]

RoundInv == \A c \in DOMAIN recurring : recurring[c].cursor > 0 => HalfWay(c)

CausalInv == TypeInv /\ NothingLeftBehind /\ RoundInv /\ EveryOwnerOncePerDate

-----------------------------------------------------------------------------
(* Ranks number the owners *)

\* A set of owners is finite, and of a positive size unless it is empty.
LEMMA OwnersAreFinite ==
  ASSUME NEW owners \in SUBSET Owner
  PROVE  /\ IsFiniteSet(owners) /\ owners \subseteq Nat /\ Cardinality(owners) \in Nat
         /\ owners # {} => Cardinality(owners) > 0
<1>1. IsFiniteSet(owners) /\ owners \subseteq Nat
  BY FrontierAssumption, FS_Subset
<1>2. QED
  BY <1>1, FS_CardinalityType, FS_EmptySet

\* Ranks lie between 1 and the number of owners and grow with the owners.
LEMMA RankOrder ==
  ASSUME NEW owners \in SUBSET Owner
  PROVE  /\ \A o \in owners : Rank(owners, o) \in 1 .. Cardinality(owners)
         /\ \A o, p \in owners : o < p => Rank(owners, o) < Rank(owners, p)
<1> DEFINE upTo(o) == {p \in owners : p <= o}
<1>1. IsFiniteSet(owners) /\ owners \subseteq Nat /\ Cardinality(owners) \in Nat
  BY OwnersAreFinite
<1>2. ASSUME NEW o \in owners
      PROVE  /\ IsFiniteSet(upTo(o)) /\ Rank(owners, o) = Cardinality(upTo(o))
             /\ Rank(owners, o) \in 1 .. Cardinality(owners)
  <2>1. upTo(o) \in SUBSET owners /\ o \in upTo(o)
    BY <1>1
  <2>2. IsFiniteSet(upTo(o)) /\ Cardinality(upTo(o)) <= Cardinality(owners)
    BY <1>1, <2>1, FS_Subset
  <2>3. Cardinality(upTo(o)) \in Nat /\ Cardinality(upTo(o)) # 0
    BY <2>1, <2>2, FS_CardinalityType, FS_EmptySet
  <2>4. Rank(owners, o) = Cardinality(upTo(o))
    BY DEF Rank
  <2>5. QED
    BY <1>1, <2>2, <2>3, <2>4
<1>3. ASSUME NEW o \in owners, NEW p \in owners, o < p
      PROVE  Rank(owners, o) < Rank(owners, p)
  <2>1. upTo(o) \in SUBSET upTo(p) /\ p \in upTo(p) /\ p \notin upTo(o)
    <3>1. \A x \in owners : x \in Nat
      BY <1>1
    <3>2. (\A x \in owners : x <= o => x <= p) /\ p <= p /\ ~(p <= o)
      BY <1>3, <3>1
    <3>3. QED
      BY <3>2
  <2>2. IsFiniteSet(upTo(p)) /\ Rank(owners, p) = Cardinality(upTo(p))
        /\ Rank(owners, o) = Cardinality(upTo(o))
    BY <1>2
  <2>3. /\ Cardinality(upTo(o)) <= Cardinality(upTo(p))
        /\ Cardinality(upTo(o)) # Cardinality(upTo(p))
    BY <2>1, <2>2, FS_Subset
  <2>4. Rank(owners, o) \in Nat /\ Rank(owners, p) \in Nat
    <3>1. Rank(owners, o) \in 1 .. Cardinality(owners) /\ Rank(owners, p) \in 1 .. Cardinality(owners)
      BY <1>2
    <3> HIDE DEF upTo
    <3>2. QED
      BY <1>1, <3>1
  <2>5. QED
    BY <2>2, <2>3, <2>4
<1>4. QED
  BY <1>2, <1>3

\* No rank is missing.
LEMMA RankOnto ==
  ASSUME NEW owners \in SUBSET Owner, NEW k \in 1 .. Cardinality(owners)
  PROVE  \E o \in owners : Rank(owners, o) = k
<1> DEFINE n == Cardinality(owners)
           rank == [o \in owners |-> Rank(owners, o)]
<1>1. IsFiniteSet(owners) /\ owners \subseteq Nat /\ n \in Nat
  BY OwnersAreFinite
<1>2. IsFiniteSet(1 .. n) /\ Cardinality(1 .. n) = n
  BY <1>1, FS_Interval
<1>3. rank \in [owners -> 1 .. n]
  BY RankOrder
<1>4. \A o, p \in owners : rank[o] = rank[p] => o = p
  <2> SUFFICES ASSUME NEW o \in owners, NEW p \in owners, o # p PROVE rank[o] # rank[p]
    OBVIOUS
  <2>1. o < p \/ p < o
    BY <1>1
  <2>2. rank[o] \in Nat /\ rank[p] \in Nat
    BY <1>1, <1>3
  <2>3. rank[o] = Rank(owners, o) /\ rank[p] = Rank(owners, p)
    OBVIOUS
  <2> HIDE DEF rank
  <2>4. QED
    BY <2>1, <2>2, <2>3, RankOrder
<1> HIDE DEF rank
<1>5. rank \in Injection(owners, 1 .. n)
  BY <1>3, <1>4, Fun_IsInj
<1>6. rank \in Surjection(owners, 1 .. n)
  BY <1>2, <1>5, FS_Injection
<1>7. PICK o \in owners : rank[o] = k
  BY <1>6 DEF Surjection
<1>8. QED
  BY <1>7 DEF rank

Low(owners, k) == {o \in owners : Rank(owners, o) <= k}

\* Exactly k owners have a rank up to k.
LEMMA LowCounts ==
  ASSUME NEW owners \in SUBSET Owner, NEW k \in 0 .. Cardinality(owners)
  PROVE  IsFiniteSet(Low(owners, k)) /\ Cardinality(Low(owners, k)) = k
<1>1. IsFiniteSet(owners) /\ owners \subseteq Nat /\ Cardinality(owners) \in Nat
  BY OwnersAreFinite
<1>2. IsFiniteSet(Low(owners, k))
  BY <1>1, FS_Subset DEF Low
<1>3. CASE k = 0
  <2>1. Low(owners, k) = {}
    <3>1. \A o \in owners : ~(Rank(owners, o) <= 0)
      BY <1>1, RankOrder
    <3>2. QED
      BY <1>3, <3>1 DEF Low
  <2>2. QED
    BY <1>3, <2>1, FS_EmptySet
<1>4. CASE k # 0
  <2>1. PICK o \in owners : Rank(owners, o) = k
    BY <1>1, <1>4, RankOnto
  <2>2. \A p \in owners : Rank(owners, p) \in Nat
    BY <1>1, RankOrder
  <2>3. \A p \in owners : Rank(owners, p) <= k <=> p <= o
    <3> SUFFICES ASSUME NEW p \in owners PROVE Rank(owners, p) <= k <=> p <= o
      OBVIOUS
    <3>1. p \in Nat /\ o \in Nat /\ (p < o \/ p = o \/ o < p)
      BY <1>1
    <3>2. QED
      BY <2>1, <2>2, <3>1, RankOrder
  <2>4. Low(owners, k) = {p \in owners : p <= o}
    BY <2>3 DEF Low
  <2>5. QED
    BY <1>2, <2>1, <2>4 DEF Rank
<1>5. QED
  BY <1>3, <1>4

\* A chunk takes the owners after the cursor, as many as there are, up to its
\* size.
LEMMA ChunkCounts ==
  ASSUME NEW c \in Class, NEW row, Serviceable(row)
  PROVE  LET n == Cardinality(row.owners)
             m == IF row.cursor + ChunkSize[c] <= n THEN row.cursor + ChunkSize[c] ELSE n
         IN  /\ n \in Nat /\ row.cursor \in Nat /\ row.cursor < m /\ m <= n /\ m \in Nat
             /\ Chunk(c, row) = Low(row.owners, m) \ Low(row.owners, row.cursor)
             /\ Cardinality(Chunk(c, row)) = m - row.cursor
             /\ Chunk(c, row) # {}
<1> DEFINE owners == row.owners
           k == row.cursor
           n == Cardinality(owners)
           m == IF k + ChunkSize[c] <= n THEN k + ChunkSize[c] ELSE n
<1>1. owners \in SUBSET Owner /\ k \in Nat /\ k < n /\ ChunkSize[c] \in Nat \ {0}
  BY FrontierAssumption DEF Serviceable, Rows
<1>2. n \in Nat
  BY <1>1, OwnersAreFinite
<1>3. k < m /\ m <= n /\ m \in Nat
  BY <1>1, <1>2
<1>4. \A o \in owners : Rank(owners, o) \in 1 .. n
  BY <1>1, RankOrder
<1>5. Chunk(c, row) = Low(owners, m) \ Low(owners, k)
  <2>1. \A o \in owners :
          Rank(owners, o) \in k + 1 .. k + ChunkSize[c] <=>
            Rank(owners, o) <= m /\ ~(Rank(owners, o) <= k)
    BY <1>1, <1>2, <1>4
  <2>2. Chunk(c, row) = {o \in owners : Rank(owners, o) \in k + 1 .. k + ChunkSize[c]}
    BY DEF Chunk
  <2> HIDE DEF m, owners, k
  <2>3. QED
    BY <2>1, <2>2 DEF Low
<1>6. /\ IsFiniteSet(Low(owners, m)) /\ Cardinality(Low(owners, m)) = m
      /\ Cardinality(Low(owners, k)) = k
  BY <1>1, <1>2, <1>3, LowCounts
<1>7. Low(owners, m) \cap Low(owners, k) = Low(owners, k)
  <2>1. \A o \in owners : Rank(owners, o) <= k => Rank(owners, o) <= m
    BY <1>1, <1>3, <1>4
  <2> HIDE DEF m, owners, k
  <2>2. QED
    BY <2>1 DEF Low
<1>8. Cardinality(Chunk(c, row)) = m - k
  <2> HIDE DEF m, owners, k
  <2>1. QED
    BY <1>5, <1>6, <1>7, FS_Difference
<1>9. Chunk(c, row) # {}
  BY <1>1, <1>3, <1>8, FS_EmptySet
<1>10. QED
  BY <1>1, <1>2, <1>3, <1>5, <1>8, <1>9

-----------------------------------------------------------------------------
(* Keeping the schedule in step with the world *)

\* What a resync at a moment may do to the rows of a schedule: classes half way
\* through stay as they are, and a date is kept or begins after that moment.
Follows(rows, new, date) ==
  /\ Schedule(new)
  /\ \A c \in DOMAIN new :
       \/ c \in DOMAIN rows /\ new[c] = rows[c]
       \/ /\ new[c].cursor = 0
          /\ \/ new[c].due = date + Interval[c]
             \/ c \in DOMAIN rows /\ new[c].due = rows[c].due

\* Following a schedule by a date is transitive.
LEMMA FollowsChain ==
  ASSUME NEW a, NEW b, NEW c, NEW date, Follows(a, b, date), Follows(b, c, date)
  PROVE  Follows(a, c, date)
  BY DEF Follows

\* After synchronizing the classes, each row is as before, or unbegun and due when it was
\* or an interval later.
LEMMA SyncClassesFollows ==
  ASSUME NEW rows, Schedule(rows), NEW D \in SUBSET Class, NEW owed \in [D -> SUBSET Owner],
         NEW date \in Nat
  PROVE  Follows(rows, SyncClasses(rows, owed, date), date)
<1> DEFINE kept == {c \in DOMAIN rows : c \notin DOMAIN owed \/ rows[c].cursor > 0}
           served == {k \in DOMAIN owed : owed[k] # {}}
           new == SyncClasses(rows, owed, date)
<1>1. /\ DOMAIN new = kept \cup served
      /\ \A c \in kept : new[c] = rows[c]
      /\ \A c \in served \ kept : new[c] = SyncedRow(rows, c, owed[c], date)
  BY DEF SyncClasses
<1>2. DOMAIN owed = D /\ kept \subseteq Class /\ served \subseteq Class
  BY DEF Schedule
<1>3. ASSUME NEW c \in served \ kept
      PROVE  /\ Serviceable(new[c]) /\ new[c].cursor = 0
             /\ \/ new[c].due = date + Interval[c]
                \/ c \in DOMAIN rows /\ new[c].due = rows[c].due
  <2>1. /\ owed[c] \in SUBSET Owner /\ owed[c] # {} /\ IsFiniteSet(owed[c])
        /\ Cardinality(owed[c]) > 0
    BY <1>2, OwnersAreFinite
  <2>2. Interval[c] \in Nat /\ date + Interval[c] \in Nat
    BY <1>2, FrontierAssumption
  <2> DEFINE row == SyncedRow(rows, c, owed[c], date)
  <2>3. new[c] = row
    BY <1>1
  <2>4. CASE c \in DOMAIN rows
    <3>1. rows[c] \in Rows /\ rows[c].cursor = 0
      BY <2>4 DEF Schedule, Serviceable, Rows
    <3>2. row = [rows[c] EXCEPT !.owners = owed[c]]
      BY <2>4 DEF SyncedRow
    <3>3. row \in Rows /\ row.owners = owed[c] /\ row.cursor = 0 /\ row.due = rows[c].due
      BY <2>1, <3>1, <3>2 DEF Rows
    <3> HIDE DEF row
    <3>4. QED
      BY <2>1, <2>3, <2>4, <3>3 DEF Serviceable
  <2>5. CASE c \notin DOMAIN rows
    <3>1. row = [due |-> date + Interval[c], cursor |-> 0, owners |-> owed[c]]
      BY <2>5 DEF SyncedRow, NewRow
    <3>2. row \in Rows /\ row.owners = owed[c] /\ row.cursor = 0 /\ row.due = date + Interval[c]
      BY <2>1, <2>2, <3>1 DEF Rows
    <3> HIDE DEF row
    <3>3. QED
      BY <2>1, <2>3, <3>2 DEF Serviceable
  <2>6. QED
    BY <2>4, <2>5
<1>4. \A c \in kept : c \in DOMAIN rows /\ Serviceable(rows[c])
  BY DEF Schedule
<1> HIDE DEF kept, served, new
<1>5. Follows(rows, new, date)
  BY <1>1, <1>2, <1>3, <1>4 DEF Follows, Schedule
<1>6. QED
  BY <1>5 DEF new

\* The same of synchronizing the factions.
LEMMA SyncFactionsFollows ==
  ASSUME NEW rows, Schedule(rows), NEW registry \in SUBSET Faction, NEW date \in Nat
  PROVE  Follows(rows, SyncFactions(rows, registry, date), date)
<1>1. FactionOwners(registry) \in [FactionClass -> SUBSET Owner] /\ FactionClass \subseteq Class
  BY DEF FactionOwners, Owner, FactionClass, Class
<1>2. QED
  BY <1>1, SyncClassesFollows DEF SyncFactions

\* The same of synchronizing the routes.
LEMMA SyncRoutesFollows ==
  ASSUME NEW rows, Schedule(rows), NEW active \in SUBSET Route, NEW date \in Nat
  PROVE  Follows(rows, SyncRoutes(rows, active, date), date)
<1> DEFINE synced == SyncClasses(rows, RouteOwners(active), date)
           new == SyncRoutes(rows, active, date)
           late(c) == c = "route_daily" /\ synced[c].cursor = 0 /\ synced[c].due < date
<1>1. RouteOwners(active) \in [{"route_daily"} -> SUBSET Owner] /\ {"route_daily"} \subseteq Class
  BY DEF RouteOwners, Owner, Class
<1>2. Follows(rows, synced, date)
  BY <1>1, SyncClassesFollows
<1>3. /\ DOMAIN new = DOMAIN synced
      /\ \A c \in DOMAIN synced :
           new[c] = IF late(c) THEN [synced[c] EXCEPT !.due = date + Interval[c]] ELSE synced[c]
  BY DEF SyncRoutes
<1> HIDE DEF synced, new
<1>4. ASSUME NEW c \in DOMAIN synced, late(c)
      PROVE  Serviceable(new[c]) /\ new[c].cursor = 0 /\ new[c].due = date + Interval[c]
  <2>1. synced[c] \in Rows /\ Serviceable(synced[c]) /\ c \in Class
    BY <1>2 DEF Follows, Schedule, Serviceable
  <2>2. date + Interval[c] \in Nat
    BY <2>1, FrontierAssumption
  <2>3. new[c] = [synced[c] EXCEPT !.due = date + Interval[c]]
    BY <1>3, <1>4
  <2>4. /\ new[c] \in Rows /\ new[c].owners = synced[c].owners
        /\ new[c].cursor = synced[c].cursor /\ new[c].due = date + Interval[c]
    BY <2>1, <2>2, <2>3 DEF Rows
  <2>5. QED
    BY <1>4, <2>1, <2>4 DEF Serviceable
<1>5. \A c \in DOMAIN synced : ~late(c) => new[c] = synced[c]
  BY <1>3
<1>6. Follows(synced, new, date)
  <2> HIDE DEF late
  <2>1. QED
    BY <1>2, <1>3, <1>4, <1>5 DEF Follows, Schedule
<1>7. Follows(rows, new, date)
  BY <1>2, <1>6, FollowsChain
<1>8. QED
  BY <1>7 DEF new

\* The same of the whole resynchronization.
LEMMA ResyncFollows ==
  ASSUME NEW rows, Schedule(rows), NEW registry \in SUBSET Faction, NEW active \in SUBSET Route,
         NEW date \in Nat
  PROVE  Follows(rows, Resync(rows, date, registry, active), date)
<1>1. Follows(rows, SyncFactions(rows, registry, date), date)
  BY SyncFactionsFollows
<1>2. Follows(SyncFactions(rows, registry, date), Resync(rows, date, registry, active), date)
  BY <1>1, SyncRoutesFollows DEF Follows, Resync
<1>3. QED
  BY <1>1, <1>2, FollowsChain

-----------------------------------------------------------------------------
(* The next frontier *)

\* A class's interval is a positive even number.
LEMMA IntervalsAreEven ==
  ASSUME NEW c \in Class
  PROVE  Interval[c] \in Nat /\ Interval[c] > 0 /\ Interval[c] % 2 = 0
  BY FrontierAssumption

\* A second that obligations of the half second before it belong to.
LEMMA FrontierTimes ==
  ASSUME NEW t \in Int
  PROVE  /\ FrontierTime(t) \in Int /\ FrontierTime(t) % 2 = 0 /\ FrontierTime(t) >= t
         /\ t % 2 = 0 => FrontierTime(t) = t
  BY DEF FrontierTime

\* The schedule every time command starts from.
LEMMA PreparedFollows ==
  ASSUME TypeInv, NothingLeftBehind
  PROVE  /\ Follows(recurring, Prepared, now) /\ Schedule(Prepared)
         /\ \A c \in DOMAIN Prepared :
              Prepared[c].due \in Nat /\ FrontierTime(Prepared[c].due) >= now
<1>1. Follows(recurring, Prepared, now)
  BY SyncFactionsFollows DEF TypeInv, Prepared
<1>2. Schedule(Prepared)
  BY <1>1 DEF Follows
<1>3. ASSUME NEW c \in DOMAIN Prepared
      PROVE  Prepared[c].due \in Nat /\ FrontierTime(Prepared[c].due) >= now
  <2>1. Prepared[c].due \in Nat /\ c \in Class /\ now \in Nat
    BY <1>2 DEF Schedule, Serviceable, Rows, TypeInv
  <2>2. CASE c \in DOMAIN recurring /\ Prepared[c].due = recurring[c].due
    <3>1. FrontierTime(recurring[c].due) >= now
      BY <2>2 DEF NothingLeftBehind
    <3>2. FrontierTime(Prepared[c].due) = FrontierTime(recurring[c].due)
      BY <2>2 DEF FrontierTime
    <3>3. QED
      BY <2>1, <3>1, <3>2
  <2>3. CASE Prepared[c].due = now + Interval[c]
    BY <2>1, <2>3, IntervalsAreEven, FrontierTimes
  <2>4. QED
    BY <1>1, <2>2, <2>3 DEF Follows
<1>4. QED
  BY <1>1, <1>2, <1>3

\* Nothing that is due lies before the next frontier.
LEMMA NextFrontier ==
  ASSUME TypeInv, NothingLeftBehind, NEW f \in Frontiers
  PROVE  /\ f.at \in Nat /\ now <= f.at /\ f.at <= Horizon /\ f.at % 2 = 0
         /\ \A c \in DOMAIN Prepared : FrontierTime(Prepared[c].due) >= f.at
         /\ \A e \in oneOff : FrontierTime(e.due) >= f.at
         /\ f.work \in Class =>
              f.work \in DOMAIN Prepared /\ FrontierTime(Prepared[f.work].due) = f.at
<1>1. f \in DueWork(Prepared, Horizon) /\ \A y \in DueWork(Prepared, Horizon) : f.at <= y.at
  <2>1. f \in DueWork(Prepared, Horizon) /\ \A y \in DueWork(Prepared, Horizon) : Earlier(f, y)
    BY DEF Frontiers
  <2>2. ASSUME NEW y \in DueWork(Prepared, Horizon) PROVE y.at \in Int
    <3>1. \/ \E c \in DOMAIN Prepared : y.at = FrontierTime(Prepared[c].due)
          \/ \E e \in oneOff : y.at = FrontierTime(e.due)
          \/ y.at \in Calendar
      BY DEF DueWork
    <3>2. Calendar \subseteq Int /\ \A e \in oneOff : e.due \in Int
      BY FrontierAssumption DEF TypeInv, Events
    <3>3. \A c \in DOMAIN Prepared : Prepared[c].due \in Int
      BY PreparedFollows
    <3>4. QED
      BY <3>1, <3>2, <3>3, FrontierTimes
  <2>3. QED
    BY <2>1, <2>2 DEF Earlier
<1>2. now \in Nat /\ Horizon \in Nat /\ \A t \in Calendar : t \in Nat /\ t % 2 = 0
  BY FrontierAssumption DEF TypeInv
<1>3. \A e \in oneOff : e.due \in Int
  BY DEF TypeInv, Events
<1>4. \/ \E c \in DOMAIN Prepared : /\ f = [at |-> FrontierTime(Prepared[c].due), work |-> c]
                                    /\ DueWithin(now, FrontierTime(Prepared[c].due), Horizon)
      \/ \E e \in oneOff : /\ f = [at |-> FrontierTime(e.due), work |-> WorkOf(e)]
                           /\ DueWithin(now, FrontierTime(e.due), Horizon)
      \/ \E t \in Calendar : f = [at |-> t, work |-> "calendar"] /\ now < t /\ t <= Horizon
  BY <1>1 DEF DueWork
<1>5. f.at \in Nat /\ now <= f.at /\ f.at <= Horizon /\ f.at % 2 = 0
  <2>1. CASE \E c \in DOMAIN Prepared : /\ f.at = FrontierTime(Prepared[c].due)
                                        /\ DueWithin(now, FrontierTime(Prepared[c].due), Horizon)
    BY <1>2, <2>1, PreparedFollows, FrontierTimes DEF DueWithin
  <2>2. CASE \E e \in oneOff : /\ f.at = FrontierTime(e.due)
                               /\ DueWithin(now, FrontierTime(e.due), Horizon)
    BY <1>2, <1>3, <2>2, FrontierTimes DEF DueWithin
  <2>3. CASE \E t \in Calendar : f.at = t /\ now < t /\ t <= Horizon
    BY <1>2, <2>3
  <2>4. QED
    BY <1>4, <2>1, <2>2, <2>3
<1>6. ASSUME NEW c \in DOMAIN Prepared PROVE FrontierTime(Prepared[c].due) >= f.at
  <2>1. FrontierTime(Prepared[c].due) \in Int /\ FrontierTime(Prepared[c].due) >= now
    BY PreparedFollows, FrontierTimes
  <2>2. CASE FrontierTime(Prepared[c].due) <= Horizon
    <3>1. [at |-> FrontierTime(Prepared[c].due), work |-> c] \in DueWork(Prepared, Horizon)
      BY <1>2, <2>1, <2>2 DEF DueWork, DueWithin
    <3>2. QED
      BY <1>1, <1>5, <2>1, <3>1
  <2>3. QED
    BY <1>2, <1>5, <2>1, <2>2
<1>7. ASSUME NEW e \in oneOff PROVE FrontierTime(e.due) >= f.at
  <2>1. FrontierTime(e.due) \in Int /\ FrontierTime(e.due) >= now
    BY <1>3, FrontierTimes DEF NothingLeftBehind
  <2>2. CASE FrontierTime(e.due) <= Horizon
    <3>1. [at |-> FrontierTime(e.due), work |-> WorkOf(e)] \in DueWork(Prepared, Horizon)
      BY <1>2, <2>1, <2>2 DEF DueWork, DueWithin
    <3>2. QED
      BY <1>1, <1>5, <2>1, <3>1
  <2>3. QED
    BY <1>2, <1>5, <2>1, <2>2
<1>8. f.work \in Class =>
        f.work \in DOMAIN Prepared /\ FrontierTime(Prepared[f.work].due) = f.at
  BY <1>4 DEF WorkOf, Class
<1>9. QED
  BY <1>5, <1>6, <1>7, <1>8

-----------------------------------------------------------------------------
(* Wakes *)

\* A new event is never due before the date that makes it.
LEMMA NewWakes ==
  ASSUME NEW date \in Nat, date % 2 = 0
  PROVE  NewEvents(date) \subseteq Events /\ \A e \in NewEvents(date) : FrontierTime(e.due) >= date
<1> SUFFICES ASSUME NEW e \in NewEvents(date) PROVE e \in Events /\ FrontierTime(e.due) >= date
  OBVIOUS
<1>1. CASE \E j \in unused \cap Judgment : e = [id |-> j, kind |-> "judgment_due", due |-> date]
  <2>1. PICK j \in unused \cap Judgment : e = [id |-> j, kind |-> "judgment_due", due |-> date]
    BY <1>1
  <2>2. e \in Events /\ e.due = date
    BY <2>1 DEF Events, Kind
  <2>3. QED
    BY <2>2, FrontierTimes
<1>2. CASE /\ e \in [id : unused \cap Wake, kind : Kind, due : date - 1 .. Horizon]
           /\ FrontierTime(e.due) >= date
  BY <1>2, FrontierAssumption DEF Events
<1>3. QED
  BY <1>1, <1>2 DEF NewEvents

\* What is staged is of what may be staged.
LEMMA StagedAreNew ==
  ASSUME NEW S, NEW staged \in AtMostOne(S)
  PROVE  staged \subseteq S
  BY DEF AtMostOne

\* A batch stages only events that are new at its date.
LEMMA StagingIsNew ==
  ASSUME NEW date, NEW batch, NEW staging \in Progression(date, batch)
  PROVE  staging[1] \subseteq NewEvents(date) /\ staging[2] \subseteq NewEvents(date)
<1>1. /\ staging[1] \in AtMostOne({e \in NewEvents(date) : e.kind \in {"judgment_due", "review"}})
      /\ staging[2] \in AtMostOne({e \in NewEvents(date) : e.kind = "other"})
  BY DEF Progression
<1>2. QED
  BY <1>1, StagedAreNew

-----------------------------------------------------------------------------
(* One step *)

\* The turns of a date that is half way through rows[c] are those before its
\* cursor.
Counted(rows, rounds) ==
  \A c \in DOMAIN rows : rows[c].cursor > 0 =>
    /\ rounds[c].owners = rows[c].owners
    /\ \A o \in Owner :
         rounds[c].turns[o] =
           IF o \in rows[c].owners /\ Rank(rows[c].owners, o) <= rows[c].cursor THEN 1 ELSE 0

OncePerDate(rounds) ==
  \A c \in Class, o \in Owner :
    /\ rounds[c].turns[o] <= 1
    /\ rounds[c].over /\ o \in rounds[c].owners => rounds[c].turns[o] = 1

Rounds == [Class -> [owners : SUBSET Owner, turns : [Owner -> Nat], over : BOOLEAN]]

\* The clock moves to a moment that nothing lies before, and the schedule is
\* brought in step with it.
LEMMA ClockMoves ==
  ASSUME NEW date \in Nat, date <= Horizon, date % 2 = 0, now' = date,
         NEW rows, Schedule(rows), \A c \in DOMAIN rows : FrontierTime(rows[c].due) >= date,
         Follows(rows, recurring', date),
         oneOff' \subseteq Events, \A e \in oneOff' : FrontierTime(e.due) >= date,
         factions' \subseteq Faction, routes' \subseteq Route, unused' \subseteq Wake \cup Judgment,
         round' \in Rounds, Counted(rows, round'), OncePerDate(round')
  PROVE  CausalInv'
<1>1. TypeInv'
  BY DEF TypeInv, Follows, Rounds, Schedule, Serviceable
<1>2. ASSUME NEW c \in DOMAIN recurring' PROVE FrontierTime(recurring'[c].due) >= date
  <2>1. c \in Class /\ Interval[c] \in Nat
    BY IntervalsAreEven DEF Follows, Schedule
  <2>2. CASE c \in DOMAIN rows /\ recurring'[c].due = rows[c].due
    BY <2>2
  <2>3. CASE recurring'[c].due = date + Interval[c]
    BY <2>1, <2>3, FrontierTimes
  <2>4. QED
    BY <2>2, <2>3 DEF Follows
<1>3. NothingLeftBehind'
  BY <1>2 DEF NothingLeftBehind, FrontierTime
<1>4. RoundInv'
  <2>1. ASSUME NEW c \in DOMAIN recurring', recurring'[c].cursor > 0
        PROVE  c \in DOMAIN rows /\ recurring'[c] = rows[c]
    BY <2>1 DEF Follows
  <2>2. QED
    BY <2>1 DEF RoundInv, HalfWay, Counted, Rank
<1>5. EveryOwnerOncePerDate'
  BY DEF EveryOwnerOncePerDate, OncePerDate
<1>6. QED
  BY <1>1, <1>3, <1>4, <1>5 DEF CausalInv

\* At the start of a batch, what has been settled is counted, once per date.
LEMMA PreparedCounted ==
  ASSUME CausalInv
  PROVE  Counted(Prepared, round) /\ OncePerDate(round) /\ round \in Rounds
<1>1. ASSUME NEW c \in DOMAIN Prepared, Prepared[c].cursor > 0
      PROVE  c \in DOMAIN recurring /\ Prepared[c] = recurring[c]
  BY <1>1, PreparedFollows DEF CausalInv, Follows
<1>2. QED
  BY <1>1 DEF CausalInv, Counted, RoundInv, HalfWay, OncePerDate, EveryOwnerOncePerDate, TypeInv,
    Rounds

\* Between batches, what has been settled is counted, once per date.
LEMMA RecurringCounted ==
  ASSUME CausalInv
  PROVE  Counted(recurring, round) /\ OncePerDate(round) /\ round \in Rounds
  BY DEF CausalInv, Counted, RoundInv, HalfWay, OncePerDate, EveryOwnerOncePerDate, TypeInv, Rounds

\* What a frontier through the shared bridge leaves.
LEMMA BridgeLeaves ==
  ASSUME TypeInv, NEW rows, Schedule(rows), NEW date \in Nat, date % 2 = 0, NEW batch,
         NEW judged \in SUBSET NewEvents(date), NEW offers \in SUBSET NewEvents(date),
         Bridge(rows, date, batch, judged, offers)
  PROVE  /\ now' = date /\ Follows(rows, recurring', date)
         /\ factions' \subseteq Faction /\ routes' \subseteq Route
         /\ oneOff' \subseteq oneOff \cup NewEvents(date) /\ unused' \subseteq Wake \cup Judgment
<1>1. factions' \in SUBSET Faction /\ routes' \in SUBSET Route
  BY DEF Bridge, WorldMayChange, ChangeFactions, ChangeRoutes, Toggle, TypeInv
<1>2. recurring' = Resync(rows, date, factions', routes')
  BY DEF Bridge
<1>3. Follows(rows, recurring', date)
  BY <1>1, <1>2, ResyncFollows
<1>4. PICK staged \in AtMostOne(NewEvents(date)), withdrawn \in AtMostOne(Withdrawable) :
       /\ oneOff' = ((oneOff \ batch) \ withdrawn) \cup staged
                       \cup IF offers = {} THEN judged ELSE offers
       /\ unused' = unused \ Ids(staged \cup judged \cup offers)
  BY DEF Bridge
<1>5. staged \subseteq NewEvents(date)
  BY StagedAreNew
<1>6. QED
  BY <1>1, <1>3, <1>4, <1>5 DEF Bridge, TypeInv

\* What the bypass leaves: a schedule that follows the one it found, and only new events.
LEMMA BypassLeaves ==
  ASSUME TypeInv, Schedule(Prepared), NEW date \in Nat, date % 2 = 0, NEW batch, Bypass(batch, date)
  PROVE  /\ now' = date /\ Follows(Prepared, recurring', date)
         /\ factions' \subseteq Faction /\ routes' \subseteq Route
         /\ oneOff' \subseteq oneOff \cup NewEvents(date) /\ unused' \subseteq Wake \cup Judgment
<1>1. factions' \in SUBSET Faction /\ routes' \in SUBSET Route
  BY DEF Bypass, Depart, TypeInv
<1>2. Follows(Prepared, recurring', date)
  <2>1. CASE recurring' = Prepared
    BY <2>1 DEF Follows
  <2>2. CASE recurring' = SyncRoutes(Prepared, routes', date)
    BY <1>1, <2>2, SyncRoutesFollows
  <2>3. QED
    BY <2>1, <2>2 DEF Bypass, Depart
<1>3. PICK staged \in AtMostOne(NewEvents(date)), staging \in Progression(date, batch) :
       /\ oneOff' = (oneOff \ batch) \cup staged
                       \cup IF staging[2] = {} THEN staging[1] ELSE staging[2]
       /\ unused' = unused \ Ids(staged \cup staging[1] \cup staging[2])
  BY DEF Bypass
<1>4. staged \subseteq NewEvents(date) /\ staging[1] \subseteq NewEvents(date)
      /\ staging[2] \subseteq NewEvents(date)
  BY StagedAreNew, StagingIsNew
<1>5. QED
  BY <1>1, <1>2, <1>3, <1>4 DEF Bypass, TypeInv

\* A frontier that settles wakes or the calendar leaves the rows to the resync.
LEMMA QuietFrontier ==
  ASSUME CausalInv, NEW f \in Frontiers, round' = round,
         now' = f.at, Follows(Prepared, recurring', f.at),
         factions' \subseteq Faction, routes' \subseteq Route,
         oneOff' \subseteq oneOff \cup NewEvents(f.at), unused' \subseteq Wake \cup Judgment
  PROVE  CausalInv'
<1>1. TypeInv /\ NothingLeftBehind
  BY DEF CausalInv
<1>2. /\ f.at \in Nat /\ f.at <= Horizon /\ f.at % 2 = 0
      /\ \A c \in DOMAIN Prepared : FrontierTime(Prepared[c].due) >= f.at
      /\ \A e \in oneOff : FrontierTime(e.due) >= f.at
  BY <1>1, NextFrontier
<1>3. NewEvents(f.at) \subseteq Events /\ \A e \in NewEvents(f.at) : FrontierTime(e.due) >= f.at
  BY <1>2, NewWakes
<1>4. Schedule(Prepared) /\ Counted(Prepared, round') /\ OncePerDate(round') /\ round' \in Rounds
  BY <1>1, PreparedFollows, PreparedCounted
<1>5. oneOff' \subseteq Events /\ \A e \in oneOff' : FrontierTime(e.due) >= f.at
  BY <1>1, <1>2, <1>3 DEF TypeInv
<1>6. QED
  BY <1>2, <1>4, <1>5, ClockMoves

\* A chunk gives one turn to each of its owners: after it, those up to the new
\* cursor had theirs, and a date that is over has served everybody.
LEMMA ChunkTurns ==
  ASSUME CausalInv, NEW c \in DOMAIN Prepared, NEW date \in Nat
  PROVE  LET row == Prepared[c]
             n == Cardinality(row.owners)
             m == IF row.cursor + ChunkSize[c] <= n THEN row.cursor + ChunkSize[c] ELSE n
             turn == Turns(c, row, date)
         IN  /\ turn \in [owners : SUBSET Owner, turns : [Owner -> Nat], over : BOOLEAN]
             /\ turn.owners = row.owners
             /\ turn.over = (AdvanceRow(c, row, date).cursor = 0)
             /\ \A o \in Owner : turn.turns[o] = IF o \in Low(row.owners, m) THEN 1 ELSE 0
<1> DEFINE row == Prepared[c]
           n == Cardinality(row.owners)
           m == IF row.cursor + ChunkSize[c] <= n THEN row.cursor + ChunkSize[c] ELSE n
           turn == Turns(c, row, date)
           earlier == IF row.cursor = 0 THEN NoTurns ELSE round[c].turns
<1>1. Serviceable(row) /\ c \in Class /\ row.owners \in SUBSET Owner
  BY PreparedFollows DEF CausalInv, Schedule, Serviceable, Rows
<1>2. /\ n \in Nat /\ row.cursor \in Nat /\ row.cursor < m /\ m <= n /\ m \in Nat
      /\ Chunk(c, row) = Low(row.owners, m) \ Low(row.owners, row.cursor)
  BY <1>1, ChunkCounts
<1>3. \A o \in row.owners : Rank(row.owners, o) \in 1 .. n
  BY <1>1, RankOrder
<1>4. \A o \in Owner : earlier[o] = IF o \in Low(row.owners, row.cursor) THEN 1 ELSE 0
  <2>1. CASE row.cursor = 0
    <3>1. \A o \in row.owners : ~(Rank(row.owners, o) <= row.cursor)
      BY <1>2, <1>3, <2>1
    <3>2. Low(row.owners, row.cursor) = {}
      BY <3>1 DEF Low
    <3>3. QED
      BY <2>1, <3>2 DEF NoTurns
  <2>2. CASE row.cursor # 0
    <3>1. Counted(Prepared, round) /\ row.cursor > 0
      BY <1>2, <2>2, PreparedCounted
    <3>2. \A o \in Owner :
            round[c].turns[o] =
              IF o \in row.owners /\ Rank(row.owners, o) <= row.cursor THEN 1 ELSE 0
      BY <3>1 DEF Counted
    <3>3. QED
      BY <2>2, <3>2 DEF Low
  <2>3. QED
    BY <2>1, <2>2
<1>5. \A o \in Low(row.owners, row.cursor) : o \in Low(row.owners, m)
  <2>1. \A o \in row.owners : Rank(row.owners, o) <= row.cursor => Rank(row.owners, o) <= m
    BY <1>2, <1>3
  <2> HIDE DEF m, row
  <2>2. QED
    BY <2>1 DEF Low
<1>6. turn = [owners |-> row.owners,
              turns |-> [o \in Owner |-> earlier[o] + IF o \in Chunk(c, row) THEN 1 ELSE 0],
              over |-> AdvanceRow(c, row, date).cursor = 0]
  BY DEF Turns
<1> HIDE DEF earlier, row, m, turn
<1>7. \A o \in Owner : earlier[o] + (IF o \in Chunk(c, row) THEN 1 ELSE 0)
                         = IF o \in Low(row.owners, m) THEN 1 ELSE 0
  BY <1>2, <1>4, <1>5
<1>8. \A o \in Owner : turn.turns[o] = IF o \in Low(row.owners, m) THEN 1 ELSE 0
  BY <1>6, <1>7
<1>9. turn \in [owners : SUBSET Owner, turns : [Owner -> Nat], over : BOOLEAN]
  <2>1. [o \in Owner |-> earlier[o] + IF o \in Chunk(c, row) THEN 1 ELSE 0] \in [Owner -> Nat]
    BY <1>7
  <2>2. (AdvanceRow(c, row, date).cursor = 0) \in BOOLEAN
    OBVIOUS
  <2>3. QED
    BY <1>1, <1>6, <2>1, <2>2
<1>10. turn.owners = row.owners /\ turn.over = (AdvanceRow(c, row, date).cursor = 0)
  BY <1>6
<1>11. QED
  BY <1>8, <1>9, <1>10 DEF row, m, turn

\* The row goes on after its chunk, or waits for the next date.
LEMMA RowAdvances ==
  ASSUME NEW c \in Class, NEW row, Serviceable(row), NEW date \in Nat
  PROVE  LET n == Cardinality(row.owners)
             m == IF row.cursor + ChunkSize[c] <= n THEN row.cursor + ChunkSize[c] ELSE n
             new == AdvanceRow(c, row, date)
         IN  /\ Serviceable(new) /\ new.owners = row.owners
             /\ \/ m = n /\ new.cursor = 0 /\ new.due = date + Interval[c]
                \/ m < n /\ new.cursor = m /\ m > 0 /\ new.due = row.due
<1> DEFINE n == Cardinality(row.owners)
           m == IF row.cursor + ChunkSize[c] <= n THEN row.cursor + ChunkSize[c] ELSE n
           new == AdvanceRow(c, row, date)
<1>1. /\ n \in Nat /\ row.cursor \in Nat /\ row.cursor < m /\ m <= n /\ m \in Nat
      /\ Cardinality(Chunk(c, row)) = m - row.cursor
  BY ChunkCounts
<1>2. row \in Rows /\ IsFiniteSet(row.owners) /\ row.owners # {}
  BY DEF Serviceable
<1>3. row.cursor + Cardinality(Chunk(c, row)) = m
  BY <1>1
<1>4. new = IF m >= n THEN [row EXCEPT !.due = date + Interval[c], !.cursor = 0]
                      ELSE [row EXCEPT !.cursor = m]
  BY <1>3 DEF AdvanceRow
<1>5. CASE m = n
  <2>1. new = [row EXCEPT !.due = date + Interval[c], !.cursor = 0] /\ date + Interval[c] \in Nat
    BY <1>1, <1>4, <1>5, IntervalsAreEven
  <2> HIDE DEF new, m
  <2>2. /\ new.owners = row.owners /\ new.cursor = 0 /\ new.due = date + Interval[c]
        /\ new \in Rows
    BY <1>2, <2>1 DEF Rows
  <2>3. Serviceable(new)
    BY <1>1, <1>2, <1>5, <2>2 DEF Serviceable
  <2>4. QED
    BY <1>5, <2>2, <2>3 DEF new, m
<1>6. CASE m < n
  <2>1. new = [row EXCEPT !.cursor = m]
    BY <1>1, <1>4, <1>6
  <2> HIDE DEF new, m
  <2>2. /\ new.owners = row.owners /\ new.cursor = m /\ new.due = row.due
        /\ new \in Rows
    BY <1>1, <1>2, <2>1 DEF Rows
  <2>3. Serviceable(new) /\ m > 0
    BY <1>1, <1>2, <1>6, <2>2 DEF Serviceable
  <2>4. QED
    BY <1>6, <2>2, <2>3 DEF new, m
<1>7. m = n \/ m < n
  BY <1>1
<1>8. QED
  BY <1>5, <1>6, <1>7

\* Settling one chunk of a class keeps the frontier's invariant.
LEMMA SettleChunkKeeps ==
  ASSUME CausalInv, NEW c \in Class, SettleChunk(c)
  PROVE  CausalInv'
<1>1. PICK f \in FrontiersOf({c}) :
        /\ Bridge([Prepared EXCEPT ![c] = AdvanceRow(c, Prepared[c], f.at)], f.at, {}, {}, {})
        /\ round' = [round EXCEPT ![c] = Turns(c, Prepared[c], f.at)]
  BY DEF SettleChunk
<1> DEFINE row == Prepared[c]
           n == Cardinality(row.owners)
           m == IF row.cursor + ChunkSize[c] <= n THEN row.cursor + ChunkSize[c] ELSE n
           next == AdvanceRow(c, row, f.at)
           turn == Turns(c, row, f.at)
           rows == [Prepared EXCEPT ![c] = next]
<1>2. TypeInv /\ NothingLeftBehind
  BY DEF CausalInv
<1>3. f \in Frontiers /\ f.work = c
  BY DEF FrontiersOf
<1>4. /\ f.at \in Nat /\ f.at <= Horizon /\ f.at % 2 = 0
      /\ \A d \in DOMAIN Prepared : FrontierTime(Prepared[d].due) >= f.at
      /\ \A e \in oneOff : FrontierTime(e.due) >= f.at
      /\ c \in DOMAIN Prepared
  BY <1>2, <1>3, NextFrontier
<1>5. Schedule(Prepared) /\ Serviceable(row)
  BY <1>2, <1>4, PreparedFollows DEF Schedule
<1>6. /\ n \in Nat /\ m \in Nat /\ row.owners \in SUBSET Owner
      /\ Serviceable(next) /\ next.owners = row.owners
      /\ \/ m = n /\ next.cursor = 0 /\ next.due = f.at + Interval[c]
         \/ m < n /\ next.cursor = m /\ m > 0 /\ next.due = row.due
  BY <1>4, <1>5, RowAdvances, ChunkCounts DEF Serviceable, Rows
<1>7. /\ turn \in [owners : SUBSET Owner, turns : [Owner -> Nat], over : BOOLEAN]
      /\ turn.owners = row.owners /\ turn.over = (next.cursor = 0)
      /\ \A o \in Owner : turn.turns[o] = IF o \in Low(row.owners, m) THEN 1 ELSE 0
  BY <1>4, ChunkTurns
<1>8. m = n => \A o \in row.owners : o \in Low(row.owners, m)
  <2>1. \A o \in row.owners : Rank(row.owners, o) <= n
    BY <1>6, RankOrder
  <2>2. QED
    BY <2>1 DEF Low
<1>9. FrontierTime(next.due) >= f.at
  <2>1. CASE next.due = row.due
    BY <1>4, <2>1
  <2>2. CASE next.due = f.at + Interval[c]
    BY <1>4, <2>2, IntervalsAreEven, FrontierTimes
  <2>3. QED
    BY <1>6, <2>1, <2>2
<1> HIDE DEF next, turn, m, row
<1>10. /\ DOMAIN rows = DOMAIN Prepared /\ rows[c] = next
       /\ \A d \in DOMAIN Prepared \ {c} : rows[d] = Prepared[d]
  BY <1>4
<1>11. /\ round' \in Rounds /\ round'[c] = turn
       /\ \A d \in Class \ {c} : round'[d] = round[d]
  <2>1. round \in Rounds
    BY PreparedCounted
  <2>2. round' = [round EXCEPT ![c] = turn]
    BY <1>1 DEF turn, row
  <2>3. QED
    BY <1>7, <2>1, <2>2 DEF Rounds
<1>12. Bridge(rows, f.at, {}, {}, {})
  BY <1>1 DEF next, row
<1> HIDE DEF rows
<1>13. Schedule(rows) /\ \A d \in DOMAIN rows : FrontierTime(rows[d].due) >= f.at
  BY <1>4, <1>5, <1>6, <1>9, <1>10 DEF Schedule
<1>14. Counted(rows, round')
  <2>1. Counted(Prepared, round) /\ DOMAIN Prepared \subseteq Class
    BY <1>5, PreparedCounted DEF Schedule
  <2>2. ASSUME NEW d \in DOMAIN rows, rows[d].cursor > 0, d # c
        PROVE  /\ round'[d].owners = rows[d].owners
               /\ \A o \in Owner :
                    round'[d].turns[o] =
                      IF o \in rows[d].owners /\ Rank(rows[d].owners, o) <= rows[d].cursor
                      THEN 1 ELSE 0
    <3>1. round'[d] = round[d] /\ rows[d] = Prepared[d] /\ d \in DOMAIN Prepared
      BY <1>10, <1>11, <2>1, <2>2
    <3>2. QED
      BY <2>1, <2>2, <3>1 DEF Counted
  <2>3. ASSUME next.cursor > 0
        PROVE  /\ turn.owners = next.owners
               /\ \A o \in Owner :
                    turn.turns[o] =
                      IF o \in next.owners /\ Rank(next.owners, o) <= next.cursor
                      THEN 1 ELSE 0
    <3>1. next.cursor = m
      BY <1>6, <2>3
    <3>2. QED
      BY <1>6, <1>7, <3>1 DEF Low
  <2>4. QED
    BY <1>10, <1>11, <2>2, <2>3 DEF Counted
<1>15. OncePerDate(round')
  <2>1. OncePerDate(round)
    BY PreparedCounted
  <2>2. \A o \in Owner :
          turn.turns[o] <= 1 /\ (turn.over /\ o \in turn.owners => turn.turns[o] = 1)
    <3>1. \A o \in Owner : turn.turns[o] <= 1
      BY <1>7
    <3>2. turn.over => m = n
      BY <1>6, <1>7
    <3>3. QED
      BY <1>7, <1>8, <3>1, <3>2
  <2>3. QED
    BY <1>11, <2>1, <2>2 DEF OncePerDate
<1>16. /\ now' = f.at /\ Follows(rows, recurring', f.at)
       /\ factions' \subseteq Faction /\ routes' \subseteq Route
       /\ oneOff' \subseteq oneOff \cup NewEvents(f.at) /\ unused' \subseteq Wake \cup Judgment
  <2>1. {} \in SUBSET NewEvents(f.at)
    OBVIOUS
  <2>2. QED
    BY <1>2, <1>4, <1>12, <1>13, <2>1, BridgeLeaves
<1>17. NewEvents(f.at) \subseteq Events /\ \A e \in NewEvents(f.at) : FrontierTime(e.due) >= f.at
  BY <1>4, NewWakes
<1>18. oneOff' \subseteq Events /\ \A e \in oneOff' : FrontierTime(e.due) >= f.at
  BY <1>2, <1>4, <1>16, <1>17 DEF TypeInv
<1>19. QED
  BY <1>4, <1>11, <1>13, <1>14, <1>15, <1>16, <1>18, ClockMoves

\* Settling the physiology batch keeps the frontier's invariant.
LEMMA SettlePhysiologyKeeps ==
  ASSUME CausalInv, SettlePhysiology
  PROVE  CausalInv'
<1>1. PICK f \in Frontiers : Bridge(Prepared, f.at, Batch(f), {}, {})
  BY DEF SettlePhysiology, FrontiersOf
<1>2. TypeInv /\ NothingLeftBehind /\ Schedule(Prepared)
  BY PreparedFollows DEF CausalInv
<1>3. f.at \in Nat /\ f.at % 2 = 0 /\ {} \in SUBSET NewEvents(f.at)
  BY <1>2, NextFrontier
<1>4. /\ now' = f.at /\ Follows(Prepared, recurring', f.at)
      /\ factions' \subseteq Faction /\ routes' \subseteq Route
      /\ oneOff' \subseteq oneOff \cup NewEvents(f.at) /\ unused' \subseteq Wake \cup Judgment
  BY <1>1, <1>2, <1>3, BridgeLeaves
<1>5. QED
  BY <1>4, QuietFrontier DEF SettlePhysiology

\* Settling a one-off event keeps the frontier's invariant.
LEMMA SettleOneOffKeeps ==
  ASSUME CausalInv, SettleOneOff
  PROVE  CausalInv'
<1>0. PICK f \in Frontiers :
        \E staging \in Progression(f.at, Batch(f)) :
          Bridge(Prepared, f.at, Batch(f), staging[1], staging[2])
  BY DEF SettleOneOff, FrontiersOf
<1>1. PICK staging \in Progression(f.at, Batch(f)) :
        Bridge(Prepared, f.at, Batch(f), staging[1], staging[2])
  BY <1>0
<1>2. TypeInv /\ NothingLeftBehind /\ Schedule(Prepared)
  BY PreparedFollows DEF CausalInv
<1>3. f.at \in Nat /\ f.at % 2 = 0
  BY <1>2, NextFrontier
<1>4. staging[1] \in SUBSET NewEvents(f.at) /\ staging[2] \in SUBSET NewEvents(f.at)
  BY StagingIsNew
<1>5. /\ now' = f.at /\ Follows(Prepared, recurring', f.at)
      /\ factions' \subseteq Faction /\ routes' \subseteq Route
      /\ oneOff' \subseteq oneOff \cup NewEvents(f.at) /\ unused' \subseteq Wake \cup Judgment
  BY <1>1, <1>2, <1>3, <1>4, BridgeLeaves
<1>6. QED
  BY <1>5, QuietFrontier DEF SettleOneOff

\* Settling the events taken out of the agenda keeps the frontier's invariant.
LEMMA SettleExtractedKeeps ==
  ASSUME CausalInv, SettleExtracted
  PROVE  CausalInv'
<1>1. PICK f \in Frontiers : Bypass(Batch(f), f.at)
  BY DEF SettleExtracted, FrontiersOf
<1>2. TypeInv /\ NothingLeftBehind /\ Schedule(Prepared)
  BY PreparedFollows DEF CausalInv
<1>3. f.at \in Nat /\ f.at % 2 = 0
  BY <1>2, NextFrontier
<1>4. /\ now' = f.at /\ Follows(Prepared, recurring', f.at)
      /\ factions' \subseteq Faction /\ routes' \subseteq Route
      /\ oneOff' \subseteq oneOff \cup NewEvents(f.at) /\ unused' \subseteq Wake \cup Judgment
  BY <1>1, <1>2, <1>3, BypassLeaves
<1>5. QED
  BY <1>4, QuietFrontier DEF SettleExtracted

\* Settling the calendar keeps the frontier's invariant.
LEMMA SettleCalendarKeeps ==
  ASSUME CausalInv, SettleCalendar
  PROVE  CausalInv'
<1>1. PICK f \in Frontiers : Bridge(Prepared, f.at, {}, {}, {}) \/ Bypass({}, f.at)
  BY DEF SettleCalendar, FrontiersOf
<1>2. TypeInv /\ NothingLeftBehind /\ Schedule(Prepared)
  BY PreparedFollows DEF CausalInv
<1>3. f.at \in Nat /\ f.at % 2 = 0 /\ {} \in SUBSET NewEvents(f.at)
  BY <1>2, NextFrontier
<1>4. /\ now' = f.at /\ Follows(Prepared, recurring', f.at)
      /\ factions' \subseteq Faction /\ routes' \subseteq Route
      /\ oneOff' \subseteq oneOff \cup NewEvents(f.at) /\ unused' \subseteq Wake \cup Judgment
  <2>1. CASE Bridge(Prepared, f.at, {}, {}, {})
    BY <1>2, <1>3, <2>1, BridgeLeaves
  <2>2. CASE Bypass({}, f.at)
    BY <1>2, <1>3, <2>2, BypassLeaves
  <2>3. QED
    BY <1>1, <2>1, <2>2
<1>5. QED
  BY <1>4, QuietFrontier DEF SettleCalendar

\* With every class able to take its chunk, the clock passes only over time in
\* which nothing is due.
LEMMA PassTimeKeeps ==
  ASSUME CausalInv, PassTime
  PROVE  CausalInv'
<1>1. PICK target \in {t \in now + 1 .. Horizon : t % 2 = 0} :
        /\ \A x \in DueWork(Prepared, target) :
             x \in Frontiers /\ x.work \in Class /\ Chunk(x.work, Prepared[x.work]) = {}
        /\ now' = target /\ recurring' = Prepared
        /\ UNCHANGED <<oneOff, factions, routes, unused, changes, fired, round>>
  BY DEF PassTime
<1>2. TypeInv /\ NothingLeftBehind
  BY DEF CausalInv
<1>3. /\ target \in Nat /\ target <= Horizon /\ target % 2 = 0 /\ now \in Nat /\ now <= target
  BY <1>2, FrontierAssumption DEF TypeInv
<1>4. DueWork(Prepared, target) = {}
  <2> SUFFICES ASSUME NEW x \in DueWork(Prepared, target) PROVE FALSE
    OBVIOUS
  <2>1. x \in Frontiers /\ x.work \in Class /\ Chunk(x.work, Prepared[x.work]) = {}
    BY <1>1
  <2>2. x.work \in DOMAIN Prepared /\ Schedule(Prepared)
    BY <1>2, <2>1, NextFrontier, PreparedFollows
  <2>3. Serviceable(Prepared[x.work])
    BY <2>2 DEF Schedule
  <2>4. QED
    BY <2>1, <2>3, ChunkCounts
<1>5. ASSUME NEW c \in DOMAIN Prepared PROVE FrontierTime(Prepared[c].due) >= target
  <2>1. FrontierTime(Prepared[c].due) \in Int /\ FrontierTime(Prepared[c].due) >= now
    BY <1>2, PreparedFollows, FrontierTimes
  <2>2. ~DueWithin(now, FrontierTime(Prepared[c].due), target)
    BY <1>4 DEF DueWork
  <2>3. QED
    BY <1>3, <2>1, <2>2 DEF DueWithin
<1>6. ASSUME NEW e \in oneOff PROVE FrontierTime(e.due) >= target
  <2>1. FrontierTime(e.due) >= now /\ e.due \in Int
    BY <1>2 DEF NothingLeftBehind, TypeInv, Events
  <2>2. ~DueWithin(now, FrontierTime(e.due), target)
    BY <1>4 DEF DueWork
  <2>3. QED
    BY <1>3, <2>1, <2>2, FrontierTimes DEF DueWithin
<1>7. Schedule(Prepared) /\ Counted(Prepared, round) /\ OncePerDate(round) /\ round \in Rounds
  BY <1>2, PreparedFollows, PreparedCounted
<1>8. Follows(Prepared, recurring', target)
  BY <1>1, <1>7 DEF Follows
<1>9. oneOff' \subseteq Events /\ \A e \in oneOff' : FrontierTime(e.due) >= target
  BY <1>1, <1>2, <1>6 DEF TypeInv
<1>10. factions' \subseteq Faction /\ routes' \subseteq Route /\ unused' \subseteq Wake \cup Judgment
  BY <1>1, <1>2 DEF TypeInv
<1>11. round' \in Rounds /\ Counted(Prepared, round') /\ OncePerDate(round')
  BY <1>1, <1>7
<1>12. QED
  BY <1>1, <1>3, <1>5, <1>7, <1>8, <1>9, <1>10, <1>11, ClockMoves

\* A command at the present moment puts nothing before it.
LEMMA CommandKeeps ==
  ASSUME CausalInv, PlayerCommand
  PROVE  CausalInv'
<1>1. TypeInv /\ NothingLeftBehind
  BY DEF CausalInv
<1>2. now' = now /\ round' = round
  BY DEF PlayerCommand, FactionLifecycle, RouteOperation, UpsertOneOffEvent, WithdrawOneOffEvent,
    NpcJudgmentResolution
<1>3. now \in Nat /\ now <= Horizon /\ now % 2 = 0 /\ Schedule(recurring)
  BY <1>1 DEF TypeInv
<1>4. \A c \in DOMAIN recurring : FrontierTime(recurring[c].due) >= now
  BY <1>1 DEF NothingLeftBehind
<1>5. Counted(recurring, round') /\ OncePerDate(round') /\ round' \in Rounds
  BY <1>2, RecurringCounted
<1>6. /\ factions' \in SUBSET Faction /\ routes' \in SUBSET Route
      /\ unused' \subseteq Wake \cup Judgment
  BY <1>1 DEF TypeInv, PlayerCommand, FactionLifecycle, RouteOperation, UpsertOneOffEvent,
    WithdrawOneOffEvent, NpcJudgmentResolution, ChangeFactions, ChangeRoutes, Toggle
<1>7. Follows(recurring, recurring', now)
  <2>1. CASE recurring' = recurring
    BY <1>3, <2>1 DEF Follows
  <2>2. CASE recurring' = SyncFactions(recurring, factions', now)
    BY <1>3, <1>6, <2>2, SyncFactionsFollows
  <2>3. CASE recurring' = SyncRoutes(recurring, routes', now)
    BY <1>3, <1>6, <2>3, SyncRoutesFollows
  <2>4. QED
    BY <2>1, <2>2, <2>3 DEF PlayerCommand, FactionLifecycle, RouteOperation, UpsertOneOffEvent,
      WithdrawOneOffEvent, NpcJudgmentResolution
<1>8. oneOff' \subseteq Events /\ \A e \in oneOff' : FrontierTime(e.due) >= now
  <2>1. oneOff \subseteq Events /\ \A e \in oneOff : FrontierTime(e.due) >= now
    BY <1>1 DEF TypeInv, NothingLeftBehind
  <2>2. NewEvents(now) \subseteq Events /\ \A e \in NewEvents(now) : FrontierTime(e.due) >= now
    BY <1>3, NewWakes
  <2>3. CASE FactionLifecycle \/ WithdrawOneOffEvent
    BY <2>1, <2>3 DEF FactionLifecycle, WithdrawOneOffEvent
  <2>4. CASE UpsertOneOffEvent
    BY <2>1, <2>2, <2>4 DEF UpsertOneOffEvent
  <2>5. CASE RouteOperation
    <3>1. PICK segment \in AtMostOne({e \in NewEvents(now) : e.kind = "other"}) :
            oneOff' = oneOff \cup segment
      BY <2>5 DEF RouteOperation
    <3>2. segment \subseteq NewEvents(now)
      BY StagedAreNew
    <3>3. QED
      BY <2>1, <2>2, <3>1, <3>2
  <2>6. CASE NpcJudgmentResolution
    <3>1. PICK j \in oneOff : oneOff' = (oneOff \ {j}) \cup {Committed(j)}
      BY <2>6 DEF NpcJudgmentResolution
    <3>2. Committed(j) \in Events /\ Committed(j).due = j.due
      BY <2>1 DEF Committed, Events, Kind
    <3>3. FrontierTime(Committed(j).due) >= now
      BY <2>1, <3>2
    <3>4. QED
      BY <2>1, <3>1, <3>2, <3>3
  <2>7. QED
    BY <2>3, <2>4, <2>5, <2>6 DEF PlayerCommand
<1>9. QED
  BY <1>2, <1>3, <1>4, <1>5, <1>6, <1>7, <1>8, ClockMoves

-----------------------------------------------------------------------------
(* The theorems *)

\* The frontier begins with its invariant.
LEMMA InitiallyCausal ==
  ASSUME FrontierInit
  PROVE  CausalInv
<1>1. \A c \in Class : InitialOwners[c] \in SUBSET Owner
  BY DEF InitialOwners, Owner, Class
<1> DEFINE served == {k \in Class : InitialOwners[k] # {}}
<1>2. DOMAIN recurring = served /\ \A c \in served : recurring[c] = NewRow(c, InitialOwners[c], 0)
  BY DEF FrontierInit
<1>3. ASSUME NEW c \in served
      PROVE  Serviceable(recurring[c]) /\ recurring[c].cursor = 0
             /\ FrontierTime(recurring[c].due) >= 0
  <2>1. /\ InitialOwners[c] \in SUBSET Owner /\ InitialOwners[c] # {}
        /\ IsFiniteSet(InitialOwners[c]) /\ Cardinality(InitialOwners[c]) > 0
    BY <1>1, OwnersAreFinite
  <2>2. recurring[c] = [due |-> 0 + Interval[c], cursor |-> 0, owners |-> InitialOwners[c]]
    BY <1>2 DEF NewRow
  <2>3. 0 + Interval[c] \in Nat
    BY IntervalsAreEven
  <2>4. recurring[c] \in Rows
    BY <2>1, <2>2, <2>3 DEF Rows
  <2>5. Serviceable(recurring[c])
    BY <2>1, <2>2, <2>4 DEF Serviceable
  <2>6. recurring[c].due \in Nat
    BY <2>2, <2>3
  <2>7. QED
    BY <2>2, <2>5, <2>6, FrontierTimes
<1>4. TypeInv
  <2>1. Schedule(recurring)
    BY <1>2, <1>3 DEF Schedule
  <2>2. NoTurns \in [Owner -> Nat]
    BY DEF NoTurns
  <2>3. QED
    BY <2>1, <2>2, FrontierAssumption DEF TypeInv, FrontierInit
<1>5. NothingLeftBehind
  BY <1>2, <1>3 DEF NothingLeftBehind, FrontierInit
<1>6. RoundInv
  BY <1>2, <1>3 DEF RoundInv
<1>7. EveryOwnerOncePerDate
  BY DEF EveryOwnerOncePerDate, FrontierInit, NoTurns
<1>8. QED
  BY <1>4, <1>5, <1>6, <1>7 DEF CausalInv

\* The schedule stays well formed and ahead of the clock, and the turns of a
\* date are those before its cursor.
THEOREM CausalInvariance == FrontierSpec => []CausalInv
<1>1. FrontierInit => CausalInv
  BY InitiallyCausal
<1>2. CausalInv /\ [FrontierNext]_frontierVars => CausalInv'
  <2> SUFFICES ASSUME CausalInv, [FrontierNext]_frontierVars PROVE CausalInv'
    OBVIOUS
  <2>1. CASE UNCHANGED frontierVars
    BY <2>1 DEF frontierVars, CausalInv, TypeInv, NothingLeftBehind, RoundInv, HalfWay,
      EveryOwnerOncePerDate, Schedule, Serviceable, FrontierTime, Rank
  <2>2. CASE \E c \in Class : SettleChunk(c)
    BY <2>2, SettleChunkKeeps
  <2>3. CASE SettlePhysiology
    BY <2>3, SettlePhysiologyKeeps
  <2>4. CASE SettleOneOff
    BY <2>4, SettleOneOffKeeps
  <2>5. CASE SettleExtracted
    BY <2>5, SettleExtractedKeeps
  <2>6. CASE SettleCalendar
    BY <2>6, SettleCalendarKeeps
  <2>7. CASE PassTime
    BY <2>7, PassTimeKeeps
  <2>8. CASE PlayerCommand
    BY <2>8, CommandKeeps
  <2>9. QED
    BY <2>1, <2>2, <2>3, <2>4, <2>5, <2>6, <2>7, <2>8 DEF FrontierNext, Advance
<1>3. QED
  BY <1>1, <1>2, PTL DEF FrontierSpec

\* No obligation ever falls behind the clock (scheduler.py:60 "without skipping
\* work"): each frontier is the earliest, and what it puts on the schedule is
\* due then or later.
THEOREM NoObligationIsSkipped == FrontierSpec => []NothingLeftBehind
<1>1. CausalInv => NothingLeftBehind
  BY DEF CausalInv
<1>2. QED
  BY <1>1, CausalInvariance, PTL

\* However the registry changes between the chunks of one date, each owner the
\* date began with gets exactly one turn (owner_cursor of scheduler.py).
THEOREM OneTurnPerDate == FrontierSpec => []EveryOwnerOncePerDate
<1>1. CausalInv => EveryOwnerOncePerDate
  BY DEF CausalInv
<1>2. QED
  BY <1>1, CausalInvariance, PTL

-----------------------------------------------------------------------------
(***************************************************************************)
(* The championship: nobody is twice in the draw, no silver is made, and   *)
(* the sessions end.                                                       *)
(*                                                                         *)
(* The invariant, TournamentInv, has three parts.  The row of the          *)
(* tournament (RowInv): nobody stands twice in bracket, winners and pair,  *)
(* nobody who stands has a place already, and who has lost the             *)
(* championship and how many rounds are left fit the phase.  The           *)
(* deployments (TripInv): nobody is in two, nobody in one is dead, and     *)
(* only one that is under way keeps a reserve.  The purses have their      *)
(* types.  A session of the competition is a table of the entries of the   *)
(* draw, one after another; what holds of the row at its start is carried  *)
(* through it by a smallest counterexample, and so is the measure that     *)
(* shows that it ends (ToPlay).                                            *)
(***************************************************************************)

-----------------------------------------------------------------------------
(* The draw of a list of people.                                            *)

Entrants == People \cup {Bye}

\* Nobody stands twice in a bracket.
Apart(b) ==
  \A i, j \in DOMAIN b :
    /\ i # j => b[i][1] # b[j][1]
    /\ b[i][1] # b[j][2]
    /\ b[i][2] = b[j][2] /\ b[i][2] # Bye => i = j

\* A bracket of people of S.
BracketOf(b, S) == b \in Seq(S \X (S \cup {Bye})) /\ Apart(b)

\* A strict total order on S.
Orders(order, S) ==
  /\ \A p \in S : <<p, p>> \notin order
  /\ \A p, q \in S : p # q => <<p, q>> \in order \/ <<q, p>> \in order
  /\ \A p, q, r \in S : <<p, q>> \in order /\ <<q, r>> \in order => <<p, r>> \in order

\* The number of the members of a finite set that precede one of them numbers the set.
LEMMA RankNumbers ==
  ASSUME NEW S, IsFiniteSet(S), NEW order, Orders(order, S),
         NEW f, f = [p \in S |-> Cardinality({q \in S : <<q, p>> \in order})]
  PROVE  /\ \A i \in 1 .. Cardinality(S) : \E p \in S : f[p] = i - 1
         /\ Cardinality(S) \in Nat
<1> DEFINE ahead(p) == {q \in S : <<q, p>> \in order}
           n == Cardinality(S)
<1>1. n \in Nat /\ \A p \in S : IsFiniteSet(ahead(p)) /\ Cardinality(ahead(p)) \in Nat
  BY FS_Subset, FS_CardinalityType
<1>2. ASSUME NEW p \in S PROVE f[p] \in 0 .. n - 1
  <2>1. ahead(p) \in SUBSET S /\ ahead(p) # S
    BY DEF Orders
  <2>2. Cardinality(ahead(p)) <= n /\ Cardinality(ahead(p)) # n
    BY <2>1, FS_Subset
  <2>3. f[p] = Cardinality(ahead(p))
    OBVIOUS
  <2> QED  BY <1>1, <2>2, <2>3
<1>3. ASSUME NEW p \in S, NEW q \in S, <<p, q>> \in order PROVE f[p] < f[q]
  <2>1. ahead(p) \in SUBSET ahead(q) /\ p \in ahead(q) /\ p \notin ahead(p)
    BY <1>3 DEF Orders
  <2>2. ahead(p) # ahead(q)
    BY <2>1
  <2>3. Cardinality(ahead(p)) <= Cardinality(ahead(q)) /\ Cardinality(ahead(p)) # Cardinality(ahead(q))
    BY <1>1, <2>1, <2>2, FS_Subset
  <2>4. f[p] = Cardinality(ahead(p)) /\ f[q] = Cardinality(ahead(q))
    OBVIOUS
  <2> QED  BY <1>1, <2>3, <2>4
<1>4. ASSUME NEW p \in S, NEW q \in S, f[p] = f[q] PROVE p = q
  <2>1. f[p] \in Int /\ f[q] \in Int
    BY <1>1, <1>2
  <2>2. ~(f[p] < f[q]) /\ ~(f[q] < f[p])
    BY <1>4, <2>1
  <2>3. <<p, q>> \notin order /\ <<q, p>> \notin order
    BY <1>3, <2>2
  <2> QED  BY <2>3 DEF Orders
<1>5. f \in [S -> 0 .. n - 1]
  BY <1>2
<1>6. f \in Injection(S, 0 .. n - 1)
  BY <1>4, <1>5 DEF Injection, IsInjective
<1>7. IsFiniteSet(0 .. n - 1) /\ Cardinality(0 .. n - 1) = n
  BY <1>1, FS_Interval, SMTT(30)
<1>8. f \in Surjection(S, 0 .. n - 1)
  BY <1>6, <1>7, FS_Injection
<1>9. \A i \in 0 .. n - 1 : \E p \in S : f[p] = i
  BY <1>8 DEF Surjection
<1>10. \A i \in 1 .. n : i - 1 \in 0 .. n - 1
  BY <1>1
<1> QED  BY <1>1, <1>9, <1>10

\* A set in an order is a list of different members of it.
LEMMA InOrderLists ==
  ASSUME NEW S, IsFiniteSet(S), NEW order, Orders(order, S)
  PROVE  \E n \in Nat : \E s \in [1 .. n -> S] :
           /\ n = Cardinality(S) /\ InOrder(S, order) = s
           /\ \A i, j \in 1 .. n : s[i] = s[j] => i = j
<1>1. PICK f : f = [p \in S |-> Cardinality({q \in S : <<q, p>> \in order})]
  OBVIOUS
<1>2. PICK n : n = Cardinality(S)
  OBVIOUS
<1>3. n \in Nat /\ \A i \in 1 .. n : \E p \in S : f[p] = i - 1
  BY <1>1, <1>2, RankNumbers
<1>4. PICK s : s = [i \in 1 .. n |-> CHOOSE p \in S : f[p] = i - 1]
  OBVIOUS
<1>5. \A i \in 1 .. n : s[i] \in S /\ f[s[i]] = i - 1
  BY <1>3, <1>4
<1>6. s \in [1 .. n -> S]
  BY <1>4, <1>5
<1>7. ASSUME NEW i \in 1 .. n, NEW j \in 1 .. n, s[i] = s[j] PROVE i = j
  <2>1. f[s[i]] = i - 1 /\ f[s[j]] = j - 1
    BY <1>5
  <2> QED  BY <1>3, <1>7, <2>1
<1>8. ASSUME NEW i \in 1 .. n
      PROVE  s[i] = CHOOSE p \in S : Cardinality({q \in S : <<q, p>> \in order}) = i - 1
  <2>1. \A p \in S : f[p] = i - 1 <=> Cardinality({q \in S : <<q, p>> \in order}) = i - 1
    BY <1>1
  <2>2. (CHOOSE p \in S : f[p] = i - 1)
           = CHOOSE p \in S : Cardinality({q \in S : <<q, p>> \in order}) = i - 1
    BY <2>1
  <2> QED  BY <1>4, <2>2
<1>9. InOrder(S, order) = s
  BY <1>2, <1>4, <1>8 DEF InOrder
<1> QED  BY <1>2, <1>3, <1>6, <1>7, <1>9

\* The draw of a list of different people puts each of them in one place.
LEMMA DrawSeparates ==
  ASSUME NEW S, Bye \notin S, NEW n \in Nat, NEW s \in [1 .. n -> S],
         \A i, j \in 1 .. n : s[i] = s[j] => i = j
  PROVE  BracketOf(Draw(s), S) /\ (n > 0 => Draw(s) # <<>>)
<1>1. Len(s) = n
  OBVIOUS
<1>2. PICK h : h = (n + 1) \div 2
  OBVIOUS
<1>3. h \in Nat /\ 2 * h <= n + 1 /\ n + 1 < 2 * h + 2
  BY <1>2
<1>4. PICK b : b = [i \in 1 .. h |-> <<s[i], IF i = n + 1 - i THEN Bye ELSE s[n + 1 - i]>>]
  OBVIOUS
<1>5. Draw(s) = b
  BY <1>1, <1>2, <1>4 DEF Draw
<1>6. ASSUME NEW i \in 1 .. h
      PROVE  /\ i \in 1 .. n /\ n + 1 - i \in 1 .. n /\ i <= n + 1 - i
             /\ b[i][1] = s[i] /\ b[i][2] = (IF i = n + 1 - i THEN Bye ELSE s[n + 1 - i])
             /\ b[i] \in S \X (S \cup {Bye})
  <2>1. i \in 1 .. n /\ n + 1 - i \in 1 .. n /\ i <= n + 1 - i
    BY <1>3
  <2>2. s[i] \in S /\ s[n + 1 - i] \in S
    BY <2>1
  <2>3. b[i] = <<s[i], IF i = n + 1 - i THEN Bye ELSE s[n + 1 - i]>>
    BY <1>4
  <2> QED  BY <2>1, <2>2, <2>3
<1>7. b \in [1 .. h -> S \X (S \cup {Bye})] /\ DOMAIN b = 1 .. h
  BY <1>4, <1>6
<1>8. b \in Seq(S \X (S \cup {Bye}))
  BY <1>3, <1>7
<1>9. ASSUME NEW i \in DOMAIN b, NEW j \in DOMAIN b
      PROVE  /\ i # j => b[i][1] # b[j][1]
             /\ b[i][1] # b[j][2]
             /\ b[i][2] = b[j][2] /\ b[i][2] # Bye => i = j
  <2> USE <1>7
  <2>1. i # j => b[i][1] # b[j][1]
    BY <1>6
  <2>2. b[i][1] # b[j][2]
    <3>1. s[i] # Bye
      BY <1>6
    <3>2. CASE j = n + 1 - j
      BY <1>6, <3>1, <3>2
    <3>3. CASE j # n + 1 - j
      <4>1. i # n + 1 - j
        BY <1>3, <3>3
      <4> QED  BY <1>6, <3>3, <4>1
    <3> QED  BY <3>2, <3>3
  <2>3. ASSUME b[i][2] = b[j][2], b[i][2] # Bye PROVE i = j
    <3>1. i \in 1 .. h /\ j \in 1 .. h
      OBVIOUS
    <3>2. b[i][2] = s[n + 1 - i] /\ b[j][2] = s[n + 1 - j]
      BY <1>6, <2>3, <3>1
    <3>3. n + 1 - i \in 1 .. n /\ n + 1 - j \in 1 .. n
      BY <1>6, <3>1
    <3>4. n + 1 - i = n + 1 - j
      BY <2>3, <3>2, <3>3
    <3> QED  BY <1>3, <3>1, <3>4
  <2> QED  BY <2>1, <2>2, <2>3
<1>10. n > 0 => b # <<>>
  BY <1>3, <1>7
<1> QED  BY <1>5, <1>8, <1>9, <1>10 DEF BracketOf, Apart

\* The score of a person is a number, and no two people have the same one.
LEMMA SeedsDiffer ==
  \A p, q \in People : SeedOf(p) \in Nat /\ (SeedOf(p) = SeedOf(q) => p = q)
<1>1. \A p \in People : SeedOf(p) \in DOMAIN Seeding /\ Seeding[SeedOf(p)] = p
  BY TournamentAssumption DEF SeedOf
<1>2. DOMAIN Seeding \subseteq Nat
  <2>1. Seeding \in Seq(People)
    BY TournamentAssumption
  <2>2. DOMAIN Seeding = 1 .. Len(Seeding) /\ Len(Seeding) \in Nat
    BY <2>1, LenProperties
  <2> QED  BY <2>2
<1> QED  BY <1>1, <1>2

\* The public score orders any set of people.
LEMMA SeedsOrder ==
  ASSUME NEW S, S \subseteq People
  PROVE  Orders(BySeed, S)
<1>1. \A p, q \in S : <<p, q>> \in BySeed <=> SeedOf(p) < SeedOf(q)
  BY DEF BySeed
<1>2. \A p, q \in S : SeedOf(p) \in Nat /\ (SeedOf(p) = SeedOf(q) => p = q)
  BY SeedsDiffer
<1> QED  BY <1>1, <1>2 DEF Orders

\* So does the round of the first loss, with the score for equal ones.
LEMMA LossesOrder ==
  ASSUME NEW S, S \subseteq People, NEW t, t.lost \in [People -> Nat]
  PROVE  Orders(ByLoss(t), S)
<1>1. \A p, q \in S : <<p, q>> \in ByLoss(t)
                        <=> t.lost[p] > t.lost[q] \/ (t.lost[p] = t.lost[q] /\ <<p, q>> \in BySeed)
  BY DEF ByLoss, BySeed
<1>2. \A p \in S : t.lost[p] \in Nat
  OBVIOUS
<1>3. Orders(BySeed, S)
  BY SeedsOrder
<1> QED  BY <1>1, <1>2, <1>3 DEF Orders

\* Drawing a set of people in an order.
LEMMA DrawOfPeople ==
  ASSUME NEW S, S \subseteq People, NEW order, Orders(order, S)
  PROVE  BracketOf(Draw(InOrder(S, order)), S) /\ (S # {} => Draw(InOrder(S, order)) # <<>>)
<1>1. IsFiniteSet(People)
  BY TournamentAssumption, FS_Union DEF People
<1>2. IsFiniteSet(S) /\ Bye \notin S
  BY <1>1, FS_Subset, TournamentAssumption
<1>3. PICK n \in Nat : \E s \in [1 .. n -> S] :
        /\ n = Cardinality(S) /\ InOrder(S, order) = s
        /\ \A i, j \in 1 .. n : s[i] = s[j] => i = j
  BY <1>2, InOrderLists
<1>4. PICK s \in [1 .. n -> S] :
        /\ n = Cardinality(S) /\ InOrder(S, order) = s
        /\ \A i, j \in 1 .. n : s[i] = s[j] => i = j
  BY <1>3
<1>5. S # {} => n > 0
  BY <1>2, <1>4, FS_EmptySet
<1> QED  BY <1>2, <1>4, <1>5, DrawSeparates

-----------------------------------------------------------------------------
(* The invariant of the draw.                                               *)

OnList(b)  == {b[i][1] : i \in DOMAIN b} \cup ({b[i][2] : i \in DOMAIN b} \ {Bye})
InRing(pr) == {pr[1], pr[2]} \ {Bye}
Placed(pl) == {pl[i] : i \in 1 .. 4} \ {Bye}

Different(w) == \A i, j \in DOMAIN w : w[i] = w[j] => i = j

\* Everybody who can still win a match, and nobody twice.
Standing(t) == OnList(t.bracket) \cup ToSet(t.winners) \cup InRing(t.pair)
Separate(t) ==
  /\ Apart(t.bracket) /\ Different(t.winners) /\ (t.pair[1] = t.pair[2] => t.pair = NoPair)
  /\ OnList(t.bracket) \cap ToSet(t.winners) = {} /\ OnList(t.bracket) \cap InRing(t.pair) = {}
  /\ ToSet(t.winners) \cap InRing(t.pair) = {}

Brackets == Seq(People \X Entrants)
Lists    == Seq(People)
Statuses == {"none", "registration_open", "bracket_ready", "in_progress", "awaiting_player_match",
              "completed", "popped"}
TourRows ==
  [status : Statuses, phase : {"championship", "losers_bracket"}, regs : SUBSET People,
   bracket : Brackets, winners : Lists, round : Nat, size : Nat,
   pair : (People \X People) \cup {NoPair}, matchSize : Nat, lost : [People -> Nat],
   runner : Entrants, lastLoser : Entrants, places : [1 .. 4 -> Entrants], escrow : Nat,
   gated : BOOLEAN, combat : {"none", "active", "side_a", "side_b"}]

\* Everybody is known from the registration.
FromRegs(t) ==
  /\ Standing(t) \cup Placed(t.places) \cup ({t.runner, t.lastLoser} \ {Bye}) \subseteq t.regs
  /\ \A p \in People : t.lost[p] > 0 => p \in t.regs

\* Four places of four people who are out of the draw.
Ranked(t) ==
  /\ \A i, j \in 1 .. 4 : t.places[i] = t.places[j] /\ t.places[i] # Bye => i = j
  /\ Standing(t) \cap Placed(t.places) = {}

\* Whoever lost a final is out, and the places of a bracket are open until it ends.
Awaiting(t) ==
  /\ t.phase = "championship" =>
       t.places = NoTour.places /\ t.lastLoser = Bye /\ t.runner \notin Standing(t)
  /\ t.phase = "losers_bracket" =>
       t.places[3] = Bye /\ t.places[4] = Bye /\ t.lastLoser \notin Standing(t) \cup Placed(t.places)

Running(t) == t \in TourRows /\ FromRegs(t) /\ Separate(t) /\ Ranked(t) /\ Awaiting(t)
Over(t)    == t \in TourRows /\ Standing(t) = {} /\ Ranked(t)

\* The first entry of a bracket leaves it.
LEMMA EntryLeaves ==
  ASSUME NEW b \in Brackets, b # <<>>, Apart(b)
  PROVE  /\ Tail(b) \in Brackets /\ Apart(Tail(b))
         /\ Head(b) \in People \X Entrants /\ Head(b)[1] # Head(b)[2]
         /\ InRing(Head(b)) \subseteq OnList(b) /\ OnList(Tail(b)) \subseteq OnList(b)
         /\ InRing(Head(b)) \cap OnList(Tail(b)) = {}
<1>1. PICK c : c = Tail(b)
  OBVIOUS
<1>2. PICK n : n = Len(b)
  OBVIOUS
<1>3. n \in Nat \ {0} /\ DOMAIN b = 1 .. n
  BY <1>2, EmptySeq, LenProperties DEF Brackets
<1>4. c \in Brackets /\ DOMAIN c = 1 .. n - 1 /\ \A i \in 1 .. n - 1 : c[i] = b[i + 1]
  BY <1>1, <1>2, <1>3, HeadTailProperties, LenProperties DEF Brackets
<1>5. Head(b) = b[1] /\ b[1] \in People \X Entrants
  BY <1>2, <1>3, ElementOfSeq DEF Brackets
<1>6. \A i \in DOMAIN c : i + 1 \in DOMAIN b /\ i + 1 # 1 /\ c[i] = b[i + 1]
  BY <1>3, <1>4
<1>7. 1 \in DOMAIN b
  BY <1>3
<1>8. Apart(c)
  <2> SUFFICES ASSUME NEW i \in DOMAIN c, NEW j \in DOMAIN c
               PROVE  /\ i # j => c[i][1] # c[j][1]
                      /\ c[i][1] # c[j][2]
                      /\ c[i][2] = c[j][2] /\ c[i][2] # Bye => i = j
    BY DEF Apart
  <2>1. i + 1 \in DOMAIN b /\ j + 1 \in DOMAIN b /\ c[i] = b[i + 1] /\ c[j] = b[j + 1]
    BY <1>6
  <2>2. i \in Int /\ j \in Int
    BY <1>4
  <2> QED  BY <2>1, <2>2 DEF Apart
<1>9. Head(b)[1] # Head(b)[2]
  BY <1>5, <1>7 DEF Apart
<1>10. OnList(c) \subseteq OnList(b)
  BY <1>6 DEF OnList
<1>11. InRing(Head(b)) \subseteq OnList(b)
  BY <1>5, <1>7 DEF OnList, InRing
<1>12. ASSUME NEW i \in DOMAIN c, NEW p, p # Bye, p = b[1][1] \/ p = b[1][2]
       PROVE  c[i][1] # p /\ c[i][2] # p
  BY <1>6, <1>7, <1>12 DEF Apart
<1>13. InRing(Head(b)) \cap OnList(c) = {}
  BY <1>5, <1>12 DEF OnList, InRing
<1> QED  BY <1>1, <1>4, <1>5, <1>8, <1>9, <1>10, <1>11, <1>13

\* One more winner.
LEMMA WinnerJoins ==
  ASSUME NEW w \in Lists, Different(w), NEW p \in People, p \notin ToSet(w)
  PROVE  /\ Append(w, p) \in Lists /\ Different(Append(w, p))
         /\ ToSet(Append(w, p)) = ToSet(w) \cup {p}
<1>1. PICK v : v = Append(w, p)
  OBVIOUS
<1>2. PICK n : n = Len(w)
  OBVIOUS
<1>3. n \in Nat /\ DOMAIN w = 1 .. n
  BY <1>2, LenProperties DEF Lists
<1>4. /\ v \in Lists /\ DOMAIN v = 1 .. n + 1
      /\ \A i \in 1 .. n : v[i] = w[i]
      /\ v[n + 1] = p
  BY <1>1, <1>2, AppendProperties, LenProperties DEF Lists
<1>5. ToSet(v) = ToSet(w) \cup {p}
  BY <1>3, <1>4 DEF ToSet
<1>6. Different(v)
  BY <1>3, <1>4 DEF Different, ToSet
<1> QED  BY <1>1, <1>4, <1>5, <1>6

\* The empty lists and the empty ring.
LEMMA NobodyLeft ==
  /\ OnList(<<>>) = {} /\ ToSet(<<>>) = {} /\ InRing(NoPair) = {} /\ Apart(<<>>) /\ Different(<<>>)
  /\ <<>> \in Lists /\ <<>> \in Brackets
BY EmptySeq DEF Lists, Brackets, OnList, ToSet, InRing, NoPair, Apart, Different

\* What no step of a session changes.
Alike(t, u) == u.regs = t.regs /\ u.escrow = t.escrow /\ u.gated = t.gated

\* A row of which fewer stand and nothing else changed.
LEMMA FewerStand ==
  ASSUME NEW t, Running(t), NEW u \in TourRows, Alike(t, u), Separate(u), Standing(u) \subseteq Standing(t),
         u.phase = t.phase, u.places = t.places, u.runner = t.runner, u.lastLoser = t.lastLoser,
         u.lost = t.lost
  PROVE  Running(u)
<1>1. FromRegs(u)
  BY DEF Running, FromRegs, Alike
<1>2. Ranked(u)
  BY DEF Running, Ranked
<1>3. Awaiting(u)
  BY DEF Running, Awaiting
<1> QED  BY <1>1, <1>2, <1>3 DEF Running

\* Whoever stands in a row that has neither entries nor a match has won.
LEMMA OnlyWinners ==
  ASSUME NEW t, t.bracket = <<>>, t.pair = NoPair
  PROVE  Standing(t) = ToSet(t.winners)
BY NobodyLeft DEF Standing

\* A row whose draw is drawn from people who stand.
LEMMA DrawnAgain ==
  ASSUME NEW S, S \subseteq People, NEW t, t.winners = <<>>, t.pair = NoPair, BracketOf(t.bracket, S)
  PROVE  Separate(t) /\ Standing(t) \subseteq S /\ t.bracket \in Brackets
<1>1. PICK b : b = t.bracket
  OBVIOUS
<1>2. b \in Seq(S \X (S \cup {Bye})) /\ Apart(b)
  BY <1>1 DEF BracketOf
<1>3. S \X (S \cup {Bye}) \subseteq People \X Entrants
  BY DEF Entrants
<1>4. b \in Brackets
  BY <1>2, <1>3, SeqMonotonic DEF Brackets
<1>5. \A i \in DOMAIN b : b[i] \in S \X (S \cup {Bye})
  BY <1>2, LenProperties, ElementOfSeq
<1>6. OnList(b) \subseteq S
  BY <1>5 DEF OnList
<1>7. Separate(t)
  BY <1>1, <1>2, NobodyLeft DEF Separate
<1>8. Standing(t) = OnList(b)
  BY <1>1, NobodyLeft DEF Standing
<1> QED  BY <1>1, <1>4, <1>6, <1>7, <1>8

\* The next round draws the winners of the last.
LEMMA NextRoundRuns ==
  ASSUME NEW t, Running(t), t.bracket = <<>>, t.pair = NoPair, Len(t.winners) > 1
  PROVE  LET u == NextRound(t)
         IN  /\ Running(u) /\ Alike(t, u) /\ u.pair = NoPair /\ u.bracket # <<>>
             /\ u.status = t.status
<1>1. PICK w : w = t.winners
  OBVIOUS
<1>2. w \in Lists /\ Len(w) \in Nat /\ DOMAIN w = 1 .. Len(w)
  BY <1>1, LenProperties DEF Running, TourRows, Lists
<1>3. ToSet(w) \subseteq People /\ ToSet(w) # {}
  <2>1. \A i \in DOMAIN w : w[i] \in People
    BY <1>2, ElementOfSeq DEF Lists
  <2>2. 1 \in DOMAIN w
    BY <1>1, <1>2
  <2> QED  BY <2>1, <2>2 DEF ToSet
<1>4. PICK b : b = Draw(InOrder(ToSet(w), BySeed))
  OBVIOUS
<1>5. BracketOf(b, ToSet(w)) /\ b # <<>>
  BY <1>3, <1>4, SeedsOrder, DrawOfPeople
<1>6. PICK u : u = NextRound(t)
  OBVIOUS
<1>7. u = [t EXCEPT !.bracket = b, !.winners = <<>>, !.round = @ + 1, !.size = Len(w)]
  BY <1>1, <1>4, <1>6 DEF NextRound
<1>8. /\ u.bracket = b /\ u.winners = <<>> /\ u.pair = NoPair /\ u.status = t.status
      /\ u.phase = t.phase /\ u.places = t.places /\ u.runner = t.runner
      /\ u.lastLoser = t.lastLoser /\ u.lost = t.lost /\ Alike(t, u)
  BY <1>7 DEF Running, TourRows, Alike
<1>9. Separate(u) /\ Standing(u) \subseteq ToSet(w) /\ b \in Brackets
  BY <1>3, <1>5, <1>8, DrawnAgain
<1>10. u \in TourRows
  <2>1. t \in TourRows /\ t.round \in Nat
    BY DEF Running, TourRows
  <2>2. t.round + 1 \in Nat
    BY <2>1
  <2> QED  BY <1>2, <1>7, <1>9, <2>1, <2>2, NobodyLeft DEF TourRows
<1>11. Standing(t) = ToSet(w)
  BY <1>1, OnlyWinners
<1>12. Running(u)
  BY <1>8, <1>9, <1>10, <1>11, FewerStand
<1> QED  BY <1>5, <1>6, <1>8, <1>12

\* A row that is closed: nobody stands.
LEMMA Closes ==
  ASSUME NEW t \in TourRows, t.pair = NoPair,
         \A i, j \in 1 .. 4 : t.places[i] = t.places[j] /\ t.places[i] # Bye => i = j
  PROVE  LET u == Complete(t)
         IN  Over(u) /\ Alike(t, u) /\ u.pair = NoPair /\ u.status = "completed" /\ u.places = t.places
<1>1. PICK u : u = Complete(t)
  OBVIOUS
<1>2. /\ u.bracket = <<>> /\ u.winners = <<>> /\ u.pair = NoPair /\ u.status = "completed"
      /\ u.places = t.places /\ Alike(t, u)
  BY <1>1 DEF Complete, TourRows, Alike
<1>3. u \in TourRows
  BY <1>1, NobodyLeft DEF Complete, TourRows, Statuses
<1>4. Standing(u) = {}
  BY <1>2, NobodyLeft DEF Standing
<1>5. Ranked(u)
  BY <1>2, <1>4 DEF Ranked
<1> QED  BY <1>1, <1>2, <1>3, <1>4, <1>5 DEF Over

\* The state of a championship between two matches: it goes on, or it is over.
Between(t) ==
  /\ t.pair = NoPair
  /\ \/ t.status = "completed" /\ Over(t)
     \/ t.status \in {"bracket_ready", "in_progress"} /\ Running(t) /\ t.bracket # <<>>

\* The last of the championship: the two places, and the losers drawn for the others.
LEMMA CrownSettles ==
  ASSUME NEW t, Running(t), t.bracket = <<>>, t.pair = NoPair, Len(t.winners) = 1,
         t.phase = "championship"
  PROVE  Between(CrownChampion(t)) /\ Alike(t, CrownChampion(t))
<1>1. PICK w : w = t.winners[1]
  OBVIOUS
<1>2. w \in People /\ w \in ToSet(t.winners)
  BY <1>1, LenProperties, ElementOfSeq DEF Running, TourRows, Lists, ToSet
<1>3. w \in Standing(t) /\ w # t.runner /\ w # Bye
  BY <1>2, OnlyWinners, TournamentAssumption DEF Running, Awaiting
<1>4. PICK c : c = [t EXCEPT !.places[1] = w, !.places[2] = t.runner]
  OBVIOUS
<1>5. t.places = [i \in 1 .. 4 |-> Bye] /\ t.lastLoser = Bye /\ t \in TourRows
  BY DEF Running, Awaiting, NoTour
<1>6. /\ c \in TourRows /\ c.pair = NoPair /\ Alike(t, c)
      /\ c.places[1] = w /\ c.places[2] = t.runner /\ c.places[3] = Bye /\ c.places[4] = Bye
      /\ c.lastLoser = Bye /\ c.runner = t.runner /\ c.lost = t.lost
  <2>1. PICK pl : pl = [t.places EXCEPT ![1] = w, ![2] = t.runner]
    OBVIOUS
  <2>2. w \in Entrants /\ t.runner \in Entrants /\ t.places \in [1 .. 4 -> Entrants]
    BY <1>2, <1>5 DEF TourRows, Entrants
  <2>3. pl \in [1 .. 4 -> Entrants] /\ pl[1] = w /\ pl[2] = t.runner /\ pl[3] = Bye /\ pl[4] = Bye
    BY <1>5, <2>1, <2>2
  <2>4. c = [t EXCEPT !.places = pl]
    BY <1>4, <1>5, <2>1 DEF TourRows
  <2>5. c \in TourRows
    BY <1>5, <2>3, <2>4 DEF TourRows
  <2> QED  BY <1>5, <2>3, <2>4, <2>5 DEF TourRows, Alike
<1>7. \A i, j \in 1 .. 4 : c.places[i] = c.places[j] /\ c.places[i] # Bye => i = j
  <2>1. \A i \in 1 .. 4 : i = 1 \/ i = 2 \/ i = 3 \/ i = 4
    OBVIOUS
  <2> QED  BY <1>3, <1>6, <2>1
<1>8. Placed(c.places) \subseteq {w, t.runner}
  <2>1. \A i \in 1 .. 4 : i = 1 \/ i = 2 \/ i = 3 \/ i = 4
    OBVIOUS
  <2> QED  BY <1>6, <2>1 DEF Placed
<1>9. PICK l : l = Losers(t)
  OBVIOUS
<1>10. l = {p \in People : t.lost[p] > 0} \ {w, t.runner}
  BY <1>1, <1>9 DEF Losers
<1>11. CASE l = {}
  <2>1. CrownChampion(t) = Complete(c)
    BY <1>1, <1>4, <1>9, <1>11 DEF CrownChampion
  <2> QED  BY <1>6, <1>7, <2>1, Closes DEF Between, Alike
<1>12. CASE l # {}
  <2>1. PICK b : b = Draw(InOrder(l, ByLoss(t)))
    OBVIOUS
  <2>2. BracketOf(b, l) /\ b # <<>> /\ l \subseteq People
    BY <1>10, <1>12, <2>1, LossesOrder, DrawOfPeople DEF Running, TourRows
  <2>3. PICK u : u = CrownChampion(t)
    OBVIOUS
  <2>4. u = [c EXCEPT !.phase = "losers_bracket", !.bracket = b, !.winners = <<>>, !.round = 1,
                      !.size = Cardinality(l), !.status = "in_progress"]
    BY <1>1, <1>4, <1>9, <1>12, <2>1, <2>3 DEF CrownChampion
  <2>5. /\ u.bracket = b /\ u.winners = <<>> /\ u.pair = NoPair /\ u.status = "in_progress"
        /\ u.phase = "losers_bracket" /\ u.places = c.places /\ u.runner = t.runner
        /\ u.lastLoser = Bye /\ u.lost = t.lost /\ Alike(t, u)
    BY <1>6, <2>4 DEF TourRows, Alike
  <2>6. Separate(u) /\ Standing(u) \subseteq l /\ b \in Brackets
    BY <2>2, <2>5, DrawnAgain
  <2>7. Cardinality(l) \in Nat
    <3>1. IsFiniteSet(People)
      BY TournamentAssumption, FS_Union DEF People
    <3> QED  BY <2>2, <3>1, FS_Subset, FS_CardinalityType
  <2>8. u \in TourRows
    BY <1>6, <2>4, <2>6, <2>7, NobodyLeft DEF TourRows, Statuses
  <2>9. Ranked(u)
    BY <1>7, <1>8, <1>10, <2>5, <2>6 DEF Ranked
  <2>10. Awaiting(u)
    <3>1. Bye \notin Standing(u) /\ Bye \notin Placed(u.places)
      BY <2>2, <2>6, TournamentAssumption DEF Placed
    <3> QED  BY <1>6, <2>5, <3>1 DEF Awaiting
  <2>11. FromRegs(u)
    <3>1. /\ Standing(t) \cup ({t.runner} \ {Bye}) \subseteq t.regs
          /\ \A p \in People : t.lost[p] > 0 => p \in t.regs
      BY DEF Running, FromRegs
    <3>2. l \subseteq t.regs
      BY <1>10, <3>1
    <3>3. Placed(u.places) \subseteq t.regs
      <4>1. Bye \notin Placed(u.places) /\ Placed(u.places) \subseteq {w, t.runner}
        BY <1>8, <2>5 DEF Placed
      <4>2. w \in t.regs
        BY <1>3, <3>1
      <4> QED  BY <3>1, <4>1, <4>2
    <3>4. {u.runner, u.lastLoser} \ {Bye} \subseteq t.regs
      BY <2>5, <3>1
    <3> QED  BY <2>5, <2>6, <3>1, <3>2, <3>3, <3>4 DEF FromRegs, Alike
  <2> QED  BY <2>2, <2>3, <2>5, <2>6, <2>8, <2>9, <2>10, <2>11 DEF Between, Running
<1> QED  BY <1>11, <1>12

\* Between two matches the bracket is refilled or the championship closes.
LEMMA SettleRuns ==
  ASSUME NEW t, Running(t), t.pair = NoPair, t.status \in {"bracket_ready", "in_progress"}
  PROVE  Between(SettleBracket(t)) /\ Alike(t, SettleBracket(t))
<1>1. PICK w : w = t.winners
  OBVIOUS
<1>2. w \in Lists /\ Len(w) \in Nat /\ DOMAIN w = 1 .. Len(w) /\ t \in TourRows
  BY <1>1, LenProperties DEF Running, TourRows, Lists
<1>3. CASE t.bracket # <<>>
  BY <1>3 DEF SettleBracket, Between, Alike
<1>4. CASE t.bracket = <<>> /\ Len(w) > 1
  BY <1>1, <1>4, NextRoundRuns DEF SettleBracket, Between
<1>5. CASE t.bracket = <<>> /\ Len(w) = 1 /\ t.phase = "championship"
  BY <1>1, <1>5, CrownSettles DEF SettleBracket
<1>6. CASE t.bracket = <<>> /\ Len(w) = 1 /\ t.phase # "championship"
  <2>1. t.places[3] = Bye /\ t.places[4] = Bye /\ t.lastLoser \notin Standing(t) \cup Placed(t.places)
    BY <1>2, <1>6 DEF Running, Awaiting, TourRows
  <2>2. t.winners[1] \in People /\ t.winners[1] \in Standing(t)
    <3>1. 1 \in DOMAIN w
      BY <1>2, <1>6
    <3>2. w[1] \in People
      BY <1>2, <3>1, ElementOfSeq DEF Lists
    <3>3. w[1] \in ToSet(w)
      BY <3>1 DEF ToSet
    <3> QED  BY <1>1, <1>6, <3>2, <3>3, OnlyWinners
  <2>3. t.winners[1] \notin Placed(t.places)
    BY <2>2 DEF Running, Ranked
  <2>4. PICK pl : pl = [t.places EXCEPT ![3] = t.winners[1], ![4] = t.lastLoser]
    OBVIOUS
  <2>5. /\ pl \in [1 .. 4 -> Entrants] /\ pl[1] = t.places[1] /\ pl[2] = t.places[2]
        /\ pl[3] = t.winners[1] /\ pl[4] = t.lastLoser
    <3>1. t.places \in [1 .. 4 -> Entrants] /\ t.winners[1] \in Entrants /\ t.lastLoser \in Entrants
      BY <1>2, <2>2 DEF TourRows, Entrants
    <3> QED  BY <2>4, <3>1
  <2>6. PICK c : c = [t EXCEPT !.places = pl]
    OBVIOUS
  <2>7. c \in TourRows /\ c.pair = NoPair /\ c.places = pl /\ Alike(t, c)
    BY <1>2, <2>5, <2>6 DEF TourRows, Alike
  <2>8. [t EXCEPT !.places[3] = t.winners[1], !.places[4] = t.lastLoser] = c
    BY <1>2, <2>4, <2>6 DEF TourRows
  <2>9. \A i, j \in 1 .. 4 : pl[i] = pl[j] /\ pl[i] # Bye => i = j
    <3>1. \A i \in 1 .. 4 : i = 1 \/ i = 2 \/ i = 3 \/ i = 4
      OBVIOUS
    <3>2. \A i, j \in 1 .. 4 : t.places[i] = t.places[j] /\ t.places[i] # Bye => i = j
      BY DEF Running, Ranked
    <3>3. \A i \in 1 .. 4 : t.places[i] # Bye => t.places[i] \in Placed(t.places)
      BY DEF Placed
    <3>4. t.winners[1] # t.lastLoser
      BY <2>1, <2>2
    <3>5. pl[1] # Bye => pl[1] # pl[2] /\ pl[1] # pl[3] /\ pl[1] # pl[4]
      BY <2>1, <2>3, <2>5, <3>2, <3>3
    <3>6. pl[2] # Bye => pl[2] # pl[3] /\ pl[2] # pl[4]
      BY <2>1, <2>3, <2>5, <3>2, <3>3
    <3> QED  BY <2>5, <3>1, <3>4, <3>5, <3>6
  <2>10. SettleBracket(t) = Complete(c)
    BY <1>1, <1>6, <2>8 DEF SettleBracket
  <2> QED  BY <2>7, <2>9, <2>10, Closes DEF Between, Alike
<1>7. CASE t.bracket = <<>> /\ Len(w) = 0 /\ t.phase = "championship"
  <2>1. NoTour.places = t.places
    BY <1>7 DEF Running, Awaiting
  <2>2. [t EXCEPT !.places = NoTour.places] = t
    BY <1>2, <2>1 DEF TourRows
  <2>3. SettleBracket(t) = Complete(t)
    BY <1>1, <1>7, <2>2 DEF SettleBracket
  <2> QED  BY <1>2, <2>3, Closes DEF Between, Running, Ranked
<1>8. CASE t.bracket = <<>> /\ Len(w) = 0 /\ t.phase # "championship"
  <2>1. SettleBracket(t) = Complete(t)
    BY <1>1, <1>8 DEF SettleBracket
  <2> QED  BY <1>2, <2>1, Closes DEF Between, Running, Ranked
<1> QED  BY <1>2, <1>3, <1>4, <1>5, <1>6, <1>7, <1>8

\* A match is called.
LEMMA MatchCalled ==
  ASSUME NEW t, Running(t), t.pair = NoPair, t.bracket # <<>>, Head(t.bracket)[2] # Bye
  PROVE  LET u == BeginMatch(t)
         IN  /\ Running(u) /\ Alike(t, u) /\ u.pair \in People \X People /\ u.pair # NoPair
             /\ u.status = "in_progress"
<1>1. PICK b : b = t.bracket
  OBVIOUS
<1>2. t \in TourRows /\ b \in Brackets /\ Apart(b) /\ b # <<>>
  BY <1>1 DEF Running, TourRows, Separate
<1>3. PICK h : h = Head(b)
  OBVIOUS
<1>4. PICK c : c = Tail(b)
  OBVIOUS
<1>5. /\ c \in Brackets /\ Apart(c) /\ h \in People \X Entrants /\ h[1] # h[2]
      /\ InRing(h) \subseteq OnList(b) /\ OnList(c) \subseteq OnList(b) /\ InRing(h) \cap OnList(c) = {}
  BY <1>2, <1>3, <1>4, EntryLeaves
<1>6. h \in People \X People /\ h # NoPair
  <2>1. h[1] \in People /\ h[2] \in Entrants /\ h = <<h[1], h[2]>> /\ h[2] # Bye
    BY <1>1, <1>3, <1>5
  <2>2. h[1] # Bye /\ NoPair[1] = Bye
    BY <2>1, TournamentAssumption DEF NoPair
  <2> QED  BY <2>1, <2>2 DEF Entrants
<1>7. PICK u : u = BeginMatch(t)
  OBVIOUS
<1>8. PICK n : n = IF t.size > 2 THEN t.size ELSE 2
  OBVIOUS
<1>9. u = [t EXCEPT !.bracket = c, !.pair = h, !.status = "in_progress", !.matchSize = n]
  BY <1>1, <1>2, <1>3, <1>4, <1>7, <1>8 DEF BeginMatch, TourRows
<1>10. n \in Nat
  BY <1>2, <1>8 DEF TourRows
<1>11. u \in TourRows
  BY <1>2, <1>5, <1>6, <1>9, <1>10 DEF TourRows, Statuses
<1>12. /\ u.bracket = c /\ u.pair = h /\ u.winners = t.winners /\ u.status = "in_progress"
       /\ u.phase = t.phase /\ u.places = t.places /\ u.runner = t.runner
       /\ u.lastLoser = t.lastLoser /\ u.lost = t.lost /\ Alike(t, u)
  BY <1>2, <1>9 DEF TourRows, Alike
<1>13. Separate(u)
  <2>1. OnList(b) \cap ToSet(t.winners) = {} /\ Different(t.winners)
    BY <1>1 DEF Running, Separate
  <2> QED  BY <1>5, <1>12, <2>1 DEF Separate
<1>14. Standing(u) \subseteq Standing(t)
  BY <1>1, <1>5, <1>12 DEF Standing
<1> QED  BY <1>6, <1>7, <1>11, <1>12, <1>13, <1>14, FewerStand

\* A bye.
LEMMA ByePasses ==
  ASSUME NEW t, Running(t), t.pair = NoPair, t.bracket # <<>>, NEW usable
  PROVE  LET u == PassBye(t, usable)
         IN  Running(u) /\ Alike(t, u) /\ u.pair = NoPair /\ u.status = t.status
<1>1. PICK b : b = t.bracket
  OBVIOUS
<1>2. t \in TourRows /\ b \in Brackets /\ Apart(b) /\ b # <<>> /\ t.winners \in Lists
  BY <1>1 DEF Running, TourRows, Separate
<1>3. PICK h : h = Head(b)
  OBVIOUS
<1>4. PICK c : c = Tail(b)
  OBVIOUS
<1>5. /\ c \in Brackets /\ Apart(c) /\ h \in People \X Entrants /\ h[1] # h[2]
      /\ InRing(h) \subseteq OnList(b) /\ OnList(c) \subseteq OnList(b) /\ InRing(h) \cap OnList(c) = {}
  BY <1>2, <1>3, <1>4, EntryLeaves
<1>6. PICK p : p = h[1]
  OBVIOUS
<1>7. p \in People /\ p \in OnList(b) /\ p \notin OnList(c)
  BY <1>5, <1>6, TournamentAssumption DEF InRing
<1>8. /\ OnList(b) \cap ToSet(t.winners) = {} /\ Different(t.winners)
      /\ p \notin ToSet(t.winners)
  BY <1>1, <1>7 DEF Running, Separate
<1>9. PICK w : w = IF p \in usable THEN Append(t.winners, p) ELSE t.winners
  OBVIOUS
<1>10. w \in Lists /\ Different(w) /\ ToSet(w) \subseteq ToSet(t.winners) \cup {p}
  BY <1>2, <1>7, <1>8, <1>9, WinnerJoins
<1>11. PICK u : u = PassBye(t, usable)
  OBVIOUS
<1>12. u = [t EXCEPT !.bracket = c, !.winners = w]
  BY <1>1, <1>2, <1>3, <1>4, <1>6, <1>9, <1>11 DEF PassBye, TourRows
<1>13. u \in TourRows
  BY <1>2, <1>5, <1>10, <1>12 DEF TourRows
<1>14. /\ u.bracket = c /\ u.pair = NoPair /\ u.winners = w /\ u.status = t.status
       /\ u.phase = t.phase /\ u.places = t.places /\ u.runner = t.runner
       /\ u.lastLoser = t.lastLoser /\ u.lost = t.lost /\ Alike(t, u)
  BY <1>2, <1>12 DEF TourRows, Alike
<1>15. Separate(u)
  BY <1>5, <1>7, <1>8, <1>10, <1>14, NobodyLeft DEF Separate
<1>16. Standing(u) \subseteq Standing(t)
  BY <1>1, <1>5, <1>7, <1>10, <1>14 DEF Standing
<1> QED  BY <1>11, <1>13, <1>14, <1>15, <1>16, FewerStand

\* Row u is row t once its match is won by w and lost by l.
MatchRecord(t, u, w, l) ==
  /\ Running(t) /\ t.pair \in People \X People
  /\ (w = t.pair[1] /\ l = t.pair[2]) \/ (w = t.pair[2] /\ l = t.pair[1])
  /\ u \in TourRows /\ Alike(t, u) /\ u.bracket = t.bracket /\ u.winners = Append(t.winners, w)
  /\ u.pair = NoPair /\ u.phase = t.phase /\ u.places = t.places /\ u.runner \in {t.runner, l}
  /\ u.lastLoser = t.lastLoser \/ (u.phase = "losers_bracket" /\ u.lastLoser = l)
  /\ \A p \in People : u.lost[p] > 0 => t.lost[p] > 0 \/ p = l

\* A match that has been fought or forfeited leaves a row in which the loser does not stand.
LEMMA MatchRecorded ==
  ASSUME NEW t, NEW u, NEW w, NEW l, MatchRecord(t, u, w, l)
  PROVE  Running(u)
<1> SUFFICES ASSUME Running(t), t.pair \in People \X People,
                    (w = t.pair[1] /\ l = t.pair[2]) \/ (w = t.pair[2] /\ l = t.pair[1]),
                    u \in TourRows, Alike(t, u), u.bracket = t.bracket,
                    u.winners = Append(t.winners, w), u.pair = NoPair, u.phase = t.phase,
                    u.places = t.places, u.runner \in {t.runner, l},
                    u.lastLoser = t.lastLoser \/ (u.phase = "losers_bracket" /\ u.lastLoser = l),
                    \A p \in People : u.lost[p] > 0 => t.lost[p] > 0 \/ p = l
             PROVE  Running(u)
  BY DEF MatchRecord
<1>1. /\ w \in People /\ l \in People /\ w # l /\ Bye \notin People
      /\ InRing(t.pair) = {w, l}
  <2>1. w \in People /\ l \in People /\ Bye \notin People
    BY TournamentAssumption
  <2>2. t.pair # NoPair
    BY <2>1 DEF NoPair
  <2>3. t.pair[1] # t.pair[2]
    BY <2>2 DEF Running, Separate
  <2> QED  BY <2>1, <2>3 DEF InRing
<1>2. /\ w \notin ToSet(t.winners) /\ l \notin ToSet(t.winners)
      /\ w \notin OnList(t.bracket) /\ l \notin OnList(t.bracket)
      /\ OnList(t.bracket) \cap ToSet(t.winners) = {} /\ Different(t.winners) /\ Apart(t.bracket)
  BY <1>1 DEF Running, Separate
<1>3. t.winners \in Lists
  BY DEF Running, TourRows
<1>4. Different(u.winners) /\ ToSet(u.winners) = ToSet(t.winners) \cup {w}
  BY <1>1, <1>2, <1>3, WinnerJoins
<1>5. Standing(u) \subseteq Standing(t) /\ l \notin Standing(u) /\ l \in Standing(t)
  BY <1>1, <1>2, <1>4, NobodyLeft DEF Standing
<1>6. Separate(u)
  BY <1>2, <1>4, NobodyLeft DEF Separate
<1>7. Ranked(u)
  BY <1>5 DEF Running, Ranked
<1>8. l \notin Placed(u.places) /\ l \in u.regs
  BY <1>5 DEF Running, Ranked, FromRegs, Alike
<1>9. FromRegs(u)
  <2>1. /\ Standing(t) \cup Placed(t.places) \cup ({t.runner, t.lastLoser} \ {Bye}) \subseteq t.regs
        /\ \A p \in People : t.lost[p] > 0 => p \in t.regs
    BY DEF Running, FromRegs
  <2>2. {u.runner, u.lastLoser} \ {Bye} \subseteq u.regs
    BY <1>8, <2>1 DEF Alike
  <2>3. \A p \in People : u.lost[p] > 0 => p \in u.regs
    BY <1>8, <2>1 DEF Alike
  <2> QED  BY <1>5, <2>1, <2>2, <2>3 DEF FromRegs, Alike
<1>10. Awaiting(u)
  <2>1. CASE u.phase = "championship"
    BY <1>5, <2>1 DEF Running, Awaiting
  <2>2. CASE u.phase = "losers_bracket"
    BY <1>5, <1>8, <2>2 DEF Running, Awaiting
  <2> QED  BY <2>1, <2>2 DEF Awaiting
<1> QED  BY <1>6, <1>7, <1>9, <1>10 DEF Running

\* The result of a fight.
LEMMA WinnerRecorded ==
  ASSUME NEW t, Running(t), t.pair \in People \X People, NEW w \in {t.pair[1], t.pair[2]}
  PROVE  LET u == RecordWinner(t, w)
         IN  Running(u) /\ Alike(t, u) /\ u.pair = NoPair /\ u.status = "in_progress"
<1>1. t \in TourRows /\ t.pair[1] \in People /\ t.pair[2] \in People
  BY DEF Running
<1>2. PICK l : l = IF t.pair[1] = w THEN t.pair[2] ELSE t.pair[1]
  OBVIOUS
<1>3. l \in People /\ w \in People /\ ((w = t.pair[1] /\ l = t.pair[2]) \/ (w = t.pair[2] /\ l = t.pair[1]))
  <2>1. CASE t.pair[1] = w
    BY <1>1, <1>2, <2>1
  <2>2. CASE t.pair[1] # w
    <3>1. w = t.pair[2] /\ l = t.pair[1]
      BY <1>2, <2>2
    <3> QED  BY <1>1, <3>1
  <2> QED  BY <2>1, <2>2
<1>4. PICK n : n = IF t.phase = "championship"
                   THEN IF t.matchSize <= 2 THEN [t EXCEPT !.runner = l]
                        ELSE [t EXCEPT !.lost[l] = IF @ = 0 THEN t.round ELSE @]
                   ELSE IF t.matchSize <= 2 THEN [t EXCEPT !.lastLoser = l] ELSE t
  OBVIOUS
<1>5. RecordWinner(t, w) = EndMatch([n EXCEPT !.winners = Append(@, w)])
  BY <1>2, <1>4 DEF RecordWinner
<1>6. /\ n \in TourRows /\ Alike(t, n) /\ n.bracket = t.bracket /\ n.winners = t.winners
      /\ n.phase = t.phase /\ n.places = t.places /\ n.runner \in {t.runner, l}
      /\ (n.lastLoser = t.lastLoser \/ (n.phase = "losers_bracket" /\ n.lastLoser = l))
      /\ \A p \in People : n.lost[p] > 0 => t.lost[p] > 0 \/ p = l
  <2>1. CASE t.phase = "championship" /\ t.matchSize <= 2
    <3>1. n = [t EXCEPT !.runner = l] /\ l \in Entrants
      BY <1>3, <1>4, <2>1 DEF Entrants
    <3>2. /\ n \in TourRows /\ n.regs = t.regs /\ n.escrow = t.escrow /\ n.gated = t.gated
          /\ n.bracket = t.bracket /\ n.winners = t.winners /\ n.phase = t.phase
          /\ n.places = t.places /\ n.runner = l /\ n.lastLoser = t.lastLoser /\ n.lost = t.lost
      BY <1>1, <3>1 DEF TourRows
    <3> QED  BY <3>2 DEF Alike
  <2>2. CASE t.phase = "championship" /\ ~(t.matchSize <= 2)
    <3>1. PICK lost : lost = [t.lost EXCEPT ![l] = IF @ = 0 THEN t.round ELSE @]
      OBVIOUS
    <3>2. lost \in [People -> Nat] /\ \A p \in People : lost[p] > 0 => t.lost[p] > 0 \/ p = l
      <4>1. t.lost \in [People -> Nat] /\ t.round \in Nat
        BY <1>1 DEF TourRows
      <4> QED  BY <1>3, <3>1, <4>1
    <3>3. n = [t EXCEPT !.lost = lost]
      BY <1>1, <1>4, <2>2, <3>1 DEF TourRows
    <3>4. /\ n \in TourRows /\ n.regs = t.regs /\ n.escrow = t.escrow /\ n.gated = t.gated
          /\ n.bracket = t.bracket /\ n.winners = t.winners /\ n.phase = t.phase
          /\ n.places = t.places /\ n.runner = t.runner /\ n.lastLoser = t.lastLoser /\ n.lost = lost
      BY <1>1, <3>2, <3>3 DEF TourRows
    <3> QED  BY <3>2, <3>4 DEF Alike
  <2>3. CASE t.phase # "championship" /\ t.matchSize <= 2
    <3>1. n = [t EXCEPT !.lastLoser = l] /\ l \in Entrants /\ t.phase = "losers_bracket"
      BY <1>1, <1>3, <1>4, <2>3 DEF Entrants, TourRows
    <3>2. /\ n \in TourRows /\ n.regs = t.regs /\ n.escrow = t.escrow /\ n.gated = t.gated
          /\ n.bracket = t.bracket /\ n.winners = t.winners /\ n.phase = t.phase
          /\ n.places = t.places /\ n.runner = t.runner /\ n.lastLoser = l /\ n.lost = t.lost
      BY <1>1, <3>1 DEF TourRows
    <3> QED  BY <3>1, <3>2 DEF Alike
  <2>4. CASE t.phase # "championship" /\ ~(t.matchSize <= 2)
    <3>1. n = t
      BY <1>4, <2>4
    <3> QED  BY <1>1, <3>1 DEF Alike
  <2> QED  BY <2>1, <2>2, <2>3, <2>4
<1>7. PICK v : v = Append(t.winners, w)
  OBVIOUS
<1>8. v \in Lists
  BY <1>1, <1>3, <1>7, AppendProperties DEF TourRows, Lists
<1>9. PICK u : u = RecordWinner(t, w)
  OBVIOUS
<1>10. u = [n EXCEPT !.winners = v, !.pair = NoPair, !.matchSize = 0, !.status = "in_progress"]
  BY <1>5, <1>6, <1>7, <1>9 DEF EndMatch, TourRows
<1>11. u \in TourRows
  BY <1>6, <1>8, <1>10 DEF TourRows, Statuses
<1>12. /\ Alike(t, u) /\ u.bracket = t.bracket /\ u.winners = v /\ u.pair = NoPair
       /\ u.phase = t.phase /\ u.places = t.places /\ u.runner = n.runner
       /\ u.lastLoser = n.lastLoser /\ u.lost = n.lost /\ u.status = "in_progress"
  BY <1>6, <1>10 DEF TourRows, Alike
<1>13. /\ u.winners = Append(t.winners, w) /\ u.runner \in {t.runner, l}
       /\ (u.lastLoser = t.lastLoser \/ (u.phase = "losers_bracket" /\ u.lastLoser = l))
       /\ \A p \in People : u.lost[p] > 0 => t.lost[p] > 0 \/ p = l
  BY <1>6, <1>7, <1>12
<1>14. MatchRecord(t, u, w, l)
  BY <1>3, <1>11, <1>12, <1>13 DEF MatchRecord
<1>15. Running(u)
  BY <1>14, MatchRecorded
<1> QED  BY <1>9, <1>12, <1>15

\* A match that one side or both could not appear in.
LEMMA ForfeitRecorded ==
  ASSUME NEW t, Running(t), t.pair \in People \X People, NEW usable
  PROVE  LET u == RecordForfeit(t, usable)
         IN  Running(u) /\ Alike(t, u) /\ u.pair = NoPair /\ u.status = "in_progress"
<1>1. t \in TourRows /\ t.pair[1] \in People /\ t.pair[2] \in People
  BY DEF Running
<1>2. PICK able : able = {t.pair[1], t.pair[2]} \cap usable
  OBVIOUS
<1>3. PICK v : v = IF able = {} THEN t.winners ELSE Append(t.winners, CHOOSE p \in able : TRUE)
  OBVIOUS
<1>4. PICK u : u = RecordForfeit(t, usable)
  OBVIOUS
<1>5. u = [t EXCEPT !.winners = v, !.pair = NoPair, !.matchSize = 0, !.status = "in_progress"]
  BY <1>1, <1>2, <1>3, <1>4 DEF RecordForfeit, EndMatch, TourRows
<1>6. v \in Lists
  BY <1>1, <1>2, <1>3, AppendProperties DEF TourRows, Lists
<1>7. u \in TourRows
  BY <1>1, <1>5, <1>6 DEF TourRows, Statuses
<1>8. /\ Alike(t, u) /\ u.bracket = t.bracket /\ u.winners = v /\ u.pair = NoPair
      /\ u.phase = t.phase /\ u.places = t.places /\ u.runner = t.runner
      /\ u.lastLoser = t.lastLoser /\ u.lost = t.lost /\ u.status = "in_progress"
  BY <1>1, <1>5 DEF TourRows, Alike
<1>9. CASE able = {}
  <2>1. u.winners = t.winners
    BY <1>3, <1>8, <1>9
  <2>2. Separate(u) /\ Standing(u) \subseteq Standing(t)
    BY <1>8, <2>1, NobodyLeft DEF Running, Separate, Standing
  <2> QED  BY <1>4, <1>7, <1>8, <2>2, FewerStand
<1>10. CASE able # {}
  <2>1. PICK w : w = CHOOSE p \in able : TRUE
    OBVIOUS
  <2>2. w \in able
    BY <1>10, <2>1
  <2>3. w = t.pair[1] \/ w = t.pair[2]
    BY <1>2, <2>2
  <2>4. PICK l : (w = t.pair[1] /\ l = t.pair[2]) \/ (w = t.pair[2] /\ l = t.pair[1])
    BY <2>3
  <2>5. u.winners = Append(t.winners, w)
    BY <1>3, <1>8, <1>10, <2>1
  <2>6. MatchRecord(t, u, w, l)
    BY <1>7, <1>8, <2>4, <2>5 DEF MatchRecord
  <2>7. Running(u)
    BY <2>6, MatchRecorded
  <2> QED  BY <1>4, <1>8, <2>7
<1> QED  BY <1>9, <1>10

-----------------------------------------------------------------------------
(* Sessions.                                                                *)

Going == {"bracket_ready", "in_progress"}

\* A session that began with row t: how it stands when it goes on, waits, stops or is over.
SessionInv(s, t, able) ==
  /\ DOMAIN s = {"tour", "killed", "left", "end"}
  /\ Alike(t, s.tour) /\ s.killed \subseteq able
  /\ s.end \in {"", "waiting", "continue", "completed"}
  /\ s.end \in {"", "continue"} =>
       Running(s.tour) /\ s.tour.pair = NoPair /\ s.tour.status \in Going
  /\ s.end = "waiting" =>
       Running(s.tour) /\ s.tour.pair # NoPair /\ s.tour.status = "awaiting_player_match"
  /\ s.end = "completed" => Over(s.tour) /\ s.tour.pair = NoPair

\* A match that is over, in a session that has matches left or in one that stops.
LEMMA PlayedRuns ==
  ASSUME NEW t, NEW able, NEW s, NEW k, k \subseteq able,
         NEW u, Running(u), Alike(t, u), u.pair = NoPair, u.status = "in_progress"
  PROVE  SessionInv(Played(s, u, k), t, able)
<1>1. PICK r : r = SettleBracket(u)
  OBVIOUS
<1>2. Between(r) /\ Alike(t, r)
  BY <1>1, SettleRuns DEF Alike
<1>3. CASE s.left = 1
  <2>1. PICK x : x = Played(s, u, k)
    OBVIOUS
  <2>2. /\ DOMAIN x = {"tour", "killed", "left", "end"} /\ x.tour = r /\ x.killed = k
        /\ x.end = IF r.status = "completed" THEN "completed" ELSE "continue"
    BY <1>1, <1>3, <2>1 DEF Played
  <2>3. CASE r.status = "completed"
    <3>1. x.end = "completed" /\ Over(r) /\ r.pair = NoPair
      BY <1>2, <2>2, <2>3 DEF Between
    <3> QED  BY <1>2, <2>1, <2>2, <3>1 DEF SessionInv
  <2>4. CASE r.status # "completed"
    <3>1. x.end = "continue" /\ Running(r) /\ r.pair = NoPair /\ r.status \in Going
      BY <1>2, <2>2, <2>4 DEF Between, Going
    <3> QED  BY <1>2, <2>1, <2>2, <3>1 DEF SessionInv
  <2> QED  BY <2>3, <2>4
<1>4. CASE s.left # 1
  <2>1. PICK x : x = Played(s, u, k)
    OBVIOUS
  <2>2. /\ DOMAIN x = {"tour", "killed", "left", "end"} /\ x.tour = u /\ x.killed = k /\ x.end = ""
    BY <1>4, <2>1 DEF Played
  <2> QED  BY <2>1, <2>2 DEF SessionInv, Going
<1> QED  BY <1>3, <1>4

\* What a fight of the session's entry leaves: a winner of the pair, and at most one dead.
LEMMA FightHasOutcome ==
  ASSUME NEW s, NEW m, NEW pair, NEW x \in Fights(s, m, pair)
  PROVE  \E w \in pair, k \in NoneOrOne(pair) : x = Played(s, RecordWinner(m, w), s.killed \cup k)
  BY DEF Fights

\* One entry of the bracket.
LEMMA EntryRuns ==
  ASSUME NEW t, NEW able, NEW s, SessionInv(s, t, able), NEW x \in Entry(s, able)
  PROVE  SessionInv(x, t, able)
<1>1. CASE s.end # ""
  BY <1>1 DEF Entry
<1>2. CASE s.end = ""
  <2>1. /\ Running(s.tour) /\ s.tour.pair = NoPair /\ s.tour.status \in Going
        /\ Alike(t, s.tour) /\ s.killed \subseteq able /\ DOMAIN s = {"tour", "killed", "left", "end"}
    BY <1>2 DEF SessionInv
  <2>2. PICK r : r = SettleBracket(s.tour)
    OBVIOUS
  <2>3. Between(r) /\ Alike(t, r)
    BY <2>1, <2>2, SettleRuns DEF Alike, Going
  <2>4. PICK m : m = BeginMatch(r)
    OBVIOUS
  <2>5. PICK pair : pair = {m.pair[1], m.pair[2]}
    OBVIOUS
  <2>6. PICK usable : usable = able \ s.killed
    OBVIOUS
  <2>7. CASE r.status = "completed"
    <3>1. x = [s EXCEPT !.tour = r, !.end = "completed"]
      BY <1>2, <2>2, <2>7 DEF Entry
    <3>2. /\ DOMAIN x = {"tour", "killed", "left", "end"} /\ x.tour = r /\ x.killed = s.killed
          /\ x.end = "completed"
      BY <2>1, <3>1
    <3>3. Over(r) /\ r.pair = NoPair
      BY <2>3, <2>7 DEF Between
    <3> QED  BY <2>1, <2>3, <3>2, <3>3 DEF SessionInv
  <2>8. CASE r.status # "completed"
    <3>1. Running(r) /\ r.pair = NoPair /\ r.status \in Going /\ r.bracket # <<>>
      BY <2>3, <2>8 DEF Between, Going
    <3>2. CASE Head(r.bracket)[2] = Bye
      <4>1. PICK u : u = PassBye(r, usable)
        OBVIOUS
      <4>2. Running(u) /\ Alike(t, u) /\ u.pair = NoPair /\ u.status \in Going
        BY <2>3, <3>1, <4>1, ByePasses DEF Alike
      <4>3. x = [s EXCEPT !.tour = u]
        BY <1>2, <2>2, <2>6, <2>8, <3>2, <4>1 DEF Entry
      <4>4. /\ DOMAIN x = {"tour", "killed", "left", "end"} /\ x.tour = u /\ x.killed = s.killed
            /\ x.end = ""
        BY <1>2, <2>1, <4>3
      <4> QED  BY <2>1, <4>2, <4>4 DEF SessionInv
    <3>3. CASE Head(r.bracket)[2] # Bye
      <4>1. /\ Running(m) /\ Alike(t, m) /\ m.pair \in People \X People /\ m.pair # NoPair
            /\ m.status = "in_progress"
        BY <2>3, <2>4, <3>1, <3>3, MatchCalled DEF Alike
      <4>2. CASE ~(pair \subseteq usable)
        <5>1. PICK u : u = RecordForfeit(m, usable)
          OBVIOUS
        <5>2. Running(u) /\ Alike(t, u) /\ u.pair = NoPair /\ u.status = "in_progress"
          BY <4>1, <5>1, ForfeitRecorded DEF Alike
        <5>3. x = Played(s, u, s.killed)
          BY <1>2, <2>2, <2>4, <2>5, <2>6, <2>8, <3>3, <4>2, <5>1 DEF Entry
        <5> QED  BY <2>1, <5>2, <5>3, PlayedRuns
      <4>3. CASE pair \subseteq usable /\ Player \in pair
        <5>1. PICK u : u = [m EXCEPT !.status = "awaiting_player_match", !.combat = "active"]
          OBVIOUS
        <5>2. m \in TourRows
          BY <4>1 DEF Running
        <5>3. /\ u \in TourRows /\ u.regs = m.regs /\ u.escrow = m.escrow /\ u.gated = m.gated
              /\ u.bracket = m.bracket /\ u.winners = m.winners /\ u.pair = m.pair
              /\ u.phase = m.phase /\ u.places = m.places /\ u.runner = m.runner
              /\ u.lastLoser = m.lastLoser /\ u.lost = m.lost /\ u.status = "awaiting_player_match"
          BY <5>1, <5>2 DEF TourRows, Statuses
        <5>4. Separate(u) /\ Standing(u) = Standing(m)
          BY <4>1, <5>3 DEF Running, Separate, Standing
        <5>5. Running(u)
          BY <4>1, <5>3, <5>4, FewerStand DEF Alike
        <5>6. x = [s EXCEPT !.tour = u, !.end = "waiting"]
          BY <1>2, <2>2, <2>4, <2>5, <2>6, <2>8, <3>3, <4>3, <5>1 DEF Entry
        <5>7. /\ DOMAIN x = {"tour", "killed", "left", "end"} /\ x.tour = u /\ x.killed = s.killed
              /\ x.end = "waiting"
          BY <2>1, <5>6
        <5> QED  BY <2>1, <4>1, <5>3, <5>5, <5>7 DEF SessionInv, Alike
      <4>4. CASE pair \subseteq usable /\ Player \notin pair
        <5>0. x \in Fights(s, m, pair)
          BY <1>2, <2>2, <2>4, <2>5, <2>6, <2>8, <3>3, <4>4 DEF Entry
        <5>1. PICK w \in pair, k \in NoneOrOne(pair) :
                x = Played(s, RecordWinner(m, w), s.killed \cup k)
          BY <5>0, FightHasOutcome
        <5>2. PICK u : u = RecordWinner(m, w)
          OBVIOUS
        <5>3. Running(u) /\ Alike(t, u) /\ u.pair = NoPair /\ u.status = "in_progress"
          BY <2>5, <4>1, <5>1, <5>2, WinnerRecorded DEF Alike
        <5>4. s.killed \cup k \subseteq able
          BY <2>1, <2>5, <2>6, <4>4, <5>1 DEF NoneOrOne
        <5> QED  BY <5>1, <5>2, <5>3, <5>4, PlayedRuns
      <4> QED  BY <4>2, <4>3, <4>4
    <3> QED  BY <3>2, <3>3
  <2> QED  BY <2>7, <2>8
<1> QED  BY <1>1, <1>2

\* The sessions after each number of entries.
After(f, s, able, n) ==
  f = [i \in 0 .. n |-> IF i = 0 THEN {s} ELSE UNION {Entry(x, able) : x \in f[i - 1]}]

\* They exist, up to any number.
LEMMA AfterExists ==
  ASSUME NEW s, NEW able
  PROVE  \A n \in Nat : \E f : After(f, s, able, n)
<1> DEFINE N == {n \in Nat : ~\E f : After(f, s, able, n)}
           next(X) == UNION {Entry(x, able) : x \in X}
<1> SUFFICES ASSUME N # {} PROVE FALSE
  OBVIOUS
<1>1. PICK n \in N : \A m \in N : n <= m
  BY LeastNatural
<1>2. n # 0
  <2>1. PICK f : f = [i \in 0 .. 0 |-> {s}]
    OBVIOUS
  <2>2. \A i \in 0 .. 0 : i = 0
    OBVIOUS
  <2>3. f = [i \in 0 .. 0 |-> IF i = 0 THEN {s} ELSE next(f[i - 1])]
    BY <2>1, <2>2
  <2>4. After(f, s, able, 0)
    BY <2>3 DEF After
  <2> QED  BY <2>4
<1>3. n - 1 \in Nat /\ n - 1 \notin N /\ n \in Nat
  BY <1>1, <1>2
<1>4. PICK g : After(g, s, able, n - 1)
  BY <1>3
<1>5. g = [i \in 0 .. n - 1 |-> IF i = 0 THEN {s} ELSE next(g[i - 1])]
  BY <1>4 DEF After
<1> HIDE DEF next, N
<1>6. PICK h : h = [i \in 0 .. n |-> IF i < n THEN g[i] ELSE next(g[n - 1])]
  OBVIOUS
<1>7. \A i \in 0 .. n : h[i] = IF i = 0 THEN {s} ELSE next(h[i - 1])
  <2> SUFFICES ASSUME NEW i \in 0 .. n
               PROVE  h[i] = IF i = 0 THEN {s} ELSE next(h[i - 1])
    OBVIOUS
  <2>1. CASE i = n
    <3>1. h[n] = next(g[n - 1]) /\ h[n - 1] = g[n - 1]
      BY <1>3, <1>6
    <3> QED  BY <1>2, <2>1, <3>1
  <2>2. CASE i # n
    <3>1. i \in 0 .. n - 1 /\ h[i] = g[i] /\ (i # 0 => h[i - 1] = g[i - 1])
      BY <1>3, <1>6, <2>2
    <3>2. g[i] = IF i = 0 THEN {s} ELSE next(g[i - 1])
      BY <1>5, <3>1
    <3> QED  BY <3>1, <3>2
  <2> QED  BY <2>1, <2>2
<1>8. h = [i \in 0 .. n |-> IF i = 0 THEN {s} ELSE next(h[i - 1])]
  <2>1. DOMAIN h = 0 .. n
    BY <1>6
  <2> QED  BY <1>6, <1>7, <2>1
<1>9. After(h, s, able, n)
  BY <1>8 DEF After, next
<1> QED  BY <1>1, <1>9 DEF N

\* Whatever its fights bring, a session ends in one of the ways it can.
LEMMA SessionRuns ==
  ASSUME NEW t, NEW able, NEW s, SessionInv(s, t, able), NEW r \in Session(s, able)
  PROVE  SessionInv(r, t, able)
<1>1. MaxEntries \in Nat
  <2>1. IsFiniteSet(People)
    BY TournamentAssumption, FS_Union DEF People
  <2>2. Cardinality(People) \in Nat
    BY <2>1, FS_CardinalityType
  <2> QED  BY <2>2 DEF MaxEntries
<1>2. PICK n : n = MaxEntries
  OBVIOUS
<1>3. PICK f : f = CHOOSE x : After(x, s, able, n)
  OBVIOUS
<1>4. After(f, s, able, n)
  BY <1>1, <1>2, <1>3, AfterExists
<1>5. Session(s, able) = f[n]
  BY <1>2, <1>3 DEF Session, After
<1> DEFINE N == {i \in 0 .. n : \E x \in f[i] : ~SessionInv(x, t, able)}
<1>6. N = {}
  <2> SUFFICES ASSUME N # {} PROVE FALSE
    OBVIOUS
  <2>1. N \subseteq Nat
    BY <1>1, <1>2
  <2>2. PICK i \in N : \A j \in N : i <= j
    BY <2>1, LeastNatural
  <2>3. i \in 0 .. n /\ f[i] = IF i = 0 THEN {s} ELSE UNION {Entry(x, able) : x \in f[i - 1]}
    BY <1>4 DEF After
  <2>4. CASE i = 0
    BY <2>3, <2>4
  <2>5. CASE i # 0
    <3>1. i - 1 \in 0 .. n /\ i - 1 \notin N
      BY <1>1, <1>2, <2>2, <2>3, <2>5
    <3>2. \A x \in f[i - 1] : SessionInv(x, t, able)
      BY <3>1
    <3>3. \A y \in f[i] : \E x \in f[i - 1] : y \in Entry(x, able)
      BY <2>3, <2>5
    <3>4. \A y \in f[i] : SessionInv(y, t, able)
      BY <3>2, <3>3, EntryRuns
    <3> QED  BY <3>4
  <2> QED  BY <2>4, <2>5
<1>7. n \in 0 .. n
  BY <1>1, <1>2
<1> QED  BY <1>5, <1>6, <1>7

\* A row that a session can start from.
Ready(t) ==
  /\ Running(t)
  /\ \/ t.status \in Going /\ t.pair = NoPair
     \/ t.status = "awaiting_player_match" /\ t.pair # NoPair

\* A row whose match the player has fought: the session goes on after its record.
LEMMA PlayedOn ==
  ASSUME NEW t, Ready(t), t.status = "awaiting_player_match", t.combat # "active", NEW able, NEW left
  PROVE  \E x : Resume(t, able, left) = Session(x, able) /\ SessionInv(x, t, able)
<1>0. PICK b : b = Begun(t, left)
  OBVIOUS
<1>1. Running(t) /\ t.pair # NoPair /\ t \in TourRows
  BY DEF Ready, Going, Running
<1>2. PICK c : c = [t EXCEPT !.combat = "none"]
  OBVIOUS
<1>3. /\ c \in TourRows /\ c.regs = t.regs /\ c.escrow = t.escrow /\ c.gated = t.gated
      /\ c.bracket = t.bracket /\ c.winners = t.winners /\ c.pair = t.pair
      /\ c.phase = t.phase /\ c.places = t.places /\ c.runner = t.runner
      /\ c.lastLoser = t.lastLoser /\ c.lost = t.lost
  BY <1>1, <1>2 DEF TourRows
<1>4. Separate(c) /\ Standing(c) = Standing(t)
  BY <1>1, <1>3 DEF Running, Separate, Standing
<1>5. Running(c) /\ Alike(t, c)
  BY <1>1, <1>3, <1>4, FewerStand DEF Alike
<1>6. c.pair \in People \X People
  BY <1>1, <1>3 DEF TourRows
<1>7. PICK w : w = IF t.combat = "side_a" THEN t.pair[1] ELSE t.pair[2]
  OBVIOUS
<1>8. w \in {c.pair[1], c.pair[2]}
  BY <1>3, <1>7
<1>9. PICK u : u = RecordWinner(c, w)
  OBVIOUS
<1>10. Running(u) /\ Alike(t, u) /\ u.pair = NoPair /\ u.status = "in_progress"
  BY <1>5, <1>6, <1>8, <1>9, WinnerRecorded DEF Alike
<1>11. SessionInv(Played(b, u, {}), t, able)
  BY <1>10, PlayedRuns
<1>12. Resume(t, able, left) = Session(Played(b, u, {}), able)
  BY <1>0, <1>2, <1>7, <1>9 DEF Resume
<1> QED  BY <1>11, <1>12

\* A session takes up a row, after the player's match if there is one.
LEMMA ResumeRuns ==
  ASSUME NEW t, Ready(t), NEW able, NEW left, NEW r \in Resume(t, able, left)
  PROVE  SessionInv(r, t, able)
<1>1. PICK b : b = Begun(t, left)
  OBVIOUS
<1>2. /\ DOMAIN b = {"tour", "killed", "left", "end"} /\ b.tour = t /\ b.killed = {} /\ b.end = ""
  BY <1>1 DEF Begun
<1>3. CASE t.status # "awaiting_player_match"
  <2>1. Running(t) /\ t.status \in Going /\ t.pair = NoPair
    BY <1>3 DEF Ready
  <2>2. SessionInv(b, t, able)
    BY <1>2, <2>1 DEF SessionInv, Alike
  <2>3. Resume(t, able, left) = Session(b, able)
    BY <1>1, <1>3 DEF Resume
  <2> QED  BY <2>2, <2>3, SessionRuns
<1>4. CASE t.status = "awaiting_player_match" /\ t.combat = "active"
  <2>1. Running(t) /\ t.pair # NoPair
    BY <1>4 DEF Ready, Going
  <2>2. r = [b EXCEPT !.end = "waiting"]
    BY <1>1, <1>4 DEF Resume
  <2>3. DOMAIN r = {"tour", "killed", "left", "end"} /\ r.tour = t /\ r.killed = {} /\ r.end = "waiting"
    BY <1>2, <2>2
  <2> QED  BY <1>4, <2>1, <2>3 DEF SessionInv, Alike
<1>5. CASE t.status = "awaiting_player_match" /\ t.combat # "active"
  <2>1. PICK x : Resume(t, able, left) = Session(x, able) /\ SessionInv(x, t, able)
    BY <1>5, PlayedOn
  <2> QED  BY <2>1, SessionRuns
<1> QED  BY <1>3, <1>4, <1>5

-----------------------------------------------------------------------------
(* The row of the registry.                                                 *)

Early == {"none", "registration_open"}

RowInv(t) ==
  /\ t \in TourRows /\ t.status # "completed"
  /\ IF t.status = "popped" THEN Over(t) ELSE Running(t)
  /\ t.status \in Early => /\ t.bracket = <<>> /\ t.winners = <<>> /\ t.runner = Bye
                           /\ t.phase = "championship"
  /\ t.pair # NoPair <=> t.status = "awaiting_player_match"

\* A row that only gets more entrants, more silver or another mark.
LEMMA RowGrows ==
  ASSUME NEW t, RowInv(t), NEW u \in TourRows, t.regs \subseteq u.regs, u.status = t.status,
         u.bracket = t.bracket, u.winners = t.winners, u.pair = t.pair, u.phase = t.phase,
         u.runner = t.runner, u.lastLoser = t.lastLoser, u.lost = t.lost, u.places = t.places
  PROVE  RowInv(u)
<1>1. Standing(u) = Standing(t) /\ (Ranked(t) => Ranked(u))
  BY DEF Standing, Ranked
<1>2. Running(t) => FromRegs(u) /\ Separate(u) /\ Awaiting(u)
  BY <1>1 DEF Running, FromRegs, Separate, Awaiting
<1>3. Running(t) => Running(u)
  BY <1>1, <1>2 DEF Running
<1>4. Over(t) => Over(u)
  BY <1>1 DEF Over
<1> QED  BY <1>3, <1>4 DEF RowInv

\* The registration opens.
LEMMA RowOpens ==
  ASSUME NEW t, RowInv(t), t.status = "none", NEW u, u = [t EXCEPT !.status = "registration_open"]
  PROVE  RowInv(u) /\ u.escrow = t.escrow
<1>1. t \in TourRows /\ Running(t)
  BY DEF RowInv
<1>2. /\ u \in TourRows /\ u.regs = t.regs /\ u.escrow = t.escrow /\ u.gated = t.gated
      /\ u.bracket = t.bracket /\ u.winners = t.winners /\ u.pair = t.pair
      /\ u.phase = t.phase /\ u.places = t.places /\ u.runner = t.runner
      /\ u.lastLoser = t.lastLoser /\ u.lost = t.lost /\ u.status = "registration_open"
  BY <1>1 DEF TourRows, Statuses
<1>3. Separate(u) /\ Standing(u) = Standing(t)
  BY <1>1, <1>2 DEF Running, Separate, Standing
<1>4. Running(u)
  BY <1>1, <1>2, <1>3, FewerStand DEF Alike
<1> QED  BY <1>2, <1>4 DEF RowInv, Early

\* The registration closes and the first bracket is drawn.
LEMMA RowCloses ==
  ASSUME NEW t, RowInv(t), t.status = "registration_open"
  PROVE  LET u == CloseRegistration(t)
         IN  RowInv(u) /\ Ready(u) /\ Alike(t, u)
<1>1. t \in TourRows /\ Running(t) /\ t.winners = <<>> /\ t.runner = Bye /\ t.pair = NoPair
      /\ t.phase = "championship" /\ t.regs \subseteq People
  BY DEF RowInv, Early, TourRows
<1>2. PICK b : b = Draw(InOrder(t.regs, BySeed))
  OBVIOUS
<1>3. BracketOf(b, t.regs)
  BY <1>1, <1>2, SeedsOrder, DrawOfPeople
<1>4. PICK u : u = CloseRegistration(t)
  OBVIOUS
<1>5. u = [t EXCEPT !.status = "bracket_ready", !.bracket = b, !.size = Cardinality(t.regs)]
  BY <1>2, <1>4 DEF CloseRegistration
<1>6. /\ u.bracket = b /\ u.winners = <<>> /\ u.pair = NoPair /\ u.status = "bracket_ready"
      /\ u.phase = t.phase /\ u.places = t.places /\ u.runner = Bye
      /\ u.lastLoser = t.lastLoser /\ u.lost = t.lost
      /\ u.regs = t.regs /\ u.escrow = t.escrow /\ u.gated = t.gated
  BY <1>1, <1>5 DEF TourRows
<1>7. Separate(u) /\ Standing(u) \subseteq t.regs /\ b \in Brackets
  BY <1>1, <1>3, <1>6, DrawnAgain
<1>8. Cardinality(t.regs) \in Nat
  <2>1. IsFiniteSet(People)
    BY TournamentAssumption, FS_Union DEF People
  <2> QED  BY <1>1, <2>1, FS_Subset, FS_CardinalityType
<1>9. u \in TourRows
  BY <1>1, <1>5, <1>7, <1>8 DEF TourRows, Statuses
<1>10. t.places = NoTour.places /\ t.lastLoser = Bye
  BY <1>1 DEF Running, Awaiting
<1>11. Placed(u.places) = {}
  BY <1>6, <1>10 DEF Placed, NoTour
<1>12. Ranked(u)
  BY <1>6, <1>10, <1>11 DEF Ranked, NoTour
<1>13. Awaiting(u)
  <2>1. Bye \notin Standing(u)
    BY <1>1, <1>7, TournamentAssumption
  <2> QED  BY <1>1, <1>6, <1>10, <2>1 DEF Awaiting
<1>14. FromRegs(u)
  BY <1>1, <1>6, <1>7, <1>10, <1>11 DEF FromRegs, Running
<1>15. Running(u)
  BY <1>7, <1>9, <1>12, <1>13, <1>14 DEF Running
<1> QED  BY <1>4, <1>6, <1>9, <1>15 DEF RowInv, Ready, Alike, Going, Early

-----------------------------------------------------------------------------
(* Deployments and the silver they keep.                                    *)

OpStatuses == {"none", "mobilizing", "traveling_outbound", "arrived_pending", "at_tournament",
               "return_preparing", "traveling_return"}
OpRecs == [status : OpStatuses, members : SUBSET People, fee : Nat, board : Nat, seats : Nat]

KeptBy(x) == x.fee + x.board + x.seats

\* A deployment that is not one has nobody and nothing; one that has arrived keeps nothing.
IsOp(o, x) ==
  /\ x \in OpRecs
  /\ (x.status = "none" \/ x.members = {} => x = NoOp)
  /\ (x.status = "at_tournament" => KeptBy(x) = 0)
  /\ (o \in People => x.seats = 0)
  /\ (o \in Sponsors => x.fee = 0)

\* Nobody is in two of them, or in one and dead.
TripInv(D, gone) ==
  /\ D \in [Ops -> OpRecs] /\ \A o \in Ops : IsOp(o, D[o]) /\ D[o].members \cap gone = {}
  /\ \A o, s \in Ops : \A p \in D[o].members \cap D[s].members : o = s

HeldIn(D) == SumFunction([o \in Ops |-> KeptBy(D[o])])

\* There are finitely many.
LEMMA OpsFinite == IsFiniteSet(People) /\ IsFiniteSet(Ops)
<1>1. IsFiniteSet(People)
  BY TournamentAssumption, FS_Union DEF People
<1>2. IsFiniteSet(Sponsors)
  <2>1. IsFiniteSet({"host"}) /\ Sponsors = {"host"} \cup {"guest"}
    BY FS_Singleton DEF Sponsors
  <2> QED  BY <2>1, FS_AddElement
<1> QED  BY <1>1, <1>2, FS_Union DEF Ops

\* No deployment, nobody and nothing.
LEMMA NoOpIsOp == ASSUME NEW o PROVE IsOp(o, NoOp) /\ KeptBy(NoOp) = 0 /\ NoOp.members = {}
BY DEF IsOp, NoOp, OpRecs, OpStatuses, KeptBy

\* What one keeps is a number.
LEMMA KeptType == ASSUME NEW x \in OpRecs PROVE KeptBy(x) \in Nat
BY DEF OpRecs, KeptBy

\* What all keep is a sum.
LEMMA HeldType ==
  ASSUME NEW D \in [Ops -> OpRecs]
  PROVE  [o \in Ops |-> KeptBy(D[o])] \in [Ops -> Int] /\ HeldIn(D) \in Int
<1>1. PICK f : f = [o \in Ops |-> KeptBy(D[o])]
  OBVIOUS
<1>2. f \in [Ops -> Int]
  BY <1>1, KeptType
<1>3. SumFunction(f) \in Int
  BY <1>2, OpsFinite, SumType
<1> QED  BY <1>1, <1>2, <1>3 DEF HeldIn

\* One deployment changes: so does what is held.
LEMMA OneOpChanges ==
  ASSUME NEW D \in [Ops -> OpRecs], NEW o \in Ops, NEW x \in OpRecs
  PROVE  /\ [D EXCEPT ![o] = x] \in [Ops -> OpRecs]
         /\ HeldIn([D EXCEPT ![o] = x]) = HeldIn(D) - KeptBy(D[o]) + KeptBy(x)
<1>1. PICK E : E = [D EXCEPT ![o] = x]
  OBVIOUS
<1>2. E \in [Ops -> OpRecs] /\ E[o] = x /\ \A s \in Ops \ {o} : E[s] = D[s]
  BY <1>1
<1>3. PICK f : f = [s \in Ops |-> KeptBy(D[s])]
  OBVIOUS
<1>4. PICK g : g = [s \in Ops |-> KeptBy(E[s])]
  OBVIOUS
<1>5. f \in [Ops -> Int] /\ g \in [Ops -> Int]
  BY <1>2, <1>3, <1>4, HeldType
<1>6. f[o] = KeptBy(D[o]) /\ g[o] = KeptBy(x) /\ \A s \in Ops \ {o} : g[s] = f[s]
  BY <1>2, <1>3, <1>4
<1>7. SumFunction(g) = SumFunction(f) - f[o] + g[o]
  BY <1>5, <1>6, OpsFinite, SumUpdate
<1> QED  BY <1>1, <1>2, <1>3, <1>4, <1>6, <1>7 DEF HeldIn

\* The people of a deployment are among those it had or among the free.
Recruits(o, x, D, gone) ==
  \A p \in x.members : \/ p \in D[o].members
                       \/ p \notin gone /\ \A s \in Ops : p \notin D[s].members

\* One deployment changes.
LEMMA OneOpKeeps ==
  ASSUME NEW D, NEW gone, TripInv(D, gone), NEW o \in Ops, NEW x, IsOp(o, x), Recruits(o, x, D, gone)
  PROVE  /\ TripInv([D EXCEPT ![o] = x], gone)
         /\ HeldIn([D EXCEPT ![o] = x]) = HeldIn(D) - KeptBy(D[o]) + KeptBy(x)
<1>1. PICK E : E = [D EXCEPT ![o] = x]
  OBVIOUS
<1>2. D \in [Ops -> OpRecs] /\ x \in OpRecs
  BY DEF TripInv, IsOp
<1>3. E \in [Ops -> OpRecs] /\ E[o] = x /\ \A s \in Ops : s # o => E[s] = D[s]
  BY <1>1, <1>2
<1>4. \A s \in Ops : IsOp(s, E[s])
  BY <1>3 DEF TripInv
<1>5. x.members \cap gone = {}
  BY DEF TripInv, Recruits
<1>6. \A s \in Ops : E[s].members \cap gone = {}
  BY <1>3, <1>5 DEF TripInv
<1>7. \A s \in Ops : s # o => x.members \cap D[s].members = {}
  BY DEF TripInv, Recruits
<1>8. \A r, s \in Ops : \A p \in E[r].members \cap E[s].members : r = s
  BY <1>3, <1>7 DEF TripInv
<1>9. TripInv(E, gone)
  BY <1>3, <1>4, <1>6, <1>8 DEF TripInv
<1> QED  BY <1>1, <1>2, <1>9, OneOpChanges

-----------------------------------------------------------------------------
(* The invariant, and what a step may do to the silver.                     *)

Silvers == [host : Int, guest : Int, market : Nat, region : Nat, player : Int, purses : Int]
Coins(s) == s.host + s.guest + s.market + s.region + s.player + s.purses

TournamentInv == RowInv(tour) /\ TripInv(ops, dead) /\ silver \in Silvers

Accounted ==
  \/ Total' = Total
  \/ \E o \in Ops : /\ Reserve(o) > 0 /\ ops'[o] = NoOp
                    /\ Total' = Total - Reserve(o)

\* A step that keeps the invariant and the books.
Keeps == TournamentInv' /\ Accounted

\* The books balance when what is coined, in escrow and held does.
LEMMA Books ==
  ASSUME Coins(silver') + tour'.escrow + HeldIn(ops') = Coins(silver) + tour.escrow + HeldIn(ops)
  PROVE  Accounted
<1>1. Total = Coins(silver) + tour.escrow + HeldIn(ops)
  BY DEF Total, Coins, HeldIn, KeptBy, Reserve
<1>2. Total' = Coins(silver') + tour'.escrow + HeldIn(ops')
  BY DEF Total, Coins, HeldIn, KeptBy, Reserve
<1> QED  BY <1>1, <1>2 DEF Accounted

\* What the terms of the total are.
LEMMA TotalType ==
  ASSUME TournamentInv
  PROVE  Coins(silver) \in Int /\ tour.escrow \in Nat /\ HeldIn(ops) \in Int
<1>1. Coins(silver) \in Int
  BY DEF TournamentInv, Silvers, Coins
<1>2. tour.escrow \in Nat
  BY DEF TournamentInv, RowInv, TourRows
<1>3. HeldIn(ops) \in Int
  BY HeldType DEF TournamentInv, TripInv
<1> QED  BY <1>1, <1>2, <1>3

\* A step that touches neither deployments nor silver.
LEMMA Quiet ==
  ASSUME TournamentInv, UNCHANGED <<ops, silver, dead>>, RowInv(tour'), tour'.escrow = tour.escrow
  PROVE  Keeps
<1>1. Accounted
  BY Books
<1> QED  BY <1>1 DEF Keeps, TournamentInv

\* A deployment that ends on the way loses what it kept.
LEMMA JourneyEnds ==
  ASSUME TournamentInv, NEW o \in Ops, ops' = [ops EXCEPT ![o] = NoOp], UNCHANGED <<tour, silver, dead>>
  PROVE  Keeps
<1>1. TripInv(ops, dead) /\ IsOp(o, NoOp) /\ KeptBy(NoOp) = 0 /\ NoOp.members = {}
  BY NoOpIsOp DEF TournamentInv
<1>2. TripInv(ops', dead) /\ HeldIn(ops') = HeldIn(ops) - KeptBy(ops[o]) + 0
  BY <1>1, OneOpKeeps DEF Recruits
<1>3. Coins(silver) \in Int /\ tour.escrow \in Nat /\ HeldIn(ops) \in Int
  BY TotalType
<1>4. KeptBy(ops[o]) \in Nat /\ Reserve(o) = KeptBy(ops[o]) /\ ops'[o] = NoOp
  <2>1. ops \in [Ops -> OpRecs]
    BY <1>1 DEF TripInv
  <2>2. KeptBy(ops[o]) \in Nat
    BY <2>1, KeptType
  <2> QED  BY <2>1, <2>2 DEF Reserve, KeptBy
<1>5. Accounted
  <2>1. CASE KeptBy(ops[o]) = 0
    <3>1. HeldIn(ops') = HeldIn(ops)
      BY <1>2, <1>3, <2>1
    <3> QED  BY <3>1, Books
  <2>2. CASE KeptBy(ops[o]) # 0
    <3>1. Total = Coins(silver) + tour.escrow + HeldIn(ops)
      BY DEF Total, Coins, HeldIn, KeptBy, Reserve
    <3>2. Total' = Coins(silver') + tour'.escrow + HeldIn(ops')
      BY DEF Total, Coins, HeldIn, KeptBy, Reserve
    <3>3. Total' = Total - Reserve(o)
      BY <1>2, <1>3, <1>4, <3>1, <3>2
    <3> QED  BY <1>4, <2>2, <3>3 DEF Accounted
  <2> QED  BY <2>1, <2>2
<1> QED  BY <1>2, <1>5 DEF Keeps, TournamentInv

\* A deployment that only moves.
LEMMA OnItsWay ==
  ASSUME TournamentInv, NEW o \in Ops, ops[o].status \notin {"none"},
         NEW st \in OpStatuses \ {"none", "at_tournament"},
         ops' = [ops EXCEPT ![o].status = st], UNCHANGED <<tour, silver, dead>>
  PROVE  Keeps
<1>1. TripInv(ops, dead) /\ ops \in [Ops -> OpRecs] /\ IsOp(o, ops[o])
  BY DEF TournamentInv, TripInv
<1>2. PICK x : x = [ops[o] EXCEPT !.status = st]
  OBVIOUS
<1>3. ops' = [ops EXCEPT ![o] = x]
  BY <1>1, <1>2
<1>4. ops[o] \in OpRecs /\ ops[o].members # {}
  BY <1>1 DEF IsOp, NoOp
<1>5. /\ x \in OpRecs /\ x.status = st /\ x.members = ops[o].members /\ x.fee = ops[o].fee
      /\ x.board = ops[o].board /\ x.seats = ops[o].seats
  BY <1>2, <1>4 DEF OpRecs
<1>6. IsOp(o, x) /\ KeptBy(x) = KeptBy(ops[o])
  BY <1>1, <1>4, <1>5 DEF IsOp, KeptBy
<1>7. TripInv(ops', dead) /\ HeldIn(ops') = HeldIn(ops) - KeptBy(ops[o]) + KeptBy(x)
  <2>1. Recruits(o, x, ops, dead)
    BY <1>5 DEF Recruits
  <2>2. /\ TripInv([ops EXCEPT ![o] = x], dead)
        /\ HeldIn([ops EXCEPT ![o] = x]) = HeldIn(ops) - KeptBy(ops[o]) + KeptBy(x)
    BY <1>1, <1>6, <2>1, OneOpKeeps
  <2> QED  BY <1>3, <2>2
<1>8. HeldIn(ops') = HeldIn(ops)
  <2>1. KeptBy(x) \in Nat /\ HeldIn(ops) \in Int
    BY <1>5, KeptType, TotalType
  <2> QED  BY <1>6, <1>7, <2>1
<1>9. Accounted
  BY <1>8, Books
<1> QED  BY <1>7, <1>9 DEF Keeps, TournamentInv

\* The sponsor's purse and another.
LEMMA SponsorPays ==
  ASSUME NEW s \in Silvers, NEW f \in Sponsors, NEW a \in Int
  PROVE  [s EXCEPT ![f] = @ + a] \in Silvers /\ Coins([s EXCEPT ![f] = @ + a]) = Coins(s) + a
<1>1. CASE f = "host"
  BY <1>1 DEF Silvers, Coins
<1>2. CASE f = "guest"
  BY <1>2 DEF Silvers, Coins
<1> QED  BY <1>1, <1>2 DEF Sponsors

\* The sponsor's purse and the market, or the region, come to hold other amounts.
Paid(s, f, h, g, m) == [s EXCEPT ![f] = h, ![g] = m]

\* What this does to the coins.
LEMMA TwoPurses ==
  ASSUME NEW s \in Silvers, NEW f \in Sponsors, NEW g \in {"market", "region"},
         NEW h \in Int, NEW m \in Nat
  PROVE  /\ Paid(s, f, h, g, m) \in Silvers
         /\ Coins(Paid(s, f, h, g, m)) = Coins(s) - s[f] + h - s[g] + m
         /\ s[f] \in Int /\ s[g] \in Nat
<1>1. f = "host" \/ f = "guest"
  BY DEF Sponsors
<1>2. PICK r : r = Paid(s, f, h, g, m)
  OBVIOUS
<1>3. r \in Silvers
  BY <1>1, <1>2 DEF Silvers, Paid
<1>4. CASE f = "host" /\ g = "market"
  BY <1>2, <1>3, <1>4 DEF Silvers, Coins, Paid
<1>5. CASE f = "host" /\ g = "region"
  BY <1>2, <1>3, <1>5 DEF Silvers, Coins, Paid
<1>6. CASE f = "guest" /\ g = "market"
  BY <1>2, <1>3, <1>6 DEF Silvers, Coins, Paid
<1>7. CASE f = "guest" /\ g = "region"
  BY <1>2, <1>3, <1>7 DEF Silvers, Coins, Paid
<1> QED  BY <1>1, <1>4, <1>5, <1>6, <1>7

\* What the terms of the total are, of any row and any purses.
LEMMA TermTypes ==
  /\ \A s \in Silvers : Coins(s) \in Int
  /\ \A t : RowInv(t) => t.escrow \in Nat
<1>1. \A s \in Silvers : Coins(s) \in Int
  BY DEF Silvers, Coins
<1>2. \A t \in TourRows : t.escrow \in Nat
  BY DEF TourRows
<1> QED  BY <1>1, <1>2 DEF RowInv

\* The smaller of two numbers.
LEMMA MinOfTwo ==
  ASSUME NEW a \in Nat, NEW b \in Nat
  PROVE  Min({a, b}) \in Nat /\ Min({a, b}) <= a /\ Min({a, b}) <= b
<1>1. \E x \in {a, b} : \A y \in {a, b} : x <= y
  OBVIOUS
<1>2. Min({a, b}) \in {a, b} /\ \A y \in {a, b} : Min({a, b}) <= y
  BY <1>1 DEF Min
<1> QED  BY <1>2

\* Somebody who is free is in no deployment, and alive.
LEMMA FreePeople ==
  ASSUME TournamentInv, NEW f
  PROVE  \A p \in Available(f) :
           p \in People \ dead /\ \A s \in Ops : p \notin ops[s].members
<1>1. \A s \in Ops : ops[s].status = "none" => ops[s].members = {}
  BY DEF TournamentInv, TripInv, IsOp, NoOp
<1> QED  BY <1>1 DEF Available, MembersOf, People, Booked, InOp

\* The best of some are some of them.
LEMMA BestAreSome ==
  ASSUME NEW S, S \subseteq People, NEW n
  PROVE  Best(S, n) \subseteq S /\ IsFiniteSet(Best(S, n)) /\ Cardinality(Best(S, n)) \in Nat
<1>1. Best(S, n) \subseteq S
  BY DEF Best
<1>2. IsFiniteSet(Best(S, n))
  BY <1>1, OpsFinite, FS_Subset
<1> QED  BY <1>1, <1>2, FS_CardinalityType

\* The constants are numbers.
LEMMA Amounts ==
  /\ Fee \in Nat /\ Board \in Nat /\ Seat \in Nat /\ Toll \in Nat /\ Gate \in Nat /\ Funds \in Nat
  /\ Sponsors = {"host", "guest"} /\ Sponsors \cap People = {} /\ Bye \notin People
BY TournamentAssumption DEF Sponsors

-----------------------------------------------------------------------------
(* Steps of the calendar, and of people.                                    *)

\* The row keeps its draw.
LEMMA RowType == ASSUME TournamentInv PROVE tour \in TourRows /\ RowInv(tour) /\ tour.escrow \in Nat
BY DEF TournamentInv, RowInv, TourRows

\* Opening the registration changes the status of the empty row, and moves no silver.
LEMMA OpenRegistrationKeeps == ASSUME TournamentInv, OpenRegistration PROVE Keeps
<1>1. tour' = [tour EXCEPT !.status = "registration_open"] /\ tour.status = "none"
      /\ UNCHANGED <<ops, silver, dead>>
  BY DEF OpenRegistration
<1>2. RowInv(tour') /\ tour'.escrow = tour.escrow
  BY <1>1, RowType, RowOpens
<1> QED  BY <1>1, <1>2, Quiet

\* Closing the registration draws the bracket from those who registered.
LEMMA RegistrationClosesKeeps == ASSUME TournamentInv, RegistrationCloses PROVE Keeps
<1>1. UNCHANGED <<ops, silver, dead>>
      /\ tour' = IF tour.status = "registration_open" THEN CloseRegistration(tour) ELSE tour
  BY DEF RegistrationCloses
<1>2. RowInv(tour') /\ tour'.escrow = tour.escrow
  BY <1>1, RowType, RowCloses DEF Alike
<1> QED  BY <1>1, <1>2, Quiet

\* The outcome of the player's match waits to be recorded.
LEMMA FightPlayerMatchKeeps == ASSUME TournamentInv, FightPlayerMatch PROVE Keeps
<1>1. PICK side \in {"side_a", "side_b"} : tour' = [tour EXCEPT !.combat = side]
  BY DEF FightPlayerMatch
<1>2. UNCHANGED <<ops, silver, dead>>
  BY DEF FightPlayerMatch
<1>3. /\ tour' \in TourRows /\ tour'.regs = tour.regs /\ tour'.status = tour.status
      /\ tour'.bracket = tour.bracket /\ tour'.winners = tour.winners /\ tour'.pair = tour.pair
      /\ tour'.phase = tour.phase /\ tour'.runner = tour.runner /\ tour'.lastLoser = tour.lastLoser
      /\ tour'.lost = tour.lost /\ tour'.places = tour.places /\ tour'.escrow = tour.escrow
  BY <1>1, RowType DEF TourRows
<1>4. RowInv(tour')
  BY <1>3, RowType, RowGrows
<1> QED  BY <1>2, <1>3, <1>4, Quiet

\* A day that passes touches neither the draw nor the books.
LEMMA NextDayKeeps == ASSUME TournamentInv, NextDay PROVE Keeps
<1>1. tour' = [tour EXCEPT !.gated = FALSE] /\ UNCHANGED <<ops, silver, dead>>
  BY DEF NextDay
<1>2. /\ tour' \in TourRows /\ tour'.regs = tour.regs /\ tour'.status = tour.status
      /\ tour'.bracket = tour.bracket /\ tour'.winners = tour.winners /\ tour'.pair = tour.pair
      /\ tour'.phase = tour.phase /\ tour'.runner = tour.runner /\ tour'.lastLoser = tour.lastLoser
      /\ tour'.lost = tour.lost /\ tour'.places = tour.places /\ tour'.escrow = tour.escrow
  BY <1>1, RowType DEF TourRows
<1>3. RowInv(tour')
  BY <1>2, RowType, RowGrows
<1> QED  BY <1>1, <1>2, <1>3, Quiet

\* The row with more entrants and more silver in escrow.
LEMMA Entered ==
  ASSUME TournamentInv, NEW R, R \subseteq People, NEW a \in Nat, NEW u,
         u = [tour EXCEPT !.regs = @ \cup R, !.escrow = @ + a]
  PROVE  RowInv(u) /\ u.escrow = tour.escrow + a
<1>1. tour \in TourRows /\ RowInv(tour) /\ tour.escrow \in Nat
  BY RowType
<1>2. PICK e \in Nat : e = tour.escrow + a
  BY <1>1
<1>3. PICK r : r = tour.regs \cup R
  OBVIOUS
<1>4. r \in SUBSET People /\ tour.regs \subseteq r
  BY <1>1, <1>3 DEF TourRows
<1>5. u = [tour EXCEPT !.regs = r, !.escrow = e]
  BY <1>1, <1>2, <1>3 DEF TourRows
<1>6. /\ u \in TourRows /\ u.regs = r /\ u.status = tour.status
      /\ u.bracket = tour.bracket /\ u.winners = tour.winners /\ u.pair = tour.pair
      /\ u.phase = tour.phase /\ u.runner = tour.runner /\ u.lastLoser = tour.lastLoser
      /\ u.lost = tour.lost /\ u.places = tour.places /\ u.escrow = e
  BY <1>1, <1>4, <1>5 DEF TourRows
<1>7. RowInv(u)
  BY <1>1, <1>4, <1>6, RowGrows
<1> QED  BY <1>2, <1>6, <1>7

\* The row with more silver in escrow.
LEMMA Funded ==
  ASSUME TournamentInv, NEW a \in Nat, NEW u, u = [tour EXCEPT !.escrow = @ + a]
  PROVE  RowInv(u) /\ u.escrow = tour.escrow + a
<1>1. u = [tour EXCEPT !.regs = @ \cup {}, !.escrow = @ + a]
  BY RowType DEF TourRows
<1> QED  BY <1>1, Entered

\* Entrants that are paid for out of the treasury of the host.
LEMMA PaidEntry ==
  ASSUME TournamentInv, NEW R, R \subseteq People, NEW a \in Nat,
         tour' = [tour EXCEPT !.regs = @ \cup R, !.escrow = @ + a],
         silver' = [silver EXCEPT !.host = @ - a], UNCHANGED <<ops, dead>>
  PROVE  Keeps
<1>1. RowInv(tour') /\ tour'.escrow = tour.escrow + a
  BY Entered
<1>2. silver \in Silvers
  BY DEF TournamentInv
<1>3. silver' \in Silvers /\ Coins(silver') = Coins(silver) - a
  BY <1>2 DEF Silvers, Coins
<1>4. Accounted
  BY <1>1, <1>3, TotalType, Books
<1> QED  BY <1>1, <1>3, <1>4 DEF Keeps, TournamentInv

\* The host pays the fees of those it enters into escrow; the guest's decision moves nothing yet.
LEMMA DecideKeeps ==
  ASSUME TournamentInv, NEW f \in Sponsors, NEW policy \in {"none", "champion", "broad"}, NEW d,
         Decide(f, policy, d)
  PROVE  Keeps
<1>1. PICK chosen : chosen = CASE policy = "none" -> {}
                               [] policy = "champion" -> Best(Available(f), 1)
                               [] policy = "broad" -> Available(f)
  OBVIOUS
<1>2. PICK local : local = Best(chosen, silver.host \div Fee)
  OBVIOUS
<1>3. PICK n : n = Cardinality(local)
  OBVIOUS
<1>4. UNCHANGED <<ops, dead>>
  BY DEF Decide
<1>5. CASE tour.status = "registration_open" /\ f = "host"
  <2>1. /\ tour' = [tour EXCEPT !.regs = @ \cup local, !.escrow = @ + n * Fee]
        /\ silver' = [silver EXCEPT !.host = @ - n * Fee]
    BY <1>1, <1>2, <1>3, <1>5 DEF Decide
  <2>2. local \subseteq People /\ n \in Nat
    <3>1. Available(f) \subseteq People
      BY DEF Available, MembersOf, People
    <3>2. chosen \subseteq People
      BY <1>1, <3>1, BestAreSome
    <3> QED  BY <1>2, <1>3, <3>2, BestAreSome
  <2>3. PICK a \in Nat : a = n * Fee
    BY <2>2, Amounts
  <2> QED  BY <1>4, <2>1, <2>2, <2>3, PaidEntry
<1>6. CASE ~(tour.status = "registration_open" /\ f = "host")
  <2>1. UNCHANGED <<tour, silver>>
    BY <1>6 DEF Decide
  <2> QED  BY <1>4, <2>1, RowType, Quiet
<1> QED  BY <1>5, <1>6

\* The player's fee goes from the treasury into escrow.
LEMMA RegisterKeeps == ASSUME TournamentInv, Register PROVE Keeps
<1>1. /\ tour' = [tour EXCEPT !.regs = @ \cup {Player}, !.escrow = @ + Fee]
      /\ silver' = [silver EXCEPT !.host = @ - Fee] /\ UNCHANGED <<ops, dead>>
  BY DEF Register
<1>2. {Player} \subseteq People
  BY TournamentAssumption DEF People
<1> QED  BY <1>1, <1>2, Amounts, PaidEntry

\* The price at the gate goes from the player into escrow.
LEMMA SpectateKeeps == ASSUME TournamentInv, Spectate PROVE Keeps
<1>1. /\ tour' = [tour EXCEPT !.escrow = @ + Gate]
      /\ silver' = [silver EXCEPT !.player = @ - Gate] /\ UNCHANGED <<ops, dead>>
  BY DEF Spectate
<1>2. RowInv(tour') /\ tour'.escrow = tour.escrow + Gate
  BY <1>1, Amounts, Funded
<1>3. silver \in Silvers
  BY DEF TournamentInv
<1>4. silver' \in Silvers /\ Coins(silver') = Coins(silver) - Gate
  BY <1>1, <1>3, Amounts DEF Silvers, Coins
<1>5. Accounted
  BY <1>1, <1>2, <1>4, TotalType, Amounts, Books
<1> QED  BY <1>1, <1>2, <1>4, <1>5 DEF Keeps, TournamentInv

\* What the gate takes comes out of the market.
LEMMA Ticketed ==
  ASSUME TournamentInv
  PROVE  LET s == SellTickets(tour, silver)
         IN  /\ RowInv(s[1]) /\ s[2] \in Silvers /\ s[1].status = tour.status
             /\ Coins(s[2]) + s[1].escrow = Coins(silver) + tour.escrow
<1>1. silver \in Silvers /\ tour \in TourRows /\ RowInv(tour) /\ tour.escrow \in Nat
  BY RowType DEF TournamentInv
<1>2. PICK paid : paid = Min({Gate, silver.market})
  OBVIOUS
<1>3. silver.market \in Nat
  BY <1>1 DEF Silvers
<1>4. paid \in Nat /\ paid <= silver.market
  BY <1>2, <1>3, Amounts, MinOfTwo
<1>5. CASE tour.gated
  BY <1>1, <1>5 DEF SellTickets
<1>6. CASE ~tour.gated
  <2>1. PICK e \in Nat : e = tour.escrow + paid
    BY <1>1, <1>4
  <2>2. PICK u : u = [tour EXCEPT !.escrow = e, !.gated = TRUE]
    OBVIOUS
  <2>3. PICK m \in Nat : m = silver.market - paid
    BY <1>3, <1>4
  <2>4. PICK c : c = [silver EXCEPT !.market = m]
    OBVIOUS
  <2>5. SellTickets(tour, silver) = <<u, c>>
    BY <1>1, <1>2, <1>6, <2>1, <2>2, <2>3, <2>4 DEF SellTickets, TourRows, Silvers
  <2>6. /\ u \in TourRows /\ u.regs = tour.regs /\ u.status = tour.status
        /\ u.bracket = tour.bracket /\ u.winners = tour.winners /\ u.pair = tour.pair
        /\ u.phase = tour.phase /\ u.runner = tour.runner /\ u.lastLoser = tour.lastLoser
        /\ u.lost = tour.lost /\ u.places = tour.places /\ u.escrow = e
    BY <1>1, <2>2 DEF TourRows
  <2>7. RowInv(u)
    BY <1>1, <2>6, RowGrows
  <2>8. c \in Silvers /\ Coins(c) = Coins(silver) - paid /\ Coins(silver) \in Int
    BY <1>1, <1>4, <2>3, <2>4 DEF Silvers, Coins
  <2>9. Coins(c) + e = Coins(silver) + tour.escrow
    BY <1>1, <1>4, <2>1, <2>8
  <2> QED  BY <2>5, <2>6, <2>7, <2>8, <2>9
<1> QED  BY <1>5, <1>6

\* The gate of the convergence goes into escrow.
LEMMA ConvergenceKeeps == ASSUME TournamentInv, Convergence PROVE Keeps
<1>1. UNCHANGED <<ops, dead>>
  BY DEF Convergence
<1>2. CASE tour.status \in {"bracket_ready", "in_progress"}
  <2>1. PICK s : s = SellTickets(tour, silver)
    OBVIOUS
  <2>2. tour' = s[1] /\ silver' = s[2]
    BY <1>2, <2>1 DEF Convergence
  <2>3. RowInv(tour') /\ silver' \in Silvers /\ Coins(silver') + tour'.escrow = Coins(silver) + tour.escrow
    BY <2>1, <2>2, Ticketed
  <2>4. Accounted
    BY <1>1, <2>3, Books
  <2> QED  BY <1>1, <2>3, <2>4 DEF Keeps, TournamentInv
<1>3. CASE tour.status \notin {"bracket_ready", "in_progress"}
  <2>1. UNCHANGED <<tour, silver>>
    BY <1>3 DEF Convergence
  <2> QED  BY <1>1, <2>1, RowType, Quiet
<1> QED  BY <1>2, <1>3

-----------------------------------------------------------------------------
(* Steps of a journey.                                                      *)

\* Setting off changes the status of the deployment, and keeps what it holds.
LEMMA SetOffKeeps ==
  ASSUME TournamentInv, NEW o \in Ops, NEW k, NEW expected, "none" \notin expected, NEW way,
         NEW road \in OpStatuses \ {"none", "at_tournament"}, SetOff(o, k, expected, way, road)
  PROVE  Keeps
<1>1. UNCHANGED <<tour, silver, dead>>
  BY DEF SetOff
<1>2. CASE UNCHANGED ops
  BY <1>1, <1>2, RowType, Quiet
<1>3. CASE ops[o].status \in expected /\ ops' = [ops EXCEPT ![o].status = road]
  <2>1. ops[o].status \notin {"none"}
    BY <1>3
  <2> QED  BY <1>1, <1>3, <2>1, OnItsWay
<1> QED  BY <1>2, <1>3 DEF SetOff

\* The road out ends with the arrival, or with a deployment that is lost with its reserve.
LEMMA RoadOutKeeps == ASSUME TournamentInv, NEW o \in Ops, RoadOut(o) PROVE Keeps
<1>1. UNCHANGED <<tour, silver, dead>>
  BY DEF RoadOut
<1>2. CASE UNCHANGED ops
  BY <1>1, <1>2, RowType, Quiet
<1>3. CASE ops[o].status # "none" /\ ops' = [ops EXCEPT ![o].status = "arrived_pending"]
  <2>1. ops[o].status \notin {"none"} /\ "arrived_pending" \in OpStatuses \ {"none", "at_tournament"}
    BY <1>3 DEF OpStatuses
  <2> QED  BY <1>1, <1>3, <2>1, OnItsWay
<1>4. CASE ops' = [ops EXCEPT ![o] = NoOp]
  BY <1>1, <1>4, JourneyEnds
<1> QED  BY <1>2, <1>3, <1>4 DEF RoadOut

\* The road back ends the deployment.
LEMMA RoadBackKeeps == ASSUME TournamentInv, NEW o \in Ops, RoadBack(o) PROVE Keeps
<1>1. UNCHANGED <<tour, silver, dead>>
  BY DEF RoadBack
<1>2. CASE UNCHANGED ops
  BY <1>1, <1>2, RowType, Quiet
<1>3. CASE ops' = [ops EXCEPT ![o] = NoOp]
  BY <1>1, <1>3, JourneyEnds
<1> QED  BY <1>2, <1>3 DEF RoadBack

\* A local party goes home by itself.
LEMMA LocalReturnKeeps == ASSUME TournamentInv, NEW o \in Sponsors, LocalReturn(o) PROVE Keeps
<1>1. UNCHANGED <<tour, silver, dead>> /\ o \in Ops
  BY DEF LocalReturn, Ops
<1>2. ops' = [ops EXCEPT ![o] = IF @.status = "traveling_return" THEN NoOp ELSE @]
  BY DEF LocalReturn
<1>3. CASE ops[o].status = "traveling_return"
  <2>1. ops' = [ops EXCEPT ![o] = NoOp]
    BY <1>2, <1>3
  <2> QED  BY <1>1, <2>1, JourneyEnds
<1>4. CASE ops[o].status # "traveling_return"
  <2>1. ops \in [Ops -> OpRecs]
    BY DEF TournamentInv, TripInv
  <2>2. ops' = ops
    BY <1>1, <1>2, <1>4, <2>1
  <2> QED  BY <1>1, <2>2, RowType, Quiet
<1> QED  BY <1>3, <1>4

\* One deployment changes together with the row and the silver.
LEMMA OneOpPaid ==
  ASSUME TournamentInv, NEW o \in Ops, NEW x, IsOp(o, x), Recruits(o, x, ops, dead),
         ops' = [ops EXCEPT ![o] = x], dead' = dead, RowInv(tour'), silver' \in Silvers,
         Coins(silver') + tour'.escrow + KeptBy(x) = Coins(silver) + tour.escrow + KeptBy(ops[o])
  PROVE  Keeps
<1>1. TripInv(ops, dead) /\ ops \in [Ops -> OpRecs] /\ x \in OpRecs
  BY DEF TournamentInv, TripInv, IsOp
<1>2. TripInv(ops', dead) /\ HeldIn(ops') = HeldIn(ops) - KeptBy(ops[o]) + KeptBy(x)
  BY <1>1, OneOpKeeps
<1>3. KeptBy(x) \in Nat /\ KeptBy(ops[o]) \in Nat /\ HeldIn(ops) \in Int
  BY <1>1, KeptType, TotalType
<1>4. Coins(silver') \in Int /\ tour'.escrow \in Int /\ Coins(silver) \in Int /\ tour.escrow \in Int
  BY TotalType, TermTypes
<1>5. Coins(silver') + tour'.escrow + HeldIn(ops') = Coins(silver) + tour.escrow + HeldIn(ops)
  BY <1>2, <1>3, <1>4
<1>6. Accounted
  BY <1>5, Books
<1> QED  BY <1>2, <1>6 DEF Keeps, TournamentInv

\* A trip departs with its fee and board in reserve, or not at all.
LEMMA TripDepartureKeeps == ASSUME TournamentInv, NEW p \in People, TripDeparture(p) PROVE Keeps
<1>1. PICK f : f = SponsorOf(p)
  OBVIOUS
<1>2. UNCHANGED <<tour, dead>> /\ p \in Ops /\ f \in Sponsors
  BY <1>1 DEF TripDeparture, Ops, SponsorOf, Sponsors
<1>3. CASE UNCHANGED <<ops, silver>>
  BY <1>2, <1>3, RowType, Quiet
<1>4. CASE /\ Mobilize(p, {p}, Fee, Board, 0) /\ p \in Available(f) /\ ops[p].status = "none"
           /\ silver' = [silver EXCEPT ![f] = @ - Toll - Fee - Board, !.region = @ + Toll]
  <2>1. PICK x : x = [status |-> "mobilizing", members |-> {p}, fee |-> Fee, board |-> Board, seats |-> 0]
    OBVIOUS
  <2>2. ops' = [ops EXCEPT ![p] = x]
    BY <1>4, <2>1 DEF Mobilize
  <2>3. x \in OpRecs /\ x.status = "mobilizing" /\ x.members = {p} /\ KeptBy(x) = Fee + Board /\ x.seats = 0
    BY <2>1, Amounts DEF OpRecs, OpStatuses, KeptBy
  <2>4. IsOp(p, x)
    BY <2>3, Amounts DEF IsOp
  <2>5. Recruits(p, x, ops, dead)
    BY <1>4, <2>3, FreePeople DEF Recruits
  <2>6. KeptBy(ops[p]) = 0
    BY <1>2, <1>4, NoOpIsOp DEF TournamentInv, TripInv, IsOp
  <2>7. silver \in Silvers
    BY DEF TournamentInv
  <2>8. silver' \in Silvers /\ Coins(silver') = Coins(silver) - Fee - Board
    <3>1. silver[f] \in Int /\ silver.region \in Nat /\ f # "region" /\ Coins(silver) \in Int
      BY <1>2, <2>7, Amounts, TermTypes DEF Silvers
    <3>2. PICK h \in Int : h = silver[f] - Toll - Fee - Board
      BY <3>1, Amounts
    <3>3. PICK m \in Nat : m = silver.region + Toll
      BY <3>1, Amounts
    <3>4. PICK g \in {"market", "region"} : g = "region"
      OBVIOUS
    <3>5. silver' = Paid(silver, f, h, g, m)
      BY <1>4, <2>7, <3>1, <3>2, <3>3, <3>4 DEF Silvers, Paid
    <3>6. /\ Paid(silver, f, h, g, m) \in Silvers
          /\ Coins(Paid(silver, f, h, g, m)) = Coins(silver) - silver[f] + h - silver[g] + m
      BY <1>2, <2>7, TwoPurses
    <3>7. silver' \in Silvers /\ Coins(silver') = Coins(silver) - silver[f] + h - silver[g] + m
      BY <3>5, <3>6
    <3> QED  BY <3>1, <3>2, <3>3, <3>4, <3>7, Amounts
  <2>9. Coins(silver') + tour'.escrow + KeptBy(x) = Coins(silver) + tour.escrow + KeptBy(ops[p])
    BY <1>2, <2>3, <2>6, <2>8, TotalType, Amounts
  <2> QED  BY <1>2, <2>2, <2>4, <2>5, <2>8, <2>9, RowType, OneOpPaid
<1> QED  BY <1>1, <1>3, <1>4 DEF TripDeparture

\* Whoever arrives in time is registered and spends the board; otherwise the reserve goes back to the sponsor.
LEMMA TravelArrivalKeeps == ASSUME TournamentInv, NEW p \in People, TravelArrival(p) PROVE Keeps
<1>1. PICK f : f = SponsorOf(p)
  OBVIOUS
<1>2. dead' = dead /\ p \in Ops /\ f \in Sponsors
  BY <1>1 DEF TravelArrival, Ops, SponsorOf, Sponsors
<1>3. CASE UNCHANGED <<tour, ops, silver>>
  BY <1>2, <1>3, RowType, Quiet
<1> DEFINE y == ops[p]
<1>4. ops \in [Ops -> OpRecs] /\ IsOp(p, y) /\ y \in OpRecs
  BY <1>2 DEF TournamentInv, TripInv
<1>5. y.fee \in Nat /\ y.board \in Nat /\ y.seats = 0 /\ KeptBy(y) = y.fee + y.board
  BY <1>4 DEF IsOp, OpRecs, KeptBy
<1>6. silver \in Silvers
  BY DEF TournamentInv
<1>7. ASSUME NEW st \in {"at_tournament", "return_preparing"}, y.status # "none",
             ops' = [ops EXCEPT ![p].status = st, ![p].fee = 0, ![p].board = 0],
             RowInv(tour'), silver' \in Silvers,
             Coins(silver') + tour'.escrow = Coins(silver) + tour.escrow + y.fee + y.board
      PROVE  Keeps
  <2>1. PICK x : x = [y EXCEPT !.status = st, !.fee = 0, !.board = 0]
    OBVIOUS
  <2>2. ops' = [ops EXCEPT ![p] = x]
    BY <1>2, <1>4, <1>7, <2>1
  <2>3. /\ x \in OpRecs /\ x.status = st /\ x.members = y.members
        /\ x.fee = 0 /\ x.board = 0 /\ x.seats = 0
    BY <1>4, <1>5, <2>1 DEF OpRecs, OpStatuses
  <2>4. KeptBy(x) = 0
    BY <2>3 DEF KeptBy
  <2>5. y.members # {}
    BY <1>4, <1>7 DEF IsOp, NoOp
  <2>6. IsOp(p, x)
    BY <1>7, <2>3, <2>4, <2>5 DEF IsOp
  <2>7. Recruits(p, x, ops, dead)
    BY <2>3 DEF Recruits
  <2>8. Coins(silver') + tour'.escrow + KeptBy(x) = Coins(silver) + tour.escrow + KeptBy(ops[p])
    <3>1. Coins(silver') \in Int /\ tour'.escrow \in Int
      BY <1>7, SMTT(40) DEF Silvers, Coins, RowInv, TourRows
    <3> QED  BY <1>5, <1>7, <2>4, <3>1, TotalType
  <2> QED  BY <1>2, <1>7, <2>2, <2>6, <2>7, <2>8, OneOpPaid
<1>8. CASE /\ tour' = [tour EXCEPT !.regs = @ \cup {p}, !.escrow = @ + ops[p].fee]
           /\ silver' = [silver EXCEPT !.market = @ + ops[p].board]
           /\ ops' = [ops EXCEPT ![p].status = "at_tournament", ![p].fee = 0, ![p].board = 0]
           /\ y.status # "none"
  <2>1. RowInv(tour') /\ tour'.escrow = tour.escrow + y.fee
    BY <1>5, <1>8, Entered
  <2>2. silver' \in Silvers /\ Coins(silver') = Coins(silver) + y.board
    BY <1>5, <1>6, <1>8 DEF Silvers, Coins
  <2>3. Coins(silver') + tour'.escrow = Coins(silver) + tour.escrow + y.fee + y.board
    BY <1>5, <2>1, <2>2, TotalType
  <2> QED  BY <1>7, <1>8, <2>1, <2>2, <2>3
<1>9. CASE /\ silver' = [silver EXCEPT ![f] = @ + ops[p].fee + ops[p].board]
           /\ ops' = [ops EXCEPT ![p].status = "return_preparing", ![p].fee = 0, ![p].board = 0]
           /\ y.status # "none" /\ tour' = tour
  <2>1. silver' \in Silvers /\ Coins(silver') = Coins(silver) + y.fee + y.board
    <3>1. CASE f = "host"
      BY <1>5, <1>6, <1>9, <3>1 DEF Silvers, Coins
    <3>2. CASE f = "guest"
      BY <1>5, <1>6, <1>9, <3>2 DEF Silvers, Coins
    <3> QED  BY <1>2, <3>1, <3>2, Amounts
  <2>2. Coins(silver') + tour'.escrow = Coins(silver) + tour.escrow + y.fee + y.board
    BY <1>5, <1>9, <2>1, TotalType
  <2> QED  BY <1>7, <1>9, <2>1, <2>2, RowType
<1> QED  BY <1>1, <1>3, <1>8, <1>9 DEF TravelArrival

\* A delegation that arrives spends board and seats of those who came; the rest goes back.
LEMMA DelegationArrivalKeeps == ASSUME TournamentInv, NEW f \in Sponsors, DelegationArrival(f) PROVE Keeps
<1>1. dead' = dead /\ f \in Ops
  BY DEF DelegationArrival, Ops
<1>2. CASE UNCHANGED <<tour, ops, silver>>
  BY <1>1, <1>2, RowType, Quiet
<1> DEFINE y == ops[f]
<1>3. ops \in [Ops -> OpRecs] /\ IsOp(f, y) /\ y \in OpRecs
  BY <1>1 DEF TournamentInv, TripInv
<1>4. y.fee = 0 /\ y.board \in Nat /\ y.seats \in Nat /\ KeptBy(y) = y.board + y.seats /\ Reserve(f) = KeptBy(y)
  BY <1>3 DEF IsOp, OpRecs, KeptBy, Reserve
<1>5. silver \in Silvers
  BY DEF TournamentInv
<1>6. ASSUME NEW st \in {"at_tournament", "return_preparing"}, y.status # "none",
             ops' = [[ops EXCEPT ![f].board = 0, ![f].seats = 0] EXCEPT ![f].status = st],
             RowInv(tour'), silver' \in Silvers,
             Coins(silver') + tour'.escrow = Coins(silver) + tour.escrow + KeptBy(y)
      PROVE  Keeps
  <2>1. PICK x : x = [y EXCEPT !.status = st, !.board = 0, !.seats = 0]
    OBVIOUS
  <2>2. ops' = [ops EXCEPT ![f] = x]
    BY <1>1, <1>3, <1>6, <2>1 DEF OpRecs
  <2>3. /\ x \in OpRecs /\ x.status = st /\ x.members = y.members
        /\ x.fee = 0 /\ x.board = 0 /\ x.seats = 0
    BY <1>3, <1>4, <2>1 DEF OpRecs, OpStatuses
  <2>4. KeptBy(x) = 0
    BY <2>3 DEF KeptBy
  <2>5. y.members # {}
    BY <1>3, <1>6 DEF IsOp, NoOp
  <2>6. IsOp(f, x)
    BY <1>6, <2>3, <2>4, <2>5 DEF IsOp
  <2>7. Recruits(f, x, ops, dead)
    BY <2>3 DEF Recruits
  <2>8. Coins(silver') + tour'.escrow + KeptBy(x) = Coins(silver) + tour.escrow + KeptBy(ops[f])
    <3>1. Coins(silver') \in Int /\ tour'.escrow \in Int
      BY <1>6, SMTT(40) DEF Silvers, Coins, RowInv, TourRows
    <3> QED  BY <1>6, <2>4, <3>1
  <2> QED  BY <1>1, <1>6, <2>2, <2>6, <2>7, <2>8, OneOpPaid
<1> DEFINE n == Cardinality(y.members)
           a == Min({y.seats, n * Seat})
           b == Min({y.board, n * Board})
<1>7. CASE /\ tour' = [tour EXCEPT !.escrow = @ + a]
           /\ silver' = [silver EXCEPT !.market = @ + b, ![f] = @ + Reserve(f) - a - b]
           /\ ops' = [[ops EXCEPT ![f].board = 0, ![f].seats = 0] EXCEPT ![f].status = "at_tournament"]
           /\ y.status # "none"
  <2>1. n \in Nat
    <3>1. y.members \subseteq People
      BY <1>3 DEF OpRecs
    <3> QED  BY <3>1, OpsFinite, FS_Subset, FS_CardinalityType
  <2>2. n * Seat \in Nat /\ n * Board \in Nat
    BY <2>1, Amounts
  <2>3. a \in Nat /\ b \in Nat
    BY <1>4, <2>2, MinOfTwo
  <2> HIDE DEF a, b, n
  <2>4. RowInv(tour') /\ tour'.escrow = tour.escrow + a
    BY <1>7, <2>3, Funded
  <2>5. PICK k \in Nat : k = Reserve(f) /\ k = KeptBy(y)
    BY <1>4
  <2>6. silver' \in Silvers /\ Coins(silver') = Coins(silver) + k - a
    <3>1. silver[f] \in Int /\ silver.market \in Nat /\ f # "market" /\ Coins(silver) \in Int
      BY <1>5, Amounts, TermTypes DEF Silvers
    <3>2. PICK h \in Int : h = silver[f] + k - a - b
      BY <2>3, <3>1
    <3>3. PICK m \in Nat : m = silver.market + b
      BY <2>3, <3>1
    <3>4. PICK g \in {"market", "region"} : g = "market"
      OBVIOUS
    <3>5. silver' = Paid(silver, f, h, g, m)
      <4>1. silver' = [silver EXCEPT ![g] = m, ![f] = h]
        BY <1>5, <1>7, <2>5, <3>1, <3>2, <3>3, <3>4 DEF Silvers
      <4>2. f = "host" \/ f = "guest"
        BY Amounts
      <4> QED  BY <1>5, <3>4, <4>1, <4>2 DEF Silvers, Paid
    <3>6. /\ Paid(silver, f, h, g, m) \in Silvers
          /\ Coins(Paid(silver, f, h, g, m)) = Coins(silver) - silver[f] + h - silver[g] + m
      BY <1>5, TwoPurses
    <3>7. silver' \in Silvers /\ Coins(silver') = Coins(silver) - silver[f] + h - silver[g] + m
      BY <3>5, <3>6
    <3> QED  BY <2>3, <3>1, <3>2, <3>3, <3>4, <3>7
  <2>7. Coins(silver') + tour'.escrow = Coins(silver) + tour.escrow + KeptBy(y)
    BY <2>3, <2>4, <2>5, <2>6, TotalType
  <2> QED  BY <1>6, <1>7, <2>4, <2>6, <2>7
<1>8. CASE /\ silver' = [silver EXCEPT ![f] = @ + Reserve(f)] /\ tour' = tour
           /\ ops' = [[ops EXCEPT ![f].board = 0, ![f].seats = 0] EXCEPT ![f].status = "return_preparing"]
           /\ y.status # "none"
  <2>1. PICK k \in Nat : k = Reserve(f) /\ k = KeptBy(y)
    BY <1>4
  <2>2. silver' \in Silvers /\ Coins(silver') = Coins(silver) + k
    <3>1. silver' = [silver EXCEPT ![f] = @ + k] /\ k \in Int
      BY <1>8, <2>1
    <3> QED  BY <1>5, <3>1, SponsorPays
  <2>3. Coins(silver') + tour'.escrow = Coins(silver) + tour.escrow + KeptBy(y)
    BY <1>8, <2>1, <2>2, TotalType
  <2> QED  BY <1>6, <1>8, <2>2, <2>3, RowType
<1> QED  BY <1>2, <1>7, <1>8 DEF DelegationArrival

\* A delegation departs with what its sponsor pays for it.
LEMMA DelegationDepartureKeeps ==
  ASSUME TournamentInv, NEW f \in Sponsors, DelegationDeparture(f)
  PROVE  Keeps
<1>1. dead' = dead /\ f \in Ops
  BY DEF DelegationDeparture, Ops
<1>2. CASE UNCHANGED <<tour, ops, silver>>
  BY <1>1, <1>2, RowType, Quiet
<1>3. PICK each : each = Board + Seat + IF f = "host" THEN 0 ELSE Toll
  OBVIOUS
<1>4. PICK party : party = Best(Available(f), silver[f] \div each)
  OBVIOUS
<1>5. PICK n : n = Cardinality(party)
  OBVIOUS
<1>6. party \subseteq Available(f) /\ party \subseteq People /\ n \in Nat /\ (n > 0 => party # {})
  <2>1. Available(f) \subseteq People
    BY DEF Available, MembersOf, People
  <2>2. party \subseteq Available(f) /\ n \in Nat
    BY <1>4, <1>5, <2>1, BestAreSome
  <2> QED  BY <1>5, <2>1, <2>2, FS_EmptySet
<1>7. PICK b \in Nat : b = n * Board
  BY <1>6, Amounts
<1>8. PICK s \in Nat : s = n * Seat
  BY <1>6, Amounts
<1>9. PICK q \in Nat : q = n * Toll
  BY <1>6, Amounts
<1>10. silver \in Silvers /\ silver[f] \in Int /\ silver.market \in Nat /\ silver.region \in Nat
       /\ Coins(silver) \in Int
  BY Amounts, TermTypes DEF TournamentInv, Silvers
<1>11. f = "host" => n * each = b + s
  <2>1. f = "host" => each = Board + Seat
    BY <1>3, Amounts
  <2> QED  BY <1>6, <1>7, <1>8, <2>1, Amounts
<1>12. f # "host" => n * each = b + s + q
  <2>1. f # "host" => each = Board + Seat + Toll
    BY <1>3, Amounts
  <2> QED  BY <1>6, <1>7, <1>8, <1>9, <2>1, Amounts
<1>13. ASSUME NEW x \in OpRecs, x.status # "none", x.members = party, n > 0, IsOp(f, x),
              ops' = [ops EXCEPT ![f] = x], ops[f].status = "none", RowInv(tour'), silver' \in Silvers,
              Coins(silver') + tour'.escrow + KeptBy(x) = Coins(silver) + tour.escrow
       PROVE  Keeps
  <2>1. Recruits(f, x, ops, dead)
    BY <1>6, <1>13, FreePeople DEF Recruits
  <2>2. KeptBy(ops[f]) = 0
    BY <1>1, <1>13, NoOpIsOp DEF TournamentInv, TripInv, IsOp
  <2>3. Coins(silver') + tour'.escrow + KeptBy(x) = Coins(silver) + tour.escrow + KeptBy(ops[f])
    BY <1>13, <2>2, TotalType
  <2> QED  BY <1>1, <1>13, <2>1, <2>3, OneOpPaid
<1>14. CASE /\ f = "host" /\ n > 0 /\ ops[f].status = "none"
            /\ ops' = [ops EXCEPT ![f] = [NoOp EXCEPT !.status = "at_tournament", !.members = party]]
            /\ silver' = [silver EXCEPT !.host = @ - n * each, !.market = @ + n * Board]
            /\ tour' = [tour EXCEPT !.escrow = @ + n * Seat]
  <2>1. PICK x : x = [NoOp EXCEPT !.status = "at_tournament", !.members = party]
    OBVIOUS
  <2>2. /\ x \in OpRecs /\ x.status = "at_tournament" /\ x.members = party
        /\ x.fee = 0 /\ x.board = 0 /\ x.seats = 0
    BY <1>6, <2>1 DEF NoOp, OpRecs, OpStatuses
  <2>3. IsOp(f, x) /\ KeptBy(x) = 0
    BY <1>6, <1>14, <2>2 DEF IsOp, KeptBy
  <2>4. RowInv(tour') /\ tour'.escrow = tour.escrow + s
    BY <1>8, <1>14, Funded
  <2>5. PICK h \in Int : h = silver.host - n * each
    BY <1>7, <1>8, <1>10, <1>11, <1>14
  <2>6. PICK m \in Nat : m = silver.market + n * Board
    BY <1>7, <1>10
  <2>7. PICK g \in {"market", "region"} : g = "market"
    OBVIOUS
  <2>8. silver' \in Silvers /\ Coins(silver') = Coins(silver) - silver.host + h - silver.market + m
    <3>1. silver' = Paid(silver, f, h, g, m)
      BY <1>10, <1>14, <2>5, <2>6, <2>7 DEF Silvers, Paid
    <3>2. /\ Paid(silver, f, h, g, m) \in Silvers
          /\ Coins(Paid(silver, f, h, g, m)) = Coins(silver) - silver[f] + h - silver[g] + m
      BY <1>10, TwoPurses
    <3> QED  BY <1>14, <2>7, <3>1, <3>2
  <2>9. Coins(silver') + tour'.escrow + KeptBy(x) = Coins(silver) + tour.escrow
    BY <1>7, <1>8, <1>10, <1>11, <1>14, <2>3, <2>4, <2>5, <2>6, <2>8, TotalType
  <2> QED  BY <1>13, <1>14, <2>1, <2>2, <2>3, <2>4, <2>8, <2>9
<1>15. CASE /\ f # "host" /\ n > 0 /\ ops[f].status = "none"
            /\ Mobilize(f, party, 0, n * Board, n * Seat)
            /\ silver' = [silver EXCEPT !.guest = @ - n * each, !.region = @ + n * Toll]
            /\ tour' = tour
  <2>1. PICK x : x = [status |-> "mobilizing", members |-> party, fee |-> 0, board |-> b, seats |-> s]
    OBVIOUS
  <2>2. /\ x \in OpRecs /\ x.status = "mobilizing" /\ x.members = party
        /\ x.fee = 0 /\ x.board = b /\ x.seats = s
    BY <1>6, <2>1 DEF OpRecs, OpStatuses
  <2>3. ops' = [ops EXCEPT ![f] = x]
    BY <1>7, <1>8, <1>15, <2>1 DEF Mobilize
  <2>4. IsOp(f, x) /\ KeptBy(x) = b + s
    BY <1>6, <1>15, <2>2, Amounts DEF IsOp, KeptBy
  <2>5. f = "guest"
    BY <1>15, Amounts
  <2>6. PICK h \in Int : h = silver.guest - n * each
    BY <1>7, <1>8, <1>9, <1>10, <1>12, <1>15, <2>5
  <2>7. PICK m \in Nat : m = silver.region + n * Toll
    BY <1>9, <1>10
  <2>8. PICK g \in {"market", "region"} : g = "region"
    OBVIOUS
  <2>9. silver' \in Silvers /\ Coins(silver') = Coins(silver) - silver.guest + h - silver.region + m
    <3>1. silver' = Paid(silver, f, h, g, m)
      BY <1>10, <1>15, <2>5, <2>6, <2>7, <2>8 DEF Silvers, Paid
    <3>2. /\ Paid(silver, f, h, g, m) \in Silvers
          /\ Coins(Paid(silver, f, h, g, m)) = Coins(silver) - silver[f] + h - silver[g] + m
      BY <1>10, TwoPurses
    <3> QED  BY <2>5, <2>8, <3>1, <3>2
  <2>10. Coins(silver') + tour'.escrow + KeptBy(x) = Coins(silver) + tour.escrow
    <3>1. n * each = b + s + q /\ silver.guest \in Int /\ tour'.escrow = tour.escrow
      BY <1>10, <1>12, <1>15, <2>5
    <3>2. Coins(silver') = Coins(silver) - (b + s + q) + q
      BY <1>9, <1>10, <2>6, <2>7, <2>9, <3>1
    <3> QED  BY <1>10, <2>4, <3>1, <3>2, TotalType
  <2> QED  BY <1>13, <1>15, <2>2, <2>3, <2>4, <2>9, <2>10, RowType
<1> QED  BY <1>2, <1>3, <1>4, <1>5, <1>14, <1>15 DEF DelegationDeparture

-----------------------------------------------------------------------------
(* Deaths.                                                                  *)

\* Deployments from which people are taken.
LEMMA Thinned ==
  ASSUME NEW D, NEW gone, TripInv(D, gone), NEW K, NEW E \in [Ops -> OpRecs],
         \A o \in Ops : IsOp(o, E[o]) /\ E[o].members \subseteq D[o].members \ K
  PROVE  TripInv(E, gone \cup K)
<1>1. \A o \in Ops : E[o].members \cap (gone \cup K) = {}
  BY DEF TripInv
<1>2. \A o, s \in Ops : \A p \in E[o].members \cap E[s].members : o = s
  BY DEF TripInv
<1> QED  BY <1>1, <1>2 DEF TripInv

\* Deployments that keep the same hold the same.
LEMMA SameHeld ==
  ASSUME NEW D, NEW E, \A o \in Ops : KeptBy(E[o]) = KeptBy(D[o])
  PROVE  HeldIn(E) = HeldIn(D)
<1>1. [o \in Ops |-> KeptBy(E[o])] = [o \in Ops |-> KeptBy(D[o])]
  OBVIOUS
<1> QED  BY <1>1 DEF HeldIn

\* Everybody of the deployment is gone.
Lost(x, gone) == x.members # {} /\ x.members \subseteq gone

\* The dead leave their deployments, and one that nobody is left in keeps nothing.
LEMMA Pruned ==
  ASSUME TournamentInv, NEW K
  PROVE  LET E == [o \in Ops |-> Prune(o, K)]
         IN  /\ TripInv(E, dead \cup K)
             /\ \A o \in Ops : KeptBy(E[o]) = IF Lost(ops[o], K) THEN 0 ELSE KeptBy(ops[o])
<1>1. PICK E : E = [o \in Ops |-> Prune(o, K)]
  OBVIOUS
<1>2. ASSUME NEW o \in Ops
      PROVE  /\ IsOp(o, E[o]) /\ E[o].members \subseteq ops[o].members \ K
             /\ KeptBy(E[o]) = IF Lost(ops[o], K) THEN 0 ELSE KeptBy(ops[o])
  <2>1. IsOp(o, ops[o]) /\ ops[o] \in OpRecs
    BY DEF TournamentInv, TripInv
  <2>2. PICK m : m = ops[o].members \ K
    OBVIOUS
  <2>3. E[o] = IF ops[o].status = "none" \/ m = ops[o].members THEN ops[o]
               ELSE IF m = {} THEN NoOp ELSE [ops[o] EXCEPT !.members = m]
    BY <1>1, <2>2 DEF Prune
  <2>4. CASE ops[o].status = "none" \/ m = ops[o].members
    <3>1. E[o] = ops[o]
      BY <2>3, <2>4
    <3>2. ops[o].members \cap K = {}
      BY <2>1, <2>2, <2>4 DEF IsOp, NoOp
    <3> QED  BY <2>1, <3>1, <3>2 DEF Lost
  <2>5. CASE ops[o].status # "none" /\ m # ops[o].members /\ m = {}
    <3>1. E[o] = NoOp
      BY <2>3, <2>5
    <3>2. Lost(ops[o], K)
      BY <2>2, <2>5 DEF Lost
    <3> QED  BY <3>1, <3>2, NoOpIsOp
  <2>6. CASE ops[o].status # "none" /\ m # ops[o].members /\ m # {}
    <3>1. E[o] = [ops[o] EXCEPT !.members = m]
      BY <2>3, <2>6
    <3>2. /\ E[o] \in OpRecs /\ E[o].members = m /\ E[o].status = ops[o].status
          /\ E[o].fee = ops[o].fee /\ E[o].board = ops[o].board /\ E[o].seats = ops[o].seats
      BY <2>1, <2>2, <3>1 DEF OpRecs
    <3>3. IsOp(o, E[o]) /\ KeptBy(E[o]) = KeptBy(ops[o])
      BY <2>1, <2>6, <3>2 DEF IsOp, KeptBy
    <3>4. ~Lost(ops[o], K)
      BY <2>2, <2>6 DEF Lost
    <3> QED  BY <2>2, <3>2, <3>3, <3>4
  <2> QED  BY <2>4, <2>5, <2>6
<1>3. E \in [Ops -> OpRecs]
  BY <1>1, <1>2 DEF IsOp
<1>4. TripInv(E, dead \cup K)
  BY <1>2, <1>3, Thinned DEF TournamentInv
<1> QED  BY <1>1, <1>2, <1>4

\* Those who can fight are in no deployment, or in one that has spent all it had.
LEMMA FightersKeepNothing ==
  ASSUME TournamentInv, NEW able,
         \A p \in able : Booked(p) => OnTrip(p),
         NEW K, K \subseteq able, NEW o \in Ops, Lost(ops[o], K)
  PROVE  KeptBy(ops[o]) = 0
<1>1. PICK p \in ops[o].members : p \in able
  BY DEF Lost
<1>2. /\ ops \in [Ops -> OpRecs] /\ \A s \in Ops : IsOp(s, ops[s])
      /\ \A r, s \in Ops : \A q \in ops[r].members \cap ops[s].members : r = s
  BY DEF TournamentInv, TripInv
<1>3. ops[o].status # "none"
  BY <1>1, <1>2 DEF IsOp, NoOp
<1>4. OnTrip(p)
  BY <1>1, <1>3 DEF Booked, InOp
<1>5. PICK s \in People : ops[s].status = "at_tournament" /\ p \in ops[s].members
  BY <1>4 DEF OnTrip
<1>6. s \in Ops
  BY DEF Ops
<1>7. s = o
  BY <1>1, <1>2, <1>5, <1>6
<1> QED  BY <1>2, <1>5, <1>7 DEF IsOp

\* Everyone is sent home: the deployments keep what they kept.
LEMMA SentHome ==
  ASSUME TournamentInv, NEW able, \A p \in able : Booked(p) => OnTrip(p),
         NEW K, K \subseteq able
  PROVE  TripInv(Returning(K \cup dead), dead \cup K) /\ HeldIn(Returning(K \cup dead)) = HeldIn(ops)
<1>1. PICK gone : gone = K \cup dead
  OBVIOUS
<1>2. PICK E : E = Returning(gone)
  OBVIOUS
<1>3. ASSUME NEW o \in Ops
      PROVE  IsOp(o, E[o]) /\ E[o].members \subseteq ops[o].members \ K /\ KeptBy(E[o]) = KeptBy(ops[o])
  <2>1. IsOp(o, ops[o]) /\ ops[o] \in OpRecs /\ ops[o].members \cap dead = {}
    BY DEF TournamentInv, TripInv
  <2>2. PICK st \in {"traveling_return", "return_preparing"} :
          st = IF SponsorOfOp(o) = "host" THEN "traveling_return" ELSE "return_preparing"
    OBVIOUS
  <2>3. E[o] = IF ops[o].status = "none" THEN NoOp
               ELSE IF ops[o].members \subseteq gone THEN NoOp
               ELSE [ops[o] EXCEPT !.members = @ \ gone, !.status = st]
    BY <1>2, <2>2 DEF Returning
  <2>4. CASE ops[o].status = "none"
    <3>1. E[o] = NoOp /\ ops[o] = NoOp
      BY <2>1, <2>3, <2>4 DEF IsOp
    <3> QED  BY <3>1, NoOpIsOp
  <2>5. CASE ops[o].status # "none" /\ ops[o].members \subseteq gone
    <3>1. E[o] = NoOp
      BY <2>3, <2>5
    <3>2. ops[o].members # {}
      BY <2>1, <2>5 DEF IsOp, NoOp
    <3>3. Lost(ops[o], K)
      BY <1>1, <2>1, <2>5, <3>2 DEF Lost
    <3>4. KeptBy(ops[o]) = 0
      BY <3>3, FightersKeepNothing
    <3> QED  BY <3>1, <3>4, NoOpIsOp
  <2>6. CASE ops[o].status # "none" /\ ~(ops[o].members \subseteq gone)
    <3>1. PICK m : m = ops[o].members \ gone
      OBVIOUS
    <3>2. E[o] = [ops[o] EXCEPT !.members = m, !.status = st]
      BY <2>3, <2>6, <3>1
    <3>3. m \in SUBSET People /\ m # {} /\ m \subseteq ops[o].members \ K
      BY <1>1, <2>1, <2>6, <3>1 DEF OpRecs
    <3>4. /\ E[o] \in OpRecs /\ E[o].members = m /\ E[o].status = st
          /\ E[o].fee = ops[o].fee /\ E[o].board = ops[o].board /\ E[o].seats = ops[o].seats
      BY <2>1, <3>2, <3>3 DEF OpRecs, OpStatuses
    <3>5. IsOp(o, E[o]) /\ KeptBy(E[o]) = KeptBy(ops[o])
      BY <2>1, <3>3, <3>4 DEF IsOp, KeptBy
    <3> QED  BY <3>3, <3>4, <3>5
  <2> QED  BY <2>4, <2>5, <2>6
<1>4. E \in [Ops -> OpRecs]
  <2>1. E = [o \in Ops |-> E[o]]
    BY <1>2 DEF Returning
  <2> QED  BY <1>3, <2>1 DEF IsOp
<1>5. TripInv(E, dead \cup K)
  BY <1>3, <1>4, Thinned DEF TournamentInv
<1>6. HeldIn(E) = HeldIn(ops)
  BY <1>3, SameHeld
<1> QED  BY <1>1, <1>2, <1>5, <1>6

\* What the deployments lose by a death is what their sponsors are given back.
LEMMA Refunded ==
  ASSUME TournamentInv, NEW K
  PROVE  LET E == [o \in Ops |-> Prune(o, K)]
         IN  /\ Refund("host", K) \in Int /\ Refund("guest", K) \in Int
             /\ HeldIn(E) + Refund("host", K) + Refund("guest", K) = HeldIn(ops)
<1>1. PICK E : E = [o \in Ops |-> Prune(o, K)]
  OBVIOUS
<1>2. /\ ops \in [Ops -> OpRecs] /\ TripInv(E, dead \cup K)
      /\ \A o \in Ops : KeptBy(E[o]) = IF Lost(ops[o], K) THEN 0 ELSE KeptBy(ops[o])
  BY <1>1, Pruned DEF TournamentInv, TripInv
<1>3. \A o \in Ops : KeptBy(ops[o]) \in Int /\ Reserve(o) = KeptBy(ops[o])
  BY <1>2, KeptType DEF Reserve, KeptBy
<1> DEFINE sent(f) == {x \in Ops : (x = f \/ x \in MembersOf(f)) /\ Lost(ops[x], K)}
           part(f) == [o \in Ops |-> IF o \in sent(f) THEN KeptBy(ops[o]) ELSE 0]
           paid(f) == [o \in sent(f) |-> Reserve(o)]
           held    == [o \in Ops |-> KeptBy(ops[o])]
           left    == [o \in Ops |-> KeptBy(E[o])]
           sentAll == [o \in Ops |-> part("host")[o] + part("guest")[o]]
<1>4. ASSUME NEW f PROVE part(f) \in [Ops -> Int] /\ Refund(f, K) = SumFunction(part(f))
  <2>1. part(f) \in [Ops -> Int] /\ paid(f) \in [sent(f) -> Int] /\ sent(f) \subseteq Ops
    BY <1>3
  <2>2. \A o \in sent(f) : paid(f)[o] = part(f)[o]
    BY <1>3
  <2>3. \A o \in Ops \ sent(f) : part(f)[o] = 0
    OBVIOUS
  <2>4. Refund(f, K) = SumFunction(paid(f))
    <3>1. sent(f) = {x \in Ops : /\ x = f \/ x \in MembersOf(f)
                                /\ ops[x].members # {} /\ ops[x].members \subseteq K}
      BY DEF Lost
    <3> QED  BY <3>1 DEF Refund
  <2> HIDE DEF part, paid, sent
  <2>5. SumFunction(paid(f)) = SumFunction(part(f))
    BY <2>1, <2>2, <2>3, OpsFinite, SumWithin
  <2> QED  BY <2>1, <2>4, <2>5
<1>5. \A o \in Ops : held[o] = left[o] + sentAll[o]
  <2> SUFFICES ASSUME NEW o \in Ops PROVE held[o] = left[o] + sentAll[o]
    OBVIOUS
  <2>1. KeptBy(ops[o]) \in Int /\ KeptBy(E[o]) = IF Lost(ops[o], K) THEN 0 ELSE KeptBy(ops[o])
    BY <1>2, <1>3
  <2>2. /\ o = "host" \/ o \in MembersOf("host") \/ o = "guest" \/ o \in MembersOf("guest")
        /\ ~((o = "host" \/ o \in MembersOf("host")) /\ (o = "guest" \/ o \in MembersOf("guest")))
    BY TournamentAssumption DEF Ops, Sponsors, People, MembersOf
  <2>3. (o \in sent("host") \/ o \in sent("guest")) <=> Lost(ops[o], K)
    BY <2>2
  <2>4. ~(o \in sent("host") /\ o \in sent("guest"))
    BY <2>2
  <2>5. /\ held[o] = KeptBy(ops[o]) /\ left[o] = KeptBy(E[o])
        /\ sentAll[o] = (IF o \in sent("host") THEN KeptBy(ops[o]) ELSE 0)
                        + (IF o \in sent("guest") THEN KeptBy(ops[o]) ELSE 0)
    OBVIOUS
  <2> HIDE DEF sent, held, left, sentAll
  <2> QED  BY <2>1, <2>3, <2>4, <2>5
<1>6. /\ held \in [Ops -> Int] /\ left \in [Ops -> Int] /\ sentAll \in [Ops -> Int]
      /\ \A o \in Ops : sentAll[o] = part("host")[o] + part("guest")[o]
  <2>1. \A o \in Ops : KeptBy(E[o]) \in Int
    BY <1>2, <1>3
  <2> QED  BY <1>3, <1>4, <2>1
<1>7. HeldIn(ops) = SumFunction(held) /\ HeldIn(E) = SumFunction(left)
  BY DEF HeldIn
<1> HIDE DEF held, left, sentAll, part
<1>8. SumFunction(held) = SumFunction(left) + SumFunction(sentAll)
  BY <1>5, <1>6, OpsFinite, SumOfTwo
<1>9. SumFunction(sentAll) = SumFunction(part("host")) + SumFunction(part("guest"))
  BY <1>4, <1>6, OpsFinite, SumOfTwo
<1>10. /\ SumFunction(part("host")) \in Int /\ SumFunction(part("guest")) \in Int
       /\ SumFunction(left) \in Int
  BY <1>4, <1>6, OpsFinite, SumType
<1> QED  BY <1>1, <1>4, <1>7, <1>8, <1>9, <1>10

\* A death off the ring.
LEMMA DieKeeps == ASSUME TournamentInv, NEW p \in People, Die(p) PROVE Keeps
<1>1. PICK E : E = [o \in Ops |-> Prune(o, {p})]
  OBVIOUS
<1>2. ops' = E /\ dead' = dead \cup {p} /\ tour' = tour
      /\ silver' = [silver EXCEPT !.host = @ + Refund("host", {p}), !.guest = @ + Refund("guest", {p})]
  BY <1>1 DEF Die
<1>3. TripInv(E, dead \cup {p})
  BY <1>1, Pruned
<1>4. PICK a \in Int : a = Refund("host", {p})
  BY Refunded
<1>5. PICK b \in Int : b = Refund("guest", {p})
  BY Refunded
<1>6. HeldIn(E) + a + b = HeldIn(ops)
  BY <1>1, <1>4, <1>5, Refunded
<1>7. silver \in Silvers
  BY DEF TournamentInv
<1>8. silver' \in Silvers /\ Coins(silver') = Coins(silver) + a + b
  <2>1. silver.host \in Int /\ silver.guest \in Int
    BY <1>7 DEF Silvers
  <2>2. PICK h \in Int : h = silver.host + a
    BY <2>1
  <2>3. PICK g \in Int : g = silver.guest + b
    BY <2>1
  <2>4. silver' = [silver EXCEPT !.host = h, !.guest = g]
    BY <1>2, <1>4, <1>5, <2>2, <2>3
  <2>5. silver' \in Silvers /\ Coins(silver') = Coins(silver) - silver.host + h - silver.guest + g
    <3>1. PICK c : c = silver'
      OBVIOUS
    <3>2. /\ c \in Silvers /\ c.host = h /\ c.guest = g /\ c.market = silver.market
          /\ c.region = silver.region /\ c.player = silver.player /\ c.purses = silver.purses
      BY <1>7, <2>4, <3>1 DEF Silvers
    <3> QED  BY <1>7, <3>1, <3>2 DEF Silvers, Coins
  <2>6. Coins(silver) \in Int
    BY <1>7, TermTypes
  <2> QED  BY <2>1, <2>2, <2>3, <2>5, <2>6
<1>9. HeldIn(E) \in Int
  BY <1>3, HeldType DEF TripInv
<1>10. Accounted
  BY <1>2, <1>6, <1>8, <1>9, TotalType, Books
<1> QED  BY <1>2, <1>3, <1>8, <1>10, RowType DEF Keeps, TournamentInv

-----------------------------------------------------------------------------
(* The prize.                                                               *)

\* The last of the places that were earned.
LEMMA LastPlace ==
  ASSUME NEW S, S \subseteq 1 .. 4, S # {}
  PROVE  Max(S) \in S
<1>1. \A x \in S : x = 1 \/ x = 2 \/ x = 3 \/ x = 4
  OBVIOUS
<1>2. \E x \in S : \A y \in S : x >= y
  <2>1. \A y \in S : y \in Int
    OBVIOUS
  <2>2. CASE 4 \in S
    <3>1. \A y \in S : 4 >= y
      BY <1>1, <2>1
    <3> QED  BY <2>2, <3>1
  <2>3. CASE 4 \notin S /\ 3 \in S
    <3>1. \A y \in S : 3 >= y
      BY <1>1, <2>1, <2>3
    <3> QED  BY <2>3, <3>1
  <2>4. CASE 4 \notin S /\ 3 \notin S /\ 2 \in S
    <3>1. \A y \in S : 2 >= y
      BY <1>1, <2>1, <2>4
    <3> QED  BY <2>4, <3>1
  <2>5. CASE 4 \notin S /\ 3 \notin S /\ 2 \notin S
    <3>1. \A y \in S : y = 1
      BY <1>1, <2>5
    <3>2. PICK x \in S : TRUE
      OBVIOUS
    <3>3. \A y \in S : x >= y
      BY <2>1, <3>1, <3>2
    <3> QED  BY <3>3
  <2> QED  BY <2>2, <2>3, <2>4, <2>5
<1> QED  BY <1>2 DEF Max

\* The purse is split without a rest.
LEMMA WholePurse ==
  ASSUME NEW t \in TourRows
  PROVE  /\ Earned(t) \subseteq 1 .. 4 /\ IsFiniteSet(Earned(t))
         /\ Payouts(t) \in [Earned(t) -> Int]
         /\ SumFunction(Payouts(t)) = IF Earned(t) = {} THEN 0 ELSE t.escrow
<1>1. PICK E : E = Earned(t)
  OBVIOUS
<1>2. E \subseteq 1 .. 4 /\ IsFiniteSet(E)
  <2>1. E \subseteq 1 .. 4
    BY <1>1 DEF Earned
  <2>2. IsFiniteSet(1 .. 4)
    <3>1. PICK n \in Int : n = 4
      OBVIOUS
    <3>2. IsFiniteSet(1 .. n)
      BY FS_Interval
    <3> QED  BY <3>1, <3>2
  <2> QED  BY <2>1, <2>2, FS_Subset
<1>3. PICK w : w = [i \in E |-> Weights[i]]
  OBVIOUS
<1>4. w \in [E -> Nat] /\ \A i \in E : w[i] \in Nat \ {0}
  BY <1>2, <1>3, TournamentAssumption
<1>5. PICK weight : weight = SumFunction(w)
  OBVIOUS
<1>6. PICK share : share = [i \in E |-> (t.escrow * Weights[i]) \div weight]
  OBVIOUS
<1>7. t.escrow \in Nat
  BY DEF TourRows
<1>8. CASE E = {}
  <2>1. Payouts(t) = share
    BY <1>1, <1>3, <1>5, <1>6, <1>8 DEF Payouts
  <2>2. share \in [E -> Int] /\ \A i \in E : share[i] = IF i \in {} THEN 1 ELSE 0
    BY <1>6, <1>8
  <2>3. SumFunction(share) = Cardinality({})
    BY <1>2, <2>2, SumCounts
  <2> QED  BY <1>1, <1>2, <1>8, <2>1, <2>2, <2>3, FS_EmptySet
<1>9. CASE E # {}
  <2>1. PICK m : m = Max(E)
    OBVIOUS
  <2>2. m \in E
    BY <1>2, <1>9, <2>1, LastPlace
  <2>3. weight \in Nat \ {0}
    <3>1. w[m] > 0
      BY <1>4, <2>2
    <3> QED  BY <1>2, <1>4, <1>5, <2>2, <3>1, SumIsPositive
  <2>4. share \in [E -> Int]
    <3>1. \A i \in E : t.escrow * Weights[i] \in Nat
      <4>1. \A i \in E : Weights[i] \in Nat
        BY <1>3, <1>4
      <4> QED  BY <1>7, <4>1
    <3>2. \A x \in Nat : x \div weight \in Int
      BY <2>3
    <3>3. \A i \in E : (t.escrow * Weights[i]) \div weight \in Int
      BY <3>1, <3>2
    <3> QED  BY <1>6, <3>3
  <2>5. SumFunction(share) \in Int
    BY <1>2, <2>4, SumType
  <2>6. PICK rest \in Int : rest = share[m] + t.escrow - SumFunction(share)
    BY <1>7, <2>2, <2>4, <2>5
  <2>7. Payouts(t) = [share EXCEPT ![m] = rest]
    BY <1>1, <1>3, <1>5, <1>6, <1>9, <2>1, <2>2, <2>4, <2>6 DEF Payouts
  <2>8. PICK g : g = Payouts(t)
    OBVIOUS
  <2>9. g \in [E -> Int] /\ g[m] = rest /\ \A y \in E \ {m} : g[y] = share[y]
    BY <2>2, <2>4, <2>6, <2>7, <2>8
  <2>10. SumFunction(g) = SumFunction(share) - share[m] + g[m]
    BY <1>2, <2>2, <2>4, <2>9, SumUpdate
  <2>11. SumFunction(g) = t.escrow
    <3>1. share[m] \in Int
      BY <2>2, <2>4
    <3> QED  BY <1>7, <2>5, <2>6, <2>9, <2>10, <3>1
  <2> QED  BY <1>1, <1>2, <1>9, <2>8, <2>9, <2>11
<1> QED  BY <1>8, <1>9

\* All of the purse is paid out to the sponsors and the people they sent.
LEMMA AllAwarded ==
  ASSUME NEW t \in TourRows, NEW s \in Silvers
  PROVE  /\ Awarded(t, s) \in Silvers
         /\ Coins(Awarded(t, s)) = Coins(s) + IF Earned(t) = {} THEN 0 ELSE t.escrow
<1>1. PICK E : E = Earned(t)
  OBVIOUS
<1>2. PICK gross : gross = Payouts(t)
  OBVIOUS
<1>3. IsFiniteSet(E) /\ E \subseteq 1 .. 4 /\ gross \in [E -> Int]
      /\ SumFunction(gross) = IF Earned(t) = {} THEN 0 ELSE t.escrow
  BY <1>1, <1>2, WholePurse
<1> DEFINE cut(x)  == (x * 7) \div 10
           of(f)   == PaidTo(t, f)
           part(f) == [i \in E |-> IF i \in of(f) THEN cut(gross[i]) ELSE 0]
           paid(f) == [i \in of(f) |-> cut(gross[i])]
           both    == [i \in E |-> part("host")[i] + part("guest")[i]]
           rest    == [i \in E |-> gross[i] - cut(gross[i])]
<1>4. \A i \in E : gross[i] \in Int /\ cut(gross[i]) \in Int
  BY <1>3
<1>5. ASSUME NEW f PROVE part(f) \in [E -> Int] /\ SumFunction(paid(f)) = SumFunction(part(f))
  <2>1. of(f) \subseteq E
    BY <1>1 DEF PaidTo
  <2>2. part(f) \in [E -> Int] /\ paid(f) \in [of(f) -> Int]
    BY <1>4, <2>1
  <2>3. /\ \A i \in of(f) : paid(f)[i] = part(f)[i]
        /\ \A i \in E \ of(f) : part(f)[i] = 0
    BY <2>1
  <2> HIDE DEF part, paid, of
  <2>4. SumFunction(paid(f)) = SumFunction(part(f))
    BY <1>3, <2>1, <2>2, <2>3, SumWithin
  <2> QED  BY <2>2, <2>4
<1>6. \A i \in E : gross[i] = both[i] + rest[i]
  <2> SUFFICES ASSUME NEW i \in E PROVE gross[i] = both[i] + rest[i]
    OBVIOUS
  <2>1. t.places[i] \in Entrants /\ t.places[i] # Bye
    BY <1>1, <1>3 DEF TourRows, Earned
  <2>2. i \in of("host") <=> i \notin of("guest")
    BY <1>1, <2>1, TournamentAssumption DEF PaidTo, MembersOf, Entrants, People
  <2>3. PICK c \in Int : c = cut(gross[i])
    BY <1>4
  <2>4. /\ both[i] = (IF i \in of("host") THEN c ELSE 0) + (IF i \in of("guest") THEN c ELSE 0)
        /\ rest[i] = gross[i] - c
    BY <2>3
  <2> HIDE DEF of, both, rest, cut
  <2> QED  BY <1>4, <2>2, <2>3, <2>4
<1>7. both \in [E -> Int] /\ rest \in [E -> Int]
      /\ \A i \in E : both[i] = part("host")[i] + part("guest")[i]
  BY <1>4, <1>5
<1>8. /\ paid("host") = [i \in PaidTo(t, "host") |-> (gross[i] * 7) \div 10]
      /\ paid("guest") = [i \in PaidTo(t, "guest") |-> (gross[i] * 7) \div 10]
      /\ rest = [i \in Earned(t) |-> gross[i] - (gross[i] * 7) \div 10]
  BY <1>1
<1> HIDE DEF part, paid, both, rest, of, cut
<1>9. PICK a \in Int : a = SumFunction(paid("host"))
  BY <1>3, <1>5, SumType
<1>10. PICK b \in Int : b = SumFunction(paid("guest"))
  BY <1>3, <1>5, SumType
<1>11. PICK c \in Int : c = SumFunction(rest)
  BY <1>3, <1>7, SumType
<1>12. SumFunction(gross) = a + b + c
  <2>0. IsFiniteSet(E) /\ gross \in [E -> Int]
    BY <1>3
  <2>1. SumFunction(gross) = SumFunction(both) + SumFunction(rest)
    BY <2>0, <1>6, <1>7, SumOfTwo
  <2>2. SumFunction(both) = SumFunction(part("host")) + SumFunction(part("guest"))
    BY <2>0, <1>5, <1>7, SumOfTwo
  <2> QED  BY <1>5, <1>9, <1>10, <1>11, <2>1, <2>2
<1>13. PICK h \in Int : h = s.host + a
  BY DEF Silvers
<1>14. PICK g \in Int : g = s.guest + b
  BY DEF Silvers
<1>15. PICK q \in Int : q = s.purses + c
  BY DEF Silvers
<1>16. PICK z : z = Awarded(t, s)
  OBVIOUS
<1>17. z = [s EXCEPT !.host = h, !.guest = g, !.purses = q]
  BY <1>2, <1>8, <1>9, <1>10, <1>11, <1>13, <1>14, <1>15, <1>16 DEF Awarded
<1>18. z \in Silvers /\ Coins(z) = Coins(s) - s.host + h - s.guest + g - s.purses + q
  <2>1. /\ z \in Silvers /\ z.host = h /\ z.guest = g /\ z.market = s.market
        /\ z.region = s.region /\ z.player = s.player /\ z.purses = q
    BY <1>17 DEF Silvers
  <2> QED  BY <2>1 DEF Silvers, Coins
<1>19. Coins(z) = Coins(s) + SumFunction(gross)
  <2>1. Coins(s) \in Int /\ s.host \in Int /\ s.guest \in Int /\ s.purses \in Int
    BY DEF Silvers, Coins
  <2> QED  BY <1>12, <1>13, <1>14, <1>15, <1>18, <2>1
<1> QED  BY <1>3, <1>16, <1>18, <1>19

\* The row that is left of a tournament that is over.
Popped(t) == [NoTour EXCEPT !.status = "popped", !.places = t.places]

\* Nobody stands in it any more, and it holds nothing.
LEMMA PoppedRow ==
  ASSUME NEW t, Over(t)
  PROVE  RowInv(Popped(t)) /\ Popped(t).escrow = 0
<1>1. PICK u : u = Popped(t)
  OBVIOUS
<1>2. t.places \in [1 .. 4 -> Entrants] /\ Ranked(t)
  BY DEF Over, TourRows
<1>3. /\ u.status = "popped" /\ u.places = t.places /\ u.escrow = 0 /\ u.bracket = <<>>
      /\ u.winners = <<>> /\ u.pair = NoPair
  BY <1>1 DEF Popped, NoTour
<1>4. u \in TourRows
  BY <1>1, <1>2, NobodyLeft DEF Popped, NoTour, TourRows, Statuses, Entrants
<1>5. Standing(u) = {}
  BY <1>3, NobodyLeft DEF Standing
<1>6. Ranked(u)
  BY <1>2, <1>3, <1>5 DEF Ranked
<1> QED  BY <1>1, <1>3, <1>4, <1>5, <1>6 DEF RowInv, Over, Early

\* The row after a session that is not over.
LEMMA RowOfSession ==
  ASSUME NEW r, NEW t, NEW able, SessionInv(r, t, able), r.end # "completed"
  PROVE  RowInv(r.tour) /\ r.tour.escrow = t.escrow
<1>1. Running(r.tour) /\ r.tour \in TourRows /\ r.tour.escrow = t.escrow
  BY DEF SessionInv, Running, Alike
<1>2. \/ r.tour.status \in Going /\ r.tour.pair = NoPair
      \/ r.tour.status = "awaiting_player_match" /\ r.tour.pair # NoPair
  BY DEF SessionInv
<1> QED  BY <1>1, <1>2 DEF RowInv, Going, Early

\* A tournament that is over has places, or an empty purse.
LEMMA PurseIsEarned ==
  ASSUME NEW r, Over(r.tour), r.end = "completed", ~Raises(r), Earned(r.tour) = {}
  PROVE  r.tour.escrow = 0
<1>1. r.tour \in TourRows
  BY DEF Over
<1>2. r.tour.places \in [1 .. 4 -> Entrants] /\ r.tour.escrow \in Nat
  BY <1>1 DEF TourRows
<1>3. \A i \in 1 .. 4 : r.tour.places[i] = Bye
  BY DEF Earned
<1>4. r.tour.places = NoTour.places
  BY <1>2, <1>3 DEF NoTour
<1> QED  BY <1>2, <1>4 DEF Raises

\* What is settled when a session ends the tournament.
LEMMA SettlementKeeps ==
  ASSUME TournamentInv,
         NEW t, RowInv(t), NEW s \in Silvers, Coins(s) + t.escrow = Coins(silver) + tour.escrow,
         NEW u, NEW able, NEW r, SessionInv(r, u, able), u.escrow = t.escrow,
         r.end = "completed", ~Raises(r),
         tour' = Popped(r.tour), silver' = Awarded(r.tour, s), dead' = dead \cup r.killed,
         TripInv(ops', dead \cup r.killed), HeldIn(ops') = HeldIn(ops)
  PROVE  Keeps
<1>1. Over(r.tour) /\ r.tour \in TourRows /\ r.tour.escrow = t.escrow
  BY DEF SessionInv, Over, Alike
<1>2. RowInv(tour') /\ tour'.escrow = 0
  BY <1>1, PoppedRow
<1>3. silver' \in Silvers /\ Coins(silver') = Coins(s) + IF Earned(r.tour) = {} THEN 0 ELSE r.tour.escrow
  BY <1>1, AllAwarded
<1>4. t.escrow \in Nat /\ Coins(s) \in Int
  BY TermTypes
<1>5. Coins(silver') = Coins(s) + t.escrow
  BY <1>1, <1>3, <1>4, PurseIsEarned
<1>6. Accounted
  BY <1>2, <1>4, <1>5, Books
<1> QED  BY <1>2, <1>3, <1>6 DEF Keeps, TournamentInv

\* What is settled when it does not.
LEMMA InterludeKeeps ==
  ASSUME TournamentInv,
         NEW t, RowInv(t), NEW s \in Silvers, Coins(s) + t.escrow = Coins(silver) + tour.escrow,
         NEW u, NEW able, NEW r, SessionInv(r, u, able), u.escrow = t.escrow, r.end # "completed",
         tour' = r.tour, silver' = s, dead' = dead \cup r.killed,
         TripInv(ops', dead \cup r.killed), HeldIn(ops') = HeldIn(ops)
  PROVE  Keeps
<1>1. RowInv(tour') /\ tour'.escrow = t.escrow
  BY RowOfSession
<1>2. Accounted
  BY <1>1, Books
<1> QED  BY <1>1, <1>2 DEF Keeps, TournamentInv

\* The dead of a session are taken out of deployments that keep nothing.
LEMMA KilledArePruned ==
  ASSUME TournamentInv, NEW able, \A p \in able : Booked(p) => OnTrip(p), NEW K, K \subseteq able
  PROVE  LET E == [o \in Ops |-> Prune(o, K)]
         IN  TripInv(E, dead \cup K) /\ HeldIn(E) = HeldIn(ops)
<1>1. PICK E : E = [o \in Ops |-> Prune(o, K)]
  OBVIOUS
<1>2. /\ TripInv(E, dead \cup K)
      /\ \A o \in Ops : KeptBy(E[o]) = IF Lost(ops[o], K) THEN 0 ELSE KeptBy(ops[o])
  BY <1>1, Pruned
<1>3. \A o \in Ops : KeptBy(E[o]) = KeptBy(ops[o])
  BY <1>2, FightersKeepNothing
<1>4. HeldIn(E) = HeldIn(ops)
  BY <1>3, SameHeld
<1> QED  BY <1>1, <1>2, <1>4

\* A row that is neither open nor out of the registry can start a session.
LEMMA LiveIsReady ==
  ASSUME NEW t, RowInv(t), t.status \notin {"none", "popped", "registration_open"}
  PROVE  Ready(t)
<1>1. Running(t) /\ t.status \in Statuses
  BY DEF RowInv, TourRows
<1> QED  BY <1>1 DEF RowInv, Ready, Going, Statuses

-----------------------------------------------------------------------------
(* Sessions end.                                                            *)

\* How much is still to play at most, with a losers' bracket of everybody to come.
Spare == 3 * Cardinality(People)
ToPlay(t) == 3 * Len(t.bracket) + 2 * Len(t.winners) + IF t.phase = "championship" THEN Spare ELSE 0

\* The number of people.
LEMMA CrowdSize ==
  /\ Cardinality(People) \in Nat /\ Spare \in Nat
  /\ \A S : S \subseteq People => /\ IsFiniteSet(S) /\ Cardinality(S) \in Nat
                                  /\ Cardinality(S) <= Cardinality(People)
<1>1. Cardinality(People) \in Nat
  BY OpsFinite, FS_CardinalityType
<1>2. ASSUME NEW S, S \subseteq People
      PROVE  IsFiniteSet(S) /\ Cardinality(S) \in Nat /\ Cardinality(S) <= Cardinality(People)
  BY <1>2, OpsFinite, FS_Subset, FS_CardinalityType
<1>3. Spare \in Nat
  BY <1>1 DEF Spare
<1> QED  BY <1>1, <1>2, <1>3

\* A bracket has half as many entries as it has people.
LEMMA DrawLength ==
  ASSUME NEW S, S \subseteq People, NEW order, Orders(order, S)
  PROVE  Len(Draw(InOrder(S, order))) = (Cardinality(S) + 1) \div 2
<1>1. IsFiniteSet(S)
  BY CrowdSize
<1>2. PICK n \in Nat : \E s \in [1 .. n -> S] : n = Cardinality(S) /\ InOrder(S, order) = s
  BY <1>1, InOrderLists
<1>3. PICK s \in [1 .. n -> S] : n = Cardinality(S) /\ InOrder(S, order) = s
  BY <1>2
<1>4. Len(s) = n
  OBVIOUS
<1>5. PICK h \in Nat : h = (n + 1) \div 2
  OBVIOUS
<1>6. PICK b : b = [i \in 1 .. h |-> <<s[i], IF i = n + 1 - i THEN Bye ELSE s[n + 1 - i]>>]
  OBVIOUS
<1>7. Len(b) = h
  BY <1>6
<1>8. Draw(s) = b
  BY <1>4, <1>5, <1>6 DEF Draw
<1> QED  BY <1>3, <1>5, <1>7, <1>8

\* The lengths of the lists of a row.
LEMMA RowLengths ==
  ASSUME NEW t \in TourRows
  PROVE  /\ Len(t.bracket) \in Nat /\ DOMAIN t.bracket = 1 .. Len(t.bracket)
         /\ Len(t.winners) \in Nat /\ DOMAIN t.winners = 1 .. Len(t.winners)
         /\ ToPlay(t) \in Nat
<1>1. t.bracket \in Brackets /\ t.winners \in Lists
  BY DEF TourRows
<1>2. /\ Len(t.bracket) \in Nat /\ DOMAIN t.bracket = 1 .. Len(t.bracket)
      /\ Len(t.winners) \in Nat /\ DOMAIN t.winners = 1 .. Len(t.winners)
  BY <1>1, LenProperties DEF Brackets, Lists
<1>3. ToPlay(t) \in Nat
  <2>1. PICK c \in Nat : c = IF t.phase = "championship" THEN Spare ELSE 0
    BY CrowdSize
  <2>2. PICK l \in Nat : l = Len(t.bracket)
    BY <1>2
  <2>3. PICK k \in Nat : k = Len(t.winners)
    BY <1>2
  <2>4. ToPlay(t) = 3 * l + 2 * k + c
    BY <2>1, <2>2, <2>3 DEF ToPlay
  <2> QED  BY <2>4
<1> QED  BY <1>2, <1>3

\* No more people stand than there are.
LEMMA ToPlayBounded ==
  ASSUME NEW t, Running(t)
  PROVE  ToPlay(t) \in Nat /\ ToPlay(t) <= 6 * Cardinality(People)
<1>1. PICK b : b = t.bracket
  OBVIOUS
<1>2. PICK w : w = t.winners
  OBVIOUS
<1>3. t \in TourRows /\ b \in Brackets /\ w \in Lists
  BY <1>1, <1>2 DEF Running, TourRows
<1>4. PICK l \in Nat : l = Len(b)
  BY <1>1, <1>3, RowLengths
<1>5. PICK k \in Nat : k = Len(w)
  BY <1>2, <1>3, RowLengths
<1>6. DOMAIN b = 1 .. l /\ DOMAIN w = 1 .. k
  BY <1>1, <1>2, <1>3, <1>4, <1>5, RowLengths
<1>7. PICK f : f = [i \in 1 .. l + k |-> IF i <= l THEN b[i][1] ELSE w[i - l]]
  OBVIOUS
<1>8. \A i \in 1 .. l : b[i][1] \in People /\ b[i][1] \in OnList(b)
  <2>1. \A i \in 1 .. l : b[i] \in People \X Entrants
    BY <1>3, <1>4, <1>6, ElementOfSeq DEF Brackets
  <2> QED  BY <1>6, <2>1 DEF OnList
<1>9. \A i \in 1 .. k : w[i] \in People /\ w[i] \in ToSet(w)
  <2>1. \A i \in 1 .. k : w[i] \in People
    BY <1>3, <1>5, <1>6, ElementOfSeq DEF Lists
  <2> QED  BY <1>6, <2>1 DEF ToSet
<1>10. \A i \in 1 .. l + k : IF i <= l THEN i \in 1 .. l /\ f[i] = b[i][1]
                             ELSE i - l \in 1 .. k /\ f[i] = w[i - l]
  BY <1>7
<1>11. f \in [1 .. l + k -> People]
  <2>1. \A i \in 1 .. l + k : f[i] \in People
    BY <1>8, <1>9, <1>10
  <2> QED  BY <1>7, <2>1
<1>12. ASSUME NEW i \in 1 .. l + k, NEW j \in 1 .. l + k, f[i] = f[j] PROVE i = j
  <2>1. Apart(b) /\ Different(w) /\ OnList(b) \cap ToSet(w) = {}
    BY <1>1, <1>2 DEF Running, Separate
  <2>2. CASE i <= l /\ j <= l
    BY <1>6, <1>10, <1>12, <2>1, <2>2 DEF Apart
  <2>3. CASE ~(i <= l) /\ ~(j <= l)
    <3>1. i - l = j - l
      BY <1>6, <1>10, <1>12, <2>1, <2>3 DEF Different
    <3> QED  BY <3>1
  <2>4. CASE ~(i <= l <=> j <= l)
    BY <1>8, <1>9, <1>10, <1>12, <2>1, <2>4
  <2> QED  BY <2>2, <2>3, <2>4
<1>13. f \in Injection(1 .. l + k, People)
  BY <1>11, <1>12 DEF Injection, IsInjective
<1>14. Cardinality(1 .. l + k) <= Cardinality(People)
  BY <1>13, OpsFinite, FS_Injection
<1>15. Cardinality(1 .. l + k) = l + k
  <2>1. PICK n \in Nat : n = l + k
    OBVIOUS
  <2>2. Cardinality(1 .. n) = n
    <3>1. Cardinality(1 .. n) = IF 1 > n THEN 0 ELSE n - 1 + 1
      BY FS_Interval
    <3> QED  BY <3>1
  <2> QED  BY <2>1, <2>2
<1>16. l + k <= Cardinality(People) /\ Cardinality(People) \in Nat
  BY <1>14, <1>15, CrowdSize
<1>17. PICK c \in Nat : c = (IF t.phase = "championship" THEN Spare ELSE 0) /\ c <= Spare
  BY CrowdSize
<1>18. ToPlay(t) = 3 * l + 2 * k + c
  BY <1>1, <1>2, <1>4, <1>5, <1>17 DEF ToPlay
<1> QED  BY <1>16, <1>17, <1>18 DEF Spare

\* A list of winners has at most as many people as entries.
LEMMA WinnersCounted ==
  ASSUME NEW w \in Lists
  PROVE  Cardinality(ToSet(w)) <= Len(w) /\ Len(w) \in Nat
<1>1. PICK n \in Nat : n = Len(w)
  BY LenProperties DEF Lists
<1>2. DOMAIN w = 1 .. n
  BY <1>1, LenProperties DEF Lists
<1>3. w \in [1 .. n -> ToSet(w)]
  <2>1. w = [i \in 1 .. n |-> w[i]]
    BY <1>1, <1>2, LenProperties DEF Lists
  <2>2. \A i \in 1 .. n : w[i] \in ToSet(w)
    BY <1>2 DEF ToSet
  <2> QED  BY <2>1, <2>2
<1>4. w \in Surjection(1 .. n, ToSet(w))
  BY <1>2, <1>3 DEF Surjection, ToSet
<1>5. IsFiniteSet(1 .. n) /\ Cardinality(1 .. n) = n
  <2>1. IsFiniteSet(1 .. n) /\ Cardinality(1 .. n) = IF 1 > n THEN 0 ELSE n - 1 + 1
    BY FS_Interval
  <2> QED  BY <2>1
<1> QED  BY <1>1, <1>4, <1>5, FS_Surjection

\* Between two matches there does not come to be more to play.
LEMMA SettleIsNotMore ==
  ASSUME NEW t, Running(t), t.pair = NoPair, t.status \in Going,
         NEW r, r = SettleBracket(t), r.status # "completed"
  PROVE  /\ Running(r) /\ r.pair = NoPair /\ r.status \in Going /\ r.bracket # <<>>
         /\ ToPlay(r) <= ToPlay(t)
<1>1. Between(r)
  BY SettleRuns DEF Going
<1>2. Running(r) /\ r.pair = NoPair /\ r.status \in Going /\ r.bracket # <<>>
  BY <1>1 DEF Between, Going
<1>3. PICK w : w = t.winners
  OBVIOUS
<1>4. t \in TourRows /\ w \in Lists /\ ToPlay(t) \in Nat
  BY <1>3, RowLengths DEF Running, TourRows
<1>5. PICK k \in Nat : k = Len(w)
  BY <1>4, WinnersCounted
<1>6. Cardinality(People) \in Nat /\ Spare = 3 * Cardinality(People)
  BY CrowdSize DEF Spare
<1>7. CASE t.bracket # <<>>
  <2>1. r = t
    BY <1>7 DEF SettleBracket
  <2> QED  BY <1>2, <1>4, <2>1
<1>8. CASE t.bracket = <<>> /\ k > 1
  <2>1. r = NextRound(t)
    BY <1>3, <1>5, <1>8 DEF SettleBracket
  <2>2. r.bracket = Draw(InOrder(ToSet(w), BySeed)) /\ r.winners = <<>> /\ r.phase = t.phase
    BY <1>3, <1>4, <2>1 DEF NextRound, TourRows
  <2>3. ToSet(w) \subseteq People
    <3>1. ToSet(w) \subseteq Standing(t) /\ Standing(t) \subseteq t.regs /\ t.regs \subseteq People
      BY <1>3, <1>4 DEF Standing, Running, FromRegs, TourRows
    <3> QED  BY <3>1
  <2>4. PICK c \in Nat : c = Cardinality(ToSet(w)) /\ c <= k
    BY <1>4, <1>5, <2>3, CrowdSize, WinnersCounted
  <2>5. Len(r.bracket) = (c + 1) \div 2
    BY <2>2, <2>3, <2>4, SeedsOrder, DrawLength
  <2>6. PICK h \in Nat : h = (c + 1) \div 2 /\ 2 * h <= c + 1
    BY <2>4
  <2>7. Len(r.bracket) = h /\ Len(r.winners) = 0
    BY <2>2, <2>5, <2>6
  <2>8. PICK s \in Nat : s = IF t.phase = "championship" THEN Spare ELSE 0
    BY CrowdSize
  <2>9. ToPlay(r) = 3 * h + s
    BY <2>2, <2>7, <2>8 DEF ToPlay
  <2>10. ToPlay(t) = 2 * k + s
    <3>1. Len(t.bracket) = 0
      BY <1>8
    <3> QED  BY <1>3, <1>5, <2>8, <3>1 DEF ToPlay
  <2>11. 3 * h <= 2 * k
    BY <1>8, <2>4, <2>6
  <2> QED  BY <1>2, <2>9, <2>10, <2>11
<1>9. CASE t.bracket = <<>> /\ k = 1 /\ t.phase = "championship"
  <2>1. r = CrownChampion(t)
    BY <1>3, <1>5, <1>9 DEF SettleBracket
  <2>2. PICK l : l = Losers(t)
    OBVIOUS
  <2>3. l \subseteq People
    BY <2>2 DEF Losers
  <2>4. PICK c : c = [t EXCEPT !.places[1] = t.winners[1], !.places[2] = t.runner]
    OBVIOUS
  <2>5. l # {}
    <3> SUFFICES ASSUME l = {} PROVE FALSE
      OBVIOUS
    <3>1. r = Complete(c)
      BY <2>1, <2>2, <2>4 DEF CrownChampion
    <3>2. DOMAIN c = DOMAIN t /\ "status" \in DOMAIN t
      BY <1>4, <2>4 DEF TourRows
    <3>3. r.status = "completed"
      BY <3>1, <3>2 DEF Complete
    <3> QED  BY <3>3
  <2>6. r = [c EXCEPT !.phase = "losers_bracket", !.bracket = Draw(InOrder(l, ByLoss(t))),
                      !.winners = <<>>, !.round = 1, !.size = Cardinality(l), !.status = "in_progress"]
    BY <2>1, <2>2, <2>4, <2>5 DEF CrownChampion
  <2>7. r.bracket = Draw(InOrder(l, ByLoss(t))) /\ r.winners = <<>> /\ r.phase = "losers_bracket"
    <3>1. {"phase", "bracket", "winners"} \subseteq DOMAIN c
      BY <1>4, <2>4 DEF TourRows
    <3> QED  BY <2>6, <3>1
  <2>8. PICK n \in Nat : n = Cardinality(l) /\ n <= Cardinality(People)
    BY <2>3, CrowdSize
  <2>9. n # 0
    BY <2>3, <2>5, <2>8, CrowdSize, FS_EmptySet
  <2>10. Len(r.bracket) = (n + 1) \div 2
    BY <1>4, <2>3, <2>7, <2>8, LossesOrder, DrawLength, SMTT(40) DEF TourRows
  <2>11. PICK h \in Nat : h = (n + 1) \div 2 /\ 2 * h <= n + 1
    OBVIOUS
  <2>12. ToPlay(r) = 3 * h
    <3>1. Len(r.winners) = 0
      BY <2>7
    <3> QED  BY <2>7, <2>10, <2>11, <3>1 DEF ToPlay
  <2>13. ToPlay(t) = 2 + Spare
    <3>1. Len(t.bracket) = 0
      BY <1>9
    <3> QED  BY <1>3, <1>5, <1>6, <1>9, <3>1 DEF ToPlay
  <2>14. h <= Cardinality(People)
    BY <1>6, <2>8, <2>9, <2>11
  <2> QED  BY <1>2, <1>6, <2>12, <2>13, <2>14
<1>10. CASE t.bracket = <<>> /\ ~(k > 1) /\ ~(k = 1 /\ t.phase = "championship")
  <2>1. \E c : r = Complete(c) /\ DOMAIN c = DOMAIN t
    <3>1. PICK pl, pm : pl = [t EXCEPT !.places[3] = t.winners[1], !.places[4] = t.lastLoser]
                        /\ pm = [t EXCEPT !.places = NoTour.places]
      OBVIOUS
    <3>2. DOMAIN pl = DOMAIN t /\ DOMAIN pm = DOMAIN t
      BY <3>1
    <3>3. r = Complete(pl) \/ r = Complete(pm) \/ r = Complete(t)
      BY <1>3, <1>5, <1>10, <3>1 DEF SettleBracket
    <3> QED  BY <3>2, <3>3
  <2>2. PICK c : r = Complete(c) /\ DOMAIN c = DOMAIN t
    BY <2>1
  <2>3. "status" \in DOMAIN c
    BY <1>4, <2>2 DEF TourRows
  <2>4. r.status = "completed"
    BY <2>2, <2>3 DEF Complete
  <2> QED  BY <2>4
<1> QED  BY <1>7, <1>8, <1>9, <1>10

\* What is left to play when an entry has left the bracket and at most one person has won.
LEMMA LessToPlay ==
  ASSUME NEW t \in TourRows, t.bracket # <<>>, NEW u, u.phase = t.phase, u.bracket = Tail(t.bracket),
         u.winners = t.winners \/ \E p \in People : u.winners = Append(t.winners, p)
  PROVE  ToPlay(u) < ToPlay(t)
<1>1. t.bracket \in Brackets /\ t.winners \in Lists
  BY DEF TourRows
<1>2. PICK l \in Nat : l = Len(t.bracket)
  BY RowLengths
<1>3. PICK k \in Nat : k = Len(t.winners)
  BY RowLengths
<1>4. l > 0 /\ Len(u.bracket) = l - 1
  <2>1. PICK b : b = t.bracket
    OBVIOUS
  <2>2. l # 0
    BY <1>1, <1>2, EmptySeq DEF Brackets
  <2>3. Len(Tail(b)) = l - 1
    BY <1>1, <1>2, <2>1, <2>2, HeadTailProperties DEF Brackets
  <2> QED  BY <2>1, <2>2, <2>3
<1>5. Len(u.winners) = k \/ Len(u.winners) = k + 1
  <2>1. \A p \in People : Len(Append(t.winners, p)) = k + 1
    BY <1>1, <1>3, AppendProperties DEF Lists
  <2> QED  BY <1>3, <2>1
<1>6. PICK c \in Nat : c = IF t.phase = "championship" THEN Spare ELSE 0
  BY CrowdSize
<1>7. PICK m \in Nat : m = Len(u.winners) /\ m <= k + 1
  BY <1>5
<1>8. ToPlay(t) = 3 * l + 2 * k + c
  BY <1>2, <1>3, <1>6 DEF ToPlay
<1>9. ToPlay(u) = 3 * (l - 1) + 2 * m + c
  BY <1>4, <1>6, <1>7 DEF ToPlay
<1>10. 3 * (l - 1) + 2 * m + c < 3 * l + 2 * k + c
  <2>1. m <= k + 1
    BY <1>7
  <2> QED  BY <2>1
<1> QED  BY <1>8, <1>9, <1>10

\* Two facts of arithmetic that the sessions need.
LEMMA NaturalsChain ==
  ASSUME NEW a \in Nat, NEW b \in Nat, NEW c \in Nat, a < b, b <= c
  PROVE  a < c
  OBVIOUS

\* What is at most six for each person cannot also hold one more.
LEMMA SixAndOne ==
  ASSUME NEW a \in Nat, NEW c \in Nat, NEW n \in Nat, a + n <= 6 * c, n = 6 * c + 1
  PROVE  FALSE
  OBVIOUS

\* A fight of the session's entry has a winner of the pair, and at most one dead.
LEMMA FightFought ==
  ASSUME NEW s, NEW m, NEW pair, NEW x \in Fights(s, m, pair)
  PROVE  \E u, k : x = Played(s, u, k) /\ \E w \in pair : u = RecordWinner(m, w)
<1>1. PICK w \in pair, k \in NoneOrOne(pair) : x = Played(s, RecordWinner(m, w), s.killed \cup k)
  BY FightHasOutcome
<1>2. PICK u : u = RecordWinner(m, w)
  OBVIOUS
<1>3. PICK d : d = s.killed \cup k
  OBVIOUS
<1> QED  BY <1>1, <1>2, <1>3

\* A match that is called, and recorded in any way, leaves less to play.
LEMMA RecordedMatch ==
  ASSUME NEW t, Running(t), t.pair = NoPair, t.bracket # <<>>, Head(t.bracket)[2] # Bye,
         NEW m, m = BeginMatch(t), NEW u,
         (\E usable : u = RecordForfeit(m, usable))
         \/ (\E w \in {m.pair[1], m.pair[2]} : u = RecordWinner(m, w))
  PROVE  ToPlay(u) < ToPlay(t)
<1>1. t \in TourRows
  BY DEF Running
<1>2. Running(m) /\ m.pair \in People \X People
  BY MatchCalled
<1>3. m.pair[1] \in People /\ m.pair[2] \in People /\ m \in TourRows
  BY <1>2 DEF Running
<1>4. m.bracket = Tail(t.bracket) /\ m.winners = t.winners /\ m.phase = t.phase
  BY <1>1 DEF BeginMatch, TourRows
<1>5. /\ u.phase = t.phase /\ u.bracket = Tail(t.bracket)
      /\ u.winners = t.winners \/ \E p \in People : u.winners = Append(t.winners, p)
  <2>1. ASSUME NEW usable, u = RecordForfeit(m, usable)
        PROVE  /\ u.phase = m.phase /\ u.bracket = m.bracket
               /\ u.winners = m.winners \/ \E p \in People : u.winners = Append(m.winners, p)
    <3>1. PICK able : able = {m.pair[1], m.pair[2]} \cap usable
      OBVIOUS
    <3>2. PICK v : v = IF able = {} THEN m.winners ELSE Append(m.winners, CHOOSE p \in able : TRUE)
      OBVIOUS
    <3>3. PICK q : q = [m EXCEPT !.winners = v]
      OBVIOUS
    <3>a. q = [m EXCEPT !.winners = IF able = {} THEN @ ELSE Append(@, CHOOSE p \in able : TRUE)]
      BY <3>2, <3>3
    <3>b. u = EndMatch(q)
      BY <2>1, <3>1, <3>a DEF RecordForfeit
    <3>c. DOMAIN q = DOMAIN m /\ q.phase = m.phase /\ q.bracket = m.bracket /\ q.winners = v
      BY <1>3, <3>3 DEF TourRows
    <3>4. u.phase = m.phase /\ u.bracket = m.bracket /\ u.winners = v
      BY <1>3, <3>b, <3>c DEF EndMatch, TourRows
    <3>5. v = m.winners \/ \E p \in People : v = Append(m.winners, p)
      <4>1. CASE able = {}
        BY <3>2, <4>1
      <4>2. CASE able # {}
        <5>1. PICK p : p = CHOOSE z \in able : TRUE
          OBVIOUS
        <5>2. p \in able
          BY <4>2, <5>1
        <5>3. p \in People
          BY <1>3, <3>1, <5>2
        <5> QED  BY <3>2, <4>2, <5>1, <5>3
      <4> QED  BY <4>1, <4>2
    <3> QED  BY <3>4, <3>5
  <2>2. ASSUME NEW w \in {m.pair[1], m.pair[2]}, u = RecordWinner(m, w)
        PROVE  /\ u.phase = m.phase /\ u.bracket = m.bracket
               /\ u.winners = Append(m.winners, w) /\ w \in People
    <3>1. PICK l : l = IF m.pair[1] = w THEN m.pair[2] ELSE m.pair[1]
      OBVIOUS
    <3>2. PICK n : n = IF m.phase = "championship"
                       THEN IF m.matchSize <= 2 THEN [m EXCEPT !.runner = l]
                            ELSE [m EXCEPT !.lost[l] = IF @ = 0 THEN m.round ELSE @]
                       ELSE IF m.matchSize <= 2 THEN [m EXCEPT !.lastLoser = l] ELSE m
      OBVIOUS
    <3>3. DOMAIN n = DOMAIN m /\ n.phase = m.phase /\ n.bracket = m.bracket /\ n.winners = m.winners
      BY <1>3, <3>2 DEF TourRows
    <3>4. u = [n EXCEPT !.winners = Append(@, w), !.pair = NoPair, !.matchSize = 0,
                        !.status = "in_progress"]
      BY <1>3, <2>2, <3>1, <3>2, <3>3 DEF RecordWinner, EndMatch, TourRows
    <3>5. u.phase = n.phase /\ u.bracket = n.bracket /\ u.winners = Append(n.winners, w)
      BY <1>3, <3>3, <3>4 DEF TourRows
    <3> QED  BY <1>3, <3>3, <3>5
  <2> QED  BY <1>4, <2>1, <2>2
<1> QED  BY <1>1, <1>5, LessToPlay

\* One entry of the bracket: the session is over, or there is less to play.
LEMMA EntryShortens ==
  ASSUME NEW t, NEW able, NEW s, SessionInv(s, t, able), s.end = "", NEW x \in Entry(s, able), x.end = ""
  PROVE  ToPlay(x.tour) < ToPlay(s.tour)
<1>1. /\ Running(s.tour) /\ s.tour.pair = NoPair /\ s.tour.status \in Going
      /\ DOMAIN s = {"tour", "killed", "left", "end"}
  BY DEF SessionInv
<1>2. PICK r : r = SettleBracket(s.tour)
  OBVIOUS
<1>3. r.status # "completed"
  <2> SUFFICES ASSUME r.status = "completed" PROVE FALSE
    OBVIOUS
  <2>1. x = [s EXCEPT !.tour = r, !.end = "completed"]
    BY <1>2 DEF Entry
  <2>2. x.end = "completed"
    BY <1>1, <2>1
  <2> QED  BY <2>2
<1>4. /\ Running(r) /\ r.pair = NoPair /\ r.status \in Going /\ r.bracket # <<>> /\ r \in TourRows
      /\ ToPlay(r) <= ToPlay(s.tour)
  BY <1>1, <1>2, <1>3, SettleIsNotMore DEF Running
<1>5. PICK m : m = BeginMatch(r)
  OBVIOUS
<1>6. PICK pair : pair = {m.pair[1], m.pair[2]}
  OBVIOUS
<1>7. PICK usable : usable = able \ s.killed
  OBVIOUS
<1>8. ToPlay(x.tour) < ToPlay(r)
  <2>1. CASE Head(r.bracket)[2] = Bye
    <3>1. PICK u : u = PassBye(r, usable)
      OBVIOUS
    <3>2. x = [s EXCEPT !.tour = u]
      BY <1>2, <1>3, <1>7, <2>1, <3>1 DEF Entry
    <3>3. x.tour = u
      BY <1>1, <3>2
    <3>4. PICK p : p = Head(r.bracket)[1]
      OBVIOUS
    <3>5. p \in People
      <4>1. r.bracket \in Brackets /\ Apart(r.bracket)
        BY <1>4 DEF Running, TourRows, Separate
      <4>2. Head(r.bracket) \in People \X Entrants
        BY <1>4, <4>1, EntryLeaves
      <4> QED  BY <3>4, <4>2
    <3>6. PICK v : v = IF p \in usable THEN Append(r.winners, p) ELSE r.winners
      OBVIOUS
    <3>7. u = [r EXCEPT !.bracket = Tail(r.bracket), !.winners = v]
      BY <1>4, <3>1, <3>4, <3>6 DEF PassBye, TourRows
    <3>8. u.phase = r.phase /\ u.bracket = Tail(r.bracket) /\ u.winners = v
      BY <1>4, <3>7 DEF TourRows
    <3>9. v = r.winners \/ \E q \in People : v = Append(r.winners, q)
      BY <3>5, <3>6
    <3> QED  BY <1>4, <3>3, <3>8, <3>9, LessToPlay
  <2>2. CASE Head(r.bracket)[2] # Bye
    <3>1. \E u, k : x = Played(s, u, k)
                    /\ ((\E us : u = RecordForfeit(m, us)) \/ (\E w \in pair : u = RecordWinner(m, w)))
      <4>1. CASE ~(pair \subseteq usable)
        <5>1. x = Played(s, RecordForfeit(m, usable), s.killed)
          BY <1>2, <1>3, <1>5, <1>6, <1>7, <2>2, <4>1 DEF Entry
        <5> QED  BY <5>1
      <4>2. CASE pair \subseteq usable /\ Player \in pair
        <5>1. x = [s EXCEPT !.tour = [m EXCEPT !.status = "awaiting_player_match", !.combat = "active"],
                            !.end = "waiting"]
          BY <1>2, <1>3, <1>5, <1>6, <1>7, <2>2, <4>2 DEF Entry
        <5>2. x.end = "waiting"
          BY <1>1, <5>1
        <5> QED  BY <5>2
      <4>3. CASE pair \subseteq usable /\ Player \notin pair
        <5>1. x \in Fights(s, m, pair)
          BY <1>2, <1>3, <1>5, <1>6, <1>7, <2>2, <4>3 DEF Entry
        <5>2. \E u, k : x = Played(s, u, k) /\ \E w \in pair : u = RecordWinner(m, w)
          BY <5>1, FightFought, Zenon
        <5>3. PICK u, k : x = Played(s, u, k) /\ \E w \in pair : u = RecordWinner(m, w)
          BY <5>2
        <5> QED  BY <5>3
      <4> QED  BY <4>1, <4>2, <4>3
    <3>2. PICK u, k : x = Played(s, u, k)
                    /\ ((\E us : u = RecordForfeit(m, us)) \/ (\E w \in pair : u = RecordWinner(m, w)))
      BY <3>1
    <3>3. ToPlay(u) < ToPlay(r)
      BY <1>4, <1>5, <1>6, <2>2, <3>2, RecordedMatch
    <3>4. x.tour = u
      BY <3>2 DEF Played
    <3> QED  BY <3>3, <3>4
  <2> QED  BY <2>1, <2>2
<1>9. Running(x.tour)
  <2>1. SessionInv(x, t, able)
    BY EntryRuns
  <2> QED  BY <2>1 DEF SessionInv
<1>10. PICK a \in Nat : a = ToPlay(x.tour)
  BY <1>9, ToPlayBounded
<1>11. PICK b \in Nat : b = ToPlay(r)
  BY <1>4, ToPlayBounded
<1>12. PICK c \in Nat : c = ToPlay(s.tour)
  BY <1>1, ToPlayBounded
<1>13. a < b /\ b <= c
  BY <1>4, <1>8, <1>10, <1>11, <1>12
<1>14. a < c
  BY <1>13, NaturalsChain, Zenon
<1> QED  BY <1>10, <1>12, <1>14

\* After i entries the session is over, or there is that much less to play.
SoonOver(x, t, able, i) ==
  /\ SessionInv(x, t, able)
  /\ x.end = "" => ToPlay(x.tour) + i <= 6 * Cardinality(People)

\* One more entry.
LEMMA EntryBringsOn ==
  ASSUME NEW t, NEW able, NEW i \in Nat, NEW x, SoonOver(x, t, able, i), NEW y \in Entry(x, able)
  PROVE  SoonOver(y, t, able, i + 1)
<1>1. SessionInv(x, t, able) /\ SessionInv(y, t, able)
  BY EntryRuns DEF SoonOver
<1>2. CASE y.end # ""
  BY <1>1, <1>2 DEF SoonOver
<1>3. CASE y.end = ""
  <2>1. x.end = ""
    <3> SUFFICES ASSUME x.end # "" PROVE FALSE
      OBVIOUS
    <3>1. y = x
      BY DEF Entry
    <3> QED  BY <1>3, <3>1
  <2>2. ToPlay(y.tour) < ToPlay(x.tour)
    BY <1>1, <1>3, <2>1, EntryShortens
  <2>3. Running(x.tour) /\ Running(y.tour)
    BY <1>1, <1>3, <2>1 DEF SessionInv
  <2>4. PICK a \in Nat : a = ToPlay(x.tour)
    BY <2>3, ToPlayBounded
  <2>5. PICK b \in Nat : b = ToPlay(y.tour)
    BY <2>3, ToPlayBounded
  <2>6. PICK c \in Nat : c = Cardinality(People)
    BY CrowdSize
  <2>7. a + i <= 6 * c /\ b < a
    BY <2>1, <2>2, <2>4, <2>5, <2>6 DEF SoonOver
  <2>8. b + (i + 1) <= 6 * c
    BY <2>7
  <2> QED  BY <1>1, <2>5, <2>6, <2>8 DEF SoonOver
<1> QED  BY <1>2, <1>3

\* A session ends within its entries, whatever its fights bring.
LEMMA SessionEnds ==
  ASSUME NEW t, NEW able, NEW s, SessionInv(s, t, able), NEW r \in Session(s, able)
  PROVE  r.end # ""
<1>1. PICK c \in Nat : c = Cardinality(People)
  BY CrowdSize
<1>2. PICK n \in Nat : n = MaxEntries
  BY <1>1 DEF MaxEntries
<1>3. n = 6 * c + 1
  BY <1>1, <1>2 DEF MaxEntries
<1>4. PICK f : f = CHOOSE x : After(x, s, able, n)
  OBVIOUS
<1>5. After(f, s, able, n)
  BY <1>4, AfterExists
<1>6. Session(s, able) = f[n]
  BY <1>2, <1>4 DEF Session, After
<1>7. \A x : SessionInv(x, t, able) /\ x.end = "" => Running(x.tour)
  BY DEF SessionInv
<1>8. SoonOver(s, t, able, 0)
  <2>1. CASE s.end # ""
    BY <2>1 DEF SoonOver
  <2>2. CASE s.end = ""
    <3>1. Running(s.tour)
      BY <1>7, <2>2
    <3>2. PICK a \in Nat : a = ToPlay(s.tour) /\ a <= 6 * c
      BY <1>1, <3>1, ToPlayBounded
    <3>3. a + 0 <= 6 * c
      BY <3>2
    <3> QED  BY <1>1, <3>2, <3>3 DEF SoonOver
  <2> QED  BY <2>1, <2>2
<1> DEFINE N == {i \in 0 .. n : \E x \in f[i] : ~SoonOver(x, t, able, i)}
<1>9. N = {}
  <2> SUFFICES ASSUME N # {} PROVE FALSE
    OBVIOUS
  <2>1. N \subseteq Nat
    BY <1>2
  <2>2. PICK i \in N : \A j \in N : i <= j
    BY <2>1, LeastNatural
  <2>3. i \in 0 .. n /\ f[i] = IF i = 0 THEN {s} ELSE UNION {Entry(x, able) : x \in f[i - 1]}
    BY <1>5 DEF After
  <2>4. CASE i = 0
    BY <1>8, <2>3, <2>4
  <2>5. CASE i # 0
    <3>1. i - 1 \in 0 .. n /\ i - 1 \notin N /\ i - 1 \in Nat /\ (i - 1) + 1 = i
      BY <1>2, <2>2, <2>3, <2>5
    <3>2. \A x \in f[i - 1] : SoonOver(x, t, able, i - 1)
      BY <3>1
    <3>3. \A y \in f[i] : \E x \in f[i - 1] : y \in Entry(x, able)
      BY <2>3, <2>5
    <3>4. ASSUME NEW y \in f[i] PROVE SoonOver(y, t, able, i)
      <4>1. PICK x \in f[i - 1] : y \in Entry(x, able)
        BY <3>3
      <4>2. PICK j \in Nat : j = i - 1
        BY <3>1
      <4>3. SoonOver(x, t, able, j)
        BY <3>2, <4>2
      <4>4. SoonOver(y, t, able, j + 1)
        BY <4>1, <4>3, EntryBringsOn
      <4> QED  BY <3>1, <4>2, <4>4
    <3> QED  BY <3>4
  <2> QED  BY <2>4, <2>5
<1>10. SoonOver(r, t, able, n)
  <2>1. n \in 0 .. n /\ r \in f[n]
    BY <1>2, <1>6
  <2> QED  BY <1>9, <2>1
<1> HIDE DEF N
<1>11. CASE r.end = ""
  <2>1. Running(r.tour)
    BY <1>7, <1>10, <1>11 DEF SoonOver
  <2>2. PICK a \in Nat : a = ToPlay(r.tour)
    BY <2>1, ToPlayBounded
  <2>3. a + n <= 6 * c
    BY <1>1, <1>10, <1>11, <2>2 DEF SoonOver
  <2>4. FALSE
    BY <1>3, <2>3, SixAndOne, Zenon
  <2> QED  BY <2>4
<1> QED  BY <1>11

\* So does one that takes up a row.
LEMMA ResumeEnds ==
  ASSUME NEW t, Ready(t), NEW able, NEW left, NEW r \in Resume(t, able, left)
  PROVE  r.end # ""
<1>1. PICK b : b = Begun(t, left)
  OBVIOUS
<1>2. /\ DOMAIN b = {"tour", "killed", "left", "end"} /\ b.tour = t /\ b.killed = {} /\ b.end = ""
  BY <1>1 DEF Begun
<1>3. CASE t.status # "awaiting_player_match"
  <2>1. Running(t) /\ t.status \in Going /\ t.pair = NoPair
    BY <1>3 DEF Ready
  <2>2. SessionInv(b, t, able)
    BY <1>2, <2>1 DEF SessionInv, Alike
  <2>3. Resume(t, able, left) = Session(b, able)
    BY <1>1, <1>3 DEF Resume
  <2> QED  BY <2>2, <2>3, SessionEnds
<1>4. CASE t.status = "awaiting_player_match" /\ t.combat = "active"
  <2>1. r = [b EXCEPT !.end = "waiting"]
    BY <1>1, <1>4 DEF Resume
  <2> QED  BY <1>2, <2>1
<1>5. CASE t.status = "awaiting_player_match" /\ t.combat # "active"
  <2>1. PICK x : Resume(t, able, left) = Session(x, able) /\ SessionInv(x, t, able)
    BY <1>5, PlayedOn
  <2> QED  BY <2>1, SessionEnds
<1> QED  BY <1>3, <1>4, <1>5
-----------------------------------------------------------------------------
(* Sessions and what is settled after them.                                 *)

\* Sessions of the calendar start from a row that the gate has taken its money into.
LEMMA SessionsStart ==
  ASSUME TournamentInv, Live, ~StillOpen
  PROVE  RowInv(Sold[1]) /\ Ready(Sold[1])
<1>1. PICK s : s = Sold
  OBVIOUS
<1>2. RowInv(s[1]) /\ s[1].status = tour.status
  BY <1>1, Ticketed DEF Sold
<1>3. Ready(s[1])
  BY <1>2, LiveIsReady DEF Live, StillOpen
<1> QED  BY <1>1, <1>2, <1>3

\* A session of the calendar and its settlement.
LEMMA CompetitionKeeps == ASSUME TournamentInv, NEW e \in agenda, Competition(e) PROVE Keeps
<1>1. CASE ~Live
  <2>1. UNCHANGED <<tour, ops, silver, dead>>
    BY <1>1 DEF Competition
  <2> QED  BY <2>1, RowType, Quiet
<1>2. CASE Live
  <2>1. PICK r \in Sessions :
            /\ ~Raises(r)
            /\ dead' = dead \cup r.killed
            /\ \/ /\ r.end = "completed"
                  /\ silver' = Awarded(r.tour, Sold[2])
                  /\ tour' = [NoTour EXCEPT !.status = "popped", !.places = r.tour.places]
                  /\ ops' = Returning(r.killed \cup dead)
               \/ /\ r.end \in {"waiting", "continue"}
                  /\ tour' = r.tour /\ silver' = Sold[2]
                  /\ ops' = [o \in Ops |-> Prune(o, r.killed)]
    BY <1>2 DEF Competition
  <2>2. PICK s : s = Sold
    OBVIOUS
  <2>3. RowInv(s[1]) /\ s[2] \in Silvers /\ Coins(s[2]) + s[1].escrow = Coins(silver) + tour.escrow
    BY <2>2, Ticketed DEF Sold
  <2>4. PICK t : /\ RowInv(t) /\ Ready(t) /\ t.escrow = Sold[1].escrow
                 /\ Sessions = Resume(t, TimedPeople, SessionMatches)
    <3>1. ~StillOpen
      BY <1>2 DEF Competition
    <3> QED  BY <1>2, <3>1, SessionsStart DEF Sessions
  <2>5. PICK able : able = TimedPeople
    OBVIOUS
  <2>6. r \in Resume(t, able, SessionMatches)
    BY <2>4, <2>5
  <2>7. SessionInv(r, t, able) /\ r.killed \subseteq able
    <3>1. SessionInv(r, t, able)
      BY <2>4, <2>6, ResumeRuns
    <3> QED  BY <3>1 DEF SessionInv
  <2>8. \A p \in able : Booked(p) => OnTrip(p)
    BY <2>5 DEF TimedPeople
  <2>9. CASE /\ r.end = "completed"
             /\ silver' = Awarded(r.tour, Sold[2])
             /\ tour' = [NoTour EXCEPT !.status = "popped", !.places = r.tour.places]
             /\ ops' = Returning(r.killed \cup dead)
    <3>1. TripInv(ops', dead \cup r.killed) /\ HeldIn(ops') = HeldIn(ops)
      BY <2>7, <2>8, <2>9, SentHome
    <3>2. tour' = Popped(r.tour) /\ silver' = Awarded(r.tour, s[2])
      BY <2>2, <2>9 DEF Popped
    <3> QED  BY <2>1, <2>2, <2>3, <2>4, <2>7, <2>9, <3>1, <3>2, SettlementKeeps
  <2>10. CASE /\ r.end \in {"waiting", "continue"}
              /\ tour' = r.tour /\ silver' = Sold[2]
              /\ ops' = [o \in Ops |-> Prune(o, r.killed)]
    <3>1. TripInv(ops', dead \cup r.killed) /\ HeldIn(ops') = HeldIn(ops)
      BY <2>7, <2>8, <2>10, KilledArePruned
    <3> QED  BY <2>1, <2>2, <2>3, <2>4, <2>7, <2>10, <3>1, InterludeKeeps
  <2> QED  BY <2>1, <2>9, <2>10
<1> QED  BY <1>1, <1>2

\* The player takes the competition on.
LEMMA AdvanceTournamentKeeps == ASSUME TournamentInv, AdvanceTournament PROVE Keeps
<1>1. PICK able : able = {p \in tour.regs \ dead : ~Booked(p) /\ AtHost(p)}
  OBVIOUS
<1>2. tour.status \in {"bracket_ready", "in_progress", "awaiting_player_match"}
  BY DEF AdvanceTournament
<1>3. PICK r \in Resume(tour, able, 0) :
             /\ ~Raises(r)
             /\ dead' = dead \cup r.killed
             /\ ops' = [o \in Ops |-> Prune(o, r.killed)]
             /\ IF r.end = "completed"
                THEN /\ silver' = Awarded(r.tour, silver)
                     /\ tour' = [NoTour EXCEPT !.status = "popped", !.places = r.tour.places]
                ELSE tour' = r.tour /\ UNCHANGED silver
  BY <1>1 DEF AdvanceTournament
<1>4. RowInv(tour) /\ silver \in Silvers
  BY DEF TournamentInv
<1>5. Ready(tour)
  BY <1>2, <1>4, LiveIsReady
<1>6. SessionInv(r, tour, able) /\ r.killed \subseteq able
  <2>1. SessionInv(r, tour, able)
    BY <1>5, ResumeRuns
  <2> QED  BY <2>1 DEF SessionInv
<1>7. \A p \in able : Booked(p) => OnTrip(p)
  BY <1>1
<1>8. TripInv(ops', dead \cup r.killed) /\ HeldIn(ops') = HeldIn(ops)
  BY <1>3, <1>6, <1>7, KilledArePruned
<1>9. CASE r.end = "completed"
  <2>1. tour' = Popped(r.tour) /\ silver' = Awarded(r.tour, silver)
    BY <1>3, <1>9 DEF Popped
  <2> QED  BY <1>3, <1>4, <1>6, <1>8, <1>9, <2>1, SettlementKeeps
<1>10. CASE r.end # "completed"
  <2>1. tour' = r.tour /\ silver' = silver
    BY <1>3, <1>10
  <2> QED  BY <1>3, <1>4, <1>6, <1>8, <1>10, <2>1, InterludeKeeps
<1> QED  BY <1>9, <1>10

-----------------------------------------------------------------------------
(* The theorems.                                                            *)

\* The draw, the deployments and the purses are in order at the start.
LEMMA TournamentStarts == ASSUME TournamentInit PROVE TournamentInv
<1>1. tour = NoTour /\ ops = [o \in Ops |-> NoOp] /\ dead = {}
      /\ silver = [host |-> Funds, guest |-> Funds, market |-> Gate, region |-> 0,
                   player |-> Gate, purses |-> 0]
  BY DEF TournamentInit
<1>2. silver \in Silvers
  BY <1>1, Amounts DEF Silvers
<1>3. TripInv(ops, dead)
  <2>1. ops \in [Ops -> OpRecs] /\ \A o \in Ops : ops[o] = NoOp
    BY <1>1, NoOpIsOp DEF IsOp
  <2>2. \A o \in Ops : IsOp(o, ops[o]) /\ ops[o].members = {}
    BY <2>1, NoOpIsOp
  <2> QED  BY <1>1, <2>1, <2>2 DEF TripInv
<1>4. RowInv(tour)
  <2>1. /\ tour.status = "none" /\ tour.phase = "championship" /\ tour.bracket = <<>>
        /\ tour.winners = <<>> /\ tour.pair = NoPair /\ tour.runner = Bye /\ tour.lastLoser = Bye
        /\ tour.places = NoTour.places /\ tour.regs = {} /\ \A p \in People : tour.lost[p] = 0
    BY <1>1 DEF NoTour
  <2>2. tour \in TourRows
    BY <1>1, NobodyLeft DEF NoTour, TourRows, Statuses, Entrants
  <2>3. Standing(tour) = {} /\ Separate(tour)
    BY <2>1, NobodyLeft DEF Standing, Separate
  <2>4. Placed(tour.places) = {} /\ \A i \in 1 .. 4 : tour.places[i] = Bye
    BY <2>1 DEF Placed, NoTour
  <2>5. Ranked(tour) /\ Awaiting(tour) /\ FromRegs(tour)
    BY <2>1, <2>3, <2>4 DEF Ranked, Awaiting, FromRegs
  <2> QED  BY <2>1, <2>2, <2>3, <2>5 DEF RowInv, Running, Early
<1> QED  BY <1>2, <1>3, <1>4 DEF TournamentInv

\* Every step keeps the invariant and the books.
LEMMA TournamentSteps == ASSUME TournamentInv, TournamentNext PROVE Keeps
<1>1. CASE NextDay \/ OpenRegistration \/ RegistrationCloses \/ Convergence
  BY <1>1, NextDayKeeps, OpenRegistrationKeeps, RegistrationClosesKeeps, ConvergenceKeeps
<1>2. ASSUME NEW f \in Sponsors,
             Decline(f) \/ DelegationDeparture(f) \/ DelegationArrival(f) \/ LocalReturn(f)
      PROVE  Keeps
  <2>1. CASE Decline(f)
    BY <2>1, RowType, Quiet DEF Decline
  <2> QED  BY <1>2, <2>1, DelegationDepartureKeeps, DelegationArrivalKeeps, LocalReturnKeeps
<1>3. ASSUME NEW p \in People, TripDeparture(p) \/ TravelArrival(p) PROVE Keeps
  BY <1>3, TripDepartureKeeps, TravelArrivalKeeps
<1>4. ASSUME NEW o \in Ops, SetOut(o) \/ SetBack(o) \/ RoadOut(o) \/ RoadBack(o) PROVE Keeps
  <2>1. CASE SetOut(o)
    <3>1. "traveling_outbound" \in OpStatuses \ {"none", "at_tournament"}
          /\ "none" \notin {"mobilizing", "traveling_outbound"}
      BY DEF OpStatuses
    <3> QED  BY <2>1, <3>1, SetOffKeeps DEF SetOut
  <2>2. CASE SetBack(o)
    <3>1. "traveling_return" \in OpStatuses \ {"none", "at_tournament"}
          /\ "none" \notin {"return_preparing", "traveling_return"}
      BY DEF OpStatuses
    <3> QED  BY <2>2, <3>1, SetOffKeeps DEF SetBack
  <2> QED  BY <1>4, <2>1, <2>2, RoadOutKeeps, RoadBackKeeps
<1>5. ASSUME NEW e \in agenda, Competition(e) \/ CompetitionRefused(e) PROVE Keeps
  <2>1. CASE CompetitionRefused(e)
    BY <2>1, RowType, Quiet DEF CompetitionRefused
  <2> QED  BY <1>5, <2>1, CompetitionKeeps
<1>6. CASE Timed
  BY <1>1, <1>2, <1>3, <1>4, <1>5, <1>6 DEF Timed
<1>7. ASSUME NEW f \in Sponsors, NEW policy \in {"none", "champion", "broad"}, NEW d \in BOOLEAN,
             Decide(f, policy, d)
      PROVE  Keeps
  BY <1>7, DecideKeeps
<1>8. CASE Register \/ Spectate \/ AdvanceTournament \/ FightPlayerMatch
  BY <1>8, RegisterKeeps, SpectateKeeps, AdvanceTournamentKeeps, FightPlayerMatchKeeps
<1>9. ASSUME NEW p \in People, Leave(p) \/ ComeBack(p) \/ Die(p) PROVE Keeps
  <2>1. CASE Leave(p)
    BY <2>1, RowType, Quiet DEF Leave
  <2>2. CASE ComeBack(p)
    BY <2>2, RowType, Quiet DEF ComeBack
  <2> QED  BY <1>9, <2>1, <2>2, DieKeeps
<1> QED  BY <1>6, <1>7, <1>8, <1>9 DEF TournamentNext

\* The invariant holds in every reachable state.
THEOREM TournamentInvariant == TournamentSpec => []TournamentInv
<1>1. ASSUME TournamentInv, [TournamentNext]_tournamentVars PROVE TournamentInv'
  <2>1. CASE TournamentNext
    BY <1>1, <2>1, TournamentSteps DEF Keeps
  <2>2. CASE UNCHANGED tournamentVars
    BY <1>1, <2>2 DEF tournamentVars, TournamentInv
  <2> QED  BY <1>1, <2>1, <2>2
<1> QED  BY <1>1, TournamentStarts, PTL DEF TournamentSpec

\* The slots are of four kinds.
LEMMA SlotKinds ==
  ASSUME NEW s \in Slots
  PROVE  \/ /\ s[1] = "bracket" /\ s[2] \in DOMAIN tour.bracket /\ s[3] \in {1, 2}
            /\ InSlot(s) = tour.bracket[s[2]][s[3]] /\ s = <<"bracket", s[2], s[3]>>
         \/ /\ s[1] = "winners" /\ s[2] \in DOMAIN tour.winners
            /\ InSlot(s) = tour.winners[s[2]] /\ s = <<"winners", s[2], 0>>
         \/ /\ s[1] = "pair" /\ s[3] \in {1, 2}
            /\ InSlot(s) = tour.pair[s[3]] /\ s = <<"pair", 0, s[3]>>
         \/ /\ s[1] = "places" /\ s[2] \in 1 .. 4
            /\ InSlot(s) = tour.places[s[2]] /\ s = <<"places", s[2], 0>>
<1>1. CASE s \in {"bracket"} \X (DOMAIN tour.bracket) \X {1, 2}
  BY <1>1 DEF InSlot
<1>2. CASE s \in {"winners"} \X (DOMAIN tour.winners) \X {0}
  BY <1>2 DEF InSlot
<1>3. CASE s \in {"pair"} \X {0} \X {1, 2}
  BY <1>3 DEF InSlot
<1>4. CASE s \in {"places"} \X (1 .. 4) \X {0}
  BY <1>4 DEF InSlot
<1> QED  BY <1>1, <1>2, <1>3, <1>4 DEF Slots

\* Whoever sits in a slot stands in the row, or has the place.
LEMMA SlotMembers ==
  ASSUME NEW s \in Slots, InSlot(s) # Bye
  PROVE  \/ s[1] = "bracket" /\ InSlot(s) \in OnList(tour.bracket)
         \/ s[1] = "winners" /\ InSlot(s) \in ToSet(tour.winners)
         \/ s[1] = "pair" /\ InSlot(s) \in InRing(tour.pair)
         \/ s[1] = "places" /\ InSlot(s) \in Placed(tour.places)
<1>1. CASE /\ s[1] = "bracket" /\ s[2] \in DOMAIN tour.bracket /\ s[3] \in {1, 2}
           /\ InSlot(s) = tour.bracket[s[2]][s[3]]
  BY <1>1 DEF OnList
<1>2. CASE /\ s[1] = "winners" /\ s[2] \in DOMAIN tour.winners /\ InSlot(s) = tour.winners[s[2]]
  BY <1>2 DEF ToSet
<1>3. CASE s[1] = "pair" /\ s[3] \in {1, 2} /\ InSlot(s) = tour.pair[s[3]]
  BY <1>3 DEF InRing
<1>4. CASE s[1] = "places" /\ s[2] \in 1 .. 4 /\ InSlot(s) = tour.places[s[2]]
  BY <1>4 DEF Placed
<1> QED  BY <1>1, <1>2, <1>3, <1>4, SlotKinds

\* A row in which nobody stands twice has nobody in two slots.
LEMMA SlotsOfDraw == ASSUME TournamentInv PROVE DrawIsSound
<1>1. tour \in TourRows /\ RowInv(tour) /\ Ranked(tour)
  BY RowType DEF RowInv, Over, Running
<1> SUFFICES ASSUME NEW s \in Slots, InSlot(s) # Bye
             PROVE  /\ \A r \in Slots : InSlot(r) = InSlot(s) => r = s
                    /\ InSlot(s) \in tour.regs \/ tour.status = "popped"
  BY DEF DrawIsSound
<1>2. CASE tour.status = "popped"
  <2>1. Standing(tour) = {}
    BY <1>1, <1>2 DEF RowInv, Over
  <2>2. \A r \in Slots : InSlot(r) # Bye => r[1] = "places"
    BY <2>1, SlotMembers DEF Standing
  <2> SUFFICES ASSUME NEW r \in Slots, InSlot(r) = InSlot(s) PROVE r = s
    BY <1>2
  <2>3. r[1] = "places" /\ s[1] = "places"
    BY <2>2
  <2>4. /\ r[2] \in 1 .. 4 /\ InSlot(r) = tour.places[r[2]] /\ r = <<"places", r[2], 0>>
        /\ s[2] \in 1 .. 4 /\ InSlot(s) = tour.places[s[2]] /\ s = <<"places", s[2], 0>>
    BY <2>3, SlotKinds
  <2>5. r[2] = s[2]
    BY <1>1, <2>4 DEF Ranked
  <2> QED  BY <2>4, <2>5
<1>3. CASE tour.status # "popped"
  <2>1. Separate(tour) /\ FromRegs(tour) /\ Standing(tour) \cap Placed(tour.places) = {}
    BY <1>1, <1>3 DEF RowInv, Running, Ranked
  <2>2. InSlot(s) \in tour.regs
    <3>1. InSlot(s) \in Standing(tour) \cup Placed(tour.places)
      BY SlotMembers DEF Standing
    <3> QED  BY <2>1, <3>1 DEF FromRegs
  <2> SUFFICES ASSUME NEW r \in Slots, InSlot(r) = InSlot(s) PROVE r = s
    BY <2>2
  <2>3. r[1] = s[1]
    <3>1. /\ OnList(tour.bracket) \cap ToSet(tour.winners) = {}
          /\ OnList(tour.bracket) \cap InRing(tour.pair) = {}
          /\ ToSet(tour.winners) \cap InRing(tour.pair) = {}
          /\ (OnList(tour.bracket) \cup ToSet(tour.winners) \cup InRing(tour.pair))
               \cap Placed(tour.places) = {}
      BY <2>1 DEF Separate, Standing
    <3>2. /\ \/ s[1] = "bracket" /\ InSlot(s) \in OnList(tour.bracket)
             \/ s[1] = "winners" /\ InSlot(s) \in ToSet(tour.winners)
             \/ s[1] = "pair" /\ InSlot(s) \in InRing(tour.pair)
             \/ s[1] = "places" /\ InSlot(s) \in Placed(tour.places)
          /\ \/ r[1] = "bracket" /\ InSlot(r) \in OnList(tour.bracket)
             \/ r[1] = "winners" /\ InSlot(r) \in ToSet(tour.winners)
             \/ r[1] = "pair" /\ InSlot(r) \in InRing(tour.pair)
             \/ r[1] = "places" /\ InSlot(r) \in Placed(tour.places)
      BY SlotMembers
    <3> QED  BY <3>1, <3>2
  <2>4. CASE s[1] = "bracket"
    <3>1. /\ s[2] \in DOMAIN tour.bracket /\ s[3] \in {1, 2}
          /\ InSlot(s) = tour.bracket[s[2]][s[3]] /\ s = <<"bracket", s[2], s[3]>>
          /\ r[2] \in DOMAIN tour.bracket /\ r[3] \in {1, 2}
          /\ InSlot(r) = tour.bracket[r[2]][r[3]] /\ r = <<"bracket", r[2], r[3]>>
      BY <2>3, <2>4, SlotKinds
    <3>2. Apart(tour.bracket)
      BY <2>1 DEF Separate
    <3>3. r[2] = s[2] /\ r[3] = s[3]
      BY <3>1, <3>2 DEF Apart
    <3> QED  BY <3>1, <3>3
  <2>5. CASE s[1] = "winners"
    <3>1. /\ s[2] \in DOMAIN tour.winners /\ InSlot(s) = tour.winners[s[2]] /\ s = <<"winners", s[2], 0>>
          /\ r[2] \in DOMAIN tour.winners /\ InSlot(r) = tour.winners[r[2]] /\ r = <<"winners", r[2], 0>>
      BY <2>3, <2>5, SlotKinds
    <3>2. r[2] = s[2]
      BY <2>1, <3>1 DEF Separate, Different
    <3> QED  BY <3>1, <3>2
  <2>6. CASE s[1] = "pair"
    <3>1. /\ s[3] \in {1, 2} /\ InSlot(s) = tour.pair[s[3]] /\ s = <<"pair", 0, s[3]>>
          /\ r[3] \in {1, 2} /\ InSlot(r) = tour.pair[r[3]] /\ r = <<"pair", 0, r[3]>>
      BY <2>3, <2>6, SlotKinds
    <3>2. tour.pair # NoPair
      BY <3>1 DEF NoPair
    <3>3. r[3] = s[3]
      BY <2>1, <3>1, <3>2 DEF Separate
    <3> QED  BY <3>1, <3>3
  <2>7. CASE s[1] = "places"
    <3>1. /\ s[2] \in 1 .. 4 /\ InSlot(s) = tour.places[s[2]] /\ s = <<"places", s[2], 0>>
          /\ r[2] \in 1 .. 4 /\ InSlot(r) = tour.places[r[2]] /\ r = <<"places", r[2], 0>>
      BY <2>3, <2>7, SlotKinds
    <3>2. r[2] = s[2]
      BY <1>1, <3>1 DEF Ranked
    <3> QED  BY <3>1, <3>2
  <2> QED  BY <2>4, <2>5, <2>6, <2>7, SlotMembers
<1> QED  BY <1>2, <1>3

\* Nobody stands twice in the draw, and nobody with a place is still in it.
THEOREM DrawStaysSound == TournamentSpec => []DrawIsSound
BY TournamentInvariant, SlotsOfDraw, PTL

\* From the treasuries to the purses no step makes silver, and only a journey that is lost
\* loses some.
THEOREM SilverStaysAccounted == TournamentSpec => SilverIsAccounted
<1>1. ASSUME TournamentInv, [TournamentNext]_tournamentVars PROVE [Accounted]_tournamentVars
  BY <1>1, TournamentSteps DEF Keeps
<1> QED  BY <1>1, TournamentInvariant, PTL DEF TournamentSpec, SilverIsAccounted, Accounted

\* The sessions of the calendar, and those of the player, have an end: no outcome of a
\* fight leaves one short of it.
SessionsEnd ==
  /\ Live /\ ~StillOpen => \A r \in Sessions : r.end # ""
  /\ tour.status \in {"bracket_ready", "in_progress", "awaiting_player_match"} =>
       \A able \in SUBSET People : \A r \in Resume(tour, able, 0) : r.end # ""

\* However many take part, the loop over the bracket comes to an end within two brackets.
THEOREM SessionsAlwaysEnd == TournamentSpec => []SessionsEnd
<1>1. ASSUME TournamentInv PROVE SessionsEnd
  <2>1. ASSUME Live, ~StillOpen, NEW r \in Sessions PROVE r.end # ""
    <3>1. PICK t : Ready(t) /\ Sessions = Resume(t, TimedPeople, SessionMatches)
      BY <1>1, <2>1, SessionsStart DEF Sessions
    <3> QED  BY <2>1, <3>1, ResumeEnds
  <2>2. ASSUME tour.status \in {"bracket_ready", "in_progress", "awaiting_player_match"},
               NEW able \in SUBSET People, NEW r \in Resume(tour, able, 0)
        PROVE  r.end # ""
    <3>1. Ready(tour)
      BY <1>1, <2>2, RowType, LiveIsReady
    <3> QED  BY <2>2, <3>1, ResumeEnds
  <2> QED  BY <2>1, <2>2 DEF SessionsEnd
<1> QED  BY <1>1, TournamentInvariant, PTL

\* Every step leaves the rows of roads and the mark of a refusal as they should be.
LEMMA RoadsStay ==
  ASSUME roads \subseteq Ops \X {"out", "back"}, stuck \in BOOLEAN, TournamentNext
  PROVE  roads' \subseteq Ops \X {"out", "back"} /\ stuck' \in BOOLEAN
<1>1. CASE NextDay \/ OpenRegistration \/ RegistrationCloses \/ Convergence
  BY <1>1 DEF NextDay, OpenRegistration, RegistrationCloses, Convergence
<1>2. ASSUME NEW f \in Sponsors,
             Decline(f) \/ DelegationDeparture(f) \/ DelegationArrival(f) \/ LocalReturn(f)
      PROVE  roads' = roads /\ stuck' = stuck
  BY <1>2 DEF Decline, DelegationDeparture, DelegationArrival, LocalReturn
<1>3. ASSUME NEW p \in People, TripDeparture(p) \/ TravelArrival(p) PROVE roads' = roads /\ stuck' = stuck
  BY <1>3 DEF TripDeparture, TravelArrival
<1>4. ASSUME NEW o \in Ops, SetOut(o) \/ SetBack(o) \/ RoadOut(o) \/ RoadBack(o)
      PROVE  roads' \subseteq Ops \X {"out", "back"} /\ stuck' = stuck
  <2>1. ASSUME NEW k, NEW expected, NEW way \in {"out", "back"}, NEW road, SetOff(o, k, expected, way, road)
        PROVE  roads' \subseteq Ops \X {"out", "back"} /\ stuck' = stuck
    BY <2>1 DEF SetOff
  <2>2. CASE SetOut(o) \/ SetBack(o)
    BY <2>1, <2>2 DEF SetOut, SetBack
  <2>3. CASE RoadOut(o) \/ RoadBack(o)
    BY <2>3 DEF RoadOut, RoadBack
  <2> QED  BY <1>4, <2>2, <2>3
<1>5. ASSUME NEW e \in agenda, Competition(e) \/ CompetitionRefused(e)
      PROVE  roads' = roads /\ stuck' \in BOOLEAN
  BY <1>5 DEF Competition, CompetitionRefused
<1>6. CASE Timed
  BY <1>1, <1>2, <1>3, <1>4, <1>5, <1>6 DEF Timed
<1>7. ASSUME NEW f \in Sponsors, NEW policy \in {"none", "champion", "broad"}, NEW d \in BOOLEAN,
             Decide(f, policy, d)
      PROVE  roads' = roads /\ stuck' = stuck
  BY <1>7 DEF Decide
<1>8. CASE Register \/ Spectate \/ AdvanceTournament \/ FightPlayerMatch
  BY <1>8 DEF Register, Spectate, AdvanceTournament, FightPlayerMatch
<1>9. ASSUME NEW p \in People, Leave(p) \/ ComeBack(p) \/ Die(p)
      PROVE  roads' \subseteq roads /\ stuck' = stuck
  BY <1>9 DEF Leave, ComeBack, Die
<1> QED  BY <1>6, <1>7, <1>8, <1>9 DEF TournamentNext

\* The variables keep their types; a deployment whose people are gone is a row no more.
THEOREM TournamentTypes == TournamentSpec => []TournamentTypeOK
<1> DEFINE Roads == roads \subseteq Ops \X {"out", "back"} /\ stuck \in BOOLEAN
<1>1. TournamentInit => Roads
  BY DEF TournamentInit
<1>2. Roads /\ [TournamentNext]_tournamentVars => Roads'
  <2>1. Roads /\ TournamentNext => Roads'
    BY RoadsStay
  <2>2. Roads /\ UNCHANGED tournamentVars => Roads'
    BY DEF tournamentVars
  <2> QED  BY <2>1, <2>2
<1>3. TournamentInv /\ Roads => TournamentTypeOK
  <2> SUFFICES ASSUME TournamentInv, Roads PROVE TournamentTypeOK
    OBVIOUS
  <2>1. tour.regs \subseteq People /\ tour.escrow \in Nat
    BY RowType DEF TournamentInv, TourRows
  <2>2. \A o \in Ops : ops[o].members \subseteq People /\ (ops[o].members = {} => ops[o] = NoOp)
    <3> SUFFICES ASSUME NEW o \in Ops
                 PROVE  ops[o].members \subseteq People /\ (ops[o].members = {} => ops[o] = NoOp)
      OBVIOUS
    <3>1. IsOp(o, ops[o])
      BY DEF TournamentInv, TripInv
    <3>2. PICK x : x = ops[o]
      OBVIOUS
    <3>3. x \in OpRecs /\ (x.members = {} => x = NoOp)
      BY <3>1, <3>2 DEF IsOp
    <3>4. x.members \subseteq People
      BY <3>3 DEF OpRecs
    <3> QED  BY <3>2, <3>3, <3>4
  <2> QED  BY <2>1, <2>2 DEF TournamentTypeOK
<1>4. TournamentSpec => []Roads
  BY <1>1, <1>2, PTL DEF TournamentSpec
<1> QED  BY <1>3, <1>4, TournamentInvariant, PTL
=============================================================================
