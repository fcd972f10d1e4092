--------------------------- MODULE CampaignLedger ---------------------------
(***************************************************************************)
(* What the transaction layer promises its callers, without files, logs,   *)
(* locks or crashes.  The campaign is a ledger of committed commands.  A   *)
(* command is entered only at exactly the revision its sender had seen,    *)
(* at most once per request identity, and only after everything before it  *)
(* reached the shared remote.  A receipt exists only for a delivered       *)
(* command, and once it exists it stays.                                   *)
(***************************************************************************)
EXTENDS Naturals

CONSTANTS Command,    \* distinct command envelopes (one per command digest)
          RequestOf,  \* the request_id each envelope carries
          Base        \* the expected_revision each envelope carries

VARIABLES revision,   \* the campaign revision
          ledger,     \* the committed commands, each at the revision after its base
          delivered,  \* those the remote branch holds
          receipted   \* those an exact retry is answered from

ledgerVars == <<revision, ledger, delivered, receipted>>

LedgerInit ==
  /\ revision = 0
  /\ ledger = {}
  /\ delivered = {}
  /\ receipted = {}

\* One command moves the campaign exactly one revision forward.
CommitCommand(c) ==
  /\ revision = Base[c]
  /\ delivered = ledger
  /\ \A d \in ledger : RequestOf[d] # RequestOf[c]
  /\ revision' = revision + 1
  /\ ledger' = ledger \cup {c}
  /\ UNCHANGED <<delivered, receipted>>

\* The newest commit is the only one that can be undelivered.
Deliver ==
  /\ delivered # ledger
  /\ delivered' = ledger
  /\ UNCHANGED <<revision, ledger, receipted>>

PublishReceipt(c) ==
  /\ c \in delivered \ receipted
  /\ receipted' = receipted \cup {c}
  /\ UNCHANGED <<revision, ledger, delivered>>

LedgerNext ==
  \/ \E c \in Command : CommitCommand(c) \/ PublishReceipt(c)
  \/ Deliver

LedgerSpec == LedgerInit /\ [][LedgerNext]_ledgerVars
=============================================================================
