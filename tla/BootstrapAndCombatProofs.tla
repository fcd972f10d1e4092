---------------------- MODULE BootstrapAndCombatProofs ----------------------
(***************************************************************************)
(* Theorems about two components that have nothing in common, not even a   *)
(* name: the start-up of a campaign, in the first part, and exact combat,  *)
(* in the second.                                                          *)
(***************************************************************************)
EXTENDS CampaignBootstrap, ExactCombat, TLAPS, SequenceTheorems

-----------------------------------------------------------------------------
(***************************************************************************)
(* Proofs about CampaignBootstrap, for every set of commands, releases,    *)
(* rebaselines and replaced histories and every bound on crashes and       *)
(* faults.                                                                 *)
(*                                                                         *)
(* A start-up may take the remote head in four ways, and each must leave   *)
(* the campaign at or after what was last served.  A fast-forward does     *)
(* because revisions never fall along a history (Steady); an equivalent    *)
(* head because equal contents have equal revisions (Alike), which holds   *)
(* while a command is not committed twice (Accounted); a newer one by its  *)
(* guard; and a reset because its baseline differs from the checkout's and *)
(* then also from the one last served (Recalled).                          *)
(***************************************************************************)

\* Every commit the service, its store or the shared branch still shows.
Known ==
  Range(local) \cup Range(remote) \cup Range(start) \cup receipts \cup retired \cup {served}

\* The commits of the unfinished transaction.
Logged == IF wal = NoTransaction THEN {} ELSE {wal[1], wal[2]}

\* k may be served after s.
Ahead(k, s) ==
  k.campaign = s.campaign /\ (k.baseline # s.baseline \/ k.revision >= s.revision)

\* Along a history, revisions of one baseline never fall.
Steady(h) ==
  \A i, j \in DOMAIN h :
    i < j /\ h[i].baseline = h[j].baseline =>
      h[i].campaign = h[j].campaign /\ h[i].revision <= h[j].revision

\* A checkout is at the served baseline whenever the branch is.
Recalled(k) == Last(remote).baseline = served.baseline => k.baseline = served.baseline

\* No commit has the contents of the logged command yet.
Fresh == \A k \in Known : k.truth # wal[2].truth

TypeInv == BootstrapTypeOK

NameInv ==
  \A k \in Known \cup Logged :
    /\ k.baseline \in published \cup {Genesis}
    /\ k.truth \in Command \cup published \cup {Genesis}

AlikeInv ==
  \A a, b \in Known \cup Logged :
    a.truth = b.truth =>
      a.campaign = b.campaign /\ a.baseline = b.baseline /\ a.revision = b.revision

AccountedInv ==
  \A k \in Known \cup Logged :
    k.truth \in Command =>
      \/ \E r \in receipts \cup retired : r.id = k.truth
      \/ wal # NoTransaction /\ wal[2].id = k.truth

LogInv ==
  wal # NoTransaction =>
    /\ wal[2].id \in Command /\ wal[2].truth = wal[2].id
    /\ wal[2].campaign = wal[1].campaign /\ wal[2].baseline = wal[1].baseline
    /\ wal[2].revision = wal[1].revision + 1
    /\ Fresh \/ served = wal[2]
    /\ dirty => Fresh /\ Last(local) = wal[1]

OrderInv ==
  /\ Steady(local) /\ Steady(remote) /\ Steady(start)
  /\ Ahead(Last(local), served) /\ Recalled(Last(local))

ResetInv ==
  pc \in ResetSteps =>
    /\ wal = NoTransaction
    /\ Ahead(Last(start), served) /\ Recalled(Last(start))

BootInv ==
  TypeInv /\ NameInv /\ AlikeInv /\ AccountedInv /\ LogInv /\ OrderInv /\ ResetInv

-----------------------------------------------------------------------------
(* Histories *)

\* The last commit of a history is one of its commits.
LEMMA LastIsThere ==
  ASSUME NEW S, NEW s \in Seq(S) \ {<<>>}
  PROVE  /\ Len(s) \in DOMAIN s /\ Len(s) \in Nat \ {0} /\ DOMAIN s = 1 .. Len(s)
         /\ Last(s) \in Range(s) /\ Last(s) \in S
         /\ Range(s) \subseteq S
<1>1. Len(s) \in Nat \ {0} /\ DOMAIN s = 1 .. Len(s) /\ \A i \in 1 .. Len(s) : s[i] \in S
  BY EmptySeq
<1>2. QED
  BY <1>1 DEF Last, Range

\* A history extended by k.
LEMMA AppendedHead ==
  ASSUME NEW S, NEW s \in Seq(S), NEW k \in S
  PROVE  /\ Append(s, k) \in Seq(S) \ {<<>>}
         /\ Last(Append(s, k)) = k
         /\ Range(Append(s, k)) = Range(s) \cup {k}
<1>1. /\ Append(s, k) \in Seq(S) /\ Len(Append(s, k)) = Len(s) + 1 /\ Len(s) \in Nat
      /\ DOMAIN s = 1 .. Len(s) /\ DOMAIN Append(s, k) = 1 .. Len(s) + 1
      /\ Append(s, k)[Len(s) + 1] = k /\ \A i \in 1 .. Len(s) : Append(s, k)[i] = s[i]
  OBVIOUS
<1>2. Append(s, k) # <<>>
  BY <1>1
<1>3. Last(Append(s, k)) = k
  BY <1>1 DEF Last
<1>4. ASSUME NEW x PROVE x \in Range(Append(s, k)) <=> x \in Range(s) \cup {k}
  <2>1. ASSUME x \in Range(Append(s, k)) PROVE x \in Range(s) \cup {k}
    <3>1. PICK i \in 1 .. Len(s) + 1 : Append(s, k)[i] = x
      BY <1>1, <2>1 DEF Range
    <3>2. CASE i = Len(s) + 1
      BY <1>1, <3>1, <3>2
    <3>3. CASE i # Len(s) + 1
      BY <1>1, <3>1, <3>3 DEF Range
    <3>4. QED
      BY <3>2, <3>3
  <2>2. ASSUME x \in Range(s) PROVE x \in Range(Append(s, k))
    <3>1. PICK i \in 1 .. Len(s) : s[i] = x
      BY <1>1, <2>2 DEF Range
    <3>2. QED
      BY <1>1, <3>1 DEF Range
  <2>3. k \in Range(Append(s, k))
    <3>1. Len(s) + 1 \in DOMAIN Append(s, k)
      BY <1>1
    <3>2. QED
      BY <1>1, <3>1 DEF Range
  <2>4. QED
    BY <2>1, <2>2, <2>3
<1>5. QED
  BY <1>1, <1>2, <1>3, <1>4

\* One commit alone.
LEMMA SingleHead ==
  ASSUME NEW S, NEW k \in S
  PROVE  /\ <<k>> \in Seq(S) \ {<<>>} /\ Last(<<k>>) = k /\ Range(<<k>>) = {k}
         /\ Steady(<<k>>)
  BY DEF Last, Range, Steady

\* A commit record carries a campaign revision.
LEMMA RevisionsAreNumbers ==
  ASSUME NEW k \in CommitRecords
  PROVE  k.revision \in Nat
  BY BootstrapAssumption DEF CommitRecords

\* A commit that continues the last one, or opens a baseline the history does not
\* know, keeps revisions from falling.
LEMMA SteadyAppend ==
  ASSUME NEW s \in Seq(CommitRecords) \ {<<>>}, NEW k \in CommitRecords, Steady(s),
         \/ /\ k.baseline = Last(s).baseline /\ k.campaign = Last(s).campaign
            /\ Last(s).revision <= k.revision
         \/ \A y \in Range(s) : y.baseline # k.baseline
  PROVE  Steady(Append(s, k))
<1> DEFINE t == Append(s, k)
<1>1. /\ Len(s) \in Nat \ {0} /\ DOMAIN s = 1 .. Len(s) /\ DOMAIN t = 1 .. Len(s) + 1
      /\ t[Len(s) + 1] = k /\ \A i \in 1 .. Len(s) : t[i] = s[i] /\ s[i] \in CommitRecords
  BY LastIsThere
<1> HIDE DEF t
<1>2. SUFFICES ASSUME NEW i \in DOMAIN t, NEW j \in DOMAIN t, i < j, t[i].baseline = t[j].baseline
               PROVE  t[i].campaign = t[j].campaign /\ t[i].revision <= t[j].revision
  BY DEF Steady, t
<1>3. i \in DOMAIN s /\ t[i] = s[i]
  BY <1>1, <1>2
<1>4. CASE j \in DOMAIN s
  BY <1>1, <1>2, <1>3, <1>4 DEF Steady
<1>5. CASE j = Len(s) + 1
  <2>1. s[i] \in Range(s) /\ t[j] = k
    BY <1>1, <1>3, <1>5 DEF Range
  <2>2. k.baseline = Last(s).baseline /\ k.campaign = Last(s).campaign
        /\ Last(s).revision <= k.revision
    BY <1>2, <1>3, <2>1
  <2>3. s[i].campaign = s[Len(s)].campaign /\ s[i].revision <= s[Len(s)].revision
    <3>1. CASE i = Len(s)
      BY <1>1, <1>3, <3>1, RevisionsAreNumbers
    <3>2. CASE i < Len(s)
      <4>1. Len(s) \in DOMAIN s /\ s[i].baseline = s[Len(s)].baseline
        BY <1>1, <1>2, <1>3, <2>1, <2>2 DEF Last
      <4>2. QED
        BY <1>3, <3>2, <4>1 DEF Steady
    <3>3. QED
      BY <1>1, <1>3, <3>1, <3>2
  <2>4. s[i].revision \in Nat /\ s[Len(s)].revision \in Nat /\ k.revision \in Nat
    BY <1>1, <1>3, RevisionsAreNumbers
  <2>5. QED
    BY <1>3, <2>1, <2>2, <2>3, <2>4 DEF Last
<1>6. QED
  BY <1>1, <1>4, <1>5

\* The head of a history is ahead of every earlier commit of its baseline.
LEMMA SteadyPrefix ==
  ASSUME NEW s \in Seq(CommitRecords) \ {<<>>}, NEW t \in Seq(CommitRecords) \ {<<>>},
         Steady(t), IsStrictPrefix(s, t), Last(s).baseline = Last(t).baseline
  PROVE  Ahead(Last(t), Last(s))
<1>1. /\ Len(s) \in Nat \ {0} /\ Len(t) \in Nat \ {0} /\ Len(s) <= Len(t)
      /\ DOMAIN t = 1 .. Len(t) /\ \A i \in 1 .. Len(t) : t[i] \in CommitRecords
  BY LastIsThere DEF IsStrictPrefix, IsPrefix
<1>2. SubSeq(s, 1, Len(s)) = SubSeq(t, 1, Len(s)) /\ s # t
  BY DEF IsStrictPrefix, IsPrefix
<1>3. s[Len(s)] = t[Len(s)]
  <2>1. \A i \in 1 .. Len(s) : SubSeq(s, 1, Len(s))[i] = s[i] /\ SubSeq(t, 1, Len(s))[i] = t[i]
    BY <1>1, SubSeqProperties
  <2>2. QED
    BY <1>1, <1>2, <2>1
<1>4. Len(s) \in DOMAIN t /\ Len(t) \in DOMAIN t
  BY <1>1
<1>5. CASE Len(s) = Len(t)
  BY <1>1, <1>3, <1>5, RevisionsAreNumbers DEF Ahead, Last
<1>6. CASE Len(s) < Len(t)
  BY <1>1, <1>3, <1>4, <1>6, RevisionsAreNumbers DEF Ahead, Last, Steady
<1>7. QED
  BY <1>1, <1>5, <1>6

\* Within a baseline, being ahead is transitive.
LEMMA AheadOf ==
  ASSUME NEW k \in CommitRecords, NEW m \in CommitRecords, NEW s \in CommitRecords,
         Ahead(k, s), Ahead(m, k), m.baseline = k.baseline
  PROVE  Ahead(m, s)
  BY RevisionsAreNumbers DEF Ahead

-----------------------------------------------------------------------------
(* What every step may use *)

USE DEF diskVars, ResetSteps

\* The heads of the local, the remote and the first history, and every commit of them, are
\* known records.
LEMMA HeadsAreKnown ==
  ASSUME TypeInv
  PROVE  /\ Known \subseteq CommitRecords /\ Logged \subseteq CommitRecords
         /\ Last(local) \in Known /\ Last(remote) \in Known /\ Last(start) \in Known
         /\ Range(local) \subseteq Known /\ Range(remote) \subseteq Known
         /\ Range(start) \subseteq Known
<1>1. /\ local \in Seq(CommitRecords) \ {<<>>} /\ remote \in Seq(CommitRecords) \ {<<>>}
      /\ start \in Seq(CommitRecords) \ {<<>>}
  BY DEF TypeInv, BootstrapTypeOK
<1>2. /\ Range(local) \cup Range(remote) \cup Range(start) \subseteq CommitRecords
      /\ Last(local) \in Range(local) /\ Last(remote) \in Range(remote)
      /\ Last(start) \in Range(start)
  BY <1>1, LastIsThere
<1>3. QED
  BY <1>2 DEF TypeInv, BootstrapTypeOK, Known, Logged

\* Nothing new is shown: names stay accounted for and contents alike.
LEMMA NothingNew ==
  ASSUME BootInv, Known' \cup Logged' \subseteq Known \cup Logged, published \subseteq published'
  PROVE  NameInv' /\ AlikeInv'
<1>1. NameInv'
  BY DEF BootInv, NameInv
<1>2. AlikeInv'
  BY DEF BootInv, AlikeInv
<1>3. QED
  BY <1>1, <1>2

\* A step of the control alone.
LEMMA QuietKeeps ==
  ASSUME BootInv, UNCHANGED <<diskVars, remote, start, served, published>>,
         pc' \in ResetSteps \cup {"down", "recover", "serving"},
         pc' \in ResetSteps => pc \in ResetSteps, cut' \subseteq Rebaseline \cup {Genesis},
         crashes' \in 0 .. MaxCrashes, faults' \in 0 .. MaxFaults
  PROVE  BootInv'
<1>1. Known' = Known /\ Logged' = Logged
  BY DEF Known, Logged
<1>2. TypeInv'
  BY DEF BootInv, TypeInv, BootstrapTypeOK
<1>3. NameInv' /\ AlikeInv'
  BY <1>1, NothingNew
<1>4. AccountedInv'
  BY <1>1 DEF BootInv, AccountedInv
<1>5. LogInv'
  BY <1>1 DEF BootInv, LogInv, Fresh
<1>6. OrderInv' /\ ResetInv'
  BY DEF BootInv, OrderInv, ResetInv, Recalled
<1>7. QED
  BY <1>2, <1>3, <1>4, <1>5, <1>6 DEF BootInv

\* A start-up takes a head that may be served next.
LEMMA ContinueKeeps ==
  ASSUME BootInv, pc = "down", NEW head \in {local, remote}, Continue(head),
         Ahead(Last(head), served), Recalled(Last(head)), dirty => head = local
  PROVE  BootInv'
<1>1. Known' \subseteq Known /\ Logged' = Logged
  BY DEF Continue, Known, Logged
<1>2. TypeInv'
  BY DEF BootInv, TypeInv, BootstrapTypeOK, Continue
<1>3. NameInv' /\ AlikeInv'
  BY <1>1, NothingNew DEF Continue
<1>4. AccountedInv'
  BY <1>1 DEF BootInv, AccountedInv, Continue
<1>5. LogInv'
  BY <1>1 DEF BootInv, LogInv, Fresh, Continue
<1>6. OrderInv' /\ ResetInv'
  BY DEF BootInv, OrderInv, ResetInv, Recalled, Continue
<1>7. QED
  BY <1>2, <1>3, <1>4, <1>5, <1>6 DEF BootInv

\* The four ways to take a head, and the two to keep one.
LEMMA HeadStep ==
  ASSUME BootInv,
         KeepDirty \/ KeepEqual \/ KeepAhead \/ FastForward \/ AdoptEquivalent \/ AdoptNewer
  PROVE  BootInv'
<1>1. /\ Last(local) \in CommitRecords /\ Last(remote) \in CommitRecords
      /\ served \in CommitRecords
      /\ Last(local) \in Known /\ Last(remote) \in Known
  BY HeadsAreKnown DEF BootInv, TypeInv, BootstrapTypeOK
<1>2. Ahead(Last(local), served) /\ Recalled(Last(local)) /\ Recalled(Last(remote))
  BY DEF BootInv, OrderInv, Recalled
<1>3. CASE KeepDirty \/ KeepEqual \/ KeepAhead
  BY <1>2, <1>3, ContinueKeeps DEF KeepDirty, KeepEqual, KeepAhead
<1>4. CASE FastForward
  <2>1. Ahead(Last(remote), Last(local))
    BY <1>4, SteadyPrefix DEF FastForward, NewBaseline, BootInv, OrderInv, TypeInv, BootstrapTypeOK
  <2>2. Ahead(Last(remote), served)
    BY <1>1, <1>2, <1>4, <2>1, AheadOf DEF FastForward, NewBaseline
  <2>3. QED
    BY <1>2, <1>4, <2>2, ContinueKeeps DEF FastForward
<1>5. CASE AdoptEquivalent
  <2>1. /\ Last(local).campaign = Last(remote).campaign
        /\ Last(local).baseline = Last(remote).baseline
        /\ Last(local).revision = Last(remote).revision
    BY <1>1, <1>5 DEF AdoptEquivalent, BootInv, AlikeInv
  <2>2. Ahead(Last(remote), served)
    BY <1>2, <2>1 DEF Ahead
  <2>3. QED
    BY <1>2, <1>5, <2>2, ContinueKeeps DEF AdoptEquivalent
<1>6. CASE AdoptNewer
  <2>1. Ahead(Last(remote), Last(local)) /\ Last(remote).baseline = Last(local).baseline
    BY <1>1, <1>6, RevisionsAreNumbers DEF AdoptNewer, Diverged, NewBaseline, Ahead
  <2>2. Ahead(Last(remote), served)
    BY <1>1, <1>2, <2>1, AheadOf
  <2>3. QED
    BY <1>2, <1>6, <2>2, ContinueKeeps DEF AdoptNewer
<1>7. QED
  BY <1>3, <1>4, <1>5, <1>6

-----------------------------------------------------------------------------
(* The reset *)

\* Starting a reset from the release keeps the bootstrap invariant.
LEMMA BeginResetStep ==
  ASSUME BootInv, BeginReset
  PROVE  BootInv'
<1> USE DEF BeginReset
<1>1. Known' \subseteq Known /\ Logged' = Logged
  BY DEF Known, Logged
<1>2. TypeInv'
  BY DEF BootInv, TypeInv, BootstrapTypeOK
<1>3. NameInv' /\ AlikeInv'
  BY <1>1, NothingNew
<1>4. AccountedInv'
  BY <1>1 DEF BootInv, AccountedInv
<1>5. LogInv'
  BY DEF BootInv, LogInv
<1>6. Ahead(Last(remote), served)
  BY DEF BootInv, OrderInv, Recalled, NewBaseline, Ahead
<1>7. OrderInv' /\ ResetInv'
  BY <1>6 DEF BootInv, OrderInv, ResetInv, Recalled
<1>8. QED
  BY <1>2, <1>3, <1>4, <1>5, <1>7 DEF BootInv

\* A reset that fails and is undone keeps the bootstrap invariant, at whichever step it
\* fails.
LEMMA UndoKeeps ==
  ASSUME BootInv, pc \in ResetSteps, UndoReset, faults' \in 0 .. MaxFaults,
         UNCHANGED <<dirty, remote, wal, receipts, retired, start, cut, served, published, crashes>>
  PROVE  BootInv'
<1> USE DEF UndoReset
<1>1. Known' \subseteq Known /\ Logged' = Logged /\ wal = NoTransaction
  BY DEF BootInv, ResetInv, Known, Logged
<1>2. TypeInv'
  BY <1>1 DEF BootInv, TypeInv, BootstrapTypeOK
<1>3. NameInv' /\ AlikeInv'
  BY <1>1, NothingNew
<1>4. AccountedInv'
  BY <1>1 DEF BootInv, AccountedInv
<1>5. LogInv'
  BY <1>1 DEF BootInv, LogInv
<1>6. OrderInv' /\ ResetInv'
  BY DEF BootInv, OrderInv, ResetInv, Recalled
<1>7. QED
  BY <1>2, <1>3, <1>4, <1>5, <1>6 DEF BootInv

\* A reset is cut short at a baseline that some head has.
LEMMA CutIsKnown ==
  ASSUME BootInv, CutShort
  PROVE  cut' \subseteq Rebaseline \cup {Genesis}
  BY HeadsAreKnown DEF BootInv, TypeInv, BootstrapTypeOK, CutShort, CommitRecords

\* Every step of the baseline reset keeps the bootstrap invariant.
LEMMA ResetStep ==
  ASSUME BootInv, BaselineReset
  PROVE  BootInv'
<1>1. CASE VerifyBaseline
  <2>1. CASE MatchesContract(Last(local))
    BY <1>1, <2>1, QuietKeeps DEF VerifyBaseline, BootInv, TypeInv, BootstrapTypeOK
  <2>2. CASE ~MatchesContract(Last(local))
    BY <1>1, <2>2, UndoKeeps DEF VerifyBaseline, BootInv, TypeInv, BootstrapTypeOK
  <2>3. QED
    BY <2>1, <2>2
<1>2. CASE RetireWal
  BY <1>2, QuietKeeps DEF RetireWal, BootInv, TypeInv, BootstrapTypeOK
<1>3. CASE RetireReceipts
  <2> USE <1>3 DEF RetireReceipts
  <2>1. Known' \subseteq Known /\ Logged' = Logged /\ receipts' \cup retired' = receipts \cup retired
    BY DEF Known, Logged
  <2>2. TypeInv'
    BY DEF BootInv, TypeInv, BootstrapTypeOK
  <2>3. NameInv' /\ AlikeInv'
    BY <2>1, NothingNew
  <2>4. AccountedInv'
    BY <2>1 DEF BootInv, AccountedInv
  <2>5. LogInv'
    BY DEF BootInv, ResetInv, LogInv
  <2>6. OrderInv' /\ ResetInv'
    BY DEF BootInv, OrderInv, ResetInv, Recalled
  <2>7. QED
    BY <2>2, <2>3, <2>4, <2>5, <2>6 DEF BootInv
<1>4. CASE RetirementFails
  <2>1. faults' \in 0 .. MaxFaults
    BY <1>4, BootstrapAssumption DEF RetirementFails, BootInv, TypeInv, BootstrapTypeOK
  <2>2. QED
    BY <1>4, <2>1, UndoKeeps DEF RetirementFails
<1>5. CASE ResetRaises
  <2>1. faults' \in 0 .. MaxFaults
    BY <1>5, BootstrapAssumption DEF ResetRaises, BootInv, TypeInv, BootstrapTypeOK
  <2>2. cut' \subseteq Rebaseline \cup {Genesis}
    BY <1>5, CutIsKnown DEF ResetRaises
  <2>3. QED
    BY <1>5, <2>1, <2>2, QuietKeeps DEF ResetRaises, BootInv, TypeInv, BootstrapTypeOK
<1>6. QED
  BY <1>1, <1>2, <1>3, <1>4, <1>5 DEF BaselineReset

-----------------------------------------------------------------------------
(* The service *)

\* Starting to serve keeps the bootstrap invariant.
LEMMA ServeStep ==
  ASSUME BootInv, Serve
  PROVE  BootInv'
<1> USE DEF Serve
<1>1. Known' \subseteq Known /\ Logged' = Logged
  BY HeadsAreKnown DEF BootInv, Known, Logged
<1>2. TypeInv'
  BY HeadsAreKnown DEF BootInv, TypeInv, BootstrapTypeOK
<1>3. NameInv' /\ AlikeInv'
  BY <1>1, NothingNew
<1>4. AccountedInv'
  BY <1>1 DEF BootInv, AccountedInv
<1>5. LogInv'
  BY DEF LogInv
<1>6. Last(local).revision \in Nat
  BY HeadsAreKnown, RevisionsAreNumbers DEF BootInv
<1>7. OrderInv' /\ ResetInv'
  BY <1>6 DEF BootInv, OrderInv, ResetInv, Recalled, Ahead
<1>8. QED
  BY <1>2, <1>3, <1>4, <1>5, <1>7 DEF BootInv

\* A logged command is new: no commit that anybody shows has its contents.
LEMMA PrepareStep ==
  ASSUME BootInv, NEW c \in Command, Prepare(c)
  PROVE  BootInv'
<1> USE DEF Prepare
<1> DEFINE k == CommitOf(c)
<1>1. /\ Last(local) \in CommitRecords /\ Last(local) \in Known
      /\ Last(local).revision < MaxRevision
  BY HeadsAreKnown DEF BootInv
<1>2. Last(local).revision + 1 \in 0 .. MaxRevision /\ c \in Names
  BY <1>1, RevisionsAreNumbers, BootstrapAssumption DEF Names
<1>3. k \in CommitRecords
  BY <1>1, <1>2 DEF CommitOf, CommitRecords
<1>4. /\ k.id = c /\ k.truth = c /\ k.campaign = Last(local).campaign
      /\ k.baseline = Last(local).baseline /\ k.revision = Last(local).revision + 1
  BY <1>1 DEF CommitOf, CommitRecords
<1> HIDE DEF k
<1>5. wal' = <<Last(local), k>> /\ wal' # NoTransaction
  BY DEF k, NoTransaction
<1>6. \A m \in Known : m.truth # c
  BY DEF BootInv, AccountedInv
<1>7. Known' = Known /\ Logged = {} /\ Logged' = {Last(local), k}
  BY <1>5 DEF Known, Logged
<1>8. TypeInv'
  BY <1>1, <1>3, <1>5 DEF BootInv, TypeInv, BootstrapTypeOK
<1>9. NameInv'
  BY <1>1, <1>4, <1>7 DEF BootInv, NameInv
<1>10. AlikeInv'
  BY <1>1, <1>4, <1>6, <1>7 DEF BootInv, AlikeInv
<1>11. AccountedInv'
  BY <1>1, <1>4, <1>5, <1>7 DEF BootInv, AccountedInv
<1>12. LogInv'
  <2>1. wal[1]' = Last(local) /\ wal[2]' = k
    BY <1>5
  <2>2. Fresh'
    BY <1>4, <1>6, <1>7, <2>1 DEF Fresh
  <2>3. dirty' = FALSE
    BY DEF BootInv, TypeInv, BootstrapTypeOK
  <2>4. QED
    BY <1>4, <2>1, <2>2, <2>3 DEF LogInv
<1>13. OrderInv' /\ ResetInv'
  BY DEF BootInv, OrderInv, ResetInv, Recalled
<1>14. QED
  BY <1>8, <1>9, <1>10, <1>11, <1>12, <1>13 DEF BootInv

\* Files are replaced only while the logged command has no commit.
LEMMA UncommittedIsFresh ==
  ASSUME BootInv, wal # NoTransaction,
         \/ dirty
         \/ Last(local).truth = wal[1].truth
  PROVE  Fresh
<1>1. /\ wal[1] \in CommitRecords /\ wal[2] \in CommitRecords
      /\ wal[1] \in Logged /\ Last(local) \in CommitRecords /\ Last(local) \in Known
  BY HeadsAreKnown DEF BootInv, TypeInv, BootstrapTypeOK, Logged
<1>2. CASE dirty
  BY <1>2 DEF BootInv, LogInv
<1>3. ASSUME Last(local).truth = wal[1].truth, served = wal[2] PROVE FALSE
  <2>1. /\ Last(local).baseline = wal[2].baseline /\ Last(local).revision = wal[1].revision
        /\ wal[2].revision = wal[1].revision + 1
    BY <1>1, <1>3 DEF BootInv, AlikeInv, LogInv
  <2>2. Last(local).revision >= wal[2].revision
    BY <1>3, <2>1 DEF BootInv, OrderInv, Ahead
  <2>3. QED
    BY <1>1, <2>1, <2>2, RevisionsAreNumbers
<1>4. QED
  BY <1>2, <1>3 DEF BootInv, LogInv

\* Applying a command's files keeps the bootstrap invariant.
LEMMA ApplyStep ==
  ASSUME BootInv, Apply
  PROVE  BootInv'
<1> USE DEF Apply
<1>1. Known' = Known /\ Logged' = Logged
  BY DEF Known, Logged
<1>2. TypeInv'
  BY DEF BootInv, TypeInv, BootstrapTypeOK
<1>3. NameInv' /\ AlikeInv'
  BY <1>1, NothingNew
<1>4. AccountedInv'
  BY <1>1 DEF BootInv, AccountedInv
<1>5. LogInv'
  <2>1. Fresh
    BY UncommittedIsFresh
  <2>2. QED
    BY <1>1, <2>1 DEF BootInv, LogInv, Fresh
<1>6. OrderInv' /\ ResetInv'
  BY DEF BootInv, OrderInv, ResetInv, Recalled
<1>7. QED
  BY <1>2, <1>3, <1>4, <1>5, <1>6 DEF BootInv

\* Committing a command keeps the bootstrap invariant.
LEMMA CommitStep ==
  ASSUME BootInv, Commit
  PROVE  BootInv'
<1> USE DEF Commit
<1>1. /\ wal # NoTransaction /\ Last(local) = wal[1]
      /\ local \in Seq(CommitRecords) \ {<<>>}
      /\ wal[1] \in CommitRecords /\ wal[2] \in CommitRecords
  BY DEF BootInv, TypeInv, BootstrapTypeOK, LogInv
<1>2. /\ local' \in Seq(CommitRecords) \ {<<>>} /\ Last(local') = wal[2]
      /\ Range(local') = Range(local) \cup {wal[2]}
  BY <1>1, AppendedHead
<1>3. Known' \cup Logged' \subseteq Known \cup Logged
  BY <1>1, <1>2 DEF Known, Logged
<1>4. TypeInv'
  BY <1>1, <1>2 DEF BootInv, TypeInv, BootstrapTypeOK
<1>5. NameInv' /\ AlikeInv'
  BY <1>3, NothingNew
<1>6. AccountedInv'
  BY <1>3 DEF BootInv, AccountedInv
<1>7. LogInv'
  BY <1>1 DEF BootInv, LogInv
<1>8. wal[1].revision \in Nat /\ wal[2].revision \in Nat
  BY <1>1, RevisionsAreNumbers
<1>9. Steady(local')
  <2>1. /\ wal[2].baseline = Last(local).baseline /\ wal[2].campaign = Last(local).campaign
        /\ Last(local).revision <= wal[2].revision
    BY <1>1, <1>8 DEF BootInv, LogInv
  <2>2. QED
    BY <1>1, <2>1, SteadyAppend DEF BootInv, OrderInv
<1>10. OrderInv'
  BY <1>2, <1>8, <1>9 DEF BootInv, OrderInv, Recalled, Ahead
<1>11. ResetInv'
  BY DEF ResetInv
<1>12. QED
  BY <1>4, <1>5, <1>6, <1>7, <1>10, <1>11 DEF BootInv

\* The branch is fast-forwarded to the checkout.
LEMMA PushKeeps ==
  ASSUME BootInv, pc \notin ResetSteps, remote' = local,
         UNCHANGED <<local, dirty, wal, receipts, retired, pc, start, cut, served, published, crashes,
                     faults>>
  PROVE  BootInv'
<1>1. Known' \subseteq Known /\ Logged' = Logged
  BY DEF Known, Logged
<1>2. TypeInv'
  BY DEF BootInv, TypeInv, BootstrapTypeOK
<1>3. NameInv' /\ AlikeInv'
  BY <1>1, NothingNew
<1>4. AccountedInv'
  BY <1>1 DEF BootInv, AccountedInv
<1>5. LogInv'
  BY <1>1 DEF BootInv, LogInv, Fresh
<1>6. OrderInv' /\ ResetInv'
  BY DEF BootInv, OrderInv, ResetInv, Recalled
<1>7. QED
  BY <1>2, <1>3, <1>4, <1>5, <1>6 DEF BootInv

\* The receipt of a commit on the checkout.
LEMMA ReceiptKeeps ==
  ASSUME BootInv, pc \notin ResetSteps, wal # NoTransaction, Last(local) = wal[2],
         receipts' = receipts \cup {wal[2]},
         UNCHANGED <<local, dirty, wal, retired, remote, pc, start, cut, served, published, crashes,
                     faults>>
  PROVE  BootInv'
<1>1. Known' = Known /\ Logged' = Logged
  BY HeadsAreKnown DEF BootInv, Known, Logged
<1>2. TypeInv'
  BY HeadsAreKnown DEF BootInv, TypeInv, BootstrapTypeOK
<1>3. NameInv' /\ AlikeInv'
  BY <1>1, NothingNew
<1>4. AccountedInv'
  BY <1>1 DEF BootInv, AccountedInv
<1>5. LogInv'
  BY <1>1 DEF BootInv, LogInv, Fresh
<1>6. OrderInv' /\ ResetInv'
  BY DEF BootInv, OrderInv, ResetInv, Recalled
<1>7. QED
  BY <1>2, <1>3, <1>4, <1>5, <1>6 DEF BootInv

\* The log is closed when its command has a receipt, or no commit anywhere.
LEMMA CloseKeeps ==
  ASSUME BootInv, pc \notin ResetSteps, wal # NoTransaction, wal' = NoTransaction,
         dirty' = FALSE, remote' \in {remote, local},
         \/ receipts' = receipts
         \/ receipts' = receipts \cup {wal[2]} /\ Last(local) = wal[2],
         wal[2] \in receipts' \/ Fresh,
         UNCHANGED <<local, retired, pc, start, cut, served, published, crashes, faults>>
  PROVE  BootInv'
<1>1. Known' \subseteq Known /\ Logged' = {}
  BY HeadsAreKnown DEF BootInv, Known, Logged
<1>2. TypeInv'
  BY HeadsAreKnown DEF BootInv, TypeInv, BootstrapTypeOK
<1>3. NameInv' /\ AlikeInv'
  BY <1>1, NothingNew
<1>4. AccountedInv'
  BY <1>1 DEF BootInv, AccountedInv, LogInv, Fresh
<1>5. LogInv'
  BY DEF LogInv
<1>6. OrderInv' /\ ResetInv'
  BY DEF BootInv, OrderInv, ResetInv, Recalled
<1>7. QED
  BY <1>2, <1>3, <1>4, <1>5, <1>6 DEF BootInv

\* Recovery at start-up keeps the bootstrap invariant.
LEMMA RecoverStep ==
  ASSUME BootInv, Recover
  PROVE  BootInv'
<1> USE DEF Recover, RestoreImages
<1>1. CASE /\ dirty \/ Last(local).truth = wal[1].truth
           /\ UNCHANGED <<remote, receipts>>
  BY <1>1, UncommittedIsFresh, CloseKeeps
<1>2. CASE /\ Last(local) = wal[2] /\ remote' = local
           /\ receipts' = receipts \cup {wal[2]}
  BY <1>2, CloseKeeps
<1>3. CASE wal[2] \in receipts /\ UNCHANGED <<remote, receipts>>
  BY <1>3, CloseKeeps
<1>4. QED
  BY <1>1, <1>2, <1>3

\* Every step of the running service keeps the bootstrap invariant.
LEMMA ServiceStep ==
  ASSUME BootInv, Service
  PROVE  BootInv'
<1>1. CASE StartUpFails
  BY <1>1, QuietKeeps DEF StartUpFails, BootInv, TypeInv, BootstrapTypeOK
<1>2. CASE Deliver
  BY <1>2, PushKeeps DEF Deliver
<1>3. CASE PublishReceipt
  BY <1>3, ReceiptKeeps DEF PublishReceipt
<1>4. CASE Archive
  <2>1. dirty' = FALSE
    BY <1>4 DEF Archive, BootInv, TypeInv, BootstrapTypeOK, LogInv, AccountedInv, Known, Fresh
  <2>2. QED
    BY <1>4, <2>1, CloseKeeps DEF Archive
<1>5. QED
  BY <1>1, <1>2, <1>3, <1>4, RecoverStep, ServeStep, ApplyStep, CommitStep, PrepareStep DEF Service

-----------------------------------------------------------------------------
(* The outside *)

\* A push from outside whose head is a commit of a baseline and contents that nobody
\* has seen, or a copy of the old head.
LEMMA PublishKeeps ==
  ASSUME BootInv, NEW name \in Release \cup Rebaseline \cup Replacement,
         NEW k \in CommitRecords, NEW history, Publish(name, history),
         history \in Seq(CommitRecords) \ {<<>>}, Last(history) = k, Steady(history),
         Range(history) \subseteq Range(remote) \cup {k},
         \/ k.baseline = Last(remote).baseline
         \/ k.baseline = name /\ name \in Rebaseline,
         \/ /\ k.truth = Last(remote).truth /\ k.campaign = Last(remote).campaign
            /\ k.revision = Last(remote).revision /\ k.baseline = Last(remote).baseline
         \/ k.truth = name /\ name \in Rebaseline \cup Replacement
  PROVE  BootInv'
<1> USE DEF Publish
<1>1. /\ Last(remote) \in Known /\ Last(local) \in Known /\ served \in Known
      /\ Last(start) \in Known
  BY HeadsAreKnown DEF BootInv, Known
<1>2. Known' \subseteq Known \cup {k} /\ Logged' = Logged
  BY DEF Known, Logged
<1>3. TypeInv'
  BY DEF BootInv, TypeInv, BootstrapTypeOK
<1>4. ASSUME k.truth = name, NEW m \in Known \cup Logged PROVE m.truth # k.truth
  <2>1. k.truth \notin published \cup {Genesis}
    BY <1>4, BootstrapAssumption
  <2>2. k.truth \in Rebaseline \cup Replacement \/ k.truth = Last(remote).truth
    BY <1>4
  <2>3. k.truth \notin Command
    <3>1. CASE k.truth \in Rebaseline \cup Replacement
      BY <3>1, BootstrapAssumption
    <3>2. CASE name \in Release
      BY <1>4, <3>2, BootstrapAssumption
    <3>3. QED
      BY <1>4, <3>1, <3>2
  <2>4. QED
    BY <1>4, <2>1, <2>3 DEF BootInv, NameInv
<1>5. NameInv'
  BY <1>1, <1>2 DEF BootInv, NameInv
<1>6. AlikeInv'
  <2>1. SUFFICES ASSUME NEW a \in Known \cup Logged \cup {k}, NEW b \in Known \cup Logged \cup {k},
                        a.truth = b.truth
                 PROVE  a.campaign = b.campaign /\ a.baseline = b.baseline /\ a.revision = b.revision
    BY <1>2 DEF AlikeInv
  <2>2. CASE k.truth = name
    BY <1>4, <2>1, <2>2 DEF BootInv, AlikeInv
  <2>3. CASE k.truth # name
    BY <1>1, <2>1, <2>3 DEF BootInv, AlikeInv
  <2>4. QED
    BY <2>2, <2>3
<1>7. k.truth \in Command => k.truth = Last(remote).truth
  BY BootstrapAssumption
<1>8. AccountedInv'
  BY <1>1, <1>2, <1>7 DEF BootInv, AccountedInv
<1>9. LogInv'
  <2>1. SUFFICES ASSUME wal # NoTransaction, Fresh PROVE k.truth # wal[2].truth
    BY <1>2 DEF BootInv, LogInv, Fresh
  <2>2. wal[2] \in Logged
    BY <2>1 DEF Logged
  <2>3. QED
    BY <1>1, <1>4, <2>1, <2>2 DEF Fresh
<1>10. k.baseline = served.baseline => Last(remote).baseline = served.baseline
  BY <1>1, BootstrapAssumption DEF BootInv, NameInv
<1>11. OrderInv' /\ ResetInv'
  BY <1>10 DEF BootInv, OrderInv, ResetInv, Recalled
<1>12. QED
  BY <1>3, <1>5, <1>6, <1>8, <1>9, <1>11 DEF BootInv

\* Publishing a release keeps the bootstrap invariant.
LEMMA ReleaseStep ==
  ASSUME BootInv, NEW r \in Release, PublishRelease(r)
  PROVE  BootInv'
<1> DEFINE k == [Last(remote) EXCEPT !.id = r]
           history == Append(remote, k)
<1>1. Last(remote) \in CommitRecords /\ remote \in Seq(CommitRecords) \ {<<>>} /\ r \in Names
  BY HeadsAreKnown DEF BootInv, TypeInv, BootstrapTypeOK, Names
<1>2. /\ k \in CommitRecords /\ k.truth = Last(remote).truth
      /\ k.campaign = Last(remote).campaign /\ k.revision = Last(remote).revision
      /\ k.baseline = Last(remote).baseline
  BY <1>1 DEF CommitRecords
<1> HIDE DEF k
<1>3. /\ history \in Seq(CommitRecords) \ {<<>>} /\ Last(history) = k
      /\ Range(history) = Range(remote) \cup {k}
  BY <1>1, <1>2, AppendedHead
<1>4. Steady(history)
  BY <1>1, <1>2, SteadyAppend, RevisionsAreNumbers DEF BootInv, OrderInv
<1>5. Publish(r, history)
  BY DEF PublishRelease, k
<1> HIDE DEF history
<1>6. QED
  BY <1>2, <1>3, <1>4, <1>5, PublishKeeps

\* Publishing a rebaseline keeps the bootstrap invariant.
LEMMA RebaselineStep ==
  ASSUME BootInv, NEW b \in Rebaseline, PublishRebaseline(b)
  PROVE  BootInv'
<1>1. PICK revision \in 0 .. MaxRevision, old \in {<<>>, remote} :
        Publish(b, Append(old, [id |-> b, campaign |-> Genesis, baseline |-> b,
                                revision |-> revision, truth |-> b]))
  BY DEF PublishRebaseline
<1> DEFINE k == [id |-> b, campaign |-> Genesis, baseline |-> b, revision |-> revision, truth |-> b]
           history == Append(old, k)
<1>2. remote \in Seq(CommitRecords) \ {<<>>} /\ b \in Names
  BY DEF BootInv, TypeInv, BootstrapTypeOK, Names
<1>3. k \in CommitRecords /\ k.truth = b /\ k.baseline = b
  BY <1>2 DEF CommitRecords
<1>4. Publish(b, history)
  BY <1>1
<1> HIDE DEF k
<1>5. old \in Seq(CommitRecords)
  <2>1. <<>> \in Seq(CommitRecords)
    OBVIOUS
  <2>2. QED
    BY <1>2, <2>1, Zenon
<1>6. /\ history \in Seq(CommitRecords) \ {<<>>} /\ Last(history) = k
      /\ Range(history) = Range(old) \cup {k}
  BY <1>3, <1>5, AppendedHead
<1>7. Range(old) \subseteq Range(remote)
  BY DEF Range
<1>8. Steady(history)
  <2>1. CASE old = remote
    <3>1. \A y \in Range(remote) : y.baseline # k.baseline
      BY <1>3, <1>4, HeadsAreKnown, BootstrapAssumption DEF BootInv, NameInv, Publish
    <3>2. QED
      BY <1>2, <1>3, <2>1, <3>1, SteadyAppend DEF BootInv, OrderInv
  <2>2. CASE old = <<>>
    <3>1. history = <<k>>
      BY <2>2
    <3>2. QED
      BY <1>3, <3>1, SingleHead
  <2>3. QED
    BY <2>1, <2>2
<1> HIDE DEF history
<1>9. QED
  BY <1>3, <1>4, <1>6, <1>7, <1>8, PublishKeeps

\* Replacing the history of the remote keeps the bootstrap invariant.
LEMMA ReplacementStep ==
  ASSUME BootInv, NEW h \in Replacement, ReplaceHistory(h)
  PROVE  BootInv'
<1>1. Last(remote) \in CommitRecords /\ h \in Names
  BY HeadsAreKnown DEF BootInv, Names
<1>2. CASE Publish(h, <<[Last(remote) EXCEPT !.id = h]>>)
  <2> DEFINE k == [Last(remote) EXCEPT !.id = h]
  <2>1. /\ k \in CommitRecords /\ k.truth = Last(remote).truth
        /\ k.campaign = Last(remote).campaign /\ k.revision = Last(remote).revision
        /\ k.baseline = Last(remote).baseline
    BY <1>1 DEF CommitRecords
  <2> HIDE DEF k
  <2>2. Publish(h, <<k>>)
    BY <1>2 DEF k
  <2>3. QED
    BY <2>1, <2>2, SingleHead, PublishKeeps
<1>3. CASE \E revision \in 0 .. MaxRevision, campaign \in {Genesis, Foreign} :
             Publish(h, <<[Last(remote) EXCEPT !.id = h, !.truth = h, !.revision = revision,
                             !.campaign = campaign]>>)
  <2>1. PICK revision \in 0 .. MaxRevision, campaign \in {Genesis, Foreign} :
          Publish(h, <<[Last(remote) EXCEPT !.id = h, !.truth = h, !.revision = revision,
                          !.campaign = campaign]>>)
    BY <1>3
  <2> DEFINE k == [Last(remote) EXCEPT !.id = h, !.truth = h, !.revision = revision,
                     !.campaign = campaign]
  <2>2. k \in CommitRecords /\ k.truth = h /\ k.baseline = Last(remote).baseline
    BY <1>1 DEF CommitRecords
  <2>3. Publish(h, <<k>>)
    BY <2>1
  <2> HIDE DEF k
  <2>4. QED
    BY <2>2, <2>3, SingleHead, PublishKeeps
<1>4. QED
  BY <1>2, <1>3 DEF ReplaceHistory

\* Whatever happens outside of the service keeps the bootstrap invariant.
LEMMA OutsideStep ==
  ASSUME BootInv, Outside
  PROVE  BootInv'
<1>1. CASE Crash
  <2>1. crashes' \in 0 .. MaxCrashes
    BY <1>1, BootstrapAssumption DEF Crash, BootInv, TypeInv, BootstrapTypeOK
  <2>2. cut' \subseteq Rebaseline \cup {Genesis}
    BY <1>1, CutIsKnown DEF Crash
  <2>3. QED
    BY <1>1, <2>1, <2>2, QuietKeeps DEF Crash, BootInv, TypeInv, BootstrapTypeOK
<1>2. CASE Redeploy
  BY <1>2, QuietKeeps DEF Redeploy, BootInv, TypeInv, BootstrapTypeOK
<1>3. QED
  BY <1>1, <1>2, ReleaseStep, RebaselineStep, ReplacementStep DEF Outside

-----------------------------------------------------------------------------
(* The theorems *)

\* The bootstrap invariant holds at first.
LEMMA BootInvInit == BootstrapInit => BootInv
<1> SUFFICES ASSUME BootstrapInit PROVE BootInv
  OBVIOUS
<1> USE DEF BootstrapInit
<1>1. GenesisCommit \in CommitRecords
  BY BootstrapAssumption DEF GenesisCommit, CommitRecords, Names
<1>2. /\ <<GenesisCommit>> \in Seq(CommitRecords) \ {<<>>} /\ Last(<<GenesisCommit>>) = GenesisCommit
      /\ Range(<<GenesisCommit>>) = {GenesisCommit} /\ Steady(<<GenesisCommit>>)
  BY <1>1, SingleHead
<1>3. Known = {GenesisCommit} /\ Logged = {}
  BY <1>2 DEF Known, Logged
<1>4. TypeInv
  <2>1. 0 \in 0 .. MaxCrashes /\ 0 \in 0 .. MaxFaults
    BY BootstrapAssumption
  <2>2. QED
    BY <1>1, <1>2, <2>1 DEF TypeInv, BootstrapTypeOK
<1>5. NameInv /\ AlikeInv
  BY <1>3 DEF NameInv, AlikeInv, GenesisCommit
<1>6. AccountedInv
  <2>1. GenesisCommit.truth = Genesis
    BY DEF GenesisCommit
  <2>2. QED
    BY <1>3, <2>1, BootstrapAssumption DEF AccountedInv
<1>7. LogInv
  BY DEF LogInv
<1>8. OrderInv /\ ResetInv
  BY <1>1, <1>2, RevisionsAreNumbers DEF OrderInv, ResetInv, Ahead, Recalled
<1>9. QED
  BY <1>4, <1>5, <1>6, <1>7, <1>8 DEF BootInv

\* Every step keeps the bootstrap invariant.
LEMMA BootInvStep == BootInv /\ [BootstrapNext]_bootVars => BootInv'
<1> SUFFICES ASSUME BootInv, [BootstrapNext]_bootVars PROVE BootInv'
  OBVIOUS
<1>1. CASE EnsureCheckout
  BY <1>1, HeadStep, BeginResetStep DEF EnsureCheckout
<1>2. CASE UNCHANGED bootVars
  BY <1>2, QuietKeeps DEF bootVars, BootInv, TypeInv, BootstrapTypeOK
<1>3. QED
  BY <1>1, <1>2, ResetStep, ServiceStep, OutsideStep DEF BootstrapNext

(* The variables keep their types, histories stay ordered, contents stay    *)
(* alike and commands accounted for, in every reachable state.              *)
THEOREM BootstrapInvariance == BootstrapSpec => []BootInv
  BY BootInvInit, BootInvStep, PTL DEF BootstrapSpec

(* A start-up never serves an older campaign than the last one served, or   *)
(* another campaign, whatever was published, wherever the process died and  *)
(* even if it died inside a reset (bootstrap.py:512-610).                   *)
THEOREM StartUpsMoveForward == BootstrapSpec => RevisionMovesForward
<1>1. BootInv /\ [BootstrapNext]_bootVars =>
        [pc # "serving" /\ pc' = "serving" =>
           /\ Last(local).campaign = served.campaign
           /\ \/ Last(local).baseline # served.baseline
              \/ Last(local).revision >= served.revision]_bootVars
  BY DEF BootInv, OrderInv, Ahead
<1>2. QED
  BY <1>1, BootstrapInvariance, PTL DEF BootstrapSpec, RevisionMovesForward

\* k belongs to a baseline that was verified, or whose reset was cut short.
Verified(k) == k.baseline \in Certified \cup {Genesis} \cup cut

\* The receipts that answer are of k's baseline, unless its reset was cut short.
Answered(k) == k.baseline \in cut \/ \A r \in receipts : r.baseline = k.baseline

\* Only the checkout under verification may be at an unverified baseline, and only
\* while a reset runs may receipts be of another one than the checkout; the head to
\* which a failing reset goes back has neither fault.
CertInv ==
  /\ pc # "verify" => Verified(Last(local))
  /\ pc \notin ResetSteps => Answered(Last(local))
  /\ pc \in ResetSteps => Verified(Last(start)) /\ Answered(Last(start))

\* The invariant about the certified baseline holds at first.
LEMMA CertInvInit == BootstrapInit => CertInv
  BY DEF BootstrapInit, CertInv, Verified, Answered, GenesisCommit, Last, ResetSteps

\* A step outside of the reset that leaves the receipts, or adds one of the head's
\* baseline, and moves the checkout within its baseline.
LEMMA CertKept ==
  ASSUME CertInv, pc \notin ResetSteps, pc' \notin ResetSteps, cut' = cut,
         Last(local').baseline = Last(local).baseline,
         \A r \in receipts' \ receipts : r.baseline = Last(local).baseline
  PROVE  CertInv'
  BY DEF CertInv, Verified, Answered

\* The decisions of a start-up keep the certified baseline.
LEMMA CertHeadStep ==
  ASSUME CertInv, EnsureCheckout
  PROVE  CertInv'
<1>1. pc = "down" /\ Verified(Last(local)) /\ Answered(Last(local))
  BY DEF CertInv, EnsureCheckout, KeepDirty, KeepEqual, BeginReset, FastForward, KeepAhead,
    AdoptEquivalent, AdoptNewer
<1>2. CASE BeginReset
  BY <1>1, <1>2 DEF BeginReset, CertInv, Verified, Answered
<1>3. CASE KeepDirty \/ KeepEqual \/ KeepAhead
  BY <1>1, <1>3, CertKept DEF KeepDirty, KeepEqual, KeepAhead, Continue
<1>4. CASE FastForward \/ AdoptEquivalent \/ AdoptNewer
  <2>1. Last(remote).baseline = Last(local).baseline /\ Continue(remote)
    BY <1>4 DEF FastForward, AdoptEquivalent, AdoptNewer, Diverged, NewBaseline
  <2>2. QED
    BY <1>1, <2>1, CertKept DEF Continue
<1>5. QED
  BY <1>2, <1>3, <1>4 DEF EnsureCheckout

\* A reset verifies its baseline and retires the receipts, goes back, or is cut short.
LEMMA CertResetStep ==
  ASSUME CertInv, BaselineReset
  PROVE  CertInv'
<1>1. pc \in ResetSteps /\ Verified(Last(start)) /\ Answered(Last(start))
  BY DEF CertInv, BaselineReset, VerifyBaseline, RetireWal, RetireReceipts, RetirementFails,
    ResetRaises
<1>2. CASE UndoReset /\ UNCHANGED <<receipts, cut>>
  BY <1>1, <1>2 DEF UndoReset, CertInv, Verified, Answered
<1>3. CASE VerifyBaseline /\ MatchesContract(Last(local))
  BY <1>1, <1>3 DEF VerifyBaseline, CertInv, Verified, Answered, MatchesContract
<1>4. CASE RetireWal
  BY <1>1, <1>4 DEF RetireWal, CertInv, Verified, Answered
<1>5. CASE RetireReceipts
  BY <1>5 DEF RetireReceipts, CertInv, Verified, Answered
<1>6. CASE ResetRaises
  BY <1>6 DEF ResetRaises, CutShort, CertInv, Verified, Answered
<1>7. QED
  BY <1>2, <1>3, <1>4, <1>5, <1>6 DEF BaselineReset, VerifyBaseline, RetirementFails

\* The service commits and answers within its baseline.
LEMMA CertServiceStep ==
  ASSUME BootInv, CertInv, Service
  PROVE  CertInv'
<1>1. CASE Commit
  <2>1. dirty /\ wal # NoTransaction /\ local' = Append(local, wal[2])
    BY <1>1 DEF Commit, BootInv, TypeInv, BootstrapTypeOK
  <2>2. wal[2] \in CommitRecords /\ local \in Seq(CommitRecords)
    BY <2>1 DEF BootInv, TypeInv, BootstrapTypeOK
  <2>3. Last(local') = wal[2]
    BY <2>1, <2>2, AppendedHead
  <2>4. wal[2].baseline = Last(local).baseline
    BY <2>1 DEF BootInv, LogInv
  <2>5. QED
    BY <1>1, <2>3, <2>4, CertKept DEF Commit
<1>2. CASE Recover
  <2>1. pc = "recover" /\ local' = local /\ pc' = pc /\ cut' = cut
    BY <1>2 DEF Recover
  <2>2. receipts' = receipts \/ receipts' = receipts \cup {Last(local)}
    BY <1>2 DEF Recover
  <2>3. QED
    BY <2>1, <2>2, CertKept
<1>3. CASE PublishReceipt
  BY <1>3, CertKept DEF PublishReceipt
<1>4. CASE ~(Commit \/ Recover \/ PublishReceipt)
  <2>1. /\ pc \notin ResetSteps /\ pc' \notin ResetSteps
        /\ UNCHANGED <<local, receipts, cut>>
    BY <1>4 DEF Service, Serve, StartUpFails, Apply, Deliver, Archive, Prepare
  <2>2. QED
    BY <2>1, CertKept
<1>5. QED
  BY <1>1, <1>2, <1>3, <1>4

\* Every step keeps the certified baseline and the receipts that answer in it.
LEMMA CertInvStep ==
  ASSUME BootInv, CertInv, [BootstrapNext]_bootVars
  PROVE  CertInv'
<1>1. CASE Outside
  <2>1. CASE Crash
    BY <2>1 DEF Crash, CutShort, CertInv, Verified, Answered
  <2>2. CASE Redeploy
    BY <2>2, CertKept DEF Redeploy
  <2>3. CASE \E name, history : Publish(name, history)
    BY <2>3 DEF Publish, CertInv, Verified, Answered
  <2>4. QED
    BY <1>1, <2>1, <2>2, <2>3 DEF Outside, PublishRelease, PublishRebaseline, ReplaceHistory
<1>2. CASE UNCHANGED bootVars
  BY <1>2 DEF bootVars, CertInv, Verified, Answered
<1>3. QED
  BY <1>1, <1>2, CertHeadStep, CertResetStep, CertServiceStep DEF BootstrapNext

(* What is served belongs to a baseline whose tree matched its contract, or *)
(* to one whose reset a death or a raising call cut short: the next         *)
(* start-up keeps a checkout that equals the remote head without verifying  *)
(* it (bootstrap.py:516-517, 541-606).                                      *)
THEOREM ServedBaselinesAreVerified == BootstrapSpec => []ServedBaselineIsCertified
<1>1. CertInv => ServedBaselineIsCertified
  BY DEF CertInv, Verified, ServedBaselineIsCertified
<1>2. QED
  BY <1>1, CertInvInit, CertInvStep, BootstrapInvariance, PTL DEF BootstrapSpec

(* The receipts that answer are of the baseline served, through every       *)
(* reset, undone reset, adopted history, recovery and death, unless the     *)
(* reset to that very baseline was cut short (bootstrap.py:185-236).        *)
THEOREM ReceiptsAnswerTheirBaseline == BootstrapSpec => []ReceiptsOfTheBaseline
<1>1. CertInv => ReceiptsOfTheBaseline
  BY DEF CertInv, Answered, ReceiptsOfTheBaseline, ResetSteps
<1>2. QED
  BY <1>1, CertInvInit, CertInvStep, BootstrapInvariance, PTL DEF BootstrapSpec

-----------------------------------------------------------------------------
(***************************************************************************)
(* The clock and the causality of a fight, for every two sides, every set  *)
(* of timings and every length of the fight.  Nothing under way falls      *)
(* behind the clock while the player stays: the order of the contacts, the *)
(* moment at which withdrawals settle and the horizon of a cancelled       *)
(* intent together keep it so.  A blow that lands was not cancelled by its *)
(* own actor's defence: what cancels an action is remembered, over any     *)
(* number of exchanges, exactly as long as the action is under way.        *)
(***************************************************************************)

Exchanges == [on : BOOLEAN, declared : Nat, horizon : Nat, withdrawing : SUBSET Fighters,
              cut : BOOLEAN]

\* The phases of an action follow its declaration.
ActionsAreTimed == \A a \in scheduled :
    a.declared <= a.commit /\ a.commit <= a.release /\ a.release <= a.contact

\* Everything under way meets its target at the clock or later, and an exchange that a
\* cancelled intent of the player cut short ends no later than any of it.
ClockInv == ~slipped =>
    \A a \in scheduled :
        /\ a.contact >= elapsed
        /\ exchange.on /\ exchange.cut => a.contact >= exchange.horizon

\* A defence is dated in an exchange that is not earlier than any action it can cancel,
\* between exchanges only the defences of actors with something under way are kept, and a
\* reinforcement that has not arrived prepares nothing.
InterruptionInv ==
    /\ exchange.on => \A a \in scheduled : a.declared <= exchange.declared
    /\ \A a \in scheduled : interrupted[a.actor] = Never \/ interrupted[a.actor] >= a.declared
    /\ ~exchange.on => \A r \in Fighters : interrupted[r] # Never =>
                           \E a \in scheduled : a.actor = r
    /\ ~exchange.on => \A a \in scheduled : a.declared <= elapsed
    /\ exchange.on => exchange.declared <= elapsed
    /\ \A a \in scheduled : presence[a.actor] # "reinforcing"

\* What its actor's defence broke stays cancelled as long as it is under way.
BrokenInv ==
    /\ \A b \in scheduled : b \in broken => CancelledByDefence(b)
    /\ ~exchange.on => broken \subseteq scheduled
    /\ BlowsAreCausal

CombatInv ==
    /\ ExactCombatTypeOK /\ exchange \in Exchanges /\ ActionsAreTimed
    /\ ClockInv /\ InterruptionInv /\ BrokenInv

-----------------------------------------------------------------------------
(* What the operators return.                                              *)

\* A body that fails is "fallen", at a whole second of the clock.
LEMMA Collapse ==
    ASSUME ExactCombatTypeOK, NEW to \in Nat, NEW who
    PROVE  /\ HealthAfter(who) \in [Fighters -> {"ready", "injured", "fallen"}]
           /\ FallsAfter(who, to) \in [Fighters -> Nat \cup {Never}]
<1>1. (to \div Second) * Second \in Nat
  BY CombatAssumption
<1>2. /\ health \in [Fighters -> {"ready", "injured", "fallen"}]
      /\ fellAt \in [Fighters -> Nat \cup {Never}]
  BY DEF ExactCombatTypeOK
<1> QED  BY <1>1, <1>2 DEF HealthAfter, FallsAfter

\* What a fighter declares lies ahead of the clock, phase after phase.
LEMMA DeclaredAction ==
    ASSUME ExactCombatTypeOK, NEW r \in Fighters, NEW target \in Fighters,
           NEW t \in Blows \cup Shots, NEW shot \in BOOLEAN, NEW offhand \in BOOLEAN
    PROVE  LET a == Action(r, target, t, shot, offhand)
           IN  /\ a \in Actions /\ a.actor = r /\ a.declared = elapsed
               /\ a.declared <= a.commit /\ a.commit <= a.release
               /\ a.release <= a.contact /\ a.contact >= elapsed
<1>1. /\ t.start \in Nat /\ t.commit \in Nat /\ t.release \in Nat /\ t.contact \in Nat /\ t.recovery \in Nat
      /\ t.commit <= t.release /\ t.release <= t.contact
  BY CombatAssumption DEF Timings
<1> DEFINE ready == Larger(elapsed, IF offhand THEN freeHand[r] ELSE recovery[r])
<1>2. elapsed \in Nat /\ recovery[r] \in Nat /\ freeHand[r] \in Nat
  BY DEF ExactCombatTypeOK
<1>3. ready \in Nat /\ ready >= elapsed
  BY <1>2 DEF Larger
<1>4. Action(r, target, t, shot, offhand) =
        [actor |-> r, target |-> target, shot |-> shot, offhand |-> offhand,
         declared |-> elapsed, start |-> ready + t.start, commit |-> ready + t.commit,
         release |-> ready + t.release, contact |-> ready + t.contact,
         recovery |-> ready + t.recovery]
  BY DEF Action
<1> HIDE DEF ready
<1> QED  BY <1>1, <1>2, <1>3, <1>4 DEF Actions

\* A fighter who declares something declares one blow or one shot at somebody standing.
LEMMA OneDeclaration ==
    ASSUME NEW r, NEW pr, NEW plan \in Declarable(r, pr), NEW a \in plan,
           Targets(r, pr) \subseteq Fighters
    PROVE  \E target \in Fighters : \E t \in Blows \cup Shots :
           \E shot \in BOOLEAN, offhand \in BOOLEAN : a = Action(r, target, t, shot, offhand)
<1> DEFINE targets == Targets(r, pr)
           blows == {{Action(r, target, t, FALSE, FALSE)} : target \in targets, t \in Blows}
           shots == {{Action(r, target, t, TRUE, offhand)} :
                        target \in targets, t \in Shots, offhand \in Shooting(r)}
<1>1. Declarable(r, pr) = {{}} \cup blows \cup shots
  BY DEF Declarable
<1>2. plan \in blows => \E target \in targets : \E t \in Blows :
          plan = {Action(r, target, t, FALSE, FALSE)}
  BY SMTT(30) DEF Action
<1>3. plan \in shots => \E target \in targets : \E t \in Shots : \E offhand \in Shooting(r) :
          plan = {Action(r, target, t, TRUE, offhand)}
  BY SMTT(30) DEF Action
<1>4. targets \subseteq Fighters
  OBVIOUS
<1> HIDE DEF targets, blows, shots
<1>5. plan \in blows \/ plan \in shots
  BY <1>1
<1>6. CASE plan \in blows
  <2>1. PICK target \in targets : \E t \in Blows : plan = {Action(r, target, t, FALSE, FALSE)}
    BY <1>2, <1>6
  <2>2. PICK t \in Blows : plan = {Action(r, target, t, FALSE, FALSE)}
    BY <2>1
  <2>3. a = Action(r, target, t, FALSE, FALSE)
    BY <2>2
  <2> QED  BY <1>4, <2>3
<1>7. CASE plan \in shots
  <2>1. PICK target \in targets : \E t \in Shots : \E offhand \in Shooting(r) :
          plan = {Action(r, target, t, TRUE, offhand)}
    BY <1>3, <1>7
  <2>2. PICK t \in Shots : \E offhand \in Shooting(r) : plan = {Action(r, target, t, TRUE, offhand)}
    BY <2>1
  <2>3. PICK offhand \in Shooting(r) : plan = {Action(r, target, t, TRUE, offhand)}
    BY <2>2
  <2>4. a = Action(r, target, t, TRUE, offhand) /\ offhand \in BOOLEAN
    BY <2>3 DEF Shooting
  <2> QED  BY <1>4, <2>4
<1> QED  BY <1>5, <1>6, <1>7

\* Whatever is declared in an exchange was declared by one of those asked.
LEMMA DeclaredActions ==
    ASSUME ExactCombatTypeOK, NEW who \in SUBSET Fighters, NEW pr,
           NEW new \in Declarations(who, pr), NEW a \in new
    PROVE  /\ a \in Actions /\ a.actor \in who /\ a.declared = elapsed
           /\ a.declared <= a.commit /\ a.commit <= a.release
           /\ a.release <= a.contact /\ a.contact >= elapsed
<1>1. PICK d \in [who -> UNION {Declarable(r, pr) : r \in who}] :
          /\ \A r \in who : d[r] \in Declarable(r, pr)
          /\ new = UNION {d[r] : r \in who}
  BY DEF Declarations
<1>2. PICK r \in who : a \in d[r]
  BY <1>1
<1>3. d[r] \in Declarable(r, pr)
  BY <1>1
<1>4. Targets(r, pr) \subseteq Fighters
  BY DEF Targets, Standing, Foes, Fighters
<1>5. \E target \in Fighters : \E t \in Blows \cup Shots :
      \E shot \in BOOLEAN, offhand \in BOOLEAN : a = Action(r, target, t, shot, offhand)
  BY <1>2, <1>3, <1>4, OneDeclaration
<1> QED  BY <1>5, DeclaredAction

\* The horizon of an exchange is a moment of the clock.
LEMMA HorizonIsATime ==
    ASSUME ExactCombatTypeOK, NEW new, \A a \in new : a.contact \in Nat
    PROVE  Horizon(new) \in Nat
<1>1. CASE {a \in new : a.actor = Player} = {}
  BY <1>1 DEF Horizon, ExactCombatTypeOK
<1>2. CASE {a \in new : a.actor = Player} # {}
  BY <1>2 DEF Horizon
<1> QED  BY <1>1, <1>2

\* Whatever is met is a fighter.
LEMMA MetFighter ==
    ASSUME NEW a \in Actions PROVE Met(a) \subseteq Fighters
BY DEF Met, Foes, Fighters, Actions

-----------------------------------------------------------------------------
(* One lemma per step of the fight.                                        *)

\* A combat begins with its invariant.
LEMMA InitialCombat == Init => CombatInv
<1> SUFFICES ASSUME Init PROVE CombatInv
  OBVIOUS
<1>1. 0 \in Nat /\ Never \in Nat \cup {Never} /\ Never # 0 /\ Quiver \in Nat /\ Supplies \in Nat
  BY CombatAssumption DEF Never
<1>2. ExactCombatTypeOK
  BY <1>1 DEF Init, ExactCombatTypeOK, NoTask
<1>3. exchange \in Exchanges
  BY DEF Init, Rest, Exchanges
<1>4. ActionsAreTimed /\ ClockInv /\ InterruptionInv /\ BrokenInv
  BY DEF Init, Rest, ActionsAreTimed, ClockInv, InterruptionInv, BrokenInv,
         BlowsAreCausal
<1> QED  BY <1>2, <1>3, <1>4 DEF CombatInv

\* Who may declare has nothing under way, and nothing of theirs is remembered.
LEMMA DeclareStep == CombatInv /\ Declare => CombatInv'
<1> SUFFICES ASSUME CombatInv, Declare PROVE CombatInv'
  OBVIOUS
<1> USE DEF CombatInv
<1> DEFINE able == Standing(Fighters, health, Arrivals)
           busy == {a.actor : a \in Carried}
<1>1. PICK ordered \in BOOLEAN :
        LET treats == Medic \in able /\ (ordered \/ task.status = "active")
            support == IF treats THEN {Medic} ELSE {}
        IN  /\ Support(treats)
            /\ recovery' = IF treats /\ task'.status # "completed"
                           THEN [recovery EXCEPT ![Medic] = Larger(@, elapsed + Second)]
                           ELSE recovery
            /\ \E leaving \in SUBSET MayLeave(able, support) :
               \E new \in Declarations(able \ (leaving \cup support \cup busy), Arrivals) :
                  /\ scheduled' = Carried \cup new
                  /\ exchange' = [on |-> TRUE, declared |-> elapsed, cut |-> FALSE,
                                  horizon |-> Horizon(new), withdrawing |-> leaving]
  BY DEF Declare
<1> DEFINE treats == Medic \in able /\ (ordered \/ task.status = "active")
           support == IF treats THEN {Medic} ELSE {}
<1>2. PICK leaving \in SUBSET MayLeave(able, support) :
         \E new \in Declarations(able \ (leaving \cup support \cup busy), Arrivals) :
                  /\ scheduled' = Carried \cup new
                  /\ exchange' = [on |-> TRUE, declared |-> elapsed, cut |-> FALSE,
                                  horizon |-> Horizon(new), withdrawing |-> leaving]
  BY <1>1
<1> DEFINE who == able \ (leaving \cup support \cup busy)
<1>3. PICK new \in Declarations(who, Arrivals) :
                  /\ scheduled' = Carried \cup new
                  /\ exchange' = [on |-> TRUE, declared |-> elapsed, cut |-> FALSE,
                                  horizon |-> Horizon(new), withdrawing |-> leaving]
  BY <1>2
<1>4. able \subseteq Fighters /\ who \in SUBSET Fighters /\ leaving \in SUBSET Fighters
  BY DEF Standing, MayLeave
<1>5. \A a \in new : /\ a \in Actions /\ a.actor \in who /\ a.declared = elapsed
                     /\ a.declared <= a.commit /\ a.commit <= a.release
                     /\ a.release <= a.contact /\ a.contact >= elapsed
  BY <1>4, DeclaredActions
<1>6. Horizon(new) \in Nat
  <2>1. \A a \in new : a.contact \in Nat
    BY <1>5 DEF Actions
  <2> QED  BY <2>1, HorizonIsATime
<1>7. elapsed \in Nat /\ scheduled \subseteq Actions /\ Carried \subseteq scheduled
  BY DEF ExactCombatTypeOK, Carried
<1>8. UNCHANGED <<status, elapsed, health, fellAt, escapedAt, freeHand, quiver, interrupted,
                  broken, landed, slipped>> /\ ~exchange.on /\ presence' = Arrivals
  BY DEF Declare, traces
<1>9. exchange'.on /\ ~exchange'.cut /\ exchange'.declared = elapsed
  BY <1>3
<1>10. \A r \in who : \A a \in scheduled : a.actor # r
  <2> SUFFICES ASSUME NEW r \in who, NEW a \in scheduled, a.actor = r PROVE FALSE
    OBVIOUS
  <2>1. r \in Fighters /\ health[r] # "fallen" /\ Arrivals[r] = "here" /\ r \notin busy
    BY DEF Standing
  <2>2. presence[r] # "reinforcing"
    BY DEF InterruptionInv
  <2>3. presence[r] = "here"
    BY <2>1, <2>2 DEF Arrivals
  <2>4. a \in Carried
    BY <2>1, <2>3 DEF Carried, Active
  <2> QED  BY <2>1, <2>4
<1>11. \A r \in who : interrupted[r] = Never
  BY <1>4, <1>8, <1>10 DEF InterruptionInv
<1>12. scheduled' = Carried \cup new
  BY <1>3
<1>13. exchange' \in Exchanges
  <2>1. exchange' = [on |-> TRUE, declared |-> elapsed, cut |-> FALSE,
                     horizon |-> Horizon(new), withdrawing |-> leaving]
    BY <1>3
  <2> QED  BY <1>4, <1>6, <1>7, <2>1 DEF Exchanges
<1>14. recovery' \in [Fighters -> Nat]
  <2>1. recovery \in [Fighters -> Nat] /\ elapsed + Second \in Nat
    BY <1>7, CombatAssumption DEF ExactCombatTypeOK
  <2>2. \A r \in Fighters : Larger(recovery[r], elapsed + Second) \in Nat
    BY <2>1 DEF Larger
  <2>3. recovery' = [recovery EXCEPT ![Medic] = Larger(@, elapsed + Second)]
           \/ recovery' = recovery
    BY <1>1
  <2> QED  BY <2>1, <2>2, <2>3
<1>15. /\ supplies' \in Nat
       /\ task' \in [status : {"none", "active", "blocked", "completed"},
                     since : Nat \cup {Never}]
  <2>1. Support(treats)
    BY <1>1
  <2>2. /\ supplies \in Nat
        /\ task \in [status : {"none", "active", "blocked", "completed"},
                     since : Nat \cup {Never}]
    BY DEF ExactCombatTypeOK
  <2>3. CASE Approach
    BY <2>2, <2>3 DEF Approach
  <2>4. CASE \E lost \in BOOLEAN : Access(lost)
    <3>1. PICK lost \in BOOLEAN : Access(lost)
      BY <2>4
    <3>2. \/ task' = [status |-> "active", since |-> elapsed] /\ UNCHANGED supplies
          \/ UNCHANGED <<task, supplies>>
          \/ task' = [task EXCEPT !.status = "blocked"] /\ UNCHANGED supplies
          \/ /\ supplies # 0
             /\ task' = [task EXCEPT !.status = "completed"] /\ supplies' = supplies - 1
      BY <3>1, ZenonT(60) DEF Access
    <3> QED  BY <1>7, <2>2, <3>2
  <2>5. CASE UNCHANGED <<task, supplies>>
    BY <2>2, <2>5
  <2> QED  BY <2>1, <2>3, <2>4, <2>5 DEF Support
<1>16. ExactCombatTypeOK'
  <2>1. presence' \in [Fighters -> {"here", "reinforcing", "escaped"}]
    BY <1>8 DEF Arrivals, ExactCombatTypeOK
  <2>2. scheduled' \subseteq Actions
    BY <1>5, <1>7, <1>12
  <2> QED  BY <1>8, <1>14, <1>15, <2>1, <2>2 DEF ExactCombatTypeOK
<1>17. ActionsAreTimed'
  BY <1>5, <1>7, <1>12 DEF ActionsAreTimed
<1>18. ClockInv'
  BY <1>5, <1>7, <1>8, <1>9, <1>12 DEF ClockInv
<1> HIDE DEF able, busy, who
<1>19. InterruptionInv'
  <2>1. \A a \in scheduled' : a.declared <= elapsed
    BY <1>5, <1>7, <1>8, <1>12 DEF InterruptionInv
  <2>2. \A a \in scheduled' : interrupted[a.actor] = Never \/ interrupted[a.actor] >= a.declared
    BY <1>5, <1>7, <1>11, <1>12 DEF InterruptionInv
  <2>3. \A a \in scheduled' : Arrivals[a.actor] # "reinforcing"
    <3>1. \A a \in Carried : a.actor \in Fighters /\ presence[a.actor] = "here"
      BY <1>7 DEF Carried, Active, Actions
    <3>2. \A r \in who : Arrivals[r] = "here"
      BY DEF Standing, who, able
    <3> QED  BY <1>5, <1>12, <3>1, <3>2 DEF Arrivals
  <2> QED  BY <1>7, <1>8, <1>9, <2>1, <2>2, <2>3 DEF InterruptionInv
<1>20. BrokenInv'
  <2>1. \A b \in new : b \notin broken
    BY <1>5, <1>8, <1>10 DEF BrokenInv
  <2>2. \A b \in scheduled' : b \in broken => CancelledByDefence(b)
    BY <1>7, <1>12, <2>1 DEF BrokenInv
  <2> QED  BY <1>8, <1>9, <2>2 DEF BrokenInv, CancelledByDefence, BlowsAreCausal
<1> QED  BY <1>13, <1>16, <1>17, <1>18, <1>19, <1>20

-----------------------------------------------------------------------------
\* An action that is resolved is the first to meet its target, so the clock moves to a
\* moment that everything left under way still has ahead of it.
LEMMA NothingPassed ==
    ASSUME ExactCombatTypeOK, ActionsAreTimed, NEW a \in scheduled, Now(a),
           NEW t \in Int, t <= a.contact
    PROVE  \A b \in scheduled : b.contact >= t
BY DEF ExactCombatTypeOK, Now, Before, Actions

\* Taking one action from the schedule and moving the clock up to its contact at most.
LEMMA ClockMoves ==
    ASSUME CombatInv, NEW a \in scheduled, Now(a), UNCHANGED slipped,
           scheduled' \subseteq scheduled, elapsed' \in Nat,
           elapsed' = elapsed \/ elapsed' <= a.contact,
           exchange'.cut => exchange'.horizon = elapsed \/ exchange'.horizon <= a.contact,
           exchange' \in Exchanges
    PROVE  ClockInv'
<1> USE DEF CombatInv
<1> SUFFICES ASSUME ~slipped, NEW b \in scheduled'
             PROVE  /\ b.contact >= elapsed'
                    /\ exchange'.on /\ exchange'.cut => b.contact >= exchange'.horizon
  BY DEF ClockInv
<1>1. /\ elapsed \in Nat /\ scheduled \subseteq Actions /\ a \in Actions /\ b \in Actions
      /\ exchange'.horizon \in Nat
  BY DEF ExactCombatTypeOK, Exchanges
<1>2. b.contact >= elapsed
  BY DEF ClockInv
<1>3. b.contact >= a.contact
  BY <1>1, NothingPassed DEF Actions
<1> QED  BY <1>1, <1>2, <1>3 DEF Actions

\* The rest of the invariant holds of whatever stays under way while no defence begins and
\* nobody comes or goes.
LEMMA LessUnderWay ==
    ASSUME CombatInv, exchange.on, exchange'.on, exchange'.declared = exchange.declared,
           scheduled' \subseteq scheduled, elapsed' \in Nat, elapsed' >= elapsed,
           UNCHANGED <<presence, interrupted, broken, landed>>
    PROVE  ActionsAreTimed' /\ InterruptionInv' /\ BrokenInv'
<1> USE DEF CombatInv
<1>1. elapsed \in Nat /\ exchange.declared \in Nat
  BY DEF ExactCombatTypeOK, Exchanges
<1>2. ActionsAreTimed'
  BY DEF ActionsAreTimed
<1>3. InterruptionInv'
  BY <1>1 DEF InterruptionInv
<1>4. BrokenInv'
  BY DEF BrokenInv, CancelledByDefence, BlowsAreCausal
<1> QED  BY <1>2, <1>3, <1>4

\* The four ways an action ends without a defence: withheld, its target gone, cancelled,
\* or stopped or missing.
LEMMA WithholdStep ==
    ASSUME CombatInv, NEW a \in scheduled, Now(a), Withhold(a) PROVE CombatInv'
<1> USE DEF CombatInv
<1>1. /\ UNCHANGED <<status, elapsed, health, presence, fellAt, escapedAt, recovery, freeHand,
                     quiver, interrupted, exchange, task, supplies, broken, landed, slipped>>
      /\ scheduled' \subseteq scheduled /\ exchange.on
  BY DEF Withhold, bodies, hands, traces, Now
<1>2. ExactCombatTypeOK' /\ exchange' \in Exchanges /\ elapsed' \in Nat
  BY <1>1 DEF ExactCombatTypeOK
<1>3. ClockInv'
  BY <1>1 DEF ClockInv
<1>4. elapsed' >= elapsed
  BY <1>1, <1>2
<1>5. ActionsAreTimed' /\ InterruptionInv' /\ BrokenInv'
  BY <1>1, <1>2, <1>4, LessUnderWay
<1> QED  BY <1>2, <1>3, <1>5

\* An actor whose target is gone keeps the combat's invariant.
LEMMA LoseTargetStep ==
    ASSUME CombatInv, NEW a \in scheduled, Now(a), LoseTarget(a) PROVE CombatInv'
<1> USE DEF CombatInv
<1>1. /\ UNCHANGED <<status, health, presence, fellAt, escapedAt, recovery, freeHand, quiver,
                     interrupted, exchange, task, supplies, broken, landed, slipped>>
      /\ scheduled' \subseteq scheduled /\ exchange.on /\ ~exchange.cut
  BY DEF LoseTarget, bodies, hands, traces, Now
<1>2. a \in Actions /\ a.target \in Fighters /\ elapsed \in Nat /\ escapedAt[a.target] \in Nat
  BY DEF ExactCombatTypeOK, Actions, LoseTarget, Earlier
<1>3. escapedAt[a.target] < a.contact
  BY <1>2 DEF LoseTarget, Earlier, ActionsAreTimed, Actions
<1>4. /\ elapsed' \in Nat /\ elapsed' >= elapsed
      /\ elapsed' = elapsed \/ elapsed' <= a.contact
  BY <1>2, <1>3 DEF LoseTarget, Larger, Actions
<1>5. ExactCombatTypeOK' /\ exchange' \in Exchanges
  BY <1>1, <1>4 DEF ExactCombatTypeOK
<1>6. ClockInv'
  BY <1>1, <1>4, <1>5, ClockMoves
<1>7. ActionsAreTimed' /\ InterruptionInv' /\ BrokenInv'
  BY <1>1, <1>4, LessUnderWay
<1> QED  BY <1>5, <1>6, <1>7

\* The moment of the defence lies before the release of what it cancels, so before
\* everything that is still due.
LEMMA InterruptStep ==
    ASSUME CombatInv, NEW a \in scheduled, Now(a), Interrupt(a) PROVE CombatInv'
<1> USE DEF CombatInv
<1> DEFINE cutoff == Larger(elapsed, interrupted[a.actor])
<1>1. /\ UNCHANGED <<status, elapsed, health, presence, fellAt, escapedAt, recovery, freeHand,
                     quiver, interrupted, task, supplies, broken, landed, slipped>>
      /\ scheduled' \subseteq scheduled /\ exchange.on /\ ~exchange.cut
      /\ exchange' = exchange
           \/ exchange' = [exchange EXCEPT !.cut = TRUE, !.horizon = cutoff]
  BY DEF Interrupt, bodies, hands, traces, Now
<1>2. a \in Actions /\ elapsed \in Nat /\ interrupted[a.actor] \in Int
      /\ interrupted[a.actor] < a.release /\ a.release <= a.contact
      /\ a.declared <= interrupted[a.actor]
  BY DEF ExactCombatTypeOK, Actions, Interrupt, CancelledByDefence, ActionsAreTimed, Never
<1>3. interrupted[a.actor] \in Nat /\ interrupted[a.actor] < a.contact
  BY <1>2 DEF Actions
<1>4. cutoff \in Nat /\ (cutoff = elapsed \/ cutoff <= a.contact)
  BY <1>2, <1>3 DEF Larger, Actions
<1> HIDE DEF cutoff
<1>5. /\ exchange' \in Exchanges /\ exchange'.on
      /\ exchange'.declared = exchange.declared
      /\ exchange'.cut => exchange'.horizon = cutoff
  BY <1>1, <1>4 DEF Exchanges
<1>6. ExactCombatTypeOK' /\ elapsed' \in Nat
  BY <1>1 DEF ExactCombatTypeOK
<1>7. ClockInv'
  <2>1. exchange'.cut => exchange'.horizon = elapsed \/ exchange'.horizon <= a.contact
    BY <1>4, <1>5
  <2> QED  BY <1>1, <1>5, <1>6, <2>1, ClockMoves
<1>8. elapsed' >= elapsed
  BY <1>1, <1>2
<1>9. ActionsAreTimed' /\ InterruptionInv' /\ BrokenInv'
  BY <1>1, <1>5, <1>6, <1>8, LessUnderWay
<1> QED  BY <1>5, <1>6, <1>7, <1>9

\* What every action that reaches its contact does to the clock.
LEMMA ReachedMoves ==
    ASSUME CombatInv, NEW a \in scheduled, Now(a), Reached(a), UNCHANGED slipped,
           UNCHANGED exchange
    PROVE  /\ elapsed' \in Nat /\ elapsed' >= elapsed /\ elapsed' = a.contact
           /\ a \in Actions /\ scheduled' = scheduled \ {a} /\ exchange.on /\ ~exchange.cut
           /\ exchange' \in Exchanges /\ ClockInv'
<1> USE DEF CombatInv
<1>1. a \in Actions /\ elapsed \in Nat
  BY DEF ExactCombatTypeOK
<1>2. /\ elapsed' \in Nat /\ elapsed' >= elapsed /\ elapsed' <= a.contact /\ elapsed' = a.contact
      /\ scheduled' = scheduled \ {a} /\ exchange.on /\ ~exchange.cut /\ exchange' \in Exchanges
  BY <1>1 DEF Reached, Now, Actions
<1>3. ClockInv'
  <2>1. exchange'.cut => exchange'.horizon = elapsed \/ exchange'.horizon <= a.contact
    BY <1>2
  <2>2. scheduled' \subseteq scheduled
    BY <1>2
  <2> QED  BY <1>2, <2>1, <2>2, ClockMoves
<1> QED  BY <1>1, <1>2, <1>3

\* An actor that stops acting keeps the combat's invariant.
LEMMA StopStep ==
    ASSUME CombatInv, NEW a \in scheduled, Now(a), Stop(a) PROVE CombatInv'
<1> USE DEF CombatInv
<1>1. /\ UNCHANGED <<status, presence, escapedAt, recovery, freeHand, quiver, interrupted,
                     exchange, task, supplies, broken, landed, slipped>>
      /\ Reached(a)
  BY DEF Stop, hands, traces
<1>2. /\ elapsed' \in Nat /\ elapsed' >= elapsed /\ elapsed' = a.contact
      /\ a \in Actions /\ scheduled' = scheduled \ {a} /\ exchange.on /\ ~exchange.cut
      /\ exchange' \in Exchanges /\ ClockInv'
  BY <1>1, ReachedMoves
<1>3. PICK who : health' = HealthAfter(who) /\ fellAt' = FallsAfter(who, a.contact)
  BY DEF Stop
<1>4. a.contact \in Nat
  BY <1>2 DEF Actions
<1>5. ExactCombatTypeOK'
  BY <1>1, <1>2, <1>3, <1>4, Collapse DEF ExactCombatTypeOK
<1>6. ActionsAreTimed' /\ InterruptionInv' /\ BrokenInv'
  BY <1>1, <1>2, LessUnderWay
<1> QED  BY <1>2, <1>5, <1>6

\* An action leaves its actor's hands recovering until some moment.
LEMMA HandsAreSpent ==
    ASSUME ExactCombatTypeOK, NEW a \in Actions
    PROVE  /\ Recovering(a) \in [Fighters -> Nat]
           /\ Spent(a) => freeHand' \in [Fighters -> Nat]
<1>1. /\ recovery \in [Fighters -> Nat] /\ freeHand \in [Fighters -> Nat]
      /\ a.actor \in Fighters /\ a.recovery \in Nat
  BY DEF ExactCombatTypeOK, Actions
<1>2. Larger(recovery[a.actor], a.recovery) \in Nat /\ Larger(freeHand[a.actor], a.recovery) \in Nat
  BY <1>1 DEF Larger
<1> QED  BY <1>1, <1>2 DEF Recovering, Spent

\* A strike that misses keeps the combat's invariant.
LEMMA MissStep ==
    ASSUME CombatInv, NEW a \in scheduled, Now(a), Miss(a) PROVE CombatInv'
<1> USE DEF CombatInv
<1>1. /\ UNCHANGED <<status, presence, escapedAt, interrupted, exchange, task, supplies,
                     broken, landed, slipped>>
      /\ Reached(a)
  BY DEF Miss, traces
<1>2. /\ elapsed' \in Nat /\ elapsed' >= elapsed /\ elapsed' = a.contact
      /\ a \in Actions /\ scheduled' = scheduled \ {a} /\ exchange.on /\ ~exchange.cut
      /\ exchange' \in Exchanges /\ ClockInv'
  BY <1>1, ReachedMoves
<1>3. PICK who : health' = HealthAfter(who) /\ fellAt' = FallsAfter(who, a.contact)
  BY DEF Miss
<1>4. a.contact \in Nat /\ a.recovery \in Nat /\ a.actor \in Fighters
  BY <1>2 DEF Actions
<1>5. /\ recovery' \in [Fighters -> Nat] /\ freeHand' \in [Fighters -> Nat]
      /\ quiver' \in [Fighters -> Nat]
  <2>1. quiver \in [Fighters -> Nat]
    BY DEF ExactCombatTypeOK
  <2>2. recovery' = Recovering(a) /\ Spent(a)
    BY DEF Miss
  <2>3. quiver' = quiver \/ (quiver[a.actor] > 0 /\ quiver' = [quiver EXCEPT ![a.actor] = @ - 1])
    BY DEF Miss
  <2> QED  BY <1>2, <1>4, <2>1, <2>2, <2>3, HandsAreSpent
<1>6. ExactCombatTypeOK'
  BY <1>1, <1>2, <1>3, <1>4, <1>5, Collapse DEF ExactCombatTypeOK
<1>7. ActionsAreTimed' /\ InterruptionInv' /\ BrokenInv'
  BY <1>1, <1>2, LessUnderWay
<1> QED  BY <1>2, <1>6, <1>7

\* A defence that begins cancels what its fighter prepares, from the earliest moment any
\* defence of the fighter began, and what was cancelled stays cancelled.
LEMMA DefenceIsRecorded ==
    ASSUME CombatInv, exchange.on, NEW v \in Fighters, NEW begun \in Nat, NEW kind,
           exchange.declared <= begun, NEW b \in scheduled
    PROVE  LET now == RecordInterruption(v, begun, Cancelled(v, kind, begun))
           IN  /\ now \in [Fighters -> Nat \cup {Never}]
               /\ now[b.actor] = Never \/ now[b.actor] >= b.declared
               /\ interrupted[b.actor] \in b.declared .. b.release - 1 =>
                      now[b.actor] \in b.declared .. b.release - 1
               /\ b \in Cancelled(v, kind, begun) =>
                      now[b.actor] \in b.declared .. b.release - 1
<1> USE DEF CombatInv
<1> DEFINE now == RecordInterruption(v, begun, Cancelled(v, kind, begun))
<1>1. /\ b \in Actions /\ b.actor \in Fighters /\ b.declared \in Nat /\ b.release \in Nat
      /\ interrupted \in [Fighters -> Nat \cup {Never}]
  BY DEF ExactCombatTypeOK, Actions
<1>2. /\ interrupted[b.actor] = Never \/ interrupted[b.actor] >= b.declared
      /\ b.declared <= exchange.declared /\ exchange.declared \in Nat
  BY DEF InterruptionInv, ExactCombatTypeOK, Exchanges
<1>3. b.declared <= begun
  BY <1>1, <1>2
<1>4. \/ now = interrupted /\ Cancelled(v, kind, begun) = {}
      \/ now = [interrupted EXCEPT ![v] = IF Earlier(@, begun) THEN @ ELSE begun]
  BY DEF RecordInterruption, Never
<1>4a. b \in Cancelled(v, kind, begun) => b.actor = v /\ begun < b.release
  BY DEF Cancelled
<1> HIDE DEF now
<1>5. CASE now = interrupted /\ Cancelled(v, kind, begun) = {}
  BY <1>1, <1>2, <1>5 DEF now
<1>6. CASE now = [interrupted EXCEPT ![v] = IF Earlier(@, begun) THEN @ ELSE begun]
  <2>1. now \in [Fighters -> Nat \cup {Never}]
    BY <1>1, <1>6
  <2>2. CASE b.actor # v
    <3>1. now[b.actor] = interrupted[b.actor]
      BY <1>1, <1>6, <2>2
    <3> QED  BY <1>2, <1>4a, <2>1, <2>2, <3>1 DEF now
  <2>3. CASE b.actor = v
    <3>1. now[v] = IF Earlier(interrupted[v], begun) THEN interrupted[v] ELSE begun
      BY <1>1, <1>6
    <3>2. interrupted[v] = Never \/ interrupted[v] \in Nat
      BY <1>1
    <3> QED  BY <1>1, <1>2, <1>3, <1>4a, <2>1, <2>3, <3>1, <3>2 DEF now, Earlier, Never
  <2> QED  BY <2>2, <2>3
<1> QED  BY <1>4, <1>5, <1>6

\* A blow or a shot that meets somebody.
LEMMA ContactStep ==
    ASSUME CombatInv, NEW a \in scheduled, Now(a), Contact(a) PROVE CombatInv'
<1> USE DEF CombatInv
<1>1. /\ UNCHANGED <<status, presence, escapedAt, exchange, task, supplies, slipped>>
      /\ Reached(a)
  BY DEF Contact
<1>2. /\ elapsed' \in Nat /\ elapsed' >= elapsed /\ elapsed' = a.contact
      /\ a \in Actions /\ scheduled' = scheduled \ {a} /\ exchange.on /\ ~exchange.cut
      /\ exchange' \in Exchanges /\ ClockInv'
  BY <1>1, ReachedMoves
<1>3. PICK who \in Collapses(a.contact), v \in Met(a), fallen \in BOOLEAN,
           begun \in Answers(a) : \E result \in Results(a, begun) :
        \E cancelled \in {Cancelled(v, kind, begun) : kind \in KindsFor(result)} :
          LET h == HealthAfter(who)
              falls == FallsAfter(who, a.contact)
          IN  /\ ~Disabled(a, falls)
              /\ interrupted' = RecordInterruption(v, begun, cancelled)
              /\ broken' = broken \cup {b \in cancelled \ {a} : b.declared <= begun}
              /\ recovery' = [Recovering(a) EXCEPT
                     ![v] = IF begun = Never THEN @ ELSE Larger(@, a.contact + 1)]
              /\ Spent(a)
              /\ CASE result = "wound" ->
                        /\ \E w \in Struck(a, v, begun) : Hurt(h, falls, w, fallen, a.contact)
                        /\ landed' = landed \cup Faults(a)
                   [] result = "countered" ->
                        /\ health' = [h EXCEPT ![a.actor] = IF fallen \/ @ = "fallen"
                                                            THEN "fallen" ELSE "injured"]
                        /\ fellAt' = falls /\ UNCHANGED landed
                   [] OTHER -> /\ ~fallen
                               /\ health' = h /\ fellAt' = falls /\ UNCHANGED landed
  BY DEF Contact
<1>3a. PICK result \in Results(a, begun) :
        \E cancelled \in {Cancelled(v, kind, begun) : kind \in KindsFor(result)} :
          LET h == HealthAfter(who)
              falls == FallsAfter(who, a.contact)
          IN  /\ ~Disabled(a, falls)
              /\ interrupted' = RecordInterruption(v, begun, cancelled)
              /\ broken' = broken \cup {b \in cancelled \ {a} : b.declared <= begun}
              /\ recovery' = [Recovering(a) EXCEPT
                     ![v] = IF begun = Never THEN @ ELSE Larger(@, a.contact + 1)]
              /\ Spent(a)
              /\ CASE result = "wound" ->
                        /\ \E w \in Struck(a, v, begun) : Hurt(h, falls, w, fallen, a.contact)
                        /\ landed' = landed \cup Faults(a)
                   [] result = "countered" ->
                        /\ health' = [h EXCEPT ![a.actor] = IF fallen \/ @ = "fallen"
                                                            THEN "fallen" ELSE "injured"]
                        /\ fellAt' = falls /\ UNCHANGED landed
                   [] OTHER -> /\ ~fallen
                               /\ health' = h /\ fellAt' = falls /\ UNCHANGED landed
  BY <1>3
<1>3c. PICK cancelled \in {Cancelled(v, kind, begun) : kind \in KindsFor(result)} :
          LET h == HealthAfter(who)
              falls == FallsAfter(who, a.contact)
          IN  /\ ~Disabled(a, falls)
              /\ interrupted' = RecordInterruption(v, begun, cancelled)
              /\ broken' = broken \cup {b \in cancelled \ {a} : b.declared <= begun}
              /\ recovery' = [Recovering(a) EXCEPT
                     ![v] = IF begun = Never THEN @ ELSE Larger(@, a.contact + 1)]
              /\ Spent(a)
              /\ CASE result = "wound" ->
                        /\ \E w \in Struck(a, v, begun) : Hurt(h, falls, w, fallen, a.contact)
                        /\ landed' = landed \cup Faults(a)
                   [] result = "countered" ->
                        /\ health' = [h EXCEPT ![a.actor] = IF fallen \/ @ = "fallen"
                                                            THEN "fallen" ELSE "injured"]
                        /\ fellAt' = falls /\ UNCHANGED landed
                   [] OTHER -> /\ ~fallen
                               /\ health' = h /\ fellAt' = falls /\ UNCHANGED landed
  BY <1>3a
<1>3d. PICK kind \in KindsFor(result) : cancelled = Cancelled(v, kind, begun)
  OBVIOUS
<1>3b. result \in {"stopped", "countered", "wound"}
  BY DEF Results
<1> DEFINE h == HealthAfter(who)
           falls == FallsAfter(who, a.contact)
<1>4. a.contact \in Nat /\ a.recovery \in Nat /\ a.actor \in Fighters /\ v \in Fighters
  BY <1>2, MetFighter DEF Actions
<1>5. /\ h \in [Fighters -> {"ready", "injured", "fallen"}]
      /\ falls \in [Fighters -> Nat \cup {Never}]
  BY <1>4, Collapse
<1>6. \/ /\ \E w \in Struck(a, v, begun) : Hurt(h, falls, w, fallen, a.contact)
         /\ landed' = landed \cup Faults(a)
      \/ /\ health' = [h EXCEPT ![a.actor] = IF fallen \/ @ = "fallen"
                                             THEN "fallen" ELSE "injured"]
         /\ fellAt' = falls /\ UNCHANGED landed
      \/ health' = h /\ fellAt' = falls /\ UNCHANGED landed
  BY <1>3c
<1>8. exchange.declared \in Nat /\ begun \in Nat \cup {Never}
      /\ (begun # Never => begun \in Nat /\ exchange.declared <= begun)
  BY <1>2, <1>4 DEF Exchanges, Never, Answers
<1>9. /\ recovery' = [Recovering(a) EXCEPT
                          ![v] = IF begun = Never THEN @ ELSE Larger(@, a.contact + 1)]
      /\ Spent(a)
      /\ interrupted' = RecordInterruption(v, begun, cancelled)
      /\ broken' = broken \cup {b \in cancelled \ {a} : b.declared <= begun}
  BY <1>3c
<1> HIDE DEF h, falls
<1>10. \A b \in scheduled :
          /\ interrupted' \in [Fighters -> Nat \cup {Never}]
          /\ interrupted'[b.actor] = Never \/ interrupted'[b.actor] >= b.declared
          /\ interrupted[b.actor] \in b.declared .. b.release - 1 =>
                 interrupted'[b.actor] \in b.declared .. b.release - 1
          /\ begun # Never /\ b \in cancelled =>
                 interrupted'[b.actor] \in b.declared .. b.release - 1
  <2>1. CASE begun = Never
    <3>1. interrupted' = interrupted
      BY <1>9, <2>1 DEF RecordInterruption
    <3> QED  BY <2>1, <3>1 DEF InterruptionInv, ExactCombatTypeOK
  <2>2. CASE begun # Never
    BY <1>2, <1>3d, <1>4, <1>8, <1>9, <2>2, DefenceIsRecorded
  <2> QED  BY <2>1, <2>2
<1>11. \A b \in scheduled : b.declared <= begun => begun # Never
  <2>1. \A b \in scheduled : b.declared \in Nat
    BY DEF ExactCombatTypeOK, Actions
  <2> QED  BY <2>1 DEF Never
<1>12. ExactCombatTypeOK'
  <2>1. /\ recovery' \in [Fighters -> Nat] /\ freeHand' \in [Fighters -> Nat]
        /\ quiver' \in [Fighters -> Nat]
    <3>1. quiver \in [Fighters -> Nat]
      BY DEF ExactCombatTypeOK
    <3>2. Recovering(a) \in [Fighters -> Nat] /\ freeHand' \in [Fighters -> Nat]
      BY <1>2, <1>9, HandsAreSpent
    <3>3. Larger(Recovering(a)[v], a.contact + 1) \in Nat
      BY <1>4, <3>2 DEF Larger
    <3>4. recovery' \in [Fighters -> Nat]
      BY <1>4, <1>9, <3>2, <3>3
    <3>5. quiver' = quiver \/ (quiver[a.actor] > 0 /\ quiver' = [quiver EXCEPT ![a.actor] = @ - 1])
      BY DEF Contact
    <3> QED  BY <1>4, <3>1, <3>2, <3>4, <3>5
  <2>2. /\ health' \in [Fighters -> {"ready", "injured", "fallen"}]
        /\ fellAt' \in [Fighters -> Nat \cup {Never}]
    <3>1. CASE \E w \in Struck(a, v, begun) : Hurt(h, falls, w, fallen, a.contact)
      BY <1>4, <1>5, <3>1 DEF Hurt
    <3> QED  BY <1>5, <1>6, <3>1
  <2>3. interrupted' \in [Fighters -> Nat \cup {Never}]
    BY <1>10
  <2> QED  BY <1>1, <1>2, <2>1, <2>2, <2>3 DEF ExactCombatTypeOK
<1>13. ActionsAreTimed'
  BY <1>2 DEF ActionsAreTimed
<1>14. InterruptionInv'
  <2>1. elapsed \in Nat
    BY DEF ExactCombatTypeOK
  <2> QED  BY <1>1, <1>2, <1>8, <1>10, <2>1 DEF InterruptionInv
<1>15. BrokenInv'
  <2>1. a \notin broken
    BY <1>1 DEF Reached, BrokenInv
  <2>2. BlowsAreCausal'
    <3>1. "defending" \notin Faults(a)
      BY <2>1 DEF Faults
    <3>2. landed' = landed \/ landed' = landed \cup Faults(a)
      BY <1>6
    <3> QED  BY <3>1, <3>2 DEF BrokenInv, BlowsAreCausal
  <2>3. \A b \in scheduled' : b \in broken' => CancelledByDefence(b)'
    <3> SUFFICES ASSUME NEW b \in scheduled', b \in broken' PROVE CancelledByDefence(b)'
      OBVIOUS
    <3>1. b \in scheduled
      BY <1>2
    <3>2. CASE b \in broken
      BY <1>10, <3>1, <3>2 DEF BrokenInv, CancelledByDefence, BlowsAreCausal
    <3>3. CASE b \notin broken
      BY <1>9, <1>10, <1>11, <3>1, <3>3 DEF CancelledByDefence
    <3> QED  BY <3>2, <3>3
  <2> QED  BY <1>1, <1>2, <2>2, <2>3 DEF BrokenInv
<1> QED  BY <1>2, <1>12, <1>13, <1>14, <1>15

\* One action is resolved.
LEMMA ResolveStep == CombatInv /\ Resolve => CombatInv'
BY WithholdStep, LoseTargetStep, InterruptStep, StopStep, MissStep, ContactStep DEF Resolve

-----------------------------------------------------------------------------
\* Withdrawals settle before everything that is still to happen.
LEMMA WithdrawStep == CombatInv /\ Withdraw => CombatInv'
<1> SUFFICES ASSUME CombatInv, Withdraw PROVE CombatInv'
  OBVIOUS
<1> USE DEF CombatInv
<1> DEFINE end == Larger(elapsed, WithdrawalEnd)
           early == ~exchange.cut /\ Due # {}
<1>1. /\ exchange.on /\ Leaving /\ WithdrawalsTurn
      /\ UNCHANGED <<status, freeHand, quiver, interrupted, task, supplies, broken, landed,
                     slipped>>
      /\ elapsed' = end
  BY DEF Withdraw, traces
<1>2. PICK who \in Collapses(end) :
         /\ health' = HealthAfter(who) /\ fellAt' = FallsAfter(who, end)
         /\ \E moved \in SUBSET {w \in exchange.withdrawing : Active(w) /\ w \notin who} :
               \E clear \in SUBSET moved : Depart(moved, clear, WithdrawalEnd)
         /\ IF early /\ Decided(health', presence')
            THEN /\ scheduled' = {}
                 /\ exchange' = [exchange EXCEPT !.withdrawing = {}, !.horizon = end]
            ELSE /\ exchange' = [exchange EXCEPT !.withdrawing = {}]
                 /\ UNCHANGED scheduled
  BY DEF Withdraw
<1>3. PICK moved \in SUBSET Fighters, clear \in SUBSET Fighters :
         Depart(moved, clear, WithdrawalEnd)
  <2>1. exchange.withdrawing \subseteq Fighters
    BY DEF Exchanges
  <2> QED  BY <1>2, <2>1
<1>4. /\ elapsed \in Nat /\ WithdrawalEnd \in Nat /\ exchange.horizon \in Nat
      /\ WithdrawalEnd <= exchange.horizon
  BY <1>1, CombatAssumption DEF ExactCombatTypeOK, Exchanges, WithdrawalEnd, Leaving
<1>5. end \in Nat /\ end >= elapsed /\ (end = elapsed \/ end = WithdrawalEnd)
  BY <1>4 DEF Larger
<1>6. /\ recovery' \in [Fighters -> Nat]
      /\ presence' \in [Fighters -> {"here", "reinforcing", "escaped"}]
      /\ escapedAt' \in [Fighters -> Nat \cup {Never}]
      /\ \A r \in Fighters : presence'[r] = presence[r] \/ presence'[r] = "escaped"
  <2>1. /\ recovery \in [Fighters -> Nat]
        /\ presence \in [Fighters -> {"here", "reinforcing", "escaped"}]
        /\ escapedAt \in [Fighters -> Nat \cup {Never}]
    BY DEF ExactCombatTypeOK
  <2>2. \A r \in Fighters : Larger(recovery[r], WithdrawalEnd + 1) \in Nat
    BY <1>4, <2>1 DEF Larger
  <2> QED  BY <1>3, <1>4, <2>1, <2>2 DEF Depart
<1>7. health' \in [Fighters -> {"ready", "injured", "fallen"}]
      /\ fellAt' \in [Fighters -> Nat \cup {Never}]
  BY <1>2, <1>5, Collapse
<1> HIDE DEF end
<1>8. /\ exchange' \in Exchanges /\ exchange'.on /\ exchange'.declared = exchange.declared
      /\ exchange'.cut = exchange.cut
      /\ scheduled' = {} \/ (scheduled' = scheduled /\ exchange'.horizon = exchange.horizon)
  <2>1. \/ exchange' = [exchange EXCEPT !.withdrawing = {}, !.horizon = end] /\ scheduled' = {}
        \/ exchange' = [exchange EXCEPT !.withdrawing = {}] /\ scheduled' = scheduled
    BY <1>2 DEF end
  <2> QED  BY <1>1, <1>5, <2>1 DEF Exchanges
<1>9. ExactCombatTypeOK'
  <2>1. scheduled' \subseteq Actions
    BY <1>8 DEF ExactCombatTypeOK
  <2> QED  BY <1>1, <1>5, <1>6, <1>7, <2>1 DEF ExactCombatTypeOK
<1>10. scheduled \subseteq Actions
  BY DEF ExactCombatTypeOK
<1>11. ClockInv'
  <2> SUFFICES ASSUME ~slipped, NEW a \in scheduled'
               PROVE  /\ a.contact >= elapsed'
                      /\ exchange'.cut => a.contact >= exchange'.horizon
    BY <1>1 DEF ClockInv
  <2>1. a \in scheduled /\ a.contact \in Nat /\ exchange'.horizon = exchange.horizon
    BY <1>8, <1>10 DEF Actions
  <2>2. a.contact >= elapsed /\ (exchange.cut => a.contact >= exchange.horizon)
    BY <1>1, <2>1 DEF ClockInv
  <2>3. a.contact >= WithdrawalEnd
    <3>1. CASE exchange.cut
      BY <1>4, <2>1, <2>2, <3>1
    <3>2. CASE ~exchange.cut /\ a.contact <= exchange.horizon
      BY <1>1, <1>4, <2>1, <3>2 DEF WithdrawalsTurn, Due, WithdrawalsFirst
    <3>3. CASE a.contact > exchange.horizon
      BY <1>4, <2>1, <3>3
    <3> QED  BY <1>4, <2>1, <3>1, <3>2, <3>3
  <2> QED  BY <1>1, <1>5, <1>8, <2>1, <2>2, <2>3
<1>12. ActionsAreTimed'
  BY <1>8 DEF ActionsAreTimed
<1>13. InterruptionInv'
  <2>1. exchange.declared \in Nat
    BY DEF Exchanges
  <2>2. \A a \in scheduled' : presence'[a.actor] # "reinforcing"
    BY <1>6, <1>8, <1>10 DEF InterruptionInv, Actions
  <2> QED  BY <1>1, <1>4, <1>5, <1>8, <2>1, <2>2 DEF InterruptionInv
<1>14. BrokenInv'
  BY <1>1, <1>8 DEF BrokenInv, CancelledByDefence, BlowsAreCausal
<1> QED  BY <1>8, <1>9, <1>11, <1>12, <1>13, <1>14

\* Between two exchanges an actor's interruption is kept exactly while it cancels
\* something that is carried.
LEMMA CloseStep == CombatInv /\ Close => CombatInv'
<1> SUFFICES ASSUME CombatInv, Close PROVE CombatInv'
  OBVIOUS
<1> USE DEF CombatInv
<1> DEFINE end == Larger(elapsed, exchange.horizon)
<1>1. /\ exchange.on /\ (exchange.cut \/ Due = {})
      /\ interrupted' = RelevantInterruptions(scheduled)
      /\ exchange' = Rest /\ broken' = broken \cap scheduled
      /\ UNCHANGED <<presence, escapedAt, recovery, freeHand, quiver, scheduled, task,
                     supplies, landed, slipped>>
  BY DEF Close, hands
<1>2. PICK who \in Collapses(end) :
         /\ elapsed' = end
         /\ health' = HealthAfter(who) /\ fellAt' = FallsAfter(who, end)
         /\ status' = IF Decided(health', presence) THEN "resolved" ELSE "active"
  BY DEF Close
<1>3. /\ elapsed \in Nat /\ exchange.horizon \in Nat /\ exchange.declared \in Nat
      /\ scheduled \subseteq Actions
  BY DEF ExactCombatTypeOK, Exchanges
<1>4. end \in Nat /\ end >= elapsed /\ (end = elapsed \/ end = exchange.horizon)
  BY <1>3 DEF Larger
<1>5. health' \in [Fighters -> {"ready", "injured", "fallen"}]
      /\ fellAt' \in [Fighters -> Nat \cup {Never}]
  BY <1>2, <1>4, Collapse
<1> HIDE DEF end
<1>6. interrupted \in [Fighters -> Nat \cup {Never}]
  BY DEF ExactCombatTypeOK
<1>7. /\ interrupted' \in [Fighters -> Nat \cup {Never}]
      /\ \A r \in Fighters : interrupted'[r] = Never \/ interrupted'[r] = interrupted[r]
      /\ \A r \in Fighters : interrupted'[r] # Never => \E a \in scheduled : a.actor = r
      /\ \A a \in scheduled : CancelledByDefence(a) => interrupted'[a.actor] = interrupted[a.actor]
  BY <1>1, <1>3, <1>6 DEF RelevantInterruptions, Actions
<1>8. ~exchange'.on /\ exchange' \in Exchanges
  BY <1>1 DEF Rest, Exchanges
<1>9. ExactCombatTypeOK'
  BY <1>1, <1>2, <1>4, <1>5, <1>7 DEF ExactCombatTypeOK
<1>10. ClockInv'
  <2> SUFFICES ASSUME ~slipped, NEW a \in scheduled PROVE a.contact >= elapsed'
    BY <1>1, <1>8 DEF ClockInv
  <2>1. a.contact \in Nat /\ a.contact >= elapsed
    BY <1>3 DEF ClockInv, Actions
  <2>2. a.contact >= exchange.horizon
    <3>1. CASE exchange.cut
      BY <1>1, <3>1 DEF ClockInv
    <3>2. CASE Due = {}
      BY <1>3, <2>1, <3>2 DEF Due
    <3> QED  BY <1>1, <3>1, <3>2
  <2> QED  BY <1>2, <1>4, <2>1, <2>2
<1>11. ActionsAreTimed'
  BY <1>1 DEF ActionsAreTimed
<1>12. InterruptionInv'
  <2>1. \A a \in scheduled : a.declared <= elapsed'
    BY <1>1, <1>2, <1>3, <1>4 DEF InterruptionInv, Actions
  <2>2. \A a \in scheduled : interrupted'[a.actor] = Never \/ interrupted'[a.actor] >= a.declared
    BY <1>3, <1>7 DEF InterruptionInv, Actions
  <2> QED  BY <1>1, <1>7, <1>8, <2>1, <2>2 DEF InterruptionInv
<1>13. BrokenInv'
  <2>1. \A b \in scheduled : b \in broken => CancelledByDefence(b)'
    BY <1>7 DEF BrokenInv, CancelledByDefence, BlowsAreCausal
  <2> QED  BY <1>1, <2>1 DEF BrokenInv, BlowsAreCausal
<1> QED  BY <1>8, <1>9, <1>10, <1>11, <1>12, <1>13

\* A retreat leaves nothing behind only if nothing was under way.
LEMMA DisengageStep == CombatInv /\ Disengage => CombatInv'
<1> SUFFICES ASSUME CombatInv, Disengage PROVE CombatInv'
  OBVIOUS
<1> USE DEF CombatInv
<1>1. /\ ~exchange.on /\ elapsed' = elapsed + Second
      /\ recovery' = [recovery EXCEPT ![Player] = Larger(@, elapsed + Second + 1)]
      /\ slipped' = (slipped \/ scheduled # {})
      /\ UNCHANGED <<health, fellAt, freeHand, quiver, scheduled, interrupted, exchange, task,
                     supplies, broken, landed>>
  BY DEF Disengage
<1>2. elapsed \in Nat /\ Second \in Nat /\ Player \in Fighters /\ scheduled \subseteq Actions
  BY CombatAssumption DEF ExactCombatTypeOK, Fighters
<1>3. \/ /\ presence' = [presence EXCEPT ![Player] = "escaped"]
         /\ escapedAt' = [escapedAt EXCEPT ![Player] = elapsed + Second]
         /\ status' \in {"resolved", status}
      \/ UNCHANGED <<presence, escapedAt, status>>
  BY DEF Disengage
<1>4. recovery' \in [Fighters -> Nat]
  <2>1. recovery \in [Fighters -> Nat]
    BY DEF ExactCombatTypeOK
  <2>2. Larger(recovery[Player], elapsed + Second + 1) \in Nat
    BY <1>2, <2>1 DEF Larger
  <2> QED  BY <1>1, <1>2, <2>1, <2>2
<1>5. elapsed' \in Nat /\ elapsed' >= elapsed
  BY <1>1, <1>2
<1>6. /\ presence' \in [Fighters -> {"here", "reinforcing", "escaped"}]
      /\ escapedAt' \in [Fighters -> Nat \cup {Never}]
      /\ \A r \in Fighters : presence'[r] # "reinforcing" \/ presence'[r] = presence[r]
  <2>1. /\ presence \in [Fighters -> {"here", "reinforcing", "escaped"}]
        /\ escapedAt \in [Fighters -> Nat \cup {Never}]
    BY DEF ExactCombatTypeOK
  <2> QED  BY <1>1, <1>2, <1>3, <1>5, <2>1
<1>7. status' \in {"active", "resolved"} /\ slipped' \in BOOLEAN
  BY <1>1, <1>3 DEF ExactCombatTypeOK
<1>8. ExactCombatTypeOK' /\ exchange' \in Exchanges
  BY <1>1, <1>4, <1>5, <1>6, <1>7 DEF ExactCombatTypeOK
<1>9. ClockInv'
  BY <1>1 DEF ClockInv
<1>10. ActionsAreTimed' /\ BrokenInv'
  BY <1>1 DEF ActionsAreTimed, BrokenInv, CancelledByDefence, BlowsAreCausal
<1>11. InterruptionInv'
  <2>1. \A a \in scheduled : a.declared <= elapsed'
    BY <1>1, <1>2, <1>5 DEF InterruptionInv, Actions
  <2>2. \A a \in scheduled : presence'[a.actor] # "reinforcing"
    BY <1>2, <1>6 DEF InterruptionInv, Actions
  <2> QED  BY <1>1, <2>1, <2>2 DEF InterruptionInv
<1> QED  BY <1>8, <1>9, <1>10, <1>11

-----------------------------------------------------------------------------
\* The clock, what is remembered of the defences, and the phases of the actions agree, for
\* every fight.
THEOREM CombatInvariance == Spec => []CombatInv
<1>1. CombatInv /\ [Next]_vars => CombatInv'
  <2> SUFFICES ASSUME CombatInv, [Next]_vars PROVE CombatInv'
    OBVIOUS
  <2>1. CASE UNCHANGED vars
    BY <2>1 DEF vars, CombatInv, BlowsAreCausal, ExactCombatTypeOK, Exchanges, ActionsAreTimed, ClockInv,
                InterruptionInv, BrokenInv, CancelledByDefence
  <2> QED  BY <2>1, DeclareStep, ResolveStep, WithdrawStep, CloseStep, DisengageStep DEF Next
<1> QED  BY <1>1, InitialCombat, PTL DEF Spec

\* Every variable of a fight keeps its type (exact_combat.py's records of participants,
\* scheduled_actions and support_task), whatever is declared, cancelled or carried.
THEOREM CombatTypeCorrect == Spec => []ExactCombatTypeOK
<1>1. CombatInv => ExactCombatTypeOK
  BY DEF CombatInv
<1> QED  BY <1>1, CombatInvariance, PTL

\* "combat physiology time regressed" (exact_combat.py:1373) is never raised while the
\* player stays, or walks out with nothing under way: the next action of an active fight
\* never lies behind the clock.
THEOREM TimeNeverRegresses == Spec => []ActionsAhead
<1>1. CombatInv => ActionsAhead
  BY DEF CombatInv, ClockInv, ActionsAhead
<1> QED  BY <1>1, CombatInvariance, PTL

\* No blow lands that a defence of its own actor had cancelled, whatever defences of the
\* actor spare it before or after and over however many exchanges it is carried
\* (exact_combat.py:2339-2389, 4391-4410).
THEOREM NoBlowOutOfTime == Spec => []BlowsAreCausal
<1>1. CombatInv => BlowsAreCausal
  BY DEF CombatInv, BrokenInv, BlowsAreCausal
<1> QED  BY <1>1, CombatInvariance, PTL

=============================================================================
