------------------------ MODULE MCCampaignBootstrap ------------------------
(***************************************************************************)
(* Two interchangeable transactions, a source release, a rebaseline whose  *)
(* contract holds and one whose contract does not, and one replaced        *)
(* history.                                                                *)
(***************************************************************************)
EXTENDS CampaignBootstrap, TLC

CONSTANTS c1, c2, good, bad

MCCommand == {c1, c2}
MCRebaseline == {good, bad}
MCCertified == {good}

MCSymmetry == Permutations(MCCommand)
=============================================================================
