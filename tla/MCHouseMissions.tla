---------------------------- MODULE MCHouseMissions ----------------------------
(* The player, who is the steward, a leader and a plain member; a             *)
(* reconnaissance and talks linked to a commission that the player may        *)
(* propose, and the commission itself, which the House and the public notice  *)
(* both offer: two of these in a behaviour.                                   *)
EXTENDS HouseMissions

CONSTANTS cargo, hq, town, far

MCHouse     == {1, 2, 3}
MCChiefs    == {2}
MCCaptains  == {}
MCStewards  == {1}
MCMissions  == <<[source |-> "player", kind |-> "reconnaissance", link |-> Nobody, mode |-> "equal"],
                 [source |-> "public", kind |-> "escort", link |-> cargo, mode |-> "none"],
                 [source |-> "house", kind |-> "escort", link |-> cargo, mode |-> "commander"],
                 [source |-> "player", kind |-> "diplomacy", link |-> cargo, mode |-> "none"]>>
MCGifts     == {3}
MCContracts == {cargo}
MCRosters   == {[party |-> {1, 3}, lead |-> 3]}

=============================================================================
