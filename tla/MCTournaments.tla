---------------------------- MODULE MCTournaments ----------------------------
(* The player and one more of the host city, two guests; the places of the  *)
(* purse have the weights 5, 3, 1 and 1.                                    *)
EXTENDS Tournaments

CONSTANTS pl, h, g1, g2

MCSeeding == <<g1, pl, h, g2>>
MCWeights == <<5, 3, 1, 1>>
=============================================================================
