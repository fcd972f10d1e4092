--------------------------- MODULE MCEscortContracts ---------------------------
(* A mixed convoy with one client and a plain shipment; a House of two, a   *)
(* guild of two, and two raiders.                                          *)
EXTENDS EscortContracts

CONSTANTS c1, c2, client

MCGoods == [c \in Contracts |-> 1]
MCClientOf == [c \in Contracts |-> IF c = c1 THEN Clients ELSE {}]
=============================================================================
