------------------------------ MODULE MCHouseLife ------------------------------
(* Four adults, two couples of them possible, and one child.  Three worlds: a  *)
(* house of three beside a house of one, a house of four that may split, and a *)
(* house of two beside two independents.                                       *)
EXTENDS HouseLife, TLC

NoMarriage == <<>>
Wed(p, h) == p :> [status |-> "married", child |-> 0, houses |-> {h}]
Home(p, h) == [id |-> <<h, p>>, house |-> h, members |-> p, head |-> Min(p)]

MCSettings ==
  {[roster |-> 1 :> {1, 2, 3} @@ 2 :> {4}, loose |-> {}, leaders |-> {1, 4},
    treasury |-> 1 :> 3 @@ 2 :> 3, purse |-> [x \in Adult |-> IF x = 1 THEN 1 ELSE 0],
    marriages |-> Wed({1, 2}, 1), homes |-> {Home({1, 2}, 1)}, courting |-> {}],
   [roster |-> 1 :> {1, 2, 3, 4}, loose |-> {}, leaders |-> {1},
    treasury |-> 1 :> 6, purse |-> [x \in Adult |-> 0],
    marriages |-> Wed({2, 3}, 1), homes |-> {Home({2, 3}, 1)}, courting |-> {}],
   [roster |-> 1 :> {1, 2}, loose |-> {3, 4}, leaders |-> {1},
    treasury |-> 1 :> 1, purse |-> [x \in Adult |-> IF x = 3 THEN 3 ELSE 1],
    marriages |-> NoMarriage, homes |-> {}, courting |-> {{1, 2}}]}

================================================================================
