------------------------------ MODULE MCStaticIP ------------------------------
(* StaticIP instantiated for TLC: addresses 0..15 with subnets of 4 and 8   *)
(* addresses, VMIDs from 3.                                                 *)
EXTENDS StaticIP, TLC

CONSTANTS p1, p2, m1, m2, m3

TwoPools == [m \in Machines |-> IF m = m3 THEN p2 ELSE p1]

Form(min, max, start, end, size, gateway) ==
  [min |-> min, max |-> max, start |-> start, end |-> end, size |-> size,
   gateway |-> gateway]

(* Pools of one range, of a shifted range, with a range wider than the      *)
(* pool, and at the end of the addresses.                                   *)
Neighbours == {Form(3, 5, 1, 3, 8, 6), Form(3, 5, 1, 2, 8, 6),
               Form(4, 6, 2, 3, 8, 6), Form(4, 6, 1, 3, 8, 6),
               Form(3, 6, 13, 14, 8, 9)}

(* Fields that have to be refused: an end on the network or the broadcast   *)
(* address, two subnets, ends swapped, a subnet too small or too large, a   *)
(* gateway elsewhere, ranges too low, too high and empty.                   *)
Bad == {Form(3, 5, 0, 3, 8, 6), Form(3, 5, 5, 7, 8, 6), Form(3, 5, 3, 5, 4, 2),
        Form(3, 5, 5, 2, 8, 6), Form(3, 5, 1, 1, 2, 0), Form(3, 5, 1, 3, 16, 6),
        Form(3, 5, 1, 3, 8, 9), Form(2, 4, 1, 3, 8, 6), Form(3, 7, 1, 3, 8, 6),
        Form(5, 4, 1, 3, 8, 6)}

AnyForm == Neighbours \cup Bad

Symmetry == Permutations({m1, m2})
===============================================================================
