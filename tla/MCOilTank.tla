----------------------------- MODULE MCOilTank ----------------------------
(***************************************************************************)
(* Instances of OilTank: two tanks whose readings and deliveries meet, and *)
(* one delivery whose prices are changed.                                  *)
(***************************************************************************)
EXTENDS OilTank, TLC

(* The first tank was filled or was used up to today; the second was read  *)
(* once.                                                                   *)
TwoTanks ==
    {<<[tank |-> 1, at |-> 1, value |-> levels[1]], [tank |-> 1, at |-> 2, value |-> levels[2]],
       [tank |-> 2, at |-> 1, value |-> 900]>> :
          levels \in {<<900, 1500>>, <<1500, 900>>}}

Pairs == {<<1, 2>>, <<3, 4>>}

Nothing == {<<>>}

Threads == Permutations(Workers)
============================================================================
