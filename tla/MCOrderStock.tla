---------------------------- MODULE MCOrderStock ----------------------------
(* OrderStock for TLC.                                                     *)
EXTENDS OrderStock, TLC

\* Stock for two orders; the admin takes out and corrects one piece.
SmallMoves == [k \in Kinds |-> IF k = "IN" THEN 2 ELSE 1]

OrderSymmetry == Permutations(Orders)
=============================================================================
