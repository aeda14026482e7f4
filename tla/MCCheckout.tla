----------------------------- MODULE MCCheckout -----------------------------
(***************************************************************************)
(* Checkout for TLC.                                                       *)
(***************************************************************************)
EXTENDS Checkout, TLC

CONSTANTS gas, stove, s1, s2, e1, e2

\* gas is on sale and stove is not listed yet.
OneProduct ==
    [p \in Products |->
        IF p = gas THEN [sku |-> s1, price |-> 1, active |-> TRUE] ELSE Absent]

\* Patches of one field, and of the sku together with the price.
SmallBodies ==
    {b \in PatchBody :
        b.active = Absent \/ (b.sku = Absent /\ b.price = Absent)}

\* One product in two lines.
Line(p, n) == [product |-> p, qty |-> n]
SmallCarts == {<<Line(gas, 1), Line(gas, 2)>>}

Rule(from, to, fee) == [min |-> from, max |-> to, fee |-> fee, active |-> TRUE]
Off(rule) == [rule EXCEPT !.active = FALSE]

TwoBands == <<Rule(0, 1, 1), Rule(1, Infinity, 2)>>

\* Three bands out of order, apart; two that overlap; one after an open end; two
\* that start together; an inactive one under an active one; a first that
\* reaches into the last, with a band sent between them that is switched off.
SmallRuleLists ==
    {<<Rule(2, Infinity, 3), Rule(0, 1, 4), Rule(1, 2, 3)>>,
     <<Rule(0, 2, 3), Rule(1, Infinity, 4)>>,
     <<Rule(0, Infinity, 3), Rule(1, 2, 4)>>,
     <<Rule(0, 1, 3), Rule(0, 2, 4)>>,
     <<Off(Rule(0, 2, 3)), Rule(0, 2, 4)>>,
     <<Rule(0, 3, 3), Off(Rule(1, 2, 4)), Rule(2, Infinity, 4)>>}

\* Places on a road, two units apart.
OnTheRoad ==
    [a \in Places |->
        [b \in Places |-> IF a < b THEN 2 * (b - a) ELSE 2 * (a - b)]]

NearStore == [place |-> 0, radius |-> 1]

EditorSymmetry == Permutations({e1, e2})
=============================================================================
