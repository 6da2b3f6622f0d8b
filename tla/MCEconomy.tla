----------------------------- MODULE MCEconomy -----------------------------
(***************************************************************************)
(* Instances of Economy for TLC.  Date 0 is a Monday.                      *)
(***************************************************************************)
EXTENDS Economy, TLC

Saved(n) == [u \in Users |-> n]
NoSavings == Saved(0)
TwoEach == Saved(2)
FourEach == Saved(4)

\* Three shares that vest over two closes: one, then two.
ThreeOverTwo == [total |-> 3, vest |-> 2, elapsed |-> 0, vested |-> 0]
WithGrant == {ThreeOverTwo}

\* Five over three closes: one, three, five.
FiveOverThree == [total |-> 5, vest |-> 3, elapsed |-> 0, vested |-> 0]
WithLongGrant == {FiveOverThree}

WithoutGrant == {NoGrant}

\* A quarter of the company, post-money, for three nuggies.
QuarterForThree == {[amount |-> 3, pct |-> 25]}

Tickers == Permutations(Companies)
=============================================================================
