------------------------------ MODULE MCMoney ------------------------------
(***************************************************************************)
(* Money on every input of a small range: a behaviour is one split of an   *)
(* amount over holders and one recession cut of a day's output, repeated   *)
(* as the amount grows by one.  The pool is PoolPerAmount times amount.    *)
(***************************************************************************)
EXTENDS Money

CONSTANTS Keys, MaxAmount, MaxShares, PoolPerAmount

ASSUME MCMoneyAssumption ==
    /\ Keys \subseteq Int /\ IsFiniteSet(Keys)
    /\ {MaxAmount, MaxShares, PoolPerAmount} \subseteq Nat

VARIABLES amount, shares, split

Init ==
    /\ amount \in 0 .. MaxAmount
    /\ shares \in [Keys -> 0 .. MaxShares]
    /\ split = ProrataSplit(amount, shares)

\* One nuggy more to distribute over the same cap table.
OneMore ==
    /\ amount < MaxAmount
    /\ amount' = amount + 1
    /\ split' = ProrataSplit(amount', shares)
    /\ UNCHANGED shares

Spec == Init /\ [][OneMore]_<<amount, shares, split>>

----------------------------------------------------------------------------
\* No nuggy is minted or destroyed by a split: it hands out all of amount,
\* or nothing when nobody holds a share (money.py:62-89).
SplitExact == Total(split) = IF Total(shares) = 0 THEN 0 ELSE amount

\* Reference definition: the split is the closest whole-nuggy split there is.
\* Nobody is a nuggy or more away from the exact quota, and no larger holder
\* receives less than a smaller one.
SplitFair ==
    \A k \in Keys :
        /\ shares[k] = 0 => split[k] = 0
        /\ Total(shares) > 0 =>
            /\ (split[k] - 1) * Total(shares) < amount * shares[k]
            /\ amount * shares[k] < (split[k] + 1) * Total(shares)
        /\ \A j \in Keys : shares[j] > shares[k] => split[j] >= split[k]

\* However far the pool's cap falls short of the output offered, the
\* companies (here Keys, whose output is shares) together never draw more
\* than the cap, whichever way the floats fall (tick.py run_tick, step 4).
RevenueWithinCap ==
    LET cap == RecessionCap(amount * PoolPerAmount)
        sum == Total(shares)
    IN  Total([k \in Keys |-> Max(RealizedRevenue(shares[k], sum, cap))])
            <= Smaller(cap, sum)
=============================================================================
