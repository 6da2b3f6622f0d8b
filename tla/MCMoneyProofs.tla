--------------------------- MODULE MCMoneyProofs ---------------------------
(***************************************************************************)
(* What MCMoney checks on a small range, for any holders and any amounts.  *)
(***************************************************************************)
EXTENDS MCMoney, MoneyProofs

Inv ==
    /\ amount \in Nat
    /\ shares \in [Keys -> Nat]
    /\ split = ProrataSplit(amount, shares)

\* The split on show is always that of the amount and table on show.
LEMMA Invariant == Spec => []Inv
<1> USE MCMoneyAssumption
<1>1. Init => Inv
  BY DEF Init, Inv
<1>2. Inv /\ [OneMore]_<<amount, shares, split>> => Inv'
  BY DEF Inv, OneMore
<1> QED
  BY <1>1, <1>2, PTL DEF Spec

\* Tables of shares are what the lemmas of MoneyProofs speak about.
LEMMA TablesFinite ==
    ASSUME Inv
    PROVE  /\ DOMAIN shares = Keys /\ IsFiniteSet(DOMAIN shares)
           /\ DOMAIN shares \subseteq Int
           /\ \A k \in DOMAIN shares : shares[k] \in Nat
           /\ Total(shares) \in Nat
<1>1. /\ DOMAIN shares = Keys /\ IsFiniteSet(DOMAIN shares)
      /\ DOMAIN shares \subseteq Int
      /\ \A k \in DOMAIN shares : shares[k] \in Nat
  BY MCMoneyAssumption DEF Inv
<1> QED
  BY <1>1, SumNat DEF Total

\* A split never mints or destroys a nuggy, whatever the shares.
THEOREM SplitsAreExact == Spec => []SplitExact
<1>1. Inv => SplitExact
  <2> SUFFICES ASSUME Inv PROVE SplitExact
    OBVIOUS
  <2>1. amount \in Nat /\ split = ProrataSplit(amount, shares)
    BY DEF Inv
  <2>2. Total(ProrataSplit(amount, shares)) = IF Total(shares) = 0 THEN 0 ELSE amount
    BY <2>1, TablesFinite, SplitSum
  <2> QED
    BY <2>1, <2>2 DEF SplitExact
<1> QED
  BY <1>1, Invariant, PTL

\* A split gives everybody the exact quota to less than a nuggy, and no larger
\* holder less than a smaller one.
THEOREM SplitsAreFair == Spec => []SplitFair
<1>1. Inv => SplitFair
  <2> SUFFICES ASSUME Inv, NEW k \in Keys
               PROVE  /\ shares[k] = 0 => split[k] = 0
                      /\ Total(shares) > 0 =>
                            /\ (split[k] - 1) * Total(shares) < amount * shares[k]
                            /\ amount * shares[k] < (split[k] + 1) * Total(shares)
                      /\ \A j \in Keys : shares[j] > shares[k] => split[j] >= split[k]
    BY DEF SplitFair
  <2>1. amount \in Nat /\ split = ProrataSplit(amount, shares)
    BY DEF Inv
  <2>2. shares[k] = 0 => split[k] = 0
    BY <2>1, TablesFinite, SplitNat
  <2>3. ASSUME Total(shares) > 0
        PROVE  /\ (split[k] - 1) * Total(shares) < amount * shares[k]
               /\ amount * shares[k] < (split[k] + 1) * Total(shares)
    BY <2>1, <2>3, TablesFinite, SplitNear
  <2>4. ASSUME NEW j \in Keys, shares[j] > shares[k] PROVE split[j] >= split[k]
    <3>1. CASE Total(shares) > 0
      BY <2>1, <2>4, <3>1, TablesFinite, SplitOrdered
    <3>2. CASE Total(shares) = 0
      <4>1. shares[j] <= Total(shares)
        BY TablesFinite, SumNat DEF Total
      <4> QED
        BY <2>4, <3>2, <4>1, TablesFinite
    <3> QED
      BY <3>1, <3>2, TablesFinite
  <2> QED
    BY <2>2, <2>3, <2>4
<1> QED
  BY <1>1, Invariant, PTL

\* The most that a cut of output may come to is one of the things it may be.
LEMMA MostRealized ==
    ASSUME NEW output \in Nat, NEW sum \in Nat, NEW cap \in Nat
    PROVE  Max(RealizedRevenue(output, sum, cap)) \in RealizedRevenue(output, sum, cap)
<1> DEFINE S == RealizedRevenue(output, sum, cap)
           x == output * cap
           k == x \div sum
<1>1. \E m \in S : \A y \in S : y <= m
  <2>1. CASE sum > cap
    <3>1. x \in Nat /\ sum \in Nat \ {0}
      BY <2>1, Product
    <3>2. k \in Nat
      <4> HIDE DEF x
      <4> QED
        BY <3>1, Division
    <3>3. S = {k} \/ S = {k - 1, k}
      BY <2>1 DEF RealizedRevenue, FloatFloor
    <3> HIDE DEF k, S
    <3> QED
      BY <3>2, <3>3
  <2>2. CASE ~(sum > cap)
    BY <2>2 DEF RealizedRevenue
  <2> QED
    BY <2>1, <2>2
<1> HIDE DEF S
<1>2. Max(S) \in S
  BY <1>1 DEF Max
<1> QED
  BY <1>2 DEF S

\* The companies never draw more from the pool than its cap, whichever way the
\* floats fall.
THEOREM RevenueIsCapped == Spec => []RevenueWithinCap
<1>1. Inv => RevenueWithinCap
  <2> SUFFICES ASSUME Inv PROVE RevenueWithinCap
    OBVIOUS
  <2> DEFINE cap == RecessionCap(amount * PoolPerAmount)
             sum == Total(shares)
             earned == [k \in Keys |-> Max(RealizedRevenue(shares[k], sum, cap))]
  <2>1. cap \in Nat
    <3> DEFINE p == amount * PoolPerAmount
    <3>1. p \in Nat
      BY MCMoneyAssumption, Product DEF Inv
    <3> HIDE DEF p
    <3>2. RecessionCap(p) \in Nat
      BY <3>1, Division DEF RecessionCap
    <3> QED
      BY <3>2 DEF p
  <2>2. shares \in [Keys -> Nat] /\ IsFiniteSet(Keys) /\ sum \in Nat
    BY MCMoneyAssumption, TablesFinite DEF Inv
  <2>3. DOMAIN earned = Keys
    OBVIOUS
  <2> HIDE DEF cap
  <2>4. \A k \in Keys : earned[k] \in RealizedRevenue(shares[k], Total(shares), cap)
    BY <2>1, <2>2, MostRealized
  <2> HIDE DEF earned
  <2>5. SumOver(earned, Keys) <= Smaller(cap, Total(shares))
    BY <2>1, <2>2, <2>4, RevenueCapped
  <2>6. Total(earned) <= Smaller(cap, sum)
    BY <2>3, <2>5 DEF Total
  <2> QED
    BY <2>6 DEF RevenueWithinCap, earned, cap
<1> QED
  BY <1>1, Invariant, PTL
=============================================================================
