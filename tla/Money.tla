------------------------------- MODULE Money -------------------------------
(***************************************************************************)
(* The integer arithmetic of the economy: how an amount is taxed and       *)
(* split, how grants vest and rounds mint, what output the pool can buy    *)
(* (money.py, tick.py, services/investment.py, services/companies.py).     *)
(* Rates and percentages are whole percents.                               *)
(***************************************************************************)
EXTENDS Integers, FiniteSets, FiniteSetsExt

\* The sum of f over S, a subset of its domain.
SumOver(f, S) == MapThenSumSet(LAMBDA x : f[x], S)

Total(f) == SumOver(f, DOMAIN f)

Smaller(a, b) == IF a <= b THEN a ELSE b

\* tax_amount: floored, and nothing of nothing.
TaxAmount(gross, rate) ==
    IF gross <= 0 \/ rate <= 0 THEN 0 ELSE (gross * rate) \div 100

----------------------------------------------------------------------------
(***************************************************************************)
(* prorata_split: amount over the holders, by shares, in whole nuggies.    *)
(* Every holder gets the floor of its quota; what is left goes one by one  *)
(* to the largest remainders, then the larger share, then the lower key.   *)
(* shares maps each key, an integer, to its share count.                   *)
(***************************************************************************)
Holders(shares) == {k \in DOMAIN shares : shares[k] > 0}

Quota(amount, shares, k) == (amount * shares[k]) \div Total(shares)

Remainder(amount, shares, k) == (amount * shares[k]) % Total(shares)

\* Does holder j come before holder k when the leftovers are handed out?
Precedes(amount, shares, j, k) ==
    LET r(x) == Remainder(amount, shares, x) IN
    \/ r(j) > r(k)
    \/ r(j) = r(k) /\ shares[j] > shares[k]
    \/ r(j) = r(k) /\ shares[j] = shares[k] /\ j < k

Leftover(amount, shares) ==
    amount - Total([k \in Holders(shares) |-> Quota(amount, shares, k)])

\* Changed form: the leftovers stay where they were.
ProrataSplit_Floor(amount, shares) ==
    [k \in DOMAIN shares |->
        IF amount <= 0 \/ shares[k] = 0 THEN 0 ELSE Quota(amount, shares, k)]

\* Changed form: the first leftover is handed out twice as far down the list.
ProrataSplit_FromTop(amount, shares) ==
    [k \in DOMAIN shares |->
        IF amount <= 0 \/ shares[k] = 0 THEN 0
        ELSE Quota(amount, shares, k)
             + (IF \A j \in Holders(shares) \ {k} : Precedes(amount, shares, k, j)
                THEN Leftover(amount, shares) ELSE 0)]

\* Who receives nothing is absent from the code's result; here it maps to 0.
ProrataSplit(amount, shares) ==
    [k \in DOMAIN shares |->
        IF amount <= 0 \/ shares[k] = 0 THEN 0
        ELSE Quota(amount, shares, k)
             + (IF Cardinality({j \in Holders(shares) : Precedes(amount, shares, j, k)})
                       < Leftover(amount, shares)
                THEN 1 ELSE 0)]

----------------------------------------------------------------------------
\* Shares a grant has released after elapsed closes (_vest_grants).
VestTarget(total, vest, elapsed) ==
    IF elapsed >= vest THEN total ELSE (total * elapsed) \div vest

\* Changed form: a tranche is rounded up.
TrancheTarget_Up(newShares, amount, funded) ==
    (newShares * funded + amount - 1) \div amount

\* Shares of a round that are minted once `funded` of `amount` is in (invest).
TrancheTarget(newShares, amount, funded) ==
    IF funded >= amount THEN newShares ELSE (newShares * funded) \div amount

\* Python's round of num / den: to the nearest integer, ties to even.
RoundHalfEven(num, den) ==
    LET q == num \div den
        twice == 2 * (num % den)
    IN  IF twice > den \/ (twice = den /\ q % 2 = 1) THEN q + 1 ELSE q

\* The dilution-correct mint of a round (open_round).
RoundShares(existing, pct) == RoundHalfEven(existing * pct, 100 - pct)

\* The fee of a founder who owns `owned` active companies (found_company).
FoundingFee(base, multiplier, owned) == base * multiplier ^ owned

\* A raise by pct percent (promote).
RaisedWage(wage, pct) == RoundHalfEven(wage * (100 + pct), 100)

\* The largest grant one posting may carry (post_job).
GrantCap(shares, pct) == (shares * pct) \div 100

----------------------------------------------------------------------------
\* The floor of the float product of num / den: an exact whole number may come
\* out one lower.
FloatFloor(num, den) ==
    LET k == num \div den IN
    IF k > 0 /\ num % den = 0 THEN {k - 1, k} ELSE {k}

\* A day's output under an event multiplier of pct percent (run_tick).
Output(raw, pct) == IF pct = 100 THEN {raw} ELSE FloatFloor(raw * pct, 100)

\* What the pool may pay for one day's output (RECESSION_CAP_FRACTION).
RecessionCap(pool) == pool \div 10

\* Changed form: the company's share of the cap is rounded up.
RealizedRevenue_Up(tentative, sum, cap) ==
    IF sum > cap THEN {(tentative * cap + sum - 1) \div sum} ELSE {tentative}

\* What output of value `tentative` earns when all output together is worth
\* `sum`.  The code multiplies by the float cap / sum and floors.
RealizedRevenue(tentative, sum, cap) ==
    IF sum > cap THEN FloatFloor(tentative * cap, sum) ELSE {tentative}
=============================================================================
