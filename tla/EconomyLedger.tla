--------------------------- MODULE EconomyLedger ---------------------------
(***************************************************************************)
(* Proofs about the books of Economy: that no account is overdrawn, no     *)
(* nuggy minted or lost, every cap table adds up, and a company that was   *)
(* wound up leaves nothing behind, for any players, companies, amounts,    *)
(* rates, splits and outputs.                                              *)
(***************************************************************************)
EXTENDS EconomyProofs, MoneyProofs

Round == [open : BOOLEAN, amount : Nat, newShares : Nat, raised : Nat, minted : Nat]

\* Every account holds a whole number of nuggies, not less than none.
CashOK ==
    /\ pool \in Nat /\ printed \in Nat
    /\ wallet \in [Users -> Nat]
    /\ treasury \in [Companies -> Nat]

\* What EconomyAssumption says of players, companies and rates.
LEMMA Constants ==
    /\ IsFiniteSet(Users) /\ IsFiniteSet(Companies) /\ Users \subseteq Int
    /\ Rates \subseteq 0 .. 100
BY EconomyAssumption

\* There are finitely many players and companies.
LEMMA Finite == IsFiniteSet(Users) /\ IsFiniteSet(Companies)
BY EconomyAssumption

----------------------------------------------------------------------------
\* Payments.

\* The total of a table of naturals is their sum.
LEMMA TotalIs ==
    ASSUME NEW D, NEW f \in [D -> Nat], IsFiniteSet(D)
    PROVE  /\ Total(f) = SumOver(f, D) /\ Total(f) \in Nat
           /\ \A x \in D : f[x] <= Total(f)
BY SumNat DEF Total

\* Crediting adds up the totals.
LEMMA CreditSum ==
    ASSUME NEW D, NEW f \in [D -> Nat], NEW g \in [D -> Nat], IsFiniteSet(D)
    PROVE  /\ Credit(f, g) \in [D -> Nat]
           /\ Total(Credit(f, g)) = Total(f) + Total(g)
<1> DEFINE h == Credit(f, g)
<1>1. h \in [D -> Nat] /\ \A x \in D : h[x] = f[x] + g[x]
  BY DEF Credit
<1> HIDE DEF h
<1>2. \A x \in D : f[x] \in Int /\ g[x] \in Int /\ h[x] = f[x] + g[x]
  BY <1>1
<1>3. SumOver(h, D) = SumOver(f, D) + SumOver(g, D)
  BY <1>2, SumPlus
<1> QED
  BY <1>1, <1>3, TotalIs DEF h

\* The tax on payments is a part of them; the rest is what arrives.
LEMMA NetOfTax ==
    ASSUME NEW D, IsFiniteSet(D), NEW gross \in [D -> Nat], taxRate \in Rates
    PROVE  /\ Net(gross) \in [D -> Nat] /\ Tax(gross) \in Nat
           /\ \A u \in D : Net(gross)[u] = gross[u] - TaxAmount(gross[u], taxRate)
           /\ Total(gross) = Total(Net(gross)) + Tax(gross)
           /\ Tax(gross) <= Total(gross)
<1> DEFINE net == Net(gross)
           tax == [u \in DOMAIN gross |-> TaxAmount(gross[u], taxRate)]
<1>1. \A u \in D : TaxAmount(gross[u], taxRate) \in 0 .. gross[u]
  BY Constants, TaxWithin
<1>2. tax \in [D -> Nat] /\ net \in [D -> Nat]
  BY <1>1 DEF Net
<1>3. \A u \in D : net[u] = gross[u] - TaxAmount(gross[u], taxRate)
  BY DEF Net
<1>4. \A u \in D : net[u] \in Int /\ tax[u] \in Int /\ gross[u] = net[u] + tax[u]
  BY <1>1, <1>2, <1>3
<1>5. Tax(gross) = Total(tax)
  BY DEF Tax
<1> HIDE DEF net, tax
<1>6. SumOver(gross, D) = SumOver(net, D) + SumOver(tax, D)
  BY <1>4, SumPlus
<1>7. /\ Total(gross) = SumOver(gross, D) /\ Total(net) = SumOver(net, D)
      /\ Total(tax) = SumOver(tax, D) /\ Total(tax) \in Nat /\ Total(net) \in Nat
  BY <1>2, TotalIs
<1>8. Total(gross) = Total(net) + Tax(gross) /\ Tax(gross) \in Nat /\ Tax(gross) <= Total(gross)
  BY <1>5, <1>6, <1>7
<1> QED
  BY <1>2, <1>3, <1>8 DEF net

\* One account changes.
LEMMA OneChanges ==
    ASSUME NEW D, IsFiniteSet(D), NEW f \in [D -> Nat], NEW g \in [D -> Nat], NEW x \in D,
           \A y \in D : y # x => g[y] = f[y]
    PROVE  Total(g) = Total(f) - f[x] + g[x]
<1>1. g[x] \in Int /\ \A y \in D : f[y] \in Int /\ (y # x => g[y] = f[y])
  OBVIOUS
<1>2. SumOver(g, D) = SumOver(f, D) - f[x] + g[x]
  BY <1>1, SumChange
<1> QED
  BY <1>2, TotalIs

\* Everything a split of equity or wages may be asked to divide.
LEMMA SplitOver ==
    ASSUME NEW D, IsFiniteSet(D), D \subseteq Int, NEW f \in [D -> Nat], NEW amount \in Nat
    PROVE  /\ ProrataSplit(amount, f) \in [D -> Nat]
           /\ Total(ProrataSplit(amount, f)) = IF Total(f) = 0 THEN 0 ELSE amount
<1>1. DOMAIN f = D /\ \A x \in DOMAIN f : f[x] \in Nat
  OBVIOUS
<1> QED
  BY <1>1, SplitNat, SplitSum

----------------------------------------------------------------------------
\* What a command does to the money.

\* Nothing is minted or lost.
Balanced == CashOK' /\ printed' = printed /\ MoneySupply' = MoneySupply

\* The parts of the money supply are whole numbers.
LEMMA Parts ==
    ASSUME CashOK
    PROVE  Total(wallet) \in Nat /\ Total(treasury) \in Nat /\ MoneySupply \in Nat
           /\ IsFiniteSet(Users) /\ IsFiniteSet(Companies)
<1>1. Total(wallet) \in Nat /\ Total(treasury) \in Nat
  BY Constants, TotalIs DEF CashOK
<1> QED
  BY <1>1, Constants DEF CashOK, MoneySupply

\* A taxed payment, from wherever it comes, changes no total.
LEMMA PaymentBalances ==
    ASSUME CashOK, taxRate \in Rates, NEW gross \in [Users -> Nat],
           wallet' = Credit(wallet, Net(gross)), printed' = printed,
           pool' \in Nat, treasury' \in [Companies -> Nat],
           pool' + Total(treasury') = pool + Total(treasury) - Total(gross) + Tax(gross)
    PROVE  Balanced
<1>1. /\ Net(gross) \in [Users -> Nat] /\ Tax(gross) \in Nat
      /\ Total(gross) = Total(Net(gross)) + Tax(gross)
  BY Constants, NetOfTax
<1>2. /\ wallet' \in [Users -> Nat]
      /\ Total(wallet') = Total(wallet) + Total(Net(gross))
  BY <1>1, Constants, CreditSum DEF CashOK
<1>3. Total(treasury') \in Nat /\ Total(gross) \in Nat /\ Total(Net(gross)) \in Nat
  BY <1>1, Constants, TotalIs
<1>4. MoneySupply' = MoneySupply
  BY <1>1, <1>2, <1>3, Parts DEF CashOK, MoneySupply
<1> QED
  BY <1>2, <1>4 DEF Balanced, CashOK

\* A fee is at most what the player has.
LEMMA FeeBalances ==
    ASSUME CashOK, NEW u \in Users, NEW fee \in Nat, fee <= wallet[u], ChargeFee(u, fee),
           UNCHANGED <<treasury, printed>>
    PROVE  Balanced
<1>1. wallet[u] - fee \in Nat
  BY DEF CashOK
<1>2. wallet' \in [Users -> Nat] /\ Total(wallet') = Total(wallet) - fee
  <2>1. /\ wallet' \in [Users -> Nat] /\ wallet'[u] = wallet[u] - fee
        /\ \A y \in Users : y # u => wallet'[y] = wallet[y]
    BY <1>1 DEF ChargeFee, CashOK
  <2>2. Total(wallet') = Total(wallet) - wallet[u] + wallet'[u]
    BY <2>1, Finite, OneChanges DEF CashOK
  <2> QED
    BY <2>1, <2>2, Parts DEF CashOK
<1> QED
  BY <1>2, Parts DEF Balanced, CashOK, MoneySupply, ChargeFee

\* An injection moves an amount from a wallet to a treasury.
LEMMA InjectionBalances ==
    ASSUME CashOK, NEW u \in Users, NEW c \in Companies, NEW amount \in Nat,
           amount <= wallet[u], InjectCapital(u, c, amount), UNCHANGED <<pool, printed>>
    PROVE  Balanced
<1>1. wallet[u] - amount \in Nat /\ treasury[c] + amount \in Nat
  BY DEF CashOK
<1>2. wallet' \in [Users -> Nat] /\ Total(wallet') = Total(wallet) - amount
  <2>1. /\ wallet' \in [Users -> Nat] /\ wallet'[u] = wallet[u] - amount
        /\ \A y \in Users : y # u => wallet'[y] = wallet[y]
    BY <1>1 DEF InjectCapital, CashOK
  <2>2. Total(wallet') = Total(wallet) - wallet[u] + wallet'[u]
    BY <2>1, Finite, OneChanges DEF CashOK
  <2> QED
    BY <2>1, <2>2, Parts DEF CashOK
<1>3. treasury' \in [Companies -> Nat] /\ Total(treasury') = Total(treasury) + amount
  <2>1. /\ treasury' \in [Companies -> Nat] /\ treasury'[c] = treasury[c] + amount
        /\ \A y \in Companies : y # c => treasury'[y] = treasury[y]
    BY <1>1 DEF InjectCapital, CashOK
  <2>2. Total(treasury') = Total(treasury) - treasury[c] + treasury'[c]
    BY <2>1, Finite, OneChanges DEF CashOK
  <2> QED
    BY <2>1, <2>2, Parts DEF CashOK
<1> QED
  BY <1>2, <1>3, Parts DEF Balanced, CashOK, MoneySupply

\* The bonus comes out of the pool, which has it.
LEMMA BonusBalances ==
    ASSUME CashOK, taxRate \in Rates, NEW u \in Users, NEW bonus \in Nat,
           PayBonus(u, bonus), UNCHANGED <<treasury, printed>>
    PROVE  Balanced
<1> DEFINE gross == [v \in Users |-> IF v = u THEN bonus ELSE 0]
<1>1. gross \in [Users -> Nat]
  OBVIOUS
<1>2. Total(gross) = bonus
  <2> DEFINE none == [v \in Users |-> 0]
  <2>1. /\ none \in [Users -> Nat] /\ none[u] = 0 /\ gross[u] = bonus
        /\ \A v \in Users : v # u => gross[v] = none[v]
    OBVIOUS
  <2>2. \A v \in Users : none[v] = 0
    OBVIOUS
  <2> HIDE DEF none, gross
  <2>3. Total(none) = 0
    BY <2>1, <2>2, Constants, SumZero, TotalIs
  <2>4. Total(gross) = Total(none) - none[u] + gross[u]
    BY <1>1, <2>1, Finite, OneChanges
  <2> QED
    BY <2>1, <2>3, <2>4
<1>3. /\ wallet' = Credit(wallet, Net(gross))
      /\ pool' = pool - bonus + Tax(gross) /\ bonus <= pool
  BY DEF PayBonus
<1> HIDE DEF gross
<1>4. Tax(gross) \in Nat
  BY <1>1, Constants, NetOfTax
<1>5. pool' \in Nat
  BY <1>3, <1>4 DEF CashOK
<1>6. pool' + Total(treasury') = pool + Total(treasury) - Total(gross) + Tax(gross)
  BY <1>2, <1>3, <1>4, Parts DEF CashOK
<1> QED
  BY <1>1, <1>3, <1>5, <1>6, PaymentBalances DEF CashOK

\* What the holders of a company are paid: all that is to be shared out or, if
\* nobody holds a share, nothing.
LEMMA PayoutIs ==
    ASSUME NEW c \in Companies, holdings[c] \in [Users -> Nat], NEW amount \in Nat
    PROVE  /\ Payout(c, amount) \in [Users -> Nat]
           /\ Total(Payout(c, amount)) \in 0 .. amount
<1>1. Users \subseteq Int
  BY EconomyAssumption
<1> DEFINE h == holdings[c]
<1>2. h \in [Users -> Nat] /\ Payout(c, amount) = ProrataSplit(amount, h)
  BY DEF Payout
<1> HIDE DEF h
<1>3. /\ ProrataSplit(amount, h) \in [Users -> Nat]
      /\ Total(ProrataSplit(amount, h)) = IF Total(h) = 0 THEN 0 ELSE amount
  BY <1>1, <1>2, Finite, SplitOver
<1> QED
  BY <1>2, <1>3

\* What a dividend takes from the treasury reaches the holders and the pool.
LEMMA DividendBalances ==
    ASSUME CashOK, taxRate \in Rates, NEW c \in Companies, NEW amount \in Nat,
           holdings[c] \in [Users -> Nat], Dividend(c, amount)
    PROVE  Balanced
<1> DEFINE gross == Payout(c, amount)
<1>1. gross \in [Users -> Nat] /\ Total(gross) \in 0 .. amount
  BY PayoutIs
<1>2. /\ treasury' = [treasury EXCEPT ![c] = @ - Total(gross)]
      /\ wallet' = Credit(wallet, Net(gross))
      /\ pool' = pool + Tax(gross)
      /\ printed' = printed /\ amount <= treasury[c]
  BY DEF Dividend
<1> HIDE DEF gross
<1>3. treasury[c] - Total(gross) \in Nat
  BY <1>1, <1>2 DEF CashOK
<1>4. /\ treasury' \in [Companies -> Nat] /\ treasury'[c] = treasury[c] - Total(gross)
      /\ \A y \in Companies : y # c => treasury'[y] = treasury[y]
  BY <1>2, <1>3 DEF CashOK
<1>5. Total(treasury') = Total(treasury) - treasury[c] + treasury'[c]
  BY <1>4, Finite, OneChanges DEF CashOK
<1>6. Tax(gross) \in Nat
  BY <1>1, Finite, NetOfTax
<1>7. pool' \in Nat
  BY <1>2, <1>6 DEF CashOK
<1>8. pool' + Total(treasury') = pool + Total(treasury) - Total(gross) + Tax(gross)
  BY <1>1, <1>2, <1>4, <1>5, <1>6, Parts DEF CashOK
<1> QED
  BY <1>1, <1>2, <1>4, <1>7, <1>8, PaymentBalances

\* The acquirer pays the price and absorbs the target's cash.
LEMMA AcceptBalances ==
    ASSUME CashOK, taxRate \in Rates, NEW o, o.acquirer \in Companies, o.target \in Companies,
           o.acquirer # o.target, o.amount \in Nat,
           holdings[o.target] \in [Users -> Nat], Accept(o)
    PROVE  Balanced /\ \A c \in Companies : c # o.acquirer => treasury'[c] <= treasury[c]
           /\ treasury'[o.target] = 0
<1> DEFINE a == o.acquirer
           t == o.target
           gross == Payout(t, o.amount)
           paid == Total(gross)
           half == [treasury EXCEPT ![a] = treasury[a] - paid + treasury[t]]
<1>1. gross \in [Users -> Nat] /\ paid \in 0 .. o.amount
  BY PayoutIs
<1>2. /\ treasury' = [treasury EXCEPT ![a] = @ - paid + treasury[t], ![t] = 0]
      /\ wallet' = Credit(wallet, Net(gross))
      /\ pool' = pool + Tax(gross)
      /\ printed' = printed /\ o.amount <= treasury[a]
  BY DEF Accept, StillFair
<1> HIDE DEF gross, paid
<1>3. treasury[a] - paid + treasury[t] \in Nat /\ treasury[t] \in Nat
  BY <1>1, <1>2 DEF CashOK
<1>4. /\ half \in [Companies -> Nat] /\ half[a] = treasury[a] - paid + treasury[t]
      /\ \A y \in Companies : y # a => half[y] = treasury[y]
  BY <1>3 DEF CashOK
<1>5. /\ treasury' \in [Companies -> Nat] /\ treasury'[t] = 0
      /\ \A y \in Companies : y # t => treasury'[y] = half[y]
  BY <1>2, <1>3 DEF CashOK
<1> HIDE DEF half
<1>6. Total(half) = Total(treasury) - treasury[a] + half[a]
  BY <1>4, Finite, OneChanges DEF CashOK
<1>7. Total(treasury') = Total(half) - half[t] + treasury'[t]
  BY <1>4, <1>5, Finite, OneChanges
<1>8. Total(treasury') = Total(treasury) - paid
  BY <1>1, <1>3, <1>4, <1>5, <1>6, <1>7, Parts DEF CashOK
<1>9. Tax(gross) \in Nat
  BY <1>1, Finite, NetOfTax
<1>10. pool' \in Nat
  BY <1>2, <1>9 DEF CashOK
<1>11. pool' + Total(treasury') = pool + Total(treasury) - Total(gross) + Tax(gross)
  BY <1>1, <1>2, <1>8, <1>9, Parts DEF CashOK, paid
<1>12. Balanced
  BY <1>1, <1>2, <1>5, <1>10, <1>11, PaymentBalances
<1>13. \A c \in Companies : c # a => treasury'[c] <= treasury[c]
  BY <1>4, <1>5 DEF CashOK
<1> QED
  BY <1>5, <1>12, <1>13

\* A print adds to the pool, and to the history of prints, what it says.
LEMMA PrintMints ==
    ASSUME CashOK, NEW amount \in Nat, PrintMoney(amount)
    PROVE  CashOK' /\ MoneySupply' - printed' = MoneySupply - printed
<1>1. /\ pool' = pool + amount /\ printed' = printed + amount
      /\ UNCHANGED <<wallet, treasury>>
  BY DEF PrintMoney
<1> QED
  BY <1>1, Parts DEF CashOK, MoneySupply

----------------------------------------------------------------------------
\* The output of a day and what the pool pays for it.

\* A floor computed in floats is a natural, and 0 of nothing.
LEMMA FloorNat ==
    ASSUME NEW num \in Nat, NEW den \in Nat \ {0}, NEW x \in FloatFloor(num, den)
    PROVE  x \in Nat /\ (num = 0 => x = 0)
<1> DEFINE k == num \div den
<1>1. k \in Nat /\ (num = 0 => k = 0)
  BY Division
<1>2. x = k \/ (x = k - 1 /\ k > 0)
  BY DEF FloatFloor
<1> HIDE DEF k
<1> QED
  BY <1>1, <1>2

\* The revenue of a day is within the pool, and none without workers.
LEMMA RevenueOfDay ==
    ASSUME CashOK, IsFiniteSet(employment), NEW mood \in [Companies -> Sentiments],
           NEW tentative \in Tentative(mood), NEW realized \in Realized(tentative)
    PROVE  /\ realized \in [Companies -> Nat]
           /\ Total(realized) <= pool
           /\ \A c \in Companies : Workers(c) = {} => realized[c] = 0
<1> DEFINE raw == [c \in Companies |-> Productivity * Cardinality(Workers(c))]
           cap == RecessionCap(pool)
<1>1. \A c \in Companies : raw[c] \in Nat /\ (Workers(c) = {} => raw[c] = 0)
  <2> SUFFICES ASSUME NEW c \in Companies
               PROVE  raw[c] \in Nat /\ (Workers(c) = {} => raw[c] = 0)
    OBVIOUS
  <2>1. IsFiniteSet(Workers(c))
    <3>1. Workers(c) \subseteq employment
      BY DEF Workers, RowsAt
    <3> QED
      BY <3>1, FS_Subset
  <2>2. Cardinality(Workers(c)) \in Nat /\ (Workers(c) = {} => Cardinality(Workers(c)) = 0)
    BY <2>1, FS_CardinalityType, FS_EmptySet
  <2>3. Productivity \in Nat
    BY EconomyAssumption
  <2> QED
    BY <2>2, <2>3, Product
<1>2. \A c \in Companies : tentative[c] \in Output(raw[c], mood[c])
  BY DEF Tentative, Outcomes
<1>3. DOMAIN tentative = Companies /\ tentative = [c \in Companies |-> tentative[c]]
  BY DEF Tentative, Outcomes
<1>4. \A c \in Companies :
        realized[c] \in RealizedRevenue(tentative[c], Total(tentative), cap)
  BY DEF Realized, Outcomes
<1>5. realized = [c \in Companies |-> realized[c]]
  BY DEF Realized, Outcomes
<1>6. cap \in Nat /\ cap <= pool
  BY Division DEF CashOK, RecessionCap
<1> HIDE DEF raw, cap
<1>7. \A c \in Companies : tentative[c] \in Nat /\ (Workers(c) = {} => tentative[c] = 0)
  <2> SUFFICES ASSUME NEW c \in Companies
               PROVE  tentative[c] \in Nat /\ (Workers(c) = {} => tentative[c] = 0)
    OBVIOUS
  <2>1. CASE mood[c] = 100
    <3>1. Output(raw[c], mood[c]) = {raw[c]}
      BY <2>1 DEF Output
    <3>2. tentative[c] \in Output(raw[c], mood[c])
      BY <1>2
    <3> QED
      BY <1>1, <3>1, <3>2
  <2>2. CASE mood[c] # 100
    <3> DEFINE x == raw[c] * mood[c]
    <3>1. mood[c] \in Nat
      BY EconomyAssumption
    <3>2. x \in Nat /\ (raw[c] = 0 => x = 0)
      BY <1>1, <3>1, Product
    <3>3. tentative[c] \in FloatFloor(x, 100)
      BY <1>2, <2>2 DEF Output
    <3> HIDE DEF x
    <3>4. tentative[c] \in Nat /\ (x = 0 => tentative[c] = 0)
      BY <3>2, <3>3, FloorNat
    <3> QED
      BY <1>1, <3>2, <3>4
  <2> QED
    BY <2>1, <2>2
<1>8. tentative \in [Companies -> Nat]
  BY <1>3, <1>7
<1>9. Total(tentative) \in Nat /\ IsFiniteSet(Companies)
  BY <1>8, Finite, TotalIs
<1>10. /\ \A c \in Companies : realized[c] \in Nat
       /\ SumOver(realized, Companies) <= Smaller(cap, Total(tentative))
       /\ SumOver(realized, Companies) \in Nat
  BY <1>4, <1>6, <1>8, Finite, RevenueCapped
<1>11. realized \in [Companies -> Nat]
  BY <1>5, <1>10
<1>12. Total(realized) <= pool
  <2>1. Total(realized) = SumOver(realized, Companies)
    BY <1>11, Finite, TotalIs
  <2>2. pool \in Nat
    BY DEF CashOK
  <2> QED
    BY <1>6, <1>9, <1>10, <2>1, <2>2 DEF Smaller
<1>13. ASSUME NEW c \in Companies, Workers(c) = {} PROVE realized[c] = 0
  <2>1. tentative[c] = 0
    BY <1>7, <1>13
  <2> DEFINE sum == Total(tentative)
  <2>2. realized[c] \in RealizedRevenue(0, sum, cap)
    BY <1>4, <2>1
  <2>3. CASE sum > cap
    <3>1. sum \in Nat \ {0} /\ 0 * cap = 0
      BY <1>6, <1>9, <2>3
    <3>2. realized[c] \in FloatFloor(0, sum)
      BY <2>2, <2>3, <3>1 DEF RealizedRevenue
    <3> QED
      BY <3>1, <3>2, FloorNat
  <2>4. CASE ~(sum > cap)
    BY <2>2, <2>4 DEF RealizedRevenue
  <2> QED
    BY <2>3, <2>4
<1> QED
  BY <1>11, <1>12, <1>13

----------------------------------------------------------------------------
\* Wages.

\* The wages due at a company are naturals, and none without workers.
LEMMA WagesAre ==
    ASSUME IsFiniteSet(employment), \A e \in employment : e.wage \in Nat, NEW c
    PROVE  /\ WagesDue(c) \in [Users -> Nat]
           /\ Workers(c) = {} => Total(WagesDue(c)) = 0
<1>1. ASSUME NEW u \in Users
      PROVE  WagesDue(c)[u] \in Nat /\ (Workers(c) = {} => WagesDue(c)[u] = 0)
  <2> DEFINE S == Workers(c) \cap RowsOf(u)
             pay == [e \in S |-> e.wage]
  <2>1. S \subseteq employment
    BY DEF RowsOf
  <2>2. pay \in [S -> Nat]
    BY <2>1
  <2>3. WagesDue(c)[u] = Total(pay)
    BY DEF WagesDue
  <2>4. Workers(c) = {} => S = {}
    OBVIOUS
  <2> HIDE DEF S, pay
  <2>5. IsFiniteSet(S)
    BY <2>1, FS_Subset
  <2>6. Total(pay) \in Nat /\ Total(pay) = SumOver(pay, S)
    BY <2>2, <2>5, TotalIs
  <2>7. S = {} => SumOver(pay, S) = 0
    BY SumEmpty
  <2> QED
    BY <2>3, <2>4, <2>6, <2>7
<1> DEFINE due == WagesDue(c)
<1>2. due \in [Users -> Nat]
  <2>1. due = [u \in Users |-> due[u]]
    BY DEF WagesDue
  <2> HIDE DEF due
  <2>2. \A u \in Users : due[u] \in Nat
    BY <1>1 DEF due
  <2> QED
    BY <2>1, <2>2
<1>3. ASSUME Workers(c) = {} PROVE Total(due) = 0
  <2>1. \A u \in Users : due[u] = 0
    BY <1>1, <1>3
  <2> HIDE DEF due
  <2> QED
    BY <1>2, <2>1, Finite, SumZero, TotalIs
<1> QED
  BY <1>2, <1>3

\* Nobody is paid what is not there, and the staff gets everything when it is
\* not enough.
LEMMA PayrollIs ==
    ASSUME NEW cash \in Nat, NEW due \in [Users -> Nat]
    PROVE  /\ Payroll(cash, due) \in [Users -> Nat]
           /\ Total(due) <= cash => Payroll(cash, due) = due
           /\ Total(due) > cash => Total(Payroll(cash, due)) = cash
           /\ Total(Payroll(cash, due)) \in 0 .. cash
<1>1. Total(due) \in Nat
  BY Finite, TotalIs
<1>2. CASE Total(due) <= cash
  <2>1. Payroll(cash, due) = due
    BY <1>2 DEF Payroll
  <2> QED
    BY <1>1, <1>2, <2>1
<1>3. CASE Total(due) > cash
  <2>1. Payroll(cash, due) = ProrataSplit(cash, due)
    BY <1>1, <1>3 DEF Payroll
  <2>2. Users \subseteq Int
    BY EconomyAssumption
  <2>3. /\ ProrataSplit(cash, due) \in [Users -> Nat]
        /\ Total(ProrataSplit(cash, due)) = IF Total(due) = 0 THEN 0 ELSE cash
    BY <2>2, Finite, SplitOver
  <2> QED
    BY <1>1, <1>3, <2>1, <2>3
<1> QED
  BY <1>1, <1>2, <1>3

\* Whichever way ties fall, state wages come to no more than the pool has.
LEMMA StatePayrollIs ==
    ASSUME IsFiniteSet(employment), \A e \in employment : e.wage \in Nat,
           NEW cash \in Nat, NEW public \in StatePayrolls(cash)
    PROVE  public \in [Users -> Nat] /\ Total(public) \in 0 .. cash
<1> DEFINE due == WagesDue(State)
<1>1. due \in [Users -> Nat] /\ Total(due) \in Nat
  BY WagesAre, Finite, TotalIs
<1>2. CASE Total(due) <= cash
  <2>1. public = due
    BY <1>2 DEF StatePayrolls
  <2> QED
    BY <1>1, <1>2, <2>1
<1>3. CASE Total(due) > cash
  <2> DEFINE ranked(order) == ProrataSplit(cash, [k \in Users |-> due[order[k]]])
             ofUser(order, u) == CHOOSE k \in Users : order[k] = u
  <2>1. PICK order \in Bijection(Users, Users) :
          public = [u \in Users |-> ranked(order)[ofUser(order, u)]]
    <3>1. ~(Total(due) <= cash)
      BY <1>1, <1>3
    <3> QED
      BY <3>1 DEF StatePayrolls
  <2>2. /\ order \in [Users -> Users]
        /\ \A j, k \in Users : order[j] = order[k] => j = k
        /\ \A u \in Users : \E k \in Users : order[k] = u
    BY DEF Bijection, Injection, Surjection, IsInjective
  <2> DEFINE claim == [k \in Users |-> due[order[k]]]
             share == ProrataSplit(cash, claim)
             number == [u \in Users |-> ofUser(order, u)]
  <2>3. claim \in [Users -> Nat]
    BY <1>1, <2>2
  <2>4. \A u \in Users : number[u] \in Users /\ order[number[u]] = u
    BY <2>2
  <2>5. public = [u \in Users |-> share[number[u]]]
    BY <2>1
  <2>6. \A k \in Users : claim[k] \in Int /\ claim[k] = due[order[k]]
    BY <2>3
  <2> HIDE DEF due, claim, share, number
  <2>7. SumOver(claim, Users) = SumOver(due, Users)
    BY <2>2, <2>6, Finite, SumAlong
  <2>8. Total(claim) = Total(due)
    BY <1>1, <2>3, <2>7, Finite, TotalIs
  <2>9. share \in [Users -> Nat] /\ Total(share) = cash
    <3>1. Users \subseteq Int
      BY EconomyAssumption
    <3>2. /\ share \in [Users -> Nat]
          /\ Total(share) = IF Total(claim) = 0 THEN 0 ELSE cash
      BY <2>3, <3>1, Finite, SplitOver DEF share
    <3> QED
      BY <1>1, <1>3, <2>8, <3>2
  <2>10. \A u \in Users : number[u] \in Users
    BY <2>4
  <2>11. \A k \in Users : \E u \in Users : number[u] = k
    BY <2>2, <2>4
  <2>12. \A u, v \in Users : number[u] = number[v] => u = v
    BY <2>4
  <2>13. public \in [Users -> Nat] /\ \A u \in Users : public[u] = share[number[u]]
    BY <2>5, <2>9, <2>10
  <2>14. \A u \in Users : public[u] \in Int /\ public[u] = share[number[u]]
    BY <2>13
  <2>15. SumOver(public, Users) = SumOver(share, Users)
    BY <2>10, <2>11, <2>12, <2>14, Finite, SumAlong
  <2> QED
    BY <2>9, <2>13, <2>15, Finite, TotalIs
<1> QED
  BY <1>1, <1>2, <1>3

----------------------------------------------------------------------------
\* The close.

\* The books of the companies after a day: what came in, what went to the
\* staff, and what is left, of which the dead return theirs to the pool.
LEMMA SettleBalances ==
    ASSUME CashOK, taxRate \in Rates, IsFiniteSet(employment),
           \A e \in employment : e.wage \in Nat,
           NEW realized \in [Companies -> Nat], Total(realized) <= pool,
           SettleBusinessDay(realized), printed' = printed
    PROVE  Balanced
<1> DEFINE cash     == Credit(treasury, realized)
           gross    == [c \in Companies |-> Payroll(cash[c], WagesDue(c))]
           left     == [c \in Companies |-> cash[c] - Total(gross[c])]
           days     == [c \in Companies |-> InsolventAfter(c, cash[c])]
           dead     == Bankrupt(days)
           taxes    == [c \in Companies |-> Tax(gross[c])]
           paid     == [c \in Companies |-> Total(gross[c])]
           arrives  == [c \in Companies |-> Net(gross[c])]
           nets     == [c \in Companies |-> SumOver(arrives[c], Users)]
           poolLeft == pool - Total(realized) + Returned(left, dead) + Total(taxes)
           takeHome == [u \in Users |-> Total([c \in Companies |-> Net(gross[c])[u]])]
<1>1. PICK public \in StatePayrolls(poolLeft) :
        /\ wallet' = Credit(Credit(wallet, takeHome), Net(public))
        /\ pool' = poolLeft - Total(public) + Tax(public)
  BY DEF SettleBusinessDay
<1>2. treasury' = [c \in Companies |-> IF c \in dead THEN 0 ELSE left[c]]
  BY DEF SettleBusinessDay
<1>3. /\ cash \in [Companies -> Nat]
      /\ Total(cash) = Total(treasury) + Total(realized)
  BY Finite, CreditSum DEF CashOK
<1>4. dead \subseteq Companies
  BY DEF Bankrupt
<1> HIDE DEF cash, dead
<1>5. ASSUME NEW c \in Companies
      PROVE  /\ gross[c] \in [Users -> Nat] /\ paid[c] \in 0 .. cash[c]
             /\ taxes[c] \in Nat /\ arrives[c] \in [Users -> Nat]
             /\ paid[c] = nets[c] + taxes[c] /\ nets[c] \in Nat
             /\ left[c] \in Nat /\ cash[c] = left[c] + paid[c]
  <2> DEFINE g == gross[c]
             due == WagesDue(c)
  <2>1. g = Payroll(cash[c], due) /\ due \in [Users -> Nat] /\ cash[c] \in Nat
    BY <1>3, WagesAre
  <2>2. /\ paid[c] = Total(g) /\ taxes[c] = Tax(g) /\ arrives[c] = Net(g)
        /\ left[c] = cash[c] - Total(g) /\ nets[c] = SumOver(Net(g), Users)
    OBVIOUS
  <2> HIDE DEF g, due, gross, paid, taxes, left, arrives, nets
  <2>3. g \in [Users -> Nat] /\ Total(g) \in 0 .. cash[c]
    BY <2>1, PayrollIs
  <2>4. /\ Net(g) \in [Users -> Nat] /\ Tax(g) \in Nat
        /\ Total(g) = Total(Net(g)) + Tax(g)
    BY <2>3, Finite, NetOfTax
  <2>5. Total(Net(g)) = SumOver(Net(g), Users) /\ Total(Net(g)) \in Nat
    BY <2>4, Finite, TotalIs
  <2> QED
    BY <2>1, <2>2, <2>3, <2>4, <2>5 DEF g
<1>6. /\ taxes \in [Companies -> Nat] /\ paid \in [Companies -> Nat]
      /\ left \in [Companies -> Nat] /\ nets \in [Companies -> Nat]
  <2>1. /\ taxes = [c \in Companies |-> taxes[c]] /\ paid = [c \in Companies |-> paid[c]]
        /\ left = [c \in Companies |-> left[c]] /\ nets = [c \in Companies |-> nets[c]]
    OBVIOUS
  <2> HIDE DEF taxes, paid, left, nets
  <2> QED
    BY <1>3, <1>5, <2>1
<1>7. Total(cash) = Total(left) + Total(paid)
  <2> HIDE DEF left, paid
  <2>1. \A c \in Companies : left[c] \in Int /\ paid[c] \in Int /\ cash[c] = left[c] + paid[c]
    BY <1>5, <1>6
  <2>2. SumOver(cash, Companies) = SumOver(left, Companies) + SumOver(paid, Companies)
    BY <2>1, Finite, SumPlus
  <2> QED
    BY <1>3, <1>6, <2>2, Finite, TotalIs
<1>8. Total(paid) = Total(nets) + Total(taxes)
  <2> HIDE DEF paid, nets, taxes
  <2>1. \A c \in Companies : nets[c] \in Int /\ taxes[c] \in Int /\ paid[c] = nets[c] + taxes[c]
    BY <1>5, <1>6
  <2>2. SumOver(paid, Companies) = SumOver(nets, Companies) + SumOver(taxes, Companies)
    BY <2>1, Finite, SumPlus
  <2> QED
    BY <1>6, <2>2, Finite, TotalIs
<1>9. /\ treasury' \in [Companies -> Nat]
      /\ Total(left) = Total(treasury') + Returned(left, dead)
      /\ Returned(left, dead) \in Nat
  <2> DEFINE rest == Companies \ dead
  <2> HIDE DEF left, rest
  <2>1. treasury' \in [Companies -> Nat]
    BY <1>2, <1>6
  <2>2. \A c \in Companies : treasury'[c] \in Int /\ (c \notin rest => treasury'[c] = 0)
    BY <1>2, <2>1 DEF rest
  <2>3. rest \in SUBSET Companies /\ IsFiniteSet(rest) /\ IsFiniteSet(dead)
    BY <1>4, Finite, FS_Subset DEF rest
  <2>4. SumOver(treasury', Companies) = SumOver(treasury', rest)
    BY <2>2, <2>3, Finite, SumWithin
  <2>5. \A c \in rest : left[c] \in Int /\ treasury'[c] = left[c]
    BY <1>2, <1>6 DEF rest
  <2>6. SumOver(treasury', rest) = SumOver(left, rest)
    BY <2>3, <2>5, SumSame
  <2>7. SumOver(left, Companies) = SumOver(left, dead) + SumOver(left, rest)
    <3>1. dead \in SUBSET Companies /\ \A c \in Companies : left[c] \in Int
      BY <1>4, <1>6
    <3> QED
      BY <3>1, Finite, SumParts DEF rest
  <2>8. SumOver(left, dead) \in Nat
    <3>1. \A c \in dead : left[c] \in Nat
      BY <1>4, <1>6
    <3> QED
      BY <2>3, <3>1, SumNat
  <2>9. Total(left) = SumOver(left, Companies) /\ Total(treasury') = SumOver(treasury', Companies)
        /\ Total(treasury') \in Nat
    BY <1>6, <2>1, Finite, TotalIs
  <2> QED
    BY <2>1, <2>4, <2>6, <2>7, <2>8, <2>9 DEF Returned
<1>10. takeHome \in [Users -> Nat] /\ Total(takeHome) = Total(nets)
  <2> DEFINE column == [u \in Users |-> [c \in Companies |-> arrives[c][u]]]
  <2>1. arrives = [c \in Companies |-> arrives[c]]
    OBVIOUS
  <2>2. \A u \in Users : takeHome[u] = Total(column[u])
    <3>1. \A u \in Users : column[u] = [c \in Companies |-> Net(gross[c])[u]]
      OBVIOUS
    <3>2. \A u \in Users : takeHome[u] = Total([c \in Companies |-> Net(gross[c])[u]])
      OBVIOUS
    <3> HIDE DEF column, takeHome, gross
    <3> QED
      BY <3>1, <3>2
  <2>3. /\ DOMAIN takeHome = Users /\ takeHome = [u \in Users |-> takeHome[u]]
        /\ DOMAIN nets = Companies
    OBVIOUS
  <2>4. \A c \in Companies : nets[c] = SumOver(arrives[c], Users)
    OBVIOUS
  <2>5. \A u \in Users : column[u] = [c \in Companies |-> arrives[c][u]]
    OBVIOUS
  <2> HIDE DEF takeHome, arrives, nets, column
  <2>6. \A c \in Companies : \A u \in Users : arrives[c][u] \in Nat
    BY <1>5
  <2>7. /\ \A u \in Users : column[u] \in [Companies -> Nat]
        /\ \A u \in Users : \A c \in Companies : column[u][c] = arrives[c][u]
    <3> SUFFICES ASSUME NEW u \in Users
                 PROVE  /\ column[u] \in [Companies -> Nat]
                        /\ \A c \in Companies : column[u][c] = arrives[c][u]
      OBVIOUS
    <3>1. column[u] = [c \in Companies |-> arrives[c][u]]
      BY <2>5
    <3> QED
      BY <2>6, <3>1
  <2>8. \A u \in Users : takeHome[u] = SumOver(column[u], Companies) /\ takeHome[u] \in Nat
    BY <2>2, <2>7, Finite, TotalIs
  <2>9. IsTable(Companies, Users, arrives, nets, column, takeHome)
    BY <2>4, <2>6, <2>7, <2>8, Finite DEF IsTable
  <2>10. SumOver(nets, Companies) = SumOver(takeHome, Users)
    BY <2>9, SumTable
  <2>11. takeHome \in [Users -> Nat]
    BY <2>3, <2>8
  <2> QED
    BY <2>3, <2>10 , <2>11 DEF Total
<1>11. /\ Total(taxes) \in Nat /\ Total(nets) \in Nat /\ Total(paid) \in Nat
       /\ Total(left) \in Nat /\ Total(treasury') \in Nat /\ Total(realized) \in Nat
  BY <1>6, <1>9, Finite, TotalIs
<1> HIDE DEF gross, left, taxes, paid, arrives, nets, takeHome
<1>12. poolLeft \in Nat
  BY <1>9, <1>11 DEF CashOK
<1>13. public \in [Users -> Nat] /\ Total(public) \in 0 .. poolLeft
  <2> HIDE DEF poolLeft
  <2> QED
    BY <1>1, <1>12, StatePayrollIs
<1>14. /\ Net(public) \in [Users -> Nat] /\ Tax(public) \in Nat /\ Total(Net(public)) \in Nat
       /\ Total(public) = Total(Net(public)) + Tax(public)
  BY <1>13, Finite, NetOfTax, TotalIs
<1>15. /\ wallet' \in [Users -> Nat]
       /\ Total(wallet') = Total(wallet) + Total(takeHome) + Total(Net(public))
  <2> DEFINE home == Credit(wallet, takeHome)
  <2>1. home \in [Users -> Nat] /\ Total(home) = Total(wallet) + Total(takeHome)
    BY <1>10, Finite, CreditSum DEF CashOK
  <2>2. wallet' = Credit(home, Net(public))
    BY <1>1
  <2> HIDE DEF home
  <2>3. wallet' \in [Users -> Nat] /\ Total(wallet') = Total(home) + Total(Net(public))
    BY <1>14, <2>1, <2>2, Finite, CreditSum
  <2> QED
    BY <2>1, <2>3
<1>16. pool' \in Nat
  BY <1>1, <1>12, <1>13, <1>14
<1>17. CashOK'
  BY <1>9, <1>15, <1>16 DEF CashOK
<1>18. MoneySupply' = MoneySupply
  BY <1>1, <1>3, <1>7, <1>8, <1>9, <1>10, <1>11, <1>13, <1>14, <1>15, Parts
  DEF CashOK, MoneySupply
<1> QED
  BY <1>17, <1>18 DEF Balanced

----------------------------------------------------------------------------
\* The invariant, by the parts of the state it types.

PlayersOK ==
    /\ day \in FirstDay .. LastDay
    /\ taxRate \in Rates
    /\ income \in [Users -> 0 .. Accreditation]
    /\ insolvent \in [Companies -> 0 .. Grace - 1]

WorkOK ==
    /\ jobs \in Seq(Jobs)
    /\ pending \subseteq (DOMAIN jobs) \X Users
    /\ employment \subseteq Rows /\ IsFiniteSet(employment)

SharesOK ==
    /\ shares \in [Companies -> 0 .. MaxInt]
    /\ holdings \in [Companies -> [Users -> Nat]]
    /\ round \in [Companies -> Round]

\* Who founded a company is known; what was never founded has no holders.
FoundedOK ==
    \A c \in Companies :
        /\ status[c] # "none" => owner[c] \in Users
        /\ status[c] = "none" => \A u \in Users : holdings[c][u] = 0

BooksOK ==
    /\ StaffInv /\ OfferInv
    /\ CashOK /\ PlayersOK /\ WorkOK /\ SharesOK /\ FoundedOK
    /\ Conserved /\ CapTableExact /\ RoundWithinTerms /\ RetiredLeavesNothing

\* Whoever has a row is a player with a wage.
LEMMA RowsPaid ==
    ASSUME WorkOK
    PROVE  \A e \in employment : e.wage \in Nat /\ e.user \in Users
BY DEF WorkOK, Rows

\* No step overdraws an account, and only a print adds to the money supply.
LEMMA StepCash ==
    ASSUME BooksOK, Next
    PROVE  CashOK' /\ MoneySupply' - printed' = MoneySupply - printed
<1> DEFINE Goal == CashOK' /\ MoneySupply' - printed' = MoneySupply - printed
<1> SUFFICES Goal
  OBVIOUS
<1>0. CashOK /\ taxRate \in Rates /\ IsFiniteSet(employment)
  BY DEF BooksOK, PlayersOK, WorkOK
<1>1. Balanced => Goal
  BY DEF Balanced
<1>2. UNCHANGED <<pool, wallet, treasury, printed>> => Goal
  BY <1>0 DEF CashOK, MoneySupply
<1>3. \A c \in Companies : holdings[c] \in [Users -> Nat]
  BY DEF BooksOK, SharesOK
<1> HIDE DEF Goal
<1>4. ASSUME NEW u \in Users, NEW c \in Companies, Found(u, c) PROVE Goal
  <2> DEFINE D == {d \in Companies : Owns(u, d)}
             n == Cardinality(D)
             fee == FoundingFee(BaseFee, FeeMultiplier, n)
  <2>1. n \in 0 .. Cardinality(Companies)
    <3>1. D \subseteq Companies
      OBVIOUS
    <3> HIDE DEF D
    <3> QED
      BY <3>1, Finite, FS_Subset, FS_CardinalityType
  <2>2. fee \in Nat
    <3> HIDE DEF n
    <3>1. FeeMultiplier ^ n \in Nat /\ BaseFee \in Nat
      BY <2>1, EconomyAssumption
    <3> QED
      BY <3>1, Product DEF FoundingFee
  <2>3. fee <= wallet[u] /\ ChargeFee(u, fee) /\ UNCHANGED <<treasury, printed>>
    <3>1. wallet[u] >= fee /\ ChargeFee(u, fee) /\ UNCHANGED <<treasury, printed>>
      BY <1>4 DEF Found
    <3> HIDE DEF fee
    <3> QED
      BY <1>0, <2>2, <3>1 DEF CashOK
  <2> HIDE DEF fee
  <2> QED
    BY <1>0, <1>1, <2>2, <2>3, FeeBalances
<1>5. ASSUME NEW u \in Users, NEW c \in Companies, NEW amount \in Tickets,
             Invest(u, c, amount), round[c].raised <= round[c].amount
      PROVE  Goal
  <2> DEFINE r == round[c]
             contribution == Smaller(amount, r.amount - r.raised)
  <2>1. contribution \in Nat
    <3>1. r.amount \in Nat /\ r.raised \in Nat /\ amount \in Nat
      BY EconomyAssumption DEF BooksOK, SharesOK, Round
    <3> QED
      BY <1>5, <3>1 DEF Smaller
  <2>2. /\ wallet[u] >= contribution /\ InjectCapital(u, c, contribution)
        /\ UNCHANGED <<pool, printed>>
    BY <1>5 DEF Invest
  <2> HIDE DEF contribution
  <2>3. contribution <= wallet[u]
    BY <1>0, <2>1, <2>2 DEF CashOK
  <2> QED
    BY <1>0, <1>1, <2>1, <2>2, <2>3, InjectionBalances
<1>6. ASSUME NEW c \in Companies, NEW amount \in Deposits, Deposit(c, amount)
      PROVE  Goal
  <2>1. owner[c] \in Users
    BY <1>6 DEF Deposit, BooksOK, FoundedOK, Active
  <2>2. amount \in Nat
    BY EconomyAssumption
  <2>3. /\ wallet[owner[c]] >= amount /\ InjectCapital(owner[c], c, amount)
        /\ UNCHANGED <<pool, printed>>
    BY <1>6 DEF Deposit
  <2>4. amount <= wallet[owner[c]]
    BY <1>0, <2>1, <2>2, <2>3 DEF CashOK
  <2> QED
    BY <1>0, <1>1, <2>1, <2>2, <2>3, <2>4, InjectionBalances
<1>7. ASSUME NEW c \in Companies, NEW amount \in Dividends, Dividend(c, amount)
      PROVE  Goal
  <2>1. amount \in Nat
    BY EconomyAssumption
  <2> QED
    BY <1>0, <1>1, <1>3, <1>7, <2>1, DividendBalances
<1>8. ASSUME NEW o \in offers, Accept(o) PROVE Goal
  <2>1. /\ o.acquirer \in Companies /\ o.target \in Companies
        /\ o.acquirer # o.target /\ o.amount \in Nat
    BY DEF BooksOK, OfferInv, OffersLive, Bids
  <2> QED
    BY <1>0, <1>1, <1>3, <1>8, <2>1, AcceptBalances
<1>9. ASSUME NEW e \in employment, NEW bonus \in Bonuses \cup {0}, ClockIn(e, bonus)
      PROVE  Goal
  <2>1. e.user \in Users /\ bonus \in Nat
    BY RowsPaid, EconomyAssumption DEF BooksOK
  <2>2. PayBonus(e.user, bonus) /\ UNCHANGED <<treasury, printed>>
    BY <1>9 DEF ClockIn
  <2> QED
    BY <1>0, <1>1, <2>1, <2>2, BonusBalances
<1>10. ASSUME NEW amount \in Prints, PrintMoney(amount) PROVE Goal
  <2>1. amount \in Nat
    BY EconomyAssumption
  <2> QED
    BY <1>0, <1>10, <2>1, PrintMints DEF Goal
<1>11. CASE TickOpen
  <2>a. PICK mood \in [Companies -> Sentiments] : \E tentative \in Tentative(mood) :
          \E realized \in Realized(tentative) : SettleBusinessDay(realized)
    BY <1>11 DEF TickOpen
  <2>b. PICK tentative \in Tentative(mood) :
          \E realized \in Realized(tentative) : SettleBusinessDay(realized)
    BY <2>a
  <2>1. PICK realized \in Realized(tentative) : SettleBusinessDay(realized)
    BY <2>b
  <2>2. realized \in [Companies -> Nat] /\ Total(realized) <= pool
    BY <1>0, RevenueOfDay
  <2>3. printed' = printed
    BY <1>11 DEF TickOpen
  <2>4. \A e \in employment : e.wage \in Nat
    BY RowsPaid DEF BooksOK
  <2> QED
    BY <1>0, <1>1, <2>1, <2>2, <2>3, <2>4, SettleBalances
<1>12. ASSUME NEW c, NEW j, NEW u, NEW e, NEW x, NEW y, NEW r,
              \/ Hire(j, u) \/ Fire(e) \/ Quit(e) \/ Promote(e, x) \/ ClockOut(e)
              \/ Apply(u, j) \/ ApplyToState(u, x) \/ PostJob(c, x, y)
              \/ OpenRound(c, r.amount, r.pct) \/ CloseRound(c)
              \/ Offer(c, x, y) \/ Decline(e) \/ SetTaxRate(x) \/ TickClosed
       PROVE  Goal
  <2>1. UNCHANGED <<pool, wallet, treasury, printed>>
    BY <1>12 DEF Hire, Fire, Quit, Promote, ClockOut, Apply, ApplyToState, PostJob,
                 OpenRound, CloseRound, Offer, Decline, SetTaxRate, TickClosed, purse
  <2> QED
    BY <1>2, <2>1
<1>13. CASE CompanyStep
  BY <1>4, <1>12, <1>13 DEF CompanyStep
<1>14. CASE PlayerStep
  BY <1>9, <1>12, <1>14 DEF PlayerStep
<1>15. CASE CapitalStep
  BY <1>5, <1>6, <1>7, <1>8, <1>12, <1>15 DEF CapitalStep, BooksOK, RoundWithinTerms
<1>16. CASE AskedStep
  BY <1>10, <1>12, <1>16 DEF AskedStep
<1>17. CASE ManagerStep \/ CloseStep
  BY <1>11, <1>12, <1>17 DEF ManagerStep, CloseStep
<1> QED
  BY <1>13, <1>14, <1>15, <1>16, <1>17 DEF Next, DirectStep

----------------------------------------------------------------------------
\* What a close does to the companies: the dead go, the others go on.

ClosesBooks(cash, dead, earned) ==
    /\ cash \in [Companies -> Nat] /\ earned \in [Users -> Nat]
    /\ dead = {c \in Companies : InsolventAfter(c, cash[c]) >= Grace}
    /\ \A c \in Companies : Workers(c) = {} => cash[c] = treasury[c]
    /\ \A c \in Companies : treasury'[c] = IF c \in dead THEN 0
                              ELSE cash[c] - Total(Payroll(cash[c], WagesDue(c)))
    /\ insolvent' = [c \in Companies |-> IF c \in dead THEN 0 ELSE InsolventAfter(c, cash[c])]
    /\ \A c \in Companies : SharesAfterVesting(c) <= MaxInt
    /\ shares' = [c \in Companies |-> IF c \in dead THEN 0 ELSE SharesAfterVesting(c)]
    /\ holdings' = Wiped(HoldingsAfterVesting, dead)
    /\ status' = [c \in Companies |-> IF c \in dead THEN "retired" ELSE status[c]]
    /\ round' = RoundsWithout(dead)
    /\ offers' = OffersWithout(dead)
    /\ jobs' = ClosedJobs(dead)
    /\ income' = Earn(earned)

\* A close does to the companies what ClosesBooks says.
LEMMA TheClose ==
    ASSUME BooksOK, TickOpen
    PROVE  \E cash, dead, earned : ClosesBooks(cash, dead, earned)
<1>1. PICK mood \in [Companies -> Sentiments] : \E tentative \in Tentative(mood) :
        \E realized \in Realized(tentative) : SettleBusinessDay(realized)
  BY DEF TickOpen
<1>2. PICK tentative \in Tentative(mood) :
        \E realized \in Realized(tentative) : SettleBusinessDay(realized)
  BY <1>1
<1>3. PICK realized \in Realized(tentative) : SettleBusinessDay(realized)
  BY <1>2
<1>4. /\ CashOK /\ IsFiniteSet(employment) /\ \A e \in employment : e.wage \in Nat
  BY RowsPaid DEF BooksOK, WorkOK
<1>5. /\ realized \in [Companies -> Nat] /\ Total(realized) <= pool
      /\ \A c \in Companies : Workers(c) = {} => realized[c] = 0
  BY <1>4, RevenueOfDay
<1> DEFINE cash     == Credit(treasury, realized)
           gross    == [c \in Companies |-> Payroll(cash[c], WagesDue(c))]
           left     == [c \in Companies |-> cash[c] - Total(gross[c])]
           days     == [c \in Companies |-> InsolventAfter(c, cash[c])]
           dead     == {c \in Companies : InsolventAfter(c, cash[c]) >= Grace}
           taxes    == [c \in Companies |-> Tax(gross[c])]
           poolLeft == pool - Total(realized) + Returned(left, dead) + Total(taxes)
           private  == [u \in Users |-> Total([c \in Companies |-> gross[c][u]])]
<1>6. dead = Bankrupt(days)
  BY DEF Bankrupt
<1>7. PICK public \in StatePayrolls(poolLeft) : income' = Earn(Credit(private, public))
  BY <1>3, <1>6 DEF SettleBusinessDay
<1>8. /\ cash \in [Companies -> Nat]
      /\ \A c \in Companies : cash[c] = treasury[c] + realized[c]
  BY <1>4, <1>5, Finite, CreditSum DEF Credit, CashOK
<1>9. \A c \in Companies : Workers(c) = {} => cash[c] = treasury[c]
  BY <1>4, <1>5, <1>8 DEF CashOK
<1>10. \A c \in Companies : treasury'[c] = IF c \in dead THEN 0
                              ELSE cash[c] - Total(Payroll(cash[c], WagesDue(c)))
  <2>1. treasury' = [c \in Companies |-> IF c \in Bankrupt(days) THEN 0 ELSE left[c]]
    BY <1>3 DEF SettleBusinessDay
  <2> HIDE DEF cash, dead, days
  <2> QED
    BY <1>6, <2>1
<1>11. insolvent' = [c \in Companies |-> IF c \in dead THEN 0 ELSE InsolventAfter(c, cash[c])]
  <2>1. insolvent' = [c \in Companies |-> IF c \in Bankrupt(days) THEN 0 ELSE days[c]]
    BY <1>3 DEF SettleBusinessDay
  <2> HIDE DEF cash, dead
  <2> QED
    BY <1>6, <2>1
<1>12. /\ \A c \in Companies : SharesAfterVesting(c) <= MaxInt
       /\ shares' = [c \in Companies |-> IF c \in dead THEN 0 ELSE SharesAfterVesting(c)]
       /\ holdings' = Wiped(HoldingsAfterVesting, dead)
       /\ status' = [c \in Companies |-> IF c \in dead THEN "retired" ELSE status[c]]
       /\ round' = RoundsWithout(dead)
       /\ offers' = OffersWithout(dead)
       /\ jobs' = ClosedJobs(dead)
  <2>1. /\ \A c \in Companies : SharesAfterVesting(c) <= MaxInt
        /\ shares' = [c \in Companies |->
                        IF c \in Bankrupt(days) THEN 0 ELSE SharesAfterVesting(c)]
        /\ holdings' = Wiped(HoldingsAfterVesting, Bankrupt(days))
        /\ status' = [c \in Companies |->
                        IF c \in Bankrupt(days) THEN "retired" ELSE status[c]]
        /\ round' = RoundsWithout(Bankrupt(days))
        /\ offers' = OffersWithout(Bankrupt(days))
        /\ jobs' = ClosedJobs(Bankrupt(days))
    BY <1>3 DEF SettleBusinessDay
  <2> HIDE DEF dead, days
  <2> QED
    BY <1>6, <2>1
<1>13. dead \subseteq Companies
  OBVIOUS
<1> HIDE DEF cash, dead
<1>14. ASSUME NEW c \in Companies
       PROVE  /\ gross[c] \in [Users -> Nat] /\ Total(gross[c]) \in 0 .. cash[c]
              /\ taxes[c] \in Nat
  <2> DEFINE due == WagesDue(c)
             g == gross[c]
  <2>1. g = Payroll(cash[c], due) /\ due \in [Users -> Nat] /\ cash[c] \in Nat
        /\ taxes[c] = Tax(g)
    BY <1>4, <1>8, WagesAre
  <2> HIDE DEF due, g, gross, taxes
  <2>2. g \in [Users -> Nat] /\ Total(g) \in 0 .. cash[c]
    BY <2>1, PayrollIs
  <2>3. Tax(g) \in Nat
    BY <2>2, Finite, NetOfTax DEF BooksOK, PlayersOK
  <2> QED
    BY <2>1, <2>2, <2>3 DEF g
<1>15. poolLeft \in Nat
  <2>1. taxes \in [Companies -> Nat] /\ left \in [Companies -> Nat]
    <3>1. taxes = [c \in Companies |-> taxes[c]]
      OBVIOUS
    <3>2. \A c \in Companies : taxes[c] \in Nat /\ left[c] \in Nat
      BY <1>8, <1>14
    <3> HIDE DEF taxes, gross
    <3> QED
      BY <3>1, <3>2
  <2> HIDE DEF taxes, left
  <2>2. Total(taxes) \in Nat /\ Total(realized) \in Nat
    BY <1>5, <2>1, Finite, TotalIs
  <2>3. Returned(left, dead) \in Nat
    <3>1. IsFiniteSet(dead) /\ \A c \in dead : left[c] \in Nat
      BY <1>13, <2>1, Finite, FS_Subset
    <3> QED
      BY <3>1, SumNat DEF Returned
  <2> QED
    BY <1>4, <1>5, <2>2, <2>3 DEF CashOK
<1>16. public \in [Users -> Nat]
  <2> HIDE DEF poolLeft
  <2> QED
    BY <1>4, <1>7, <1>15, StatePayrollIs
<1>17. private \in [Users -> Nat]
  <2> SUFFICES ASSUME NEW u \in Users
               PROVE  Total([c \in Companies |-> gross[c][u]]) \in Nat
    OBVIOUS
  <2> DEFINE f == [c \in Companies |-> gross[c][u]]
  <2>1. f \in [Companies -> Nat]
    <3> HIDE DEF gross
    <3> QED
      BY <1>14
  <2> HIDE DEF f
  <2>2. Total(f) \in Nat
    BY <2>1, Finite, TotalIs
  <2> QED
    BY <2>2 DEF f
<1> DEFINE earned == Credit(private, public)
<1>18. earned \in [Users -> Nat]
  <2> HIDE DEF private
  <2> QED
    BY <1>16, <1>17, Finite, CreditSum
<1>19. dead = {c \in Companies : InsolventAfter(c, cash[c]) >= Grace}
  BY DEF dead
<1> HIDE DEF earned
<1>20. income' = Earn(earned)
  BY <1>7 DEF earned
<1>21. ClosesBooks(cash, dead, earned)
  BY <1>8, <1>9, <1>10, <1>11, <1>12, <1>18, <1>19, <1>20 DEF ClosesBooks
<1> QED
  BY <1>21

\* No step disturbs what is known of players, rates and dates.
LEMMA StepPlayers ==
    ASSUME BooksOK, Next
    PROVE  PlayersOK'
<1> USE DEF PlayersOK
<1>0. /\ PlayersOK /\ Accreditation \in Nat /\ Grace \in Nat /\ Grace > 0
      /\ FirstDay \in Int /\ LastDay \in Int
  BY EconomyAssumption DEF BooksOK
<1>1. ASSUME NEW gross, \A u \in Users : gross[u] \in Nat
      PROVE  Earn(gross) \in [Users -> 0 .. Accreditation]
  BY <1>0, <1>1 DEF Earn, Smaller
<1>2. UNCHANGED <<day, taxRate, income, insolvent>> => PlayersOK'
  BY <1>0
<1>3. ASSUME NEW c \in Companies, NEW amount \in Dividends, Dividend(c, amount)
      PROVE  PlayersOK'
  <2> DEFINE gross == Payout(c, amount)
             counted == [gross EXCEPT ![owner[c]] = 0]
  <2>1. gross \in [Users -> Nat]
    BY PayoutIs, EconomyAssumption DEF BooksOK, SharesOK
  <2>2. income' = Earn(counted) /\ UNCHANGED <<day, taxRate, insolvent>>
    BY <1>3 DEF Dividend, firm
  <2> HIDE DEF gross
  <2>3. \A u \in Users : counted[u] \in Nat
    BY <2>1
  <2> QED
    BY <1>0, <1>1, <2>2, <2>3
<1>4. ASSUME TickOpen PROVE PlayersOK'
  <2>1. PICK cash, dead, earned : ClosesBooks(cash, dead, earned)
    BY <1>4, TheClose
  <2>2. day' \in FirstDay .. LastDay /\ taxRate' = taxRate
    BY <1>0, <1>4 DEF TickOpen, NextDay
  <2>3. insolvent' \in [Companies -> 0 .. Grace - 1]
    <3>1. \A c \in Companies : InsolventAfter(c, cash[c]) \in Nat
      BY <1>0 DEF InsolventAfter
    <3> QED
      BY <1>0, <2>1, <3>1 DEF ClosesBooks
  <2>4. income' \in [Users -> 0 .. Accreditation]
    BY <1>1, <2>1 DEF ClosesBooks
  <2> QED
    BY <1>0, <2>2, <2>3, <2>4
<1>5. ASSUME TickClosed PROVE PlayersOK'
  BY <1>0, <1>5 DEF TickClosed, NextDay, purse, firm
<1>6. ASSUME NEW rate \in Rates, SetTaxRate(rate) PROVE PlayersOK'
  BY <1>0, <1>6 DEF SetTaxRate, purse, firm
<1>7. ASSUME NEW c, NEW j, NEW u, NEW e, NEW x, NEW y, NEW r,
             \/ Found(u, c)
             \/ Hire(j, u) \/ Fire(e) \/ Quit(e) \/ Promote(e, x)
             \/ ClockIn(e, x) \/ ClockOut(e)
             \/ Apply(u, j) \/ ApplyToState(u, x) \/ PostJob(c, x, y)
             \/ OpenRound(c, r.amount, r.pct) \/ Invest(u, c, x) \/ CloseRound(c)
             \/ Deposit(c, x) \/ Offer(c, x, y) \/ Accept(e) \/ Decline(e) \/ PrintMoney(x)
      PROVE  PlayersOK'
  <2>1. UNCHANGED <<day, taxRate, income, insolvent>>
    BY <1>7 DEF Found, Hire, Fire, Quit, Promote, ClockIn, ClockOut, Apply, ApplyToState,
                PostJob, OpenRound, Invest, CloseRound, Deposit, Offer, Accept, Decline,
                PrintMoney, purse, firm
  <2> QED
    BY <1>2, <2>1
<1>8. CASE CompanyStep
  BY <1>7, <1>8 DEF CompanyStep
<1>9. CASE PlayerStep
  BY <1>7, <1>9 DEF PlayerStep
<1>10. CASE CapitalStep
  BY <1>3, <1>7, <1>10 DEF CapitalStep
<1>11. CASE AskedStep
  BY <1>7, <1>11 DEF AskedStep
<1>12. CASE ManagerStep \/ CloseStep
  BY <1>4, <1>5, <1>6, <1>12 DEF ManagerStep, CloseStep
<1> QED
  BY <1>8, <1>9, <1>10, <1>11, <1>12 DEF Next, DirectStep

----------------------------------------------------------------------------
\* The cap tables.

\* What vests is a natural number of shares.
LEMMA MintNat ==
    ASSUME StaffInv, NEW e \in employment
    PROVE  Minted(e.grant) \in Nat
<1> DEFINE g == e.grant
<1>1. CASE g = NoGrant
  BY <1>1 DEF Minted
<1>2. CASE g # NoGrant
  <2>1. g \in Terms /\ g.elapsed < g.vest /\ g.vested = (g.total * g.elapsed) \div g.vest
    BY <1>2 DEF StaffInv, Staff, GrantsOnSchedule
  <2> HIDE DEF g
  <2>2. g.total \in Nat /\ g.vest \in Nat \ {0} /\ g.elapsed \in 0 .. g.vest - 1
    BY <2>1 DEF Terms
  <2> DEFINE now == VestTarget(g.total, g.vest, g.elapsed + 1)
             before == (g.total * g.elapsed) \div g.vest
  <2>3. now \in Nat /\ before \in Nat /\ before <= now
    BY <2>2, VestingGrows
  <2>4. Minted(g) = now - before
    BY <1>2, <2>1 DEF Minted, Released
  <2> HIDE DEF now, before
  <2>5. Minted(g) \in Nat
    BY <2>3, <2>4
  <2> QED
    BY <2>5 DEF g
<1> QED
  BY <1>1, <1>2

\* What vests at a company is what vests to its people, one by one.
LEMMA MintedToSomebody ==
    ASSUME StaffInv, IsFiniteSet(employment), NEW S \in SUBSET employment, NEW f,
           DOMAIN f = Users, \A u \in Users : f[u] = MintedFor(S \cap RowsOf(u))
    PROVE  /\ MintedFor(S) \in Nat
           /\ \A u \in Users : f[u] \in Nat
           /\ Total(f) = MintedFor(S)
<1> DEFINE mint == [e \in S |-> Minted(e.grant)]
           key == [e \in S |-> e.user]
<1>1. IsFiniteSet(S)
  BY FS_Subset
<1>2. \A e \in S : mint[e] \in Nat /\ mint[e] \in Int
  BY MintNat
<1>3. \A e \in S : key[e] \in Users
  BY DEF StaffInv, Staff
<1>4. MintedFor(S) = SumOver(mint, S)
  <2>1. DOMAIN mint = S /\ MintedFor(S) = Total(mint)
    BY DEF MintedFor
  <2> QED
    BY <2>1 DEF Total
<1>5. ASSUME NEW u \in Users
      PROVE  f[u] = SumOver(mint, {e \in S : key[e] = u}) /\ f[u] \in Nat
  <2> DEFINE A == S \cap RowsOf(u)
             part == [e \in A |-> Minted(e.grant)]
  <2>1. A = {e \in S : key[e] = u}
    BY DEF RowsOf
  <2>2. f[u] = Total(part) /\ DOMAIN part = A
    BY DEF MintedFor
  <2>3. A \subseteq S
    OBVIOUS
  <2>4. \A e \in A : mint[e] \in Nat /\ mint[e] \in Int /\ part[e] = mint[e]
    BY <1>2
  <2> HIDE DEF A, part, mint
  <2>5. IsFiniteSet(A)
    BY <1>1, <2>3, FS_Subset
  <2>6. SumOver(part, A) = SumOver(mint, A)
    BY <2>4, <2>5, SumSame
  <2>7. SumOver(mint, A) \in Nat
    BY <2>4, <2>5, SumNat
  <2>8. f[u] = SumOver(mint, A) /\ f[u] \in Nat
    BY <2>2, <2>6, <2>7 DEF Total
  <2> QED
    BY <2>1, <2>8
<1> HIDE DEF mint, key
<1>6. SumOver(f, Users) = SumOver(mint, S)
  <2>1. \A u \in Users : f[u] = SumOver(mint, {e \in S : key[e] = u})
    BY <1>5
  <2>2. \A e \in S : mint[e] \in Int
    BY <1>2
  <2> QED
    BY <1>1, <1>3, <2>1, <2>2, Finite, SumGroups
<1>7. SumOver(mint, S) \in Nat
  BY <1>1, <1>2, SumNat
<1> QED
  BY <1>4, <1>5, <1>6, <1>7 DEF Total

EquityOK == SharesOK /\ FoundedOK /\ CapTableExact /\ RoundWithinTerms

\* Nobody holds shares of a company whose holdings were wiped.
LEMMA NobodyHolds == Total([u \in Users |-> 0]) = 0
<1> DEFINE none == [u \in Users |-> 0]
<1>1. none \in [Users -> Nat] /\ \A u \in Users : none[u] = 0
  OBVIOUS
<1> HIDE DEF none
<1>2. Total(none) = 0
  BY <1>1, Finite, SumZero, TotalIs
<1> QED
  BY <1>2 DEF none

\* A company begins with all its shares in the hand of its founder.
LEMMA FoundEquity ==
    ASSUME EquityOK, NEW u \in Users, NEW c \in Companies, Found(u, c),
           status \in [Companies -> {"none", "active", "retired"}],
           owner \in [Companies -> Users \cup {0}]
    PROVE  EquityOK'
<1>1. /\ status[c] = "none"
      /\ status' = [status EXCEPT ![c] = "active"]
      /\ owner' = [owner EXCEPT ![c] = u]
      /\ shares' = [shares EXCEPT ![c] = FoundingShares]
      /\ holdings' = [holdings EXCEPT ![c][u] = FoundingShares]
      /\ round' = round
  BY DEF Found
<1>2. FoundingShares \in Nat /\ FoundingShares \in 0 .. MaxInt
  BY EconomyAssumption
<1>3. SharesOK'
  BY <1>1, <1>2 DEF EquityOK, SharesOK
<1>4. FoundedOK'
  BY <1>1 DEF EquityOK, SharesOK, FoundedOK
<1>5. CapTableExact'
  <2>1. ASSUME NEW d \in Companies, d # c PROVE shares'[d] = Total(holdings'[d])
    <3>1. holdings'[d] = holdings[d] /\ shares'[d] = shares[d]
      BY <1>1, <2>1 DEF EquityOK, SharesOK
    <3> QED
      BY <3>1 DEF EquityOK, CapTableExact
  <2>2. shares'[c] = Total(holdings'[c])
    <3> DEFINE f == holdings[c]
               g == holdings'[c]
    <3>1. /\ f \in [Users -> Nat] /\ g \in [Users -> Nat]
          /\ g[u] = FoundingShares /\ \A v \in Users : v # u => g[v] = f[v]
      BY <1>1, <1>2 DEF EquityOK, SharesOK
    <3>2. \A v \in Users : f[v] = 0
      BY <1>1 DEF EquityOK, FoundedOK
    <3>3. shares'[c] = FoundingShares
      BY <1>1 DEF EquityOK, SharesOK
    <3> HIDE DEF f, g
    <3>4. Total(g) = Total(f) - f[u] + g[u]
      BY <3>1, Finite, OneChanges
    <3>5. Total(f) = 0
      BY <3>1, <3>2, Finite, SumZero, TotalIs
    <3> QED
      BY <1>2, <3>1, <3>2, <3>3, <3>4, <3>5 DEF g
  <2> QED
    BY <2>1, <2>2 DEF CapTableExact
<1>6. RoundWithinTerms'
  BY <1>1 DEF EquityOK, RoundWithinTerms
<1> QED
  BY <1>3, <1>4, <1>5, <1>6 DEF EquityOK

\* A tranche: the round goes no further than the money, and what it mints is
\* the investor's.
LEMMA InvestEquity ==
    ASSUME EquityOK, NEW u \in Users, NEW c \in Companies, NEW amount \in Nat,
           Invest(u, c, amount)
    PROVE  EquityOK'
<1> DEFINE r == round[c]
           contribution == Smaller(amount, r.amount - r.raised)
           funded == r.raised + contribution
           target == TrancheTarget(r.newShares, r.amount, funded)
           bought == target - r.minted
<1>1. /\ r \in Round /\ r.raised <= r.amount
      /\ r.amount \in Nat /\ r.newShares \in Nat /\ r.raised \in Nat /\ r.minted \in Nat
  BY DEF EquityOK, SharesOK, RoundWithinTerms, Round
<1>2. /\ bought > 0 /\ bought <= MaxInt - shares[c]
      /\ shares' = [shares EXCEPT ![c] = @ + bought]
      /\ holdings' = [holdings EXCEPT ![c][u] = @ + bought]
      /\ round' = [round EXCEPT ![c] = [r EXCEPT !.raised = funded, !.minted = @ + bought,
                                                 !.open = funded < r.amount]]
      /\ UNCHANGED <<status, owner>>
  BY DEF Invest, firm
<1> HIDE DEF r
<1>3. contribution \in Nat /\ funded \in r.raised .. r.amount /\ funded \in Nat
  BY <1>1 DEF Smaller
<1> HIDE DEF contribution, funded
<1>4. /\ target \in Nat
      /\ target * r.amount <= r.newShares * funded
      /\ funded = r.amount => target = r.newShares
  <2>1. CASE r.amount = 0
    <3>1. funded = 0 /\ target = r.newShares
      BY <1>1, <1>3, <2>1 DEF TrancheTarget
    <3> QED
      BY <1>1, <2>1, <3>1
  <2>2. CASE r.amount > 0
    <3>1. r.amount \in Nat \ {0} /\ funded \in 0 .. r.amount
      BY <1>1, <1>3, <2>2
    <3> QED
      BY <1>1, <3>1, TrancheWithin
  <2> QED
    BY <1>1, <2>1, <2>2
<1> HIDE DEF target
<1>5. bought \in Nat /\ r.minted + bought = target
  BY <1>1, <1>2, <1>4
<1> HIDE DEF bought
<1> DEFINE R == round'[c]
<1>6. /\ R \in Round /\ R.amount = r.amount /\ R.newShares = r.newShares
      /\ R.raised = funded /\ R.minted = target /\ R.open = (funded < r.amount)
      /\ \A d \in Companies : d # c => round'[d] = round[d]
      /\ round' \in [Companies -> Round]
  <2>1. round \in [Companies -> Round]
    BY DEF EquityOK, SharesOK
  <2>2. R = [r EXCEPT !.raised = funded, !.minted = r.minted + bought, !.open = funded < r.amount]
    BY <1>2, <2>1
  <2>3. (funded < r.amount) \in BOOLEAN
    OBVIOUS
  <2> DEFINE less == funded < r.amount
  <2> HIDE DEF R, less
  <2>4. R = [r EXCEPT !.raised = funded, !.minted = target, !.open = less] /\ less \in BOOLEAN
    BY <1>5, <2>2, <2>3 DEF less
  <2>5. /\ R \in Round /\ R.amount = r.amount /\ R.newShares = r.newShares
        /\ R.raised = funded /\ R.minted = target /\ R.open = less
    BY <1>1, <1>3, <1>4, <2>4 DEF Round
  <2>6. round' = [round EXCEPT ![c] = R]
    BY <1>2, <2>1, <2>2
  <2> QED
    BY <2>1, <2>5, <2>6 DEF less
<1>7. /\ shares[c] + bought \in 0 .. MaxInt
      /\ \A v \in Users : holdings[c][v] \in Nat
  BY <1>2, <1>5, EconomyAssumption DEF EquityOK, SharesOK
<1>8. shares' \in [Companies -> 0 .. MaxInt]
  <2>1. shares \in [Companies -> 0 .. MaxInt]
    BY DEF EquityOK, SharesOK
  <2> QED
    BY <1>2, <1>7, <2>1
<1>9. holdings' \in [Companies -> [Users -> Nat]]
  BY <1>2, <1>5 DEF EquityOK, SharesOK
<1>10. SharesOK'
  BY <1>6, <1>8, <1>9 DEF SharesOK
<1>11. CapTableExact'
  <2>1. ASSUME NEW d \in Companies, d # c PROVE shares'[d] = Total(holdings'[d])
    <3>1. holdings'[d] = holdings[d] /\ shares'[d] = shares[d]
      BY <1>2, <2>1 DEF EquityOK, SharesOK
    <3> QED
      BY <3>1 DEF EquityOK, CapTableExact
  <2>2. shares'[c] = Total(holdings'[c])
    <3> DEFINE f == holdings[c]
               g == holdings'[c]
    <3>1. /\ f \in [Users -> Nat] /\ g \in [Users -> Nat]
          /\ g[u] = f[u] + bought /\ \A v \in Users : v # u => g[v] = f[v]
      BY <1>2, <1>5 DEF EquityOK, SharesOK
    <3>2. shares'[c] = shares[c] + bought /\ shares[c] = Total(f)
      BY <1>2 DEF EquityOK, SharesOK, CapTableExact
    <3> HIDE DEF f, g
    <3>3. Total(g) = Total(f) - f[u] + g[u]
      BY <3>1, Finite, OneChanges
    <3>4. Total(f) \in Nat
      BY <3>1, Finite, TotalIs
    <3> QED
      BY <1>5, <3>1, <3>2, <3>3, <3>4 DEF g
  <2> QED
    BY <2>1, <2>2 DEF CapTableExact
<1>12. RoundWithinTerms'
  <2> SUFFICES ASSUME NEW d \in Companies
               PROVE  LET x == round'[d] IN
                        /\ x.raised <= x.amount
                        /\ x.minted * x.amount <= x.newShares * x.raised
                        /\ x.raised = x.amount /\ x.amount > 0 => x.minted = x.newShares /\ ~x.open
    BY DEF RoundWithinTerms
  <2>1. CASE d # c
    <3>1. round'[d] = round[d]
      BY <1>6, <2>1
    <3> QED
      BY <3>1 DEF EquityOK, RoundWithinTerms
  <2>2. CASE d = c
    <3>1. R.raised <= R.amount
      BY <1>1, <1>3, <1>6
    <3>2. R.minted * R.amount <= R.newShares * R.raised
      BY <1>4, <1>6
    <3>3. ASSUME R.raised = R.amount PROVE R.minted = R.newShares /\ ~R.open
      <4>1. funded = r.amount
        BY <1>6, <3>3
      <4>2. ~(funded < r.amount)
        BY <1>1, <4>1
      <4>3. ~R.open
        BY <1>6, <4>2, Zenon
      <4> QED
        BY <1>4, <1>6, <4>1, <4>3
    <3> QED
      BY <2>2, <3>1, <3>2, <3>3
  <2> QED
    BY <2>1, <2>2
<1>13. FoundedOK'
  <2>1. status[c] # "none"
    BY DEF Invest, Active
  <2>2. \A d \in Companies : d # c => holdings'[d] = holdings[d]
    BY <1>2 DEF EquityOK, SharesOK
  <2> QED
    BY <1>2, <2>1, <2>2 DEF EquityOK, FoundedOK
<1> QED
  BY <1>10, <1>11, <1>12, <1>13 DEF EquityOK

\* Only a company that has people at work and cannot pay them in full dies.
LEMMA TheDead ==
    ASSUME BooksOK, NEW cash, NEW dead, NEW earned, ClosesBooks(cash, dead, earned)
    PROVE  /\ dead \subseteq Companies
           /\ \A c \in dead : /\ status[c] = "active"
                              /\ Workers(c) # {}
                              /\ cash[c] < Total(WagesDue(c))
<1>1. dead \subseteq Companies
  BY DEF ClosesBooks
<1>2. ASSUME NEW c \in dead
      PROVE  status[c] = "active" /\ Workers(c) # {} /\ cash[c] < Total(WagesDue(c))
  <2>1. cash[c] \in Nat /\ InsolventAfter(c, cash[c]) >= Grace
    BY <1>1 DEF ClosesBooks
  <2>2. Grace \in Nat /\ Grace > 0
    BY EconomyAssumption
  <2>3. Total(WagesDue(c)) \in Nat /\ (Workers(c) = {} => Total(WagesDue(c)) = 0)
    BY RowsPaid, WagesAre, Finite, TotalIs DEF BooksOK, WorkOK
  <2>4. cash[c] < Total(WagesDue(c))
    BY <2>1, <2>2, <2>3 DEF InsolventAfter
  <2>5. Workers(c) # {}
    BY <2>1, <2>3, <2>4
  <2>6. status[c] = "active"
    <3>1. PICK e \in employment : e.company = c
      BY <2>5 DEF Workers, RowsAt
    <3>2. c # State
      BY <1>1, EconomyAssumption
    <3> QED
      BY <3>1, <3>2 DEF BooksOK, StaffInv, Active
  <2> QED
    BY <2>4, <2>5, <2>6
<1> QED
  BY <1>1, <1>2

\* Rounds are closed with their companies, and stay within their terms.
LEMMA RoundsClosed ==
    ASSUME EquityOK, NEW gone, round' = RoundsWithout(gone)
    PROVE  /\ round' \in [Companies -> Round]
           /\ RoundWithinTerms'
           /\ \A c \in Companies : round'[c].open => round[c].open /\ c \notin gone
<1>1. ASSUME NEW c \in Companies
      PROVE  /\ round'[c] \in Round
             /\ round'[c].raised = round[c].raised /\ round'[c].amount = round[c].amount
             /\ round'[c].minted = round[c].minted
             /\ round'[c].newShares = round[c].newShares
             /\ round'[c].open => round[c].open /\ c \notin gone
  <2> DEFINE r == round[c]
             on == r.open /\ c \notin gone
             R == round'[c]
  <2>1. r \in Round
    BY DEF EquityOK, SharesOK
  <2>2. R = [r EXCEPT !.open = on] /\ on \in BOOLEAN
    BY DEF RoundsWithout
  <2>3. on => r.open /\ c \notin gone
    OBVIOUS
  <2> HIDE DEF r, on, R
  <2>4. /\ R \in Round /\ R.raised = r.raised /\ R.amount = r.amount
        /\ R.minted = r.minted /\ R.newShares = r.newShares /\ R.open = on
    BY <2>1, <2>2 DEF Round
  <2> QED
    BY <2>3, <2>4 DEF R, r
<1>2. round' \in [Companies -> Round]
  <2>1. round' = [c \in Companies |-> round'[c]]
    BY DEF RoundsWithout
  <2> QED
    BY <1>1, <2>1
<1>3. RoundWithinTerms'
  BY <1>1 DEF EquityOK, RoundWithinTerms
<1> QED
  BY <1>1, <1>2, <1>3

\* Companies are wound up out of a cap table that adds up.
LEMMA RetireEquity ==
    ASSUME EquityOK, NEW gone \in SUBSET Companies, \A c \in gone : status[c] # "none",
           NEW h \in [Companies -> [Users -> Nat]],
           \A c \in Companies : shares'[c] = IF c \in gone THEN 0 ELSE Total(h[c]),
           \A c \in Companies : status[c] = "none" => h[c] = holdings[c],
           shares' \in [Companies -> 0 .. MaxInt],
           holdings' = Wiped(h, gone),
           round' = RoundsWithout(gone),
           status' = [c \in Companies |-> IF c \in gone THEN "retired" ELSE status[c]],
           owner' = owner
    PROVE  EquityOK'
<1>1. ASSUME NEW c \in Companies
      PROVE  holdings'[c] = IF c \in gone THEN [u \in Users |-> 0] ELSE h[c]
  BY DEF Wiped
<1>2. holdings' \in [Companies -> [Users -> Nat]]
  <2>1. holdings' = [c \in Companies |-> holdings'[c]]
    BY DEF Wiped
  <2>2. [u \in Users |-> 0] \in [Users -> Nat]
    OBVIOUS
  <2>3. \A c \in Companies : holdings'[c] \in [Users -> Nat]
    BY <1>1, <2>2
  <2> QED
    BY <2>1, <2>3
<1>3. SharesOK'
  BY <1>2, RoundsClosed DEF SharesOK
<1>4. CapTableExact'
  <2> SUFFICES ASSUME NEW c \in Companies PROVE shares'[c] = Total(holdings'[c])
    BY DEF CapTableExact
  <2>1. CASE c \in gone
    BY <1>1, <2>1, NobodyHolds
  <2>2. CASE c \notin gone
    BY <1>1, <2>2
  <2> QED
    BY <2>1, <2>2
<1>5. FoundedOK'
  BY <1>1 DEF EquityOK, FoundedOK
<1> QED
  BY <1>3, <1>4, <1>5, RoundsClosed DEF EquityOK

\* A close keeps the cap tables exact: what vests is minted to those it vests to.
LEMMA CloseEquity ==
    ASSUME BooksOK, EquityOK, NEW cash, NEW dead, NEW earned,
           ClosesBooks(cash, dead, earned), owner' = owner
    PROVE  EquityOK'
<1> DEFINE h == HoldingsAfterVesting
           vested(c) == [u \in Users |-> MintedFor(RowsAt(c) \cap RowsOf(u))]
<1>0. StaffInv /\ IsFiniteSet(employment)
  BY DEF BooksOK, WorkOK
<1>1. ASSUME NEW c \in Companies
      PROVE  /\ h[c] \in [Users -> Nat]
             /\ Total(h[c]) = SharesAfterVesting(c)
             /\ SharesAfterVesting(c) \in Nat
             /\ RowsAt(c) = {} => h[c] = holdings[c] /\ SharesAfterVesting(c) = shares[c]
  <2> DEFINE f == vested(c)
             S == RowsAt(c)
             old == holdings[c]
             new == h[c]
  <2>1. S \in SUBSET employment
    BY DEF RowsAt
  <2>2. DOMAIN f = Users /\ f = [u \in Users |-> f[u]]
        /\ \A u \in Users : f[u] = MintedFor(S \cap RowsOf(u))
    OBVIOUS
  <2>3. /\ MintedFor(S) \in Nat /\ Total(f) = MintedFor(S)
        /\ \A u \in Users : f[u] \in Nat
    <3> HIDE DEF f, S
    <3>1. DOMAIN f = Users /\ \A u \in Users : f[u] = MintedFor(S \cap RowsOf(u))
      BY <2>2
    <3> QED
      BY <1>0, <2>1, <3>1, MintedToSomebody
  <2>4. new = [u \in Users |-> old[u] + f[u]]
    BY DEF HoldingsAfterVesting
  <2>5. old \in [Users -> Nat] /\ shares[c] = Total(old) /\ shares[c] \in Nat
    <3>1. old \in [Users -> Nat] /\ shares[c] = Total(old)
      BY DEF EquityOK, SharesOK, CapTableExact
    <3> QED
      BY <3>1, Finite, TotalIs
  <2>6. SharesAfterVesting(c) = shares[c] + MintedFor(S)
    BY DEF SharesAfterVesting
  <2> HIDE DEF f, S, old, new
  <2>7. f \in [Users -> Nat]
    BY <2>2, <2>3
  <2>8. new = Credit(old, f)
    BY <2>4, <2>5 DEF Credit
  <2>9. new \in [Users -> Nat] /\ Total(new) = Total(old) + Total(f)
    BY <2>5, <2>7, <2>8, Finite, CreditSum
  <2>10. ASSUME S = {} PROVE new = old /\ MintedFor(S) = 0
    <3>1. \A T : T = {} => MintedFor(T) = 0
      <4> SUFFICES MintedFor({}) = 0
        OBVIOUS
      <4> DEFINE none == [e \in {} |-> Minted(e.grant)]
      <4>1. MintedFor({}) = Total(none) /\ DOMAIN none = {}
        BY DEF MintedFor
      <4> HIDE DEF none
      <4>2. Total(none) = 0
        BY <4>1, SumEmpty DEF Total
      <4> QED
        BY <4>1, <4>2
    <3>2. \A u \in Users : f[u] = 0
      BY <2>2, <2>10, <3>1
    <3>3. \A u \in Users : old[u] + f[u] = old[u]
      BY <2>5, <3>2
    <3> QED
      BY <2>4, <2>5, <2>10, <3>1, <3>3
  <2> QED
    BY <2>3, <2>5, <2>6, <2>9, <2>10 DEF S, old, new
<1>2. h \in [Companies -> [Users -> Nat]]
  <2>1. h = [c \in Companies |-> h[c]]
    BY DEF HoldingsAfterVesting
  <2> HIDE DEF h
  <2> QED
    BY <1>1, <2>1
<1>3. \A c \in Companies : SharesAfterVesting(c) <= MaxInt
  BY DEF ClosesBooks
<1>4. shares' = [c \in Companies |-> IF c \in dead THEN 0 ELSE SharesAfterVesting(c)]
  BY DEF ClosesBooks
<1>5. /\ holdings' = Wiped(h, dead) /\ round' = RoundsWithout(dead)
      /\ status' = [c \in Companies |-> IF c \in dead THEN "retired" ELSE status[c]]
  BY DEF ClosesBooks
<1> HIDE DEF h
<1>6. shares' \in [Companies -> 0 .. MaxInt]
  <2>1. MaxInt \in Nat
    BY EconomyAssumption
  <2>2. \A c \in Companies : SharesAfterVesting(c) \in 0 .. MaxInt
    BY <1>1, <1>3, <2>1
  <2> QED
    BY <1>4, <2>1, <2>2
<1>7. \A c \in Companies : shares'[c] = IF c \in dead THEN 0 ELSE Total(h[c])
  BY <1>1, <1>4
<1>8. dead \in SUBSET Companies /\ \A c \in dead : status[c] # "none"
  BY TheDead
<1>9. \A c \in Companies : status[c] = "none" => h[c] = holdings[c]
  <2> SUFFICES ASSUME NEW c \in Companies, status[c] = "none" PROVE RowsAt(c) = {}
    BY <1>1
  <2>1. c # State
    BY EconomyAssumption
  <2> QED
    BY <1>0, <2>1 DEF StaffInv, Active, RowsAt
<1> QED
  BY <1>2, <1>5, <1>6, <1>7, <1>8, <1>9, RetireEquity

\* A new round has raised nothing yet, of a price that is not zero.
LEMMA OpenEquity ==
    ASSUME EquityOK, NEW c \in Companies, NEW amount \in Nat \ {0}, NEW pct,
           OpenRound(c, amount, pct)
    PROVE  EquityOK'
<1> DEFINE new == RoundShares(shares[c], pct)
           fresh == [open |-> TRUE, amount |-> amount, newShares |-> new,
                     raised |-> 0, minted |-> 0]
<1>1. new \in 1 .. (MaxInt - shares[c]) /\ round' = [round EXCEPT ![c] = fresh]
      /\ UNCHANGED <<shares, holdings, status, owner>>
  BY DEF OpenRound, firm
<1>2. MaxInt \in Nat /\ shares[c] \in Nat
  BY EconomyAssumption DEF EquityOK, SharesOK
<1> HIDE DEF new
<1>3. new \in Nat
  BY <1>1, <1>2
<1>4. /\ fresh \in Round /\ fresh.raised = 0 /\ fresh.minted = 0 /\ fresh.amount = amount
      /\ fresh.newShares = new
  BY <1>3 DEF Round
<1> HIDE DEF fresh
<1>5. SharesOK'
  BY <1>1, <1>4 DEF EquityOK, SharesOK
<1>6. RoundWithinTerms'
  <2> SUFFICES ASSUME NEW d \in Companies
               PROVE  LET x == round'[d] IN
                        /\ x.raised <= x.amount
                        /\ x.minted * x.amount <= x.newShares * x.raised
                        /\ x.raised = x.amount /\ x.amount > 0 => x.minted = x.newShares /\ ~x.open
    BY DEF RoundWithinTerms
  <2>1. CASE d # c
    <3>1. round'[d] = round[d]
      BY <1>1, <2>1 DEF EquityOK, SharesOK
    <3> QED
      BY <3>1 DEF EquityOK, RoundWithinTerms
  <2>2. CASE d = c
    <3>1. round'[d] = fresh
      BY <1>1, <2>2 DEF EquityOK, SharesOK
    <3>2. 0 * amount = 0 /\ new * 0 = 0
      BY <1>3
    <3> QED
      BY <1>3, <1>4, <3>1, <3>2
  <2> QED
    BY <2>1, <2>2
<1>7. CapTableExact' /\ FoundedOK'
  BY <1>1 DEF EquityOK, CapTableExact, FoundedOK
<1> QED
  BY <1>5, <1>6, <1>7 DEF EquityOK

\* Closing a round early leaves its terms alone.
LEMMA CloseRoundEquity ==
    ASSUME EquityOK, NEW c \in Companies, CloseRound(c)
    PROVE  EquityOK'
<1>1. UNCHANGED <<shares, holdings, status, owner>>
  BY DEF CloseRound, firm
<1>2. round' = RoundsWithout({c})
  <2>1. round' = [round EXCEPT ![c].open = FALSE]
    BY DEF CloseRound
  <2>2. \A d \in Companies : round[d] \in Round
    BY DEF EquityOK, SharesOK
  <2>3. DOMAIN round = Companies
    BY DEF EquityOK, SharesOK
  <2>4. ASSUME NEW d \in Companies
        PROVE  round'[d] = [round[d] EXCEPT !.open = @ /\ d \notin {c}]
    <3>1. CASE d = c
      <4>1. round'[d] = [round[d] EXCEPT !.open = FALSE]
        BY <2>1, <2>3, <3>1
      <4>2. (round[d].open /\ d \notin {c}) = FALSE
        BY <3>1
      <4> QED
        BY <4>1, <4>2
    <3>2. CASE d # c
      <4> DEFINE r == round[d]
                 on == r.open /\ d \notin {c}
      <4>1. r \in Round /\ round'[d] = r
        BY <2>1, <2>2, <2>3, <3>2
      <4>2. on = r.open
        BY <3>2, <4>1 DEF Round
      <4> HIDE DEF r, on
      <4>3. [r EXCEPT !.open = on] = r
        BY <4>1, <4>2 DEF Round
      <4> QED
        BY <4>1, <4>3 DEF r, on
    <3> QED
      BY <3>1, <3>2
  <2>5. round' = [d \in Companies |-> round'[d]]
    BY <2>1, <2>3
  <2> QED
    BY <2>4, <2>5 DEF RoundsWithout
<1>3. SharesOK'
  BY <1>1, <1>2, RoundsClosed DEF EquityOK, SharesOK
<1>4. RoundWithinTerms'
  BY <1>2, RoundsClosed
<1> QED
  BY <1>1, <1>3, <1>4 DEF EquityOK, CapTableExact, FoundedOK

\* The target's shares go with it.
LEMMA AcceptEquity ==
    ASSUME EquityOK, NEW o, o.target \in Companies, Accept(o),
           status \in [Companies -> {"none", "active", "retired"}]
    PROVE  EquityOK'
<1> DEFINE t == o.target
           gone == {t}
<1>1. /\ shares' = [shares EXCEPT ![t] = 0]
      /\ holdings' = Wiped(holdings, {t})
      /\ round' = RoundsWithout({t})
      /\ status' = [status EXCEPT ![t] = "retired"]
      /\ owner' = owner /\ status[t] = "active"
  BY DEF Accept, Resolves, Active
<1>2. gone \in SUBSET Companies /\ \A c \in gone : status[c] # "none"
  BY <1>1
<1>3. /\ holdings \in [Companies -> [Users -> Nat]] /\ shares \in [Companies -> 0 .. MaxInt]
      /\ \A c \in Companies : shares[c] = Total(holdings[c])
  BY DEF EquityOK, SharesOK, CapTableExact
<1> HIDE DEF t
<1>4. t \in Companies
  BY DEF t
<1>5. \A c \in Companies : shares'[c] = IF c \in gone THEN 0 ELSE Total(holdings[c])
  BY <1>1, <1>3, <1>4
<1>6. shares' \in [Companies -> 0 .. MaxInt]
  <2>1. 0 \in 0 .. MaxInt
    BY EconomyAssumption
  <2>2. shares' = [shares EXCEPT ![t] = 0]
    BY <1>1
  <2> QED
    BY <1>3, <2>1, <2>2
<1>7. status' = [c \in Companies |-> IF c \in gone THEN "retired" ELSE status[c]]
  BY <1>1
<1>8. \A c \in Companies : status[c] = "none" => holdings[c] = holdings[c]
  OBVIOUS
<1>9. holdings' = Wiped(holdings, gone) /\ round' = RoundsWithout(gone) /\ owner' = owner
  BY <1>1
<1> HIDE DEF gone
<1> QED
  BY <1>2, <1>3, <1>5, <1>6, <1>7, <1>8, <1>9, RetireEquity

\* No step makes a cap table that does not add up.
LEMMA StepEquity ==
    ASSUME BooksOK, Next
    PROVE  EquityOK'
<1>0. /\ EquityOK
      /\ status \in [Companies -> {"none", "active", "retired"}]
      /\ owner \in [Companies -> Users \cup {0}]
  BY DEF BooksOK, EquityOK, StaffInv, FirmOK
<1>1. UNCHANGED <<shares, holdings, round, status, owner>> => EquityOK'
  BY <1>0 DEF EquityOK, SharesOK, FoundedOK, CapTableExact, RoundWithinTerms
<1>2. ASSUME NEW u \in Users, NEW c \in Companies, Found(u, c) PROVE EquityOK'
  BY <1>0, <1>2, FoundEquity
<1>3. ASSUME NEW c \in Companies, NEW r \in Raises, OpenRound(c, r.amount, r.pct)
      PROVE  EquityOK'
  <2>1. r.amount \in Nat \ {0}
    BY EconomyAssumption
  <2> QED
    BY <1>0, <1>3, <2>1, OpenEquity
<1>4. ASSUME NEW u \in Users, NEW c \in Companies, NEW amount \in Tickets,
             Invest(u, c, amount)
      PROVE  EquityOK'
  <2>1. amount \in Nat
    BY EconomyAssumption
  <2> QED
    BY <1>0, <1>4, <2>1, InvestEquity
<1>5. ASSUME NEW c \in Companies, CloseRound(c) PROVE EquityOK'
  BY <1>0, <1>5, CloseRoundEquity
<1>6. ASSUME NEW o \in offers, Accept(o) PROVE EquityOK'
  <2>1. o.target \in Companies
    BY DEF BooksOK, OfferInv, Bids
  <2> QED
    BY <1>0, <1>6, <2>1, AcceptEquity
<1>7. ASSUME TickOpen PROVE EquityOK'
  <2>1. PICK cash, dead, earned : ClosesBooks(cash, dead, earned)
    BY <1>7, TheClose
  <2>2. owner' = owner
    BY <1>7 DEF TickOpen
  <2> QED
    BY <1>0, <2>1, <2>2, CloseEquity
<1>8. ASSUME NEW c, NEW j, NEW u, NEW e, NEW x, NEW y,
             \/ Hire(j, u) \/ Fire(e) \/ Quit(e) \/ Promote(e, x)
             \/ ClockIn(e, x) \/ ClockOut(e)
             \/ Apply(u, j) \/ ApplyToState(u, x) \/ PostJob(c, x, y)
             \/ Deposit(c, x) \/ Dividend(c, x) \/ Offer(c, x, y) \/ Decline(e)
             \/ PrintMoney(x) \/ SetTaxRate(x) \/ TickClosed
      PROVE  EquityOK'
  <2>1. UNCHANGED <<shares, holdings, round, status, owner>>
    BY <1>8 DEF Hire, Fire, Quit, Promote, ClockIn, ClockOut, Apply, ApplyToState,
                PostJob, Deposit, Dividend, Offer, Decline, PrintMoney, SetTaxRate,
                TickClosed, equity, firm
  <2> QED
    BY <1>1, <2>1
<1>9. CASE CompanyStep
  BY <1>2, <1>8, <1>9 DEF CompanyStep
<1>10. CASE PlayerStep
  BY <1>8, <1>10 DEF PlayerStep
<1>11. CASE CapitalStep
  BY <1>3, <1>4, <1>5, <1>6, <1>8, <1>11 DEF CapitalStep
<1>12. CASE AskedStep
  BY <1>8, <1>12 DEF AskedStep
<1>13. CASE ManagerStep \/ CloseStep
  BY <1>7, <1>8, <1>13 DEF ManagerStep, CloseStep
<1> QED
  BY <1>9, <1>10, <1>11, <1>12, <1>13 DEF Next, DirectStep

----------------------------------------------------------------------------
\* The postings and the rows of the staff.

\* Rows that all come from finitely many others are finitely many.
LEMMA ImageFinite ==
    ASSUME NEW S, IsFiniteSet(S), NEW f, NEW T,
           \A x \in S : f[x] \in T, \A y \in T : \E x \in S : y = f[x]
    PROVE  IsFiniteSet(T)
<1> DEFINE g == [x \in S |-> f[x]]
<1>1. g \in Surjection(S, T)
  BY DEF Surjection
<1> QED
  BY <1>1, FS_Surjection

\* Postings keep their places, their wages and their grants.
LEMMA JobsKept ==
    ASSUME jobs \in Seq(Jobs)
    PROVE  /\ \A dead : ClosedJobs(dead) \in Seq(Jobs) /\ DOMAIN ClosedJobs(dead) = DOMAIN jobs
           /\ \A t, a \in Companies :
                MovedJobs(t, a) \in Seq(Jobs) /\ DOMAIN MovedJobs(t, a) = DOMAIN jobs
<1>1. ASSUME NEW new, DOMAIN new = DOMAIN jobs, new = [i \in DOMAIN jobs |-> new[i]],
             \A i \in DOMAIN jobs : new[i] \in Jobs
      PROVE  new \in Seq(Jobs)
  BY <1>1
<1>2. \A i \in DOMAIN jobs : jobs[i] \in Jobs
  OBVIOUS
<1>3. ASSUME NEW dead
      PROVE  ClosedJobs(dead) \in Seq(Jobs) /\ DOMAIN ClosedJobs(dead) = DOMAIN jobs
  BY <1>1, <1>2 DEF ClosedJobs, Jobs
<1>4. ASSUME NEW t \in Companies, NEW a \in Companies
      PROVE  MovedJobs(t, a) \in Seq(Jobs) /\ DOMAIN MovedJobs(t, a) = DOMAIN jobs
  BY <1>1, <1>2 DEF MovedJobs, Jobs
<1> QED
  BY <1>3, <1>4

\* The rows a close leaves: everybody clocked out, and every grant older.
LEMMA RowsClosed ==
    ASSUME StaffInv, WorkOK, NEW row, NEW living \in SUBSET employment,
           NEW aged \in BOOLEAN,
           \A e \in employment :
                row[e] = [e EXCEPT !.clocked = FALSE,
                                   !.grant = IF aged THEN Aged(e.grant) ELSE e.grant],
           employment' = {row[e] : e \in living}
    PROVE  employment' \subseteq Rows /\ IsFiniteSet(employment')
<1>1. ASSUME NEW e \in employment PROVE row[e] \in Rows
  <2> DEFINE terms == IF aged THEN Aged(e.grant) ELSE e.grant
             f == row[e]
  <2>1. e \in Rows /\ e \in Staff
    BY DEF WorkOK, StaffInv
  <2>2. terms \in Terms
    <3>1. e.grant \in Terms /\ (e.grant # NoGrant => OnSchedule(e.grant))
      BY <2>1 DEF StaffInv, Staff, GrantsOnSchedule, OnSchedule
    <3>2. Aged(e.grant) \in Terms
      BY <3>1, GrantAges
    <3> QED
      BY <3>1, <3>2
  <2>3. f = [e EXCEPT !.clocked = FALSE, !.grant = terms]
    OBVIOUS
  <2> HIDE DEF terms, f
  <2>4. f \in Rows
    BY <2>1, <2>2, <2>3 DEF Rows
  <2> QED
    BY <2>4 DEF f
<1>2. IsFiniteSet(living)
  BY FS_Subset DEF WorkOK
<1>3. /\ \A e \in living : row[e] \in employment'
      /\ \A x \in employment' : \E e \in living : x = row[e]
  OBVIOUS
<1>4. IsFiniteSet(employment')
  BY <1>2, <1>3, ImageFinite
<1> QED
  BY <1>1, <1>4

\* Rows, postings and applications keep their types.
LEMMA StepWork ==
    ASSUME BooksOK, Next
    PROVE  WorkOK'
<1>0. WorkOK /\ StaffInv /\ MaxInt \in Nat
  BY EconomyAssumption DEF BooksOK
<1>1. ASSUME UNCHANGED <<jobs, pending>>, employment' \subseteq Rows, IsFiniteSet(employment')
      PROVE  WorkOK'
  BY <1>0, <1>1 DEF WorkOK
<1>2. ASSUME NEW r \in Rows, employment' = employment \cup {r}
      PROVE  employment' \subseteq Rows /\ IsFiniteSet(employment')
  BY <1>0, <1>2, FS_AddElement DEF WorkOK
<1>3. ASSUME employment' \subseteq employment
      PROVE  employment' \subseteq Rows /\ IsFiniteSet(employment')
  BY <1>0, <1>3, FS_Subset DEF WorkOK
<1>4. ASSUME NEW e \in employment, NEW f \in Rows, Replace(e, f), UNCHANGED <<jobs, pending>>
      PROVE  WorkOK'
  <2> DEFINE rest == employment \ {e}
  <2>1. IsFiniteSet(rest) /\ rest \subseteq Rows
    BY <1>0, FS_Subset DEF WorkOK
  <2>2. employment' = rest \cup {f}
    BY <1>4 DEF Replace
  <2> HIDE DEF rest
  <2>3. employment' \subseteq Rows /\ IsFiniteSet(employment')
    BY <2>1, <2>2, FS_AddElement
  <2> QED
    BY <1>1, <1>4, <2>3
<1>5. ASSUME NEW j \in DOMAIN jobs, NEW u \in Users, Hire(j, u) PROVE WorkOK'
  <2> DEFINE r == [user |-> u, company |-> jobs[j].company, wage |-> jobs[j].wage,
                   clocked |-> FALSE, grant |-> jobs[j].grant]
  <2>1. jobs[j] \in Jobs
    BY <1>0 DEF WorkOK
  <2>2. r \in Rows
    BY <2>1, TermsOffered DEF Rows, Jobs, Employers
  <2>3. /\ employment' = employment \cup {r} /\ pending' \subseteq pending
        /\ jobs' = jobs
    BY <1>5 DEF Hire
  <2> QED
    BY <1>0, <1>2, <2>2, <2>3 DEF WorkOK
<1>6. ASSUME NEW e \in employment, NEW pct \in RaisePcts, Promote(e, pct) PROVE WorkOK'
  <2> DEFINE w == RaisedWage(e.wage, pct)
             f == [e EXCEPT !.wage = w]
  <2>1. e \in Rows /\ e.wage \in 1 .. MaxInt
    BY <1>0 DEF WorkOK, Rows
  <2>2. w \in (e.wage + 1) .. MaxInt /\ Replace(e, f) /\ UNCHANGED <<jobs, pending>>
    BY <1>6 DEF Promote
  <2> HIDE DEF w
  <2>3. w \in 1 .. MaxInt
    BY <1>0, <2>1, <2>2
  <2>4. f \in Rows
    BY <2>1, <2>3 DEF Rows
  <2> QED
    BY <1>4, <2>2, <2>4
<1>7. ASSUME NEW e \in employment, NEW on \in BOOLEAN,
             Replace(e, [e EXCEPT !.clocked = on]), UNCHANGED <<jobs, pending>>
      PROVE  WorkOK'
  <2>1. e \in Rows
    BY <1>0 DEF WorkOK
  <2>2. [e EXCEPT !.clocked = on] \in Rows
    BY <2>1 DEF Rows
  <2> QED
    BY <1>4, <1>7, <2>2
<1>8. ASSUME NEW u \in Users, NEW j \in DOMAIN jobs, Apply(u, j) PROVE WorkOK'
  BY <1>0, <1>8 DEF Apply, WorkOK
<1>9. ASSUME NEW u \in Users, NEW wage \in StateWages, ApplyToState(u, wage) PROVE WorkOK'
  <2> DEFINE r == [user |-> u, company |-> State, wage |-> wage,
                   clocked |-> FALSE, grant |-> NoGrant]
  <2>1. wage \in 1 .. MaxInt
    BY <1>0, EconomyAssumption
  <2>2. r \in Rows
    BY <2>1, TermsOffered DEF Rows, Employers
  <2>3. employment' = employment \cup {r} /\ UNCHANGED <<jobs, pending>>
    BY <1>9 DEF ApplyToState
  <2> QED
    BY <1>1, <1>2, <2>2, <2>3
<1>10. ASSUME NEW c \in Companies, NEW wage \in Wages, NEW terms \in Grants,
              PostJob(c, wage, terms)
       PROVE  WorkOK'
  <2> DEFINE job == [company |-> c, wage |-> wage, grant |-> terms, open |-> TRUE]
  <2>1. wage \in 1 .. MaxInt
    BY <1>0, <1>10, EconomyAssumption DEF PostJob
  <2>2. job \in Jobs
    BY <2>1 DEF Jobs
  <2>3. jobs' = Append(jobs, job) /\ UNCHANGED <<pending, employment>>
    BY <1>10 DEF PostJob
  <2>4. jobs \in Seq(Jobs)
    BY <1>0 DEF WorkOK
  <2> HIDE DEF job
  <2>5. jobs' \in Seq(Jobs) /\ DOMAIN jobs \subseteq DOMAIN jobs'
    BY <2>2, <2>3, <2>4
  <2> QED
    BY <1>0, <2>3, <2>5 DEF WorkOK
<1>11. ASSUME NEW o \in offers, Accept(o) PROVE WorkOK'
  <2>1. o.target \in Companies /\ o.acquirer \in Companies
    BY DEF BooksOK, OfferInv, Bids
  <2>2. /\ jobs' = MovedJobs(o.target, o.acquirer) /\ pending' = pending
        /\ employment' \subseteq employment
    BY <1>11 DEF Accept
  <2>3. jobs' \in Seq(Jobs) /\ DOMAIN jobs' = DOMAIN jobs
    BY <1>0, <2>1, <2>2, JobsKept DEF WorkOK
  <2> QED
    BY <1>0, <1>3, <2>2, <2>3 DEF WorkOK
<1>12. ASSUME TickOpen PROVE WorkOK'
  <2>1. PICK realized : SettleBusinessDay(realized)
    BY <1>12 DEF TickOpen
  <2>2. PICK dead :
          /\ employment' = {[e EXCEPT !.clocked = FALSE, !.grant = Aged(@)] :
                              e \in {f \in employment : f.company \notin dead}}
          /\ jobs' = ClosedJobs(dead)
    BY <2>1 DEF SettleBusinessDay
  <2> DEFINE row == [e \in employment |-> [e EXCEPT !.clocked = FALSE, !.grant = Aged(@)]]
             living == {f \in employment : f.company \notin dead}
  <2>3. \A e \in employment :
          row[e] = [e EXCEPT !.clocked = FALSE,
                             !.grant = IF TRUE THEN Aged(e.grant) ELSE e.grant]
    OBVIOUS
  <2>4. living \in SUBSET employment
    OBVIOUS
  <2>5. employment' = {row[e] : e \in living}
    <3> DEFINE Left(e) == [e EXCEPT !.clocked = FALSE, !.grant = Aged(@)]
    <3>1. \A e \in employment : row[e] = Left(e)
      OBVIOUS
    <3>2. employment' = {Left(e) : e \in living}
      BY <2>2
    <3> HIDE DEF row, Left, living
    <3> QED
      BY <2>4, <3>1, <3>2
  <2> HIDE DEF row, living
  <2>6. employment' \subseteq Rows /\ IsFiniteSet(employment')
    BY <1>0, <2>3, <2>4, <2>5, RowsClosed
  <2>7. pending' = pending
    BY <1>12 DEF TickOpen
  <2>8. jobs' \in Seq(Jobs) /\ DOMAIN jobs' = DOMAIN jobs
    BY <1>0, <2>2, JobsKept DEF WorkOK
  <2> QED
    BY <1>0, <2>6, <2>7, <2>8 DEF WorkOK
<1>13. ASSUME TickClosed PROVE WorkOK'
  <2> DEFINE row == [e \in employment |-> [e EXCEPT !.clocked = FALSE]]
  <2>1. \A e \in employment :
          row[e] = [e EXCEPT !.clocked = FALSE,
                             !.grant = IF FALSE THEN Aged(e.grant) ELSE e.grant]
    <3> SUFFICES ASSUME NEW e \in employment
                 PROVE  row[e] = [e EXCEPT !.clocked = FALSE, !.grant = e.grant]
      OBVIOUS
    <3>1. e \in Rows /\ row[e] = [e EXCEPT !.clocked = FALSE]
      BY <1>0 DEF WorkOK
    <3> HIDE DEF row
    <3> QED
      BY <3>1 DEF Rows
  <2>2. employment' = {row[e] : e \in employment} /\ UNCHANGED <<jobs, pending>>
    BY <1>13 DEF TickClosed
  <2> HIDE DEF row
  <2>3. employment \in SUBSET employment
    OBVIOUS
  <2>4. employment' \subseteq Rows /\ IsFiniteSet(employment')
    BY <1>0, <2>1, <2>2, <2>3, RowsClosed
  <2> QED
    BY <1>1, <2>2, <2>4
<1>14. ASSUME NEW e, Fire(e) \/ Quit(e) PROVE WorkOK'
  <2>1. employment' \subseteq employment /\ UNCHANGED <<jobs, pending>>
    BY <1>14 DEF Fire, Quit
  <2> QED
    BY <1>1, <1>3, <2>1
<1>15. ASSUME NEW e \in employment, NEW bonus, ClockIn(e, bonus) PROVE WorkOK'
  BY <1>7, <1>15 DEF ClockIn
<1>16. ASSUME NEW e \in employment, ClockOut(e) PROVE WorkOK'
  BY <1>7, <1>16 DEF ClockOut
<1>17. ASSUME NEW c, NEW u, NEW e, NEW x, NEW y, NEW r,
              \/ Found(u, c) \/ OpenRound(c, r.amount, r.pct) \/ Invest(u, c, x)
              \/ CloseRound(c) \/ Deposit(c, x) \/ Dividend(c, x) \/ Offer(c, x, y)
              \/ Decline(e) \/ PrintMoney(x) \/ SetTaxRate(x)
       PROVE  WorkOK'
  <2>1. UNCHANGED <<jobs, pending, employment>>
    BY <1>17 DEF Found, OpenRound, Invest, CloseRound, Deposit, Dividend, Offer, Decline,
                 PrintMoney, SetTaxRate, labor
  <2> QED
    BY <1>0, <2>1 DEF WorkOK
<1>18. CASE CompanyStep
  BY <1>5, <1>6, <1>14, <1>17, <1>18 DEF CompanyStep
<1>19. CASE PlayerStep
  BY <1>8, <1>9, <1>15, <1>16, <1>19 DEF PlayerStep
<1>20. CASE CapitalStep
  BY <1>11, <1>17, <1>20 DEF CapitalStep
<1>21. CASE AskedStep
  BY <1>10, <1>14, <1>17, <1>21 DEF AskedStep
<1>22. CASE ManagerStep \/ CloseStep
  BY <1>12, <1>13, <1>17, <1>22 DEF ManagerStep, CloseStep
<1> QED
  BY <1>18, <1>19, <1>20, <1>21, <1>22 DEF Next, DirectStep

----------------------------------------------------------------------------
\* Companies that were wound up.

\* What a winding-up takes away and only a company in business gets.
Wound(c) ==
    /\ treasury[c] = 0 /\ shares[c] = 0
    /\ ~round[c].open
    /\ \A j \in DOMAIN jobs : jobs[j].company = c => ~jobs[j].open

\* Where nobody works nothing vests and nobody is paid.
LEMMA NobodyThere ==
    ASSUME BooksOK, NEW c \in Companies, RowsAt(c) = {},
           NEW cash, NEW dead, NEW earned, ClosesBooks(cash, dead, earned), c \notin dead
    PROVE  treasury'[c] = treasury[c] /\ shares'[c] = shares[c]
<1>1. Workers(c) = {}
  BY DEF Workers
<1> DEFINE due == WagesDue(c)
<1>2. due \in [Users -> Nat] /\ Total(due) = 0
  BY <1>1, RowsPaid, WagesAre DEF BooksOK, WorkOK
<1>3. /\ cash[c] = treasury[c] /\ cash[c] \in Nat
      /\ treasury'[c] = cash[c] - Total(Payroll(cash[c], due))
  BY <1>1 DEF ClosesBooks
<1> HIDE DEF due
<1>4. Payroll(cash[c], due) = due
  BY <1>2, <1>3, PayrollIs
<1>5. MintedFor(RowsAt(c)) = 0
  <2> DEFINE none == [e \in {} |-> Minted(e.grant)]
  <2>1. MintedFor({}) = Total(none) /\ DOMAIN none = {}
    BY DEF MintedFor
  <2> HIDE DEF none
  <2>2. Total(none) = 0
    BY <2>1, SumEmpty DEF Total
  <2> QED
    BY <2>1, <2>2
<1>6. shares'[c] = shares[c] + 0 /\ shares[c] \in Int
  <2>1. shares'[c] = SharesAfterVesting(c)
    BY DEF ClosesBooks
  <2>2. SharesAfterVesting(c) = shares[c] + 0
    BY <1>5 DEF SharesAfterVesting
  <2>3. shares[c] \in 0 .. MaxInt
    BY DEF BooksOK, SharesOK
  <2> QED
    BY <2>1, <2>2, <2>3, EconomyAssumption
<1> QED
  BY <1>2, <1>3, <1>4, <1>6

\* Whatever step winds a company up, and any later one, leaves nothing of it.
LEMMA StepWound ==
    ASSUME BooksOK, Next, NEW c \in Companies, status'[c] = "retired"
    PROVE  Wound(c)'
<1>0. /\ status \in [Companies -> {"none", "active", "retired"}]
      /\ treasury \in [Companies -> Nat] /\ shares \in [Companies -> 0 .. MaxInt]
      /\ round \in [Companies -> Round]
      /\ jobs \in Seq(Jobs) /\ EquityOK
  BY DEF BooksOK, StaffInv, FirmOK, CashOK, SharesOK, WorkOK, EquityOK
<1>1. status[c] = "retired" => Wound(c)
  BY DEF BooksOK, RetiredLeavesNothing, Wound
<1>2. ASSUME status'[c] = status[c], treasury'[c] = treasury[c], shares'[c] = shares[c],
             round'[c] = round[c], jobs' = jobs
      PROVE  Wound(c)'
  BY <1>1, <1>2 DEF Wound
<1>3. ASSUME NEW u \in Users, NEW d \in Companies, Found(u, d) PROVE Wound(c)'
  <2>1. /\ status' = [status EXCEPT ![d] = "active"] /\ shares' = [shares EXCEPT ![d] = FoundingShares]
        /\ UNCHANGED <<treasury, round, jobs>>
    BY <1>3 DEF Found, labor
  <2>2. c # d
    BY <1>0, <2>1
  <2>3. status'[c] = status[c] /\ shares'[c] = shares[c]
    BY <1>0, <2>1, <2>2
  <2> QED
    BY <1>2, <2>1, <2>3
<1>4. ASSUME NEW d \in Companies, NEW wage, NEW terms, PostJob(d, wage, terms)
      PROVE  Wound(c)'
  <2> DEFINE job == [company |-> d, wage |-> wage, grant |-> terms, open |-> TRUE]
  <2>1. /\ status[d] = "active" /\ jobs' = Append(jobs, job)
        /\ UNCHANGED <<status, treasury, shares, round>>
    BY <1>4 DEF PostJob, Active, firm, equity
  <2>2. job.company # c /\ Wound(c)
    BY <1>1, <2>1
  <2> HIDE DEF job
  <2>3. \A j \in DOMAIN jobs' : jobs'[j] = job \/ (j \in DOMAIN jobs /\ jobs'[j] = jobs[j])
    BY <1>0, <2>1
  <2> QED
    BY <2>1, <2>2, <2>3 DEF Wound
<1>5. ASSUME NEW d \in Companies, NEW x, NEW u, NEW r,
             \/ OpenRound(d, r.amount, r.pct) \/ Invest(u, d, x) \/ CloseRound(d)
             \/ Deposit(d, x) \/ Dividend(d, x)
      PROVE  Wound(c)'
  <2>1. status[d] = "active" /\ UNCHANGED <<status, jobs>>
    BY <1>5 DEF OpenRound, Invest, CloseRound, Deposit, Dividend, Active, firm, labor
  <2>2. d # c
    BY <2>1
  <2>3. treasury'[c] = treasury[c] /\ shares'[c] = shares[c] /\ round'[c] = round[c]
    BY <1>0, <1>5, <2>2
    DEF OpenRound, Invest, CloseRound, Deposit, Dividend, InjectCapital, equity
  <2> QED
    BY <1>2, <2>1, <2>3
<1>6. ASSUME NEW o \in offers, Accept(o) PROVE Wound(c)'
  <2> DEFINE t == o.target
             a == o.acquirer
  <2>1. /\ a \in Companies /\ t \in Companies /\ a # t /\ o.amount \in Nat
        /\ status[a] = "active" /\ status[t] = "active"
    BY DEF BooksOK, OfferInv, OffersLive, Bids, Active
  <2>2. /\ status' = [status EXCEPT ![t] = "retired"] /\ shares' = [shares EXCEPT ![t] = 0]
        /\ jobs' = MovedJobs(t, a) /\ round' = RoundsWithout({t})
    BY <1>6 DEF Accept
  <2>3. /\ \A d \in Companies : d # a => treasury'[d] <= treasury[d]
        /\ treasury'[t] = 0 /\ CashOK'
    <3>1. CashOK /\ taxRate \in Rates /\ holdings[t] \in [Users -> Nat]
      BY <2>1 DEF BooksOK, PlayersOK, SharesOK
    <3> QED
      BY <1>6, <2>1, <3>1, AcceptBalances DEF Balanced
  <2>4. round'[c].open => round[c].open /\ c # t
    BY <1>0, <2>2, RoundsClosed
  <2> HIDE DEF t, a
  <2>5. c # a
    BY <1>0, <2>1, <2>2
  <2>6. c = t \/ Wound(c)
    BY <1>0, <1>1, <2>1, <2>2
  <2>7. treasury'[c] = 0
    <3>1. treasury'[c] \in Nat
      BY <2>3 DEF CashOK
    <3> QED
      BY <2>3, <2>5, <2>6, <3>1 DEF Wound
  <2>8. shares'[c] = 0
    BY <1>0, <2>2, <2>6 DEF Wound
  <2>9. ~round'[c].open
    BY <2>4, <2>6 DEF Wound
  <2>10. ASSUME NEW j \in DOMAIN jobs', jobs'[j].company = c PROVE ~jobs'[j].open
    <3>1. j \in DOMAIN jobs /\ jobs[j] \in Jobs
          /\ jobs'[j] = IF jobs[j].open /\ jobs[j].company = t
                        THEN [jobs[j] EXCEPT !.company = a] ELSE jobs[j]
      BY <1>0, <2>2, <2>10 DEF MovedJobs
    <3> DEFINE job == jobs[j]
    <3>2. job \in Jobs /\ [job EXCEPT !.company = a].company = a
      BY <3>1 DEF Jobs
    <3>3. CASE job.open /\ job.company = t
      BY <2>5, <2>10, <3>1, <3>2, <3>3
    <3>4. CASE ~(job.open /\ job.company = t)
      BY <2>6, <2>10, <3>1, <3>4 DEF Wound
    <3> QED
      BY <3>3, <3>4
  <2> QED
    BY <2>7, <2>8, <2>9, <2>10 DEF Wound
<1>7. ASSUME TickOpen PROVE Wound(c)'
  <2>1. PICK cash, dead, earned : ClosesBooks(cash, dead, earned)
    BY <1>7, TheClose
  <2>2. /\ treasury'[c] = 0 \/ c \notin dead
        /\ shares'[c] = 0 \/ c \notin dead
        /\ round' = RoundsWithout(dead) /\ jobs' = ClosedJobs(dead)
        /\ status'[c] = IF c \in dead THEN "retired" ELSE status[c]
    BY <2>1 DEF ClosesBooks
  <2>3. c \in dead \/ Wound(c)
    BY <1>1, <2>2
  <2>4. ASSUME c \notin dead PROVE treasury'[c] = treasury[c] /\ shares'[c] = shares[c]
    <3>1. RowsAt(c) = {}
      BY <2>2, <2>4, EconomyAssumption DEF BooksOK, RetiredLeavesNothing
    <3> QED
      BY <2>1, <2>4, <3>1, NobodyThere
  <2>5. treasury'[c] = 0 /\ shares'[c] = 0
    BY <2>2, <2>3, <2>4 DEF Wound
  <2>6. ~round'[c].open
    BY <1>0, <2>2, <2>3, RoundsClosed DEF Wound
  <2>7. ASSUME NEW j \in DOMAIN jobs', jobs'[j].company = c PROVE ~jobs'[j].open
    <3> DEFINE job == jobs[j]
               on == job.open /\ job.company \notin dead
    <3>1. j \in DOMAIN jobs /\ job \in Jobs /\ jobs'[j] = [job EXCEPT !.open = on]
      BY <1>0, <2>2, <2>7 DEF ClosedJobs
    <3>2. on => job.open /\ job.company \notin dead
      OBVIOUS
    <3> HIDE DEF job, on
    <3>3. jobs'[j].company = job.company /\ jobs'[j].open = on
      BY <3>1 DEF Jobs
    <3>4. job.company = c
      BY <2>7, <3>3
    <3>5. ~on
      BY <2>3, <3>1, <3>2, <3>4 DEF Wound, job
    <3> QED
      BY <3>3, <3>5
  <2> QED
    BY <2>5, <2>6, <2>7 DEF Wound
<1>8. ASSUME NEW d, NEW j, NEW u, NEW e, NEW x, NEW y,
             \/ Hire(j, u) \/ Fire(e) \/ Quit(e) \/ Promote(e, x)
             \/ ClockIn(e, x) \/ ClockOut(e) \/ Apply(u, j) \/ ApplyToState(u, x)
             \/ Offer(d, x, y) \/ Decline(e) \/ PrintMoney(x) \/ SetTaxRate(x)
             \/ TickClosed
      PROVE  Wound(c)'
  <2>1. UNCHANGED <<status, treasury, shares, round, jobs>>
    BY <1>8 DEF Hire, Fire, Quit, Promote, ClockIn, ClockOut, Apply, ApplyToState,
                Offer, Decline, PrintMoney, SetTaxRate, TickClosed, firm, equity, labor
  <2> QED
    BY <1>2, <2>1
<1>9. CASE CompanyStep
  BY <1>3, <1>8, <1>9 DEF CompanyStep
<1>10. CASE PlayerStep
  BY <1>8, <1>10 DEF PlayerStep
<1>11. CASE CapitalStep
  BY <1>5, <1>6, <1>8, <1>11 DEF CapitalStep
<1>12. CASE AskedStep
  BY <1>4, <1>8, <1>12 DEF AskedStep
<1>13. CASE ManagerStep \/ CloseStep
  BY <1>7, <1>8, <1>13 DEF ManagerStep, CloseStep
<1> QED
  BY <1>9, <1>10, <1>11, <1>12, <1>13 DEF Next, DirectStep

----------------------------------------------------------------------------
\* The theorems.

\* The invariant: the books balance, because the rows, offers, rounds and cap
\* tables they are drawn up from are in order.
LEMMA BooksBalance == Spec => []BooksOK
<1>1. Init => BooksOK
  <2> SUFFICES ASSUME Init PROVE BooksOK
    OBVIOUS
  <2> USE DEF Init
  <2>1. StaffInv /\ OfferInv
    BY EconomyAssumption
    DEF StaffInv, FirmOK, OfferInv, OffersLive, NobodyEmploysThemselves, GrantsOnSchedule
  <2>2. /\ wallet \in [Users -> Nat] /\ treasury \in [Companies -> Nat]
        /\ printed = 0
    BY EconomyAssumption
  <2>3. Total(wallet) \in Nat /\ Total(wallet) = Total(Savings)
    BY <2>2, Finite, TotalIs
  <2>4. pool \in Nat /\ pool = StartingPool - Total(wallet) /\ StartingPool \in Nat
    BY <2>3, EconomyAssumption
  <2>5. Total(treasury) = 0
    <3>1. \A c \in Companies : treasury[c] = 0
      OBVIOUS
    <3> QED
      BY <2>2, <3>1, Finite, SumZero, TotalIs
  <2>6. CashOK /\ Conserved
    BY <2>2, <2>3, <2>4, <2>5 DEF CashOK, Conserved, MoneySupply
  <2>7. PlayersOK /\ WorkOK
    <3>1. IsFiniteSet({})
      BY FS_EmptySet
    <3> QED
      BY <3>1, EconomyAssumption DEF PlayersOK, WorkOK
  <2>8. SharesOK
    <3>1. NoRound \in Round /\ 0 \in 0 .. MaxInt
      BY EconomyAssumption DEF NoRound, Round
    <3> QED
      BY <3>1 DEF SharesOK
  <2>9. CapTableExact
    BY NobodyHolds DEF CapTableExact
  <2>10. RoundWithinTerms
    BY DEF RoundWithinTerms, NoRound
  <2>11. FoundedOK /\ RetiredLeavesNothing
    BY DEF FoundedOK, RetiredLeavesNothing
  <2> QED
    BY <2>1, <2>6, <2>7, <2>8, <2>9, <2>10, <2>11 DEF BooksOK
<1>2. BooksOK /\ [Next]_vars => BooksOK'
  <2> SUFFICES ASSUME BooksOK, [Next]_vars PROVE BooksOK'
    OBVIOUS
  <2>1. CASE Next
    <3>1. StaffInv' /\ OfferInv'
      <4>1. StaffInv /\ OfferInv /\ FirmOK /\ offers \subseteq Bids
        BY DEF BooksOK, StaffInv, OfferInv
      <4> QED
        BY <2>1, <4>1, StepStaff, MovesKeep, StepOffers, OfferMovesKeep
    <3>2. CashOK' /\ MoneySupply' - printed' = MoneySupply - printed
      BY <2>1, StepCash
    <3>3. Conserved'
      <4>1. Total(wallet) \in Nat /\ Total(treasury) \in Nat /\ pool \in Nat /\ printed \in Nat
        BY Parts DEF BooksOK, CashOK
      <4>2. /\ Total(wallet') \in Nat /\ Total(treasury') \in Nat
            /\ pool' \in Nat /\ printed' \in Nat
        BY <3>2, Finite, TotalIs DEF CashOK
      <4>3. StartingPool \in Nat
        BY EconomyAssumption
      <4>4. Conserved
        BY DEF BooksOK
      <4> QED
        BY <3>2, <4>1, <4>2, <4>3, <4>4 DEF Conserved, MoneySupply
    <3>4. PlayersOK' /\ WorkOK' /\ EquityOK'
      BY <2>1, StepPlayers, StepWork, StepEquity
    <3>5. RetiredLeavesNothing'
      <4> SUFFICES ASSUME NEW c \in Companies, status'[c] = "retired"
                   PROVE  /\ Wound(c)' /\ Holders(holdings'[c]) = {} /\ RowsAt(c)' = {}
                          /\ \A o \in offers' : c \notin {o.acquirer, o.target}
        BY DEF RetiredLeavesNothing, Wound
      <4>1. Wound(c)'
        BY <2>1, StepWound
      <4>2. Holders(holdings'[c]) = {}
        <5> DEFINE h == holdings'[c]
        <5>1. h \in [Users -> Nat] /\ Total(h) = 0
          BY <3>4, <4>1 DEF EquityOK, SharesOK, CapTableExact, Wound
        <5> HIDE DEF h
        <5>2. \A u \in Users : h[u] <= 0
          BY <5>1, Finite, TotalIs
        <5>3. Holders(h) = {}
          BY <5>1, <5>2 DEF Holders
        <5> QED
          BY <5>3 DEF h
      <4>3. RowsAt(c)' = {}
        BY <3>1, EconomyAssumption DEF StaffInv, Active, RowsAt
      <4>4. \A o \in offers' : c \notin {o.acquirer, o.target}
        BY <3>1 DEF OfferInv, OffersLive, Active
      <4> QED
        BY <4>1, <4>2, <4>3, <4>4
    <3> QED
      BY <3>1, <3>2, <3>3, <3>4, <3>5 DEF BooksOK, EquityOK
  <2>2. CASE UNCHANGED vars
    BY <2>2 DEF vars, purse, firm, equity, labor, BooksOK, StaffInv, FirmOK, OfferInv,
                OffersLive, Active, NobodyEmploysThemselves, GrantsOnSchedule, CashOK,
                PlayersOK, WorkOK, SharesOK, FoundedOK, Conserved, MoneySupply,
                CapTableExact, RoundWithinTerms, RetiredLeavesNothing, RowsAt
  <2> QED
    BY <2>1, <2>2
<1> QED
  BY <1>1, <1>2, PTL DEF Spec

\* No account is ever overdrawn, whatever is rounded, cut short, split or
\* absorbed, and every number that is stored can be.
THEOREM AccountsHold == Spec => []TypeOK
<1>1. BooksOK => TypeOK
  <2> SUFFICES ASSUME BooksOK PROVE TypeOK
    OBVIOUS
  <2>1. ASSUME NEW c \in Companies
        PROVE  DOMAIN round[c] = DOMAIN NoRound /\ round[c].open \in BOOLEAN
    BY DEF BooksOK, SharesOK, Round, NoRound
  <2> QED
    BY <2>1 DEF BooksOK, TypeOK, CashOK, PlayersOK, WorkOK, SharesOK, StaffInv, FirmOK,
                OfferInv, Bids
<1> QED
  BY <1>1, BooksBalance, PTL

\* Money comes from prints alone and goes nowhere.
THEOREM MoneyConserved == Spec => []Conserved
<1>1. BooksOK => Conserved
  BY DEF BooksOK
<1> QED
  BY <1>1, BooksBalance, PTL

\* Shares are minted to somebody, and go with their company.
THEOREM CapTablesExact == Spec => []CapTableExact
<1>1. BooksOK => CapTableExact
  BY DEF BooksOK
<1> QED
  BY <1>1, BooksBalance, PTL

\* Investors never hold more than they paid for, whatever tranches a round
\* comes in.
THEOREM RoundsWithinTerms == Spec => []RoundWithinTerms
<1>1. BooksOK => RoundWithinTerms
  BY DEF BooksOK
<1> QED
  BY <1>1, BooksBalance, PTL

\* Neither an acquisition nor a bankruptcy leaves anything behind, then or later.
THEOREM WoundUp == Spec => []RetiredLeavesNothing
<1>1. BooksOK => RetiredLeavesNothing
  BY DEF BooksOK
<1> QED
  BY <1>1, BooksBalance, PTL

----------------------------------------------------------------------------
\* What a winding-up pays.

\* A company is wound up by an acquisition or by a close.
LEMMA WhoRetires ==
    ASSUME BooksOK, [Next]_vars, NEW c \in Companies,
           status[c] = "active", status'[c] = "retired"
    PROVE  \/ \E o \in offers : o.target = c /\ Accept(o)
           \/ TickOpen
<1> DEFINE Goal == (\E o \in offers : o.target = c /\ Accept(o)) \/ TickOpen
<1> SUFFICES Goal
  OBVIOUS
<1>0. status \in [Companies -> {"none", "active", "retired"}]
  BY DEF BooksOK, StaffInv, FirmOK
<1>1. ~(status' = status)
  OBVIOUS
<1>2. ASSUME NEW u \in Users, NEW d \in Companies, Found(u, d) PROVE FALSE
  <2>1. status' = [status EXCEPT ![d] = "active"]
    BY <1>2 DEF Found
  <2> QED
    BY <1>0, <2>1
<1>3. ASSUME NEW o \in offers, Accept(o) PROVE Goal
  <2>1. status' = [status EXCEPT ![o.target] = "retired"]
    BY <1>3 DEF Accept
  <2>2. o.target = c
    BY <1>0, <2>1
  <2> QED
    BY <1>3, <2>2
<1>4. ASSUME NEW d, NEW j, NEW u, NEW e, NEW x, NEW y, NEW r,
             \/ Hire(j, u) \/ Fire(e) \/ Quit(e) \/ Promote(e, x)
             \/ ClockIn(e, x) \/ ClockOut(e) \/ Apply(u, j) \/ ApplyToState(u, x)
             \/ PostJob(d, x, y) \/ OpenRound(d, r.amount, r.pct) \/ Invest(u, d, x)
             \/ CloseRound(d) \/ Deposit(d, x) \/ Dividend(d, x)
             \/ Offer(d, x, y) \/ Decline(e) \/ PrintMoney(x) \/ SetTaxRate(x)
             \/ TickClosed
      PROVE  status' = status
  BY <1>4 DEF Hire, Fire, Quit, Promote, ClockIn, ClockOut, Apply, ApplyToState, PostJob,
              OpenRound, Invest, CloseRound, Deposit, Dividend, Offer, Decline,
              PrintMoney, SetTaxRate, TickClosed, firm
<1>5. Next
  BY <1>1 DEF vars, firm
<1> HIDE DEF Goal
<1>6. TickOpen => Goal
  BY DEF Goal
<1>7. CASE CompanyStep
  BY <1>1, <1>2, <1>4, <1>7 DEF CompanyStep
<1>8. CASE PlayerStep
  BY <1>1, <1>4, <1>8 DEF PlayerStep
<1>9. CASE CapitalStep
  BY <1>1, <1>3, <1>4, <1>9 DEF CapitalStep
<1>10. CASE AskedStep
  BY <1>1, <1>4, <1>10 DEF AskedStep
<1>11. CASE ManagerStep \/ CloseStep
  BY <1>1, <1>4, <1>6, <1>11 DEF ManagerStep, CloseStep
<1> QED
  BY <1>5, <1>7, <1>8, <1>9, <1>10, <1>11 DEF Next, DirectStep

\* The price is paid in full, and it is not less than what is absorbed.
LEMMA PriceCoversBook ==
    ASSUME CashOK, NEW o, o.acquirer \in Companies, o.target \in Companies,
           o.acquirer # o.target, o.amount \in Nat,
           holdings[o.target] \in [Users -> Nat], Accept(o)
    PROVE  treasury'[o.acquirer] <= treasury[o.acquirer]
<1> DEFINE a == o.acquirer
           t == o.target
           h == holdings[t]
           paid == Total(Payout(t, o.amount))
<1>1. /\ treasury' = [treasury EXCEPT ![a] = @ - paid + treasury[t], ![t] = 0]
      /\ treasury[t] <= o.amount /\ Holders(h) # {}
  BY DEF Accept, StillFair
<1>2. h \in [Users -> Nat] /\ paid = Total(ProrataSplit(o.amount, h))
  BY DEF Payout
<1> HIDE DEF paid, h
<1>3. Total(h) # 0
  <2>1. \E u \in Users : h[u] > 0
    BY <1>1, <1>2 DEF Holders
  <2> QED
    BY <1>2, <2>1, Finite, TotalIs
<1>4. paid = o.amount
  <2>1. Users \subseteq Int
    BY EconomyAssumption
  <2> QED
    BY <1>2, <1>3, <2>1, Finite, SplitOver
<1>5. treasury'[a] = treasury[a] - paid + treasury[t]
  BY <1>1 DEF CashOK
<1>6. treasury[a] \in Nat /\ treasury[t] \in Nat
  BY DEF CashOK
<1> QED
  BY <1>1, <1>4, <1>5, <1>6

\* No treasury grows when a company is acquired: whoever holds the target's
\* shares gets at least the cash the acquirer takes over.
THEOREM AboveBook == Spec => NeverBelowBook
<1> DEFINE Fair == \A t \in Companies :
        status[t] = "active" /\ status'[t] = "retired" /\ day' = day =>
            \A a \in Companies : treasury'[a] <= treasury[a]
<1>1. BooksOK /\ [Next]_vars => Fair
  <2> SUFFICES ASSUME BooksOK, [Next]_vars, NEW t \in Companies,
                      status[t] = "active", status'[t] = "retired", day' = day,
                      NEW a \in Companies
               PROVE  treasury'[a] <= treasury[a]
    OBVIOUS
  <2>1. ~TickOpen
    BY EconomyAssumption DEF TickOpen, NextDay, BooksOK, PlayersOK
  <2>2. PICK o \in offers : Accept(o)
    BY <2>1, WhoRetires
  <2>3. /\ o.acquirer \in Companies /\ o.target \in Companies
        /\ o.acquirer # o.target /\ o.amount \in Nat
    BY DEF BooksOK, OfferInv, OffersLive, Bids
  <2>4. CashOK /\ taxRate \in Rates /\ holdings[o.target] \in [Users -> Nat]
    BY <2>3 DEF BooksOK, PlayersOK, SharesOK
  <2>5. CASE a = o.acquirer
    BY <2>2, <2>3, <2>4, <2>5, PriceCoversBook
  <2>6. CASE a # o.acquirer
    BY <2>2, <2>3, <2>4, <2>6, AcceptBalances
  <2> QED
    BY <2>5, <2>6
<1>2. BooksOK /\ [Next]_vars => [Fair]_vars
  BY <1>1
<1> QED
  BY <1>2, BooksBalance, PTL DEF Spec, NeverBelowBook

\* The wage of the only row a player has at work somewhere, if there is one.
LEMMA WageOfRow ==
    ASSUME NEW u \in Users, NEW d
    PROVE  /\ Workers(d) \cap RowsOf(u) = {} => WagesDue(d)[u] = 0
           /\ \A e : e.wage \in Nat /\ Workers(d) \cap RowsOf(u) = {e}
                        => WagesDue(d)[u] = e.wage
<1> DEFINE S == Workers(d) \cap RowsOf(u)
           pay == [e \in S |-> e.wage]
<1>1. WagesDue(d)[u] = SumOver(pay, S)
  <2>1. WagesDue(d)[u] = Total(pay) /\ DOMAIN pay = S
    BY DEF WagesDue
  <2> QED
    BY <2>1 DEF Total
<1>2. ASSUME NEW e, e.wage \in Nat, S = {e} PROVE SumOver(pay, S) = e.wage
  <2>1. pay[e] = e.wage
    BY <1>2
  <2> HIDE DEF pay
  <2>2. IsFiniteSet({}) /\ \A x \in {} \cup {e} : pay[x] \in Int
    BY <1>2, <2>1, FS_EmptySet
  <2>3. SumOver(pay, {} \cup {e}) = pay[e] + SumOver(pay, {})
    BY <2>2, SumMore
  <2>4. {} \cup {e} = S /\ SumOver(pay, {}) = 0
    BY <1>2, SumEmpty
  <2> QED
    BY <1>2, <2>1, <2>3, <2>4
<1>3. S = {} => SumOver(pay, S) = 0
  BY SumEmpty
<1> QED
  BY <1>1, <1>2, <1>3

\* Who is owed nothing is paid nothing.
LEMMA NothingOwed ==
    ASSUME NEW cash \in Nat, NEW due \in [Users -> Nat], NEW u \in Users, due[u] = 0
    PROVE  Net(Payroll(cash, due))[u] = 0
<1> DEFINE g == Payroll(cash, due)
<1>1. g \in [Users -> Nat] /\ g[u] = 0
  <2>1. g \in [Users -> Nat]
    BY PayrollIs
  <2>2. CASE Total(due) <= cash
    BY <2>1, <2>2, PayrollIs
  <2>3. CASE ~(Total(due) <= cash)
    <3>1. g = ProrataSplit(cash, due)
      BY <2>3 DEF Payroll
    <3>2. DOMAIN due = Users /\ \A k \in DOMAIN due : due[k] \in Nat
      OBVIOUS
    <3>3. ProrataSplit(cash, due)[u] = 0
      BY <3>2, Finite, SplitNat
    <3> QED
      BY <2>1, <3>1, <3>3
  <2> QED
    BY <2>1, <2>2, <2>3
<1> HIDE DEF g
<1>2. Net(g)[u] = g[u] - TaxAmount(g[u], taxRate)
  BY <1>1 DEF Net
<1>3. TaxAmount(0, taxRate) = 0
  BY DEF TaxAmount
<1>4. Net(g)[u] = 0
  BY <1>1, <1>2, <1>3
<1> QED
  BY <1>4 DEF g

\* The same of state wages, in whichever order ties fall.
LEMMA NothingOwedByState ==
    ASSUME NEW cash \in Nat, NEW public \in StatePayrolls(cash), NEW u \in Users,
           WagesDue(State) \in [Users -> Nat], WagesDue(State)[u] = 0
    PROVE  public[u] = 0
<1> DEFINE due == WagesDue(State)
           ranked(order) == ProrataSplit(cash, [k \in Users |-> due[order[k]]])
           ofUser(order, v) == CHOOSE k \in Users : order[k] = v
<1>1. CASE Total(due) <= cash
  <2>1. public = due
    BY <1>1 DEF StatePayrolls
  <2> QED
    BY <2>1
<1>2. CASE ~(Total(due) <= cash)
  <2>1. PICK order \in Bijection(Users, Users) :
          public = [v \in Users |-> ranked(order)[ofUser(order, v)]]
    BY <1>2 DEF StatePayrolls
  <2>2. /\ order \in [Users -> Users]
        /\ \A v \in Users : \E k \in Users : order[k] = v
    BY DEF Bijection, Injection, Surjection
  <2> DEFINE claim == [k \in Users |-> due[order[k]]]
             n == ofUser(order, u)
  <2>3. n \in Users /\ order[n] = u
    BY <2>2
  <2>4. public[u] = ProrataSplit(cash, claim)[n]
    BY <2>1
  <2>5. claim \in [Users -> Nat] /\ claim[n] = 0
    BY <2>2, <2>3
  <2> HIDE DEF claim, n
  <2>6. DOMAIN claim = Users /\ \A k \in DOMAIN claim : claim[k] \in Nat
    BY <2>5
  <2>7. ProrataSplit(cash, claim)[n] = 0
    BY <2>3, <2>5, <2>6, Finite, SplitNat
  <2> QED
    BY <2>4, <2>7
<1> QED
  BY <1>1, <1>2

\* What a wage is worth to somebody at work when the day closes: they have one
\* job, so this is all that they are paid.
LEMMA PaidAlone ==
    ASSUME BooksOK, NEW e \in employment, e.clocked, e.company \in Companies,
           NEW realized \in [Companies -> Nat], Total(realized) <= pool,
           SettleBusinessDay(realized)
    PROVE  \E gross \in [Users -> Nat] :
            /\ gross = Payroll(treasury[e.company] + realized[e.company],
                               WagesDue(e.company))
            /\ WagesDue(e.company)[e.user] = e.wage
            /\ wallet'[e.user] - wallet[e.user]
                 = gross[e.user] - TaxAmount(gross[e.user], taxRate)
<1> DEFINE u        == e.user
           c        == e.company
           cash     == Credit(treasury, realized)
           gross    == [d \in Companies |-> Payroll(cash[d], WagesDue(d))]
           left     == [d \in Companies |-> cash[d] - Total(gross[d])]
           days     == [d \in Companies |-> InsolventAfter(d, cash[d])]
           dead     == Bankrupt(days)
           taxes    == [d \in Companies |-> Tax(gross[d])]
           poolLeft == pool - Total(realized) + Returned(left, dead) + Total(taxes)
           takeHome == [v \in Users |-> Total([d \in Companies |-> Net(gross[d])[v]])]
<1>0. /\ CashOK /\ StaffInv /\ IsFiniteSet(employment) /\ taxRate \in Rates
      /\ \A f \in employment : f.wage \in Nat
  BY RowsPaid DEF BooksOK, WorkOK, PlayersOK
<1>1. PICK public \in StatePayrolls(poolLeft) :
        wallet' = Credit(Credit(wallet, takeHome), Net(public))
  BY DEF SettleBusinessDay
<1>2. /\ cash \in [Companies -> Nat]
      /\ \A d \in Companies : cash[d] = treasury[d] + realized[d]
  BY <1>0, Finite, CreditSum DEF Credit, CashOK
<1>3. u \in Users /\ c \in Companies /\ c # State
  BY <1>0, EconomyAssumption DEF StaffInv, Staff
<1>4. dead \subseteq Companies
  BY DEF Bankrupt
<1> DEFINE due == WagesDue(c)
           g == Payroll(cash[c], due)
<1>5. /\ due \in [Users -> Nat] /\ due[u] = e.wage
      /\ \A d \in (Companies \cup {State}) \ {c} : WagesDue(d)[u] = 0
  <2>1. Workers(c) \cap RowsOf(u) = {e}
    BY <1>0 DEF StaffInv, Workers, RowsAt, RowsOf
  <2>2. \A d \in (Companies \cup {State}) \ {c} : Workers(d) \cap RowsOf(u) = {}
    BY <1>0 DEF StaffInv, Workers, RowsAt, RowsOf
  <2>3. due \in [Users -> Nat]
    BY <1>0, WagesAre
  <2>4. due[u] = e.wage
    BY <1>0, <1>3, <2>1, WageOfRow
  <2> QED
    BY <1>3, <2>2, <2>3, <2>4, WageOfRow
<1>6. g \in [Users -> Nat]
  BY <1>2, <1>3, <1>5, PayrollIs
<1> HIDE DEF cash, dead, due, g
<1>7. takeHome[u] = Net(g)[u] /\ takeHome \in [Users -> Nat] /\ Total(taxes) \in Nat
      /\ Returned(left, dead) \in Nat
  <2>1. ASSUME NEW d \in Companies
        PROVE  /\ Net(gross[d]) \in [Users -> Nat] /\ taxes[d] \in Nat /\ left[d] \in Nat
               /\ d # c => Net(gross[d])[u] = 0
    <3> DEFINE owed == WagesDue(d)
               h == gross[d]
    <3>1. /\ h = Payroll(cash[d], owed) /\ owed \in [Users -> Nat] /\ cash[d] \in Nat
          /\ taxes[d] = Tax(h) /\ left[d] = cash[d] - Total(h)
          /\ d # c => owed[u] = 0
      BY <1>0, <1>2, <1>5, WagesAre
    <3> HIDE DEF owed, h, taxes, left, gross
    <3>2. h \in [Users -> Nat] /\ Total(h) \in 0 .. cash[d]
      BY <3>1, PayrollIs
    <3>3. Net(h) \in [Users -> Nat] /\ Tax(h) \in Nat
      BY <1>0, <3>2, Finite, NetOfTax
    <3>4. d # c => Net(h)[u] = 0
      BY <1>3, <3>1, NothingOwed
    <3> QED
      BY <3>1, <3>2, <3>3, <3>4 DEF h
  <2>2. taxes \in [Companies -> Nat] /\ left \in [Companies -> Nat]
    <3>1. taxes = [d \in Companies |-> taxes[d]] /\ left = [d \in Companies |-> left[d]]
      OBVIOUS
    <3> HIDE DEF taxes, left, gross
    <3> QED
      BY <2>1, <3>1
  <2>3. gross[c] = g
    BY <1>3 DEF g, due
  <2> DEFINE column(v) == [d \in Companies |-> Net(gross[d])[v]]
  <2>4. ASSUME NEW v \in Users PROVE takeHome[v] \in Nat
    <3> DEFINE f == column(v)
    <3>1. takeHome[v] = Total(f)
      OBVIOUS
    <3>2. f \in [Companies -> Nat]
      <4> HIDE DEF gross
      <4> QED
        BY <2>1
    <3> HIDE DEF f, takeHome
    <3> QED
      BY <3>1, <3>2, Finite, TotalIs
  <2>5. takeHome[u] = Net(g)[u]
    <3> DEFINE f == column(u)
               none == [d \in Companies |-> 0]
    <3>1. takeHome[u] = Total(f)
      BY <1>3
    <3>2. f \in [Companies -> Nat] /\ f[c] = Net(g)[u] /\ \A d \in Companies : d # c => f[d] = 0
      <4> HIDE DEF gross
      <4> QED
        BY <1>3, <2>1, <2>3
    <3>3. none \in [Companies -> Nat] /\ \A d \in Companies : none[d] = 0
      OBVIOUS
    <3> HIDE DEF f, none, takeHome
    <3>4. Total(f) = Total(none) - none[c] + f[c]
      BY <1>3, <3>2, <3>3, Finite, OneChanges
    <3>5. Total(none) = 0
      BY <3>3, Finite, SumZero, TotalIs
    <3>6. f[c] \in Nat /\ none[c] = 0
      BY <1>3, <3>2, <3>3
    <3> QED
      BY <3>1, <3>2, <3>4, <3>5, <3>6
  <2>6. takeHome \in [Users -> Nat]
    <3>1. takeHome = [v \in Users |-> takeHome[v]]
      OBVIOUS
    <3> HIDE DEF takeHome
    <3> QED
      BY <2>4, <3>1
  <2> HIDE DEF taxes, left
  <2>7. Total(taxes) \in Nat
    BY <2>2, Finite, TotalIs
  <2>8. Returned(left, dead) \in Nat
    <3>1. IsFiniteSet(dead) /\ \A d \in dead : left[d] \in Nat
      BY <1>4, <2>2, Finite, FS_Subset
    <3> QED
      BY <3>1, SumNat DEF Returned
  <2> QED
    BY <2>5, <2>6, <2>7, <2>8
<1> HIDE DEF takeHome, taxes, left
<1>8. poolLeft \in Nat
  <2>1. Total(realized) \in Nat
    BY Finite, TotalIs
  <2> QED
    BY <1>0, <1>7, <2>1 DEF CashOK
<1>9. public \in [Users -> Nat] /\ public[u] = 0
  <2> HIDE DEF poolLeft
  <2>1. public \in [Users -> Nat]
    BY <1>0, <1>1, <1>8, StatePayrollIs
  <2>2. WagesDue(State) \in [Users -> Nat] /\ WagesDue(State)[u] = 0
    BY <1>0, <1>3, <1>5, WagesAre
  <2> QED
    BY <1>1, <1>3, <1>8, <2>1, <2>2, NothingOwedByState
<1>10. wallet'[u] = wallet[u] + Net(g)[u] + Net(public)[u]
  <2>1. wallet \in [Users -> Nat]
    BY <1>0 DEF CashOK
  <2> DEFINE home == Credit(wallet, takeHome)
  <2>2. home[u] = wallet[u] + takeHome[u] /\ DOMAIN home = Users
    BY <1>3, <2>1 DEF Credit
  <2>3. wallet'[u] = home[u] + Net(public)[u]
    BY <1>1, <1>3, <2>2 DEF Credit
  <2> QED
    BY <1>7, <2>2, <2>3
<1>11. Net(g)[u] = g[u] - TaxAmount(g[u], taxRate) /\ Net(public)[u] = 0
  <2>1. Net(g)[u] = g[u] - TaxAmount(g[u], taxRate)
    BY <1>3, <1>6 DEF Net
  <2>2. Net(public)[u] = public[u] - TaxAmount(public[u], taxRate)
    BY <1>3, <1>9 DEF Net
  <2>3. TaxAmount(0, taxRate) = 0
    BY DEF TaxAmount
  <2> QED
    BY <1>9, <2>1, <2>2, <2>3
<1>12. TaxAmount(g[u], taxRate) \in Int /\ wallet[u] \in Int /\ g[u] \in Int
  <2>1. g[u] \in Nat /\ wallet[u] \in Nat
    BY <1>0, <1>3, <1>6 DEF CashOK
  <2>2. taxRate \in 0 .. 100
    BY <1>0, Constants
  <2>3. TaxAmount(g[u], taxRate) \in 0 .. g[u]
    BY <2>1, <2>2, TaxWithin
  <2> QED
    BY <2>1, <2>3
<1>13. wallet'[u] - wallet[u] = g[u] - TaxAmount(g[u], taxRate)
  BY <1>10, <1>11, <1>12
<1>14. g = Payroll(treasury[c] + realized[c], WagesDue(c))
  BY <1>2, <1>3 DEF g, due
<1> QED
  BY <1>5, <1>6, <1>13, <1>14 DEF due

\* A close that finds less than the wages in a treasury leaves somebody short.
LEMMA SomebodyShort ==
    ASSUME NEW cash \in Nat, NEW due \in [Users -> Nat], cash < Total(due)
    PROVE  \E u \in Users : Payroll(cash, due)[u] < due[u]
<1> DEFINE g == Payroll(cash, due)
<1>1. g \in [Users -> Nat] /\ Total(g) = cash /\ Total(due) \in Nat
  <2>1. Total(due) \in Nat
    BY Finite, TotalIs
  <2> QED
    BY <2>1, PayrollIs
<1> HIDE DEF g
<1> SUFFICES ASSUME \A u \in Users : ~(g[u] < due[u]) PROVE FALSE
  BY DEF g
<1>2. \A u \in Users : due[u] \in Int /\ g[u] \in Int /\ due[u] <= g[u]
  BY <1>1
<1>3. SumOver(due, Users) <= SumOver(g, Users)
  BY <1>2, Finite, SumAtMost
<1>4. Total(due) = SumOver(due, Users) /\ Total(g) = SumOver(g, Users)
  BY <1>1, Finite, TotalIs
<1> QED
  BY <1>1, <1>3, <1>4

\* A company that pays its staff survives the day.
THEOREM PaidStaffSurvives == Spec => PaidStaffMeansSurvival
<1> DEFINE Short == \A c \in Companies :
        status[c] = "active" /\ status'[c] = "retired" /\ day' # day =>
            \E e \in Workers(c) :
                wallet'[e.user] - wallet[e.user] <= TakeHome(e.wage - 1)
<1>1. BooksOK /\ [Next]_vars => Short
  <2> SUFFICES ASSUME BooksOK, [Next]_vars, NEW c \in Companies,
                      status[c] = "active", status'[c] = "retired", day' # day
               PROVE  \E e \in Workers(c) :
                        wallet'[e.user] - wallet[e.user] <= TakeHome(e.wage - 1)
    OBVIOUS
  <2>1. TickOpen
    <3>1. ASSUME NEW o \in offers, Accept(o) PROVE FALSE
      BY <3>1 DEF Accept
    <3> QED
      BY <3>1, WhoRetires
  <2>2. PICK mood \in [Companies -> Sentiments] : \E tentative \in Tentative(mood) :
          \E realized \in Realized(tentative) : SettleBusinessDay(realized)
    BY <2>1 DEF TickOpen
  <2>3. PICK tentative \in Tentative(mood) :
          \E realized \in Realized(tentative) : SettleBusinessDay(realized)
    BY <2>2
  <2>4. PICK realized \in Realized(tentative) : SettleBusinessDay(realized)
    BY <2>3
  <2>5. /\ CashOK /\ IsFiniteSet(employment) /\ \A e \in employment : e.wage \in Nat
        /\ taxRate \in Rates
    BY RowsPaid DEF BooksOK, WorkOK, PlayersOK
  <2>6. realized \in [Companies -> Nat] /\ Total(realized) <= pool
    BY <2>5, RevenueOfDay
  <2> DEFINE cash == Credit(treasury, realized)
             days == [d \in Companies |-> InsolventAfter(d, cash[d])]
             due  == WagesDue(c)
             have == treasury[c] + realized[c]
  <2>7. have \in Nat /\ due \in [Users -> Nat] /\ cash[c] = have
    BY <2>5, <2>6, WagesAre DEF CashOK, Credit
  <2>8. InsolventAfter(c, have) >= Grace
    <3>1. c \in Bankrupt(days)
      <4>1. status' = [d \in Companies |-> IF d \in Bankrupt(days) THEN "retired" ELSE status[d]]
        BY <2>4 DEF SettleBusinessDay
      <4> HIDE DEF days
      <4> QED
        BY <4>1
    <3>2. days[c] >= Grace
      BY <3>1 DEF Bankrupt
    <3> QED
      BY <2>7, <3>2
  <2>9. have < Total(due)
    <3>1. Grace \in Nat /\ Grace > 0 /\ Total(due) \in Nat
      BY <2>7, Finite, TotalIs, EconomyAssumption
    <3> QED
      BY <2>7, <2>8, <3>1 DEF InsolventAfter
  <2> HIDE DEF have
  <2>10. PICK u \in Users : Payroll(have, due)[u] < due[u]
    <3> HIDE DEF due
    <3> QED
      BY <2>7, <2>9, SomebodyShort
  <2>11. Payroll(have, due)[u] \in Nat /\ due[u] # 0
    <3> HIDE DEF due
    <3>1. Payroll(have, due) \in [Users -> Nat]
      BY <2>7, PayrollIs
    <3> QED
      BY <2>7, <2>10, <3>1
  <2>12. PICK e \in Workers(c) : e.user = u
    BY <2>11, WageOfRow DEF RowsOf
  <2>13. e \in employment /\ e.clocked /\ e.company = c /\ e.wage \in Nat
    BY <2>5, <2>12 DEF Workers, RowsAt
  <2>14. PICK gross \in [Users -> Nat] :
            /\ gross = Payroll(have, due) /\ due[u] = e.wage
            /\ wallet'[u] - wallet[u] = gross[u] - TaxAmount(gross[u], taxRate)
    BY <2>4, <2>6, <2>12, <2>13, PaidAlone DEF have
  <2> HIDE DEF due
  <2>15. gross[u] \in Nat /\ e.wage - 1 \in Nat /\ gross[u] <= e.wage - 1
    BY <2>10, <2>11, <2>13, <2>14
  <2>16. taxRate \in 0 .. 100
    BY <2>5, Constants
  <2>17. gross[u] - TaxAmount(gross[u], taxRate) <= TakeHome(e.wage - 1)
    <3> DEFINE less == e.wage - 1
    <3> HIDE DEF less
    <3>1. gross[u] - TaxAmount(gross[u], taxRate) <= less - TaxAmount(less, taxRate)
      BY <2>15, <2>16, NetGrows DEF less
    <3> QED
      BY <3>1 DEF TakeHome, less
  <2> QED
    BY <2>12, <2>14, <2>17
<1>2. BooksOK /\ [Next]_vars => [Short]_vars
  BY <1>1
<1> QED
  BY <1>2, BooksBalance, PTL DEF Spec, PaidStaffMeansSurvival
=============================================================================
