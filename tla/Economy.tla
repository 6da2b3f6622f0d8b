------------------------------ MODULE Economy ------------------------------
(***************************************************************************)
(* The economy of one guild: companies, jobs, equity, funding rounds,      *)
(* acquisitions and the daily close (tick.py, money.py, lifecycle.py,      *)
(* lookups.py, services/).  A command is one transaction under the lock of *)
(* db.py, hence one action; a command that raises changes nothing, hence   *)
(* is no action.  All money and shares are whole numbers, rates and        *)
(* percentages whole percents; when the close happens is Scheduler's       *)
(* business, here it may happen at any time.                               *)
(***************************************************************************)
EXTENDS GameDay, Money, Sequences, Functions

CONSTANTS
    Users,            \* players: integers, the order breaks ties
    Companies,        \* tickers players may found
    State,            \* the state-owned company
    StartingPool, Savings, Accredited,    \* of the initial state, see Init
    BaseFee, FeeMultiplier, FoundingShares, GrantPct, MinVest, Grace,
    Productivity,     \* output of one worker and day
    Accreditation,    \* income over the window that admits an investor
    MaxInt,           \* the largest storable integer
    StateWages, Wages, Grants, RaisePcts,   \* what commands may ask for
    Raises, Tickets, Deposits, Dividends, Prices, Prints, Rates, Bonuses,
    Sentiments,       \* event multipliers, in percent
    FirstDay, LastDay,  \* bound: closes up to LastDay
    MaxJobs           \* bound: jobs posted

NoGrant == [total |-> 0, vest |-> 0, elapsed |-> 0, vested |-> 0]
NoRound == [open |-> FALSE, amount |-> 0, newShares |-> 0, raised |-> 0, minted |-> 0]
Employers == Companies \cup {State}

ASSUME EconomyAssumption ==
    /\ Users \subseteq Int /\ IsFiniteSet(Users) /\ IsFiniteSet(Companies)
    /\ State \notin Companies
    /\ Savings \in [Users -> Nat] /\ Accredited \subseteq Users
    /\ {StartingPool, BaseFee, FeeMultiplier, FoundingShares, GrantPct, MinVest,
        Grace, Productivity, Accreditation, MaxInt, MaxJobs} \subseteq Nat
    /\ MinVest > 0 /\ Grace > 0 /\ FoundingShares \in 1 .. MaxInt
    /\ Total(Savings) <= StartingPool /\ \A wage \in StateWages : wage <= MaxInt
    /\ StateWages \cup Wages \cup Tickets \cup Deposits \cup Dividends
        \cup Prices \cup Prints \cup Bonuses \cup RaisePcts \subseteq Nat \ {0}
    /\ Rates \subseteq 0 .. 94 /\ Sentiments \subseteq Nat \ {0}
    /\ Grants \subseteq [total : Nat, vest : Nat, elapsed : {0}, vested : {0}]
    /\ \A t \in Grants : t = NoGrant \/ (t.total > 0 /\ t.vest > 0)
    /\ \A r \in Raises : r.amount \in Nat \ {0} /\ r.pct \in 1 .. 99
    /\ FirstDay \in Int /\ LastDay \in Int /\ FirstDay <= LastDay
    \* A fact of arithmetic: the provers know nothing of powers.
    /\ \A n \in 0 .. Cardinality(Companies) : FeeMultiplier ^ n \in Nat

VARIABLES
    day,         \* ServerState.game_day
    taxRate,     \* ServerState.tax_rate
    pool,        \* ServerState.pool_balance
    wallet,      \* User.wallet
    income,      \* trailing_income, as far as it matters: up to Accreditation
    printed,     \* history: the sum of all prints
    status,      \* "none" (not founded), "active" or "retired"
    owner,       \* Company.owner_id, of a founded company
    treasury, shares, insolvent,
    holdings,    \* Holding.shares
    round,       \* the last FundingRound of a company
    jobs,        \* Job rows, in id order
    pending,     \* pending applications <<job, user>>
    employment,  \* Employment rows with their EquityGrant
    offers       \* open acquisition offers

purse  == <<pool, wallet, income, printed>>
equity == <<shares, holdings, round>>
labor  == <<jobs, pending, employment>>
firm   == <<status, owner, insolvent>>
vars   == <<day, taxRate, purse, firm, treasury, equity, labor, offers>>

\* A guild some days after its bootstrap: part of the pool has become savings
\* of the players, and some have income enough to invest.
Init ==
    /\ day = FirstDay
    /\ taxRate \in Rates
    /\ pool = StartingPool - Total(Savings)
    /\ wallet = Savings
    /\ income = [u \in Users |-> IF u \in Accredited THEN Accreditation ELSE 0]
    /\ printed = 0
    /\ status = [c \in Companies |-> "none"]
    /\ owner = [c \in Companies |-> 0]
    /\ treasury = [c \in Companies |-> 0]
    /\ shares = [c \in Companies |-> 0]
    /\ insolvent = [c \in Companies |-> 0]
    /\ holdings = [c \in Companies |-> [u \in Users |-> 0]]
    /\ round = [c \in Companies |-> NoRound]
    /\ jobs = <<>>
    /\ pending = {}
    /\ employment = {}
    /\ offers = {}

----------------------------------------------------------------------------
\* Lookups.

Active(c) == c \in Companies /\ status[c] = "active"

\* get_company with private_only, then require_owner.
Owns(u, c) == Active(c) /\ owner[c] = u

\* get_employment: the rows of u, at most one (OneJobEach).
RowsOf(u) == {e \in employment : e.user = u}

RowsAt(c) == {e \in employment : e.company = c}

Workers(c) == {e \in RowsAt(c) : e.clocked}

Replace(old, new) == employment' = (employment \ {old}) \cup {new}

\* Changed form: the tax reaches the pool and stays in the wallet.
Net_Untaxed(gross) == gross

\* Net of tax, and the tax, of a payment to each user.
Net(gross) == [u \in DOMAIN gross |-> gross[u] - TaxAmount(gross[u], taxRate)]
Tax(gross) == Total([u \in DOMAIN gross |-> TaxAmount(gross[u], taxRate)])

Credit(f, g) == [x \in DOMAIN f |-> f[x] + g[x]]

\* Qualifying income, of which only reaching Accreditation matters.
Earn(gross) == [u \in Users |-> Smaller(Accreditation, income[u] + gross[u])]

----------------------------------------------------------------------------
\* Transfers (money.py); the actions check the funds.

ChargeFee(u, fee) ==
    /\ wallet' = [wallet EXCEPT ![u] = @ - fee]
    /\ pool' = pool + fee

InjectCapital(u, c, amount) ==
    /\ wallet' = [wallet EXCEPT ![u] = @ - amount]
    /\ treasury' = [treasury EXCEPT ![c] = @ + amount]

\* payout_prorata, before tax: to each holder of c.
Payout(c, amount) == ProrataSplit(amount, holdings[c])

\* Changed form: a bonus is paid whatever the pool holds.
PayBonus_OnCredit(u, bonus) ==
    LET gross == [v \in Users |-> IF v = u THEN bonus ELSE 0] IN
    /\ wallet' = Credit(wallet, Net(gross))
    /\ pool' = pool - bonus + Tax(gross)

\* The pool pays the bonus, or the bonus is 0.
PayBonus(u, bonus) ==
    LET gross == [v \in Users |-> IF v = u THEN bonus ELSE 0] IN
    /\ bonus <= pool
    /\ wallet' = Credit(wallet, Net(gross))
    /\ pool' = pool - bonus + Tax(gross)

----------------------------------------------------------------------------
\* Winding a company up, on either path (lifecycle.py).

\* Changed form: only the offers to a company are voided with it.
OffersWithout_AsTarget(gone) == {o \in offers : o.target \notin gone}

\* void_offers_involving
OffersWithout(gone) == {o \in offers : {o.acquirer, o.target} \cap gone = {}}

\* Changed form: the postings of a dead company stay on the board.
ClosedJobs_Open(dead) == jobs

\* close_jobs
ClosedJobs(dead) ==
    [i \in DOMAIN jobs |-> [jobs[i] EXCEPT !.open = @ /\ jobs[i].company \notin dead]]

\* transfer_open_jobs
MovedJobs(t, a) ==
    [i \in DOMAIN jobs |-> IF jobs[i].open /\ jobs[i].company = t
                           THEN [jobs[i] EXCEPT !.company = a] ELSE jobs[i]]

\* close_funding_rounds
RoundsWithout(gone) ==
    [c \in Companies |-> [round[c] EXCEPT !.open = @ /\ c \notin gone]]

\* wipe_holdings, of the holdings h.
Wiped(h, gone) ==
    [c \in Companies |-> IF c \in gone THEN [u \in Users |-> 0] ELSE h[c]]

----------------------------------------------------------------------------
\* Companies and jobs (services/companies.py, services/employment.py).

Found(u, c) ==
    LET fee == FoundingFee(BaseFee, FeeMultiplier,
                           Cardinality({d \in Companies : Owns(u, d)})) IN
    /\ status[c] = "none"
    /\ fee <= MaxInt /\ wallet[u] >= fee
    /\ ChargeFee(u, fee)
    /\ status' = [status EXCEPT ![c] = "active"]
    /\ owner' = [owner EXCEPT ![c] = u]
    /\ shares' = [shares EXCEPT ![c] = FoundingShares]
    /\ holdings' = [holdings EXCEPT ![c][u] = FoundingShares]
    /\ UNCHANGED <<day, taxRate, income, printed, insolvent, treasury, round, labor, offers>>

PostJob(c, wage, terms) ==
    /\ Active(c)
    /\ wage <= MaxInt
    /\ terms.total > 0 => /\ terms.total <= GrantCap(shares[c], GrantPct)
                          /\ terms.vest >= MinVest
    /\ Len(jobs) < MaxJobs
    /\ jobs' = Append(jobs, [company |-> c, wage |-> wage, grant |-> terms, open |-> TRUE])
    /\ UNCHANGED <<day, taxRate, purse, firm, treasury, equity, pending, employment, offers>>

Apply(u, j) ==
    /\ jobs[j].open /\ Active(jobs[j].company)
    /\ owner[jobs[j].company] # u
    /\ <<j, u>> \notin pending
    /\ pending' = pending \cup {<<j, u>>}
    /\ UNCHANGED <<day, taxRate, purse, firm, treasury, equity, jobs, employment, offers>>

\* A state job accepts an unemployed applicant at once.
ApplyToState(u, wage) ==
    /\ RowsOf(u) = {}
    /\ employment' = employment \cup
        {[user |-> u, company |-> State, wage |-> wage, clocked |-> FALSE, grant |-> NoGrant]}
    /\ UNCHANGED <<day, taxRate, purse, firm, treasury, equity, jobs, pending, offers>>

\* Changed form: only apply_to_job keeps owners out of their own company.
Hire_AnyApplicant(j, u) ==
    LET c == jobs[j].company IN
    /\ <<j, u>> \in pending
    /\ Active(c) /\ jobs[j].open
    /\ RowsOf(u) = {}
    /\ employment' = employment \cup
        {[user |-> u, company |-> c, wage |-> jobs[j].wage, clocked |-> FALSE,
          grant |-> jobs[j].grant]}
    /\ pending' = pending \ {<<j, u>>}
    /\ UNCHANGED <<day, taxRate, purse, firm, treasury, equity, jobs, offers>>

\* Changed form: an applicant may have taken another job meanwhile.
Hire_Employed(j, u) ==
    LET c == jobs[j].company IN
    /\ <<j, u>> \in pending
    /\ Active(c) /\ jobs[j].open
    /\ u # owner[c]
    /\ employment' = employment \cup
        {[user |-> u, company |-> c, wage |-> jobs[j].wage, clocked |-> FALSE,
          grant |-> jobs[j].grant]}
    /\ pending' = pending \ {<<j, u>>}
    /\ UNCHANGED <<day, taxRate, purse, firm, treasury, equity, jobs, offers>>

Hire(j, u) ==
    LET c == jobs[j].company IN
    /\ <<j, u>> \in pending
    /\ Active(c) /\ jobs[j].open
    /\ u # owner[c]
    /\ RowsOf(u) = {}
    /\ employment' = employment \cup
        {[user |-> u, company |-> c, wage |-> jobs[j].wage, clocked |-> FALSE,
          grant |-> jobs[j].grant]}
    /\ pending' = pending \ {<<j, u>>}
    /\ UNCHANGED <<day, taxRate, purse, firm, treasury, equity, jobs, offers>>

\* Changed form: a clocked-in employee can be fired.
Fire_Clocked(e) ==
    /\ Active(e.company)
    /\ employment' = employment \ {e}
    /\ UNCHANGED <<day, taxRate, purse, firm, treasury, equity, jobs, pending, offers>>

Fire(e) ==
    /\ Active(e.company)
    /\ ~e.clocked
    /\ employment' = employment \ {e}
    /\ UNCHANGED <<day, taxRate, purse, firm, treasury, equity, jobs, pending, offers>>

Quit(e) ==
    /\ ~e.clocked
    /\ employment' = employment \ {e}
    /\ UNCHANGED <<day, taxRate, purse, firm, treasury, equity, jobs, pending, offers>>

Promote(e, pct) ==
    /\ e.company # State
    /\ RaisedWage(e.wage, pct) \in (e.wage + 1) .. MaxInt
    /\ Replace(e, [e EXCEPT !.wage = RaisedWage(@, pct)])
    /\ UNCHANGED <<day, taxRate, purse, firm, treasury, equity, jobs, pending, offers>>

\* Whether a bonus is due depends on the player's streak (Attendance).
ClockIn(e, bonus) ==
    /\ IsBusinessDay(day)
    /\ ~e.clocked
    /\ Replace(e, [e EXCEPT !.clocked = TRUE])
    /\ PayBonus(e.user, bonus)
    /\ UNCHANGED <<day, taxRate, income, printed, firm, treasury, equity, jobs, pending, offers>>

ClockOut(e) ==
    /\ e.clocked
    /\ Replace(e, [e EXCEPT !.clocked = FALSE])
    /\ UNCHANGED <<day, taxRate, purse, firm, treasury, equity, jobs, pending, offers>>

----------------------------------------------------------------------------
\* Capital (services/investment.py).

OpenRound(c, amount, pct) ==
    LET new == RoundShares(shares[c], pct) IN
    /\ Active(c)
    /\ ~round[c].open
    /\ new \in 1 .. (MaxInt - shares[c])
    /\ round' = [round EXCEPT ![c] = [open |-> TRUE, amount |-> amount,
                                      newShares |-> new, raised |-> 0, minted |-> 0]]
    /\ UNCHANGED <<day, taxRate, purse, firm, treasury, shares, holdings, labor, offers>>

Invest(u, c, amount) ==
    LET r == round[c]
        contribution == Smaller(amount, r.amount - r.raised)
        funded == r.raised + contribution
        bought == TrancheTarget(r.newShares, r.amount, funded) - r.minted
    IN
    /\ IsBusinessDay(day)
    /\ Active(c) /\ owner[c] # u
    /\ income[u] >= Accreditation
    /\ r.open
    /\ wallet[u] >= contribution
    /\ bought > 0
    /\ bought <= MaxInt - shares[c] /\ contribution <= MaxInt - treasury[c]
    /\ InjectCapital(u, c, contribution)
    /\ shares' = [shares EXCEPT ![c] = @ + bought]
    /\ holdings' = [holdings EXCEPT ![c][u] = @ + bought]
    /\ round' = [round EXCEPT ![c] = [r EXCEPT !.raised = funded, !.minted = @ + bought,
                                               !.open = funded < r.amount]]
    /\ UNCHANGED <<day, taxRate, pool, income, printed, firm, labor, offers>>

\* By the owner or a Manager.
CloseRound(c) ==
    /\ Active(c)
    /\ round[c].open
    /\ round' = [round EXCEPT ![c].open = FALSE]
    /\ UNCHANGED <<day, taxRate, purse, firm, treasury, shares, holdings, labor, offers>>

Deposit(c, amount) ==
    /\ Active(c)
    /\ wallet[owner[c]] >= amount
    /\ amount <= MaxInt - treasury[c]
    /\ InjectCapital(owner[c], c, amount)
    /\ UNCHANGED <<day, taxRate, pool, income, printed, firm, equity, labor, offers>>

\* An owner's dividend to itself is no qualifying income.
Dividend(c, amount) ==
    LET gross == Payout(c, amount) IN
    /\ IsBusinessDay(day)
    /\ Active(c)
    /\ amount <= treasury[c]
    /\ Holders(holdings[c]) # {}
    /\ treasury' = [treasury EXCEPT ![c] = @ - Total(gross)]
    /\ wallet' = Credit(wallet, Net(gross))
    /\ pool' = pool + Tax(gross)
    /\ income' = Earn([gross EXCEPT ![owner[c]] = 0])
    /\ UNCHANGED <<day, taxRate, printed, firm, equity, labor, offers>>

----------------------------------------------------------------------------
\* Acquisitions (services/acquisitions.py).

Offer(a, t, amount) ==
    /\ Active(a) /\ Active(t)
    /\ owner[a] # owner[t]
    /\ treasury[t] <= amount /\ amount <= treasury[a]
    /\ offers' = {o \in offers : ~(o.acquirer = a /\ o.target = t)}
                    \cup {[acquirer |-> a, target |-> t, amount |-> amount]}
    /\ UNCHANGED <<day, taxRate, purse, firm, treasury, equity, labor>>

\* _find_open_offer: the caller owns the target and names the acquirer.
Resolves(o) ==
    /\ Active(o.target)
    /\ \A p \in offers \ {o} : p.acquirer = o.acquirer => p.target # o.target

\* Changed form: the price is only compared with the target's cash when the
\* offer is made.
StillFair_Unchecked(o) == o.amount <= treasury[o.acquirer]

\* Changed form: only the price is compared again, not the acquirer's funds.
StillFair_Unfunded(o) == treasury[o.target] <= o.amount

\* What offer checked is checked again, for either treasury may have moved.
StillFair(o) == treasury[o.target] <= o.amount /\ o.amount <= treasury[o.acquirer]

\* Changed form: an acquisition does not wait for the day to close.
NobodyAtWork_Ignored(c) == TRUE

NobodyAtWork(c) == Workers(c) = {}

Accept(o) ==
    LET a == o.acquirer
        t == o.target
        gross == Payout(t, o.amount)
    IN
    /\ o \in offers
    /\ IsBusinessDay(day)
    /\ Resolves(o)
    /\ NobodyAtWork(t)
    /\ StillFair(o)
    /\ Holders(holdings[t]) # {}
    /\ treasury[a] - o.amount <= MaxInt - treasury[t]
    /\ wallet' = Credit(wallet, Net(gross))
    /\ pool' = pool + Tax(gross)
    /\ treasury' = [treasury EXCEPT ![a] = @ - Total(gross) + treasury[t], ![t] = 0]
    /\ jobs' = MovedJobs(t, a)
    /\ offers' = OffersWithout({t})
    /\ round' = RoundsWithout({t})
    /\ employment' = employment \ RowsAt(t)
    /\ holdings' = Wiped(holdings, {t})
    /\ shares' = [shares EXCEPT ![t] = 0]
    /\ status' = [status EXCEPT ![t] = "retired"]
    /\ UNCHANGED <<day, taxRate, income, printed, owner, insolvent, pending>>

Decline(o) ==
    /\ o \in offers
    /\ Resolves(o)
    /\ offers' = offers \ {o}
    /\ UNCHANGED <<day, taxRate, purse, firm, treasury, equity, labor>>

----------------------------------------------------------------------------
\* The Manager (services/economy.py).

MoneySupply == pool + Total(wallet) + Total(treasury)

PrintMoney(amount) ==
    /\ amount <= MaxInt - pool /\ amount <= MaxInt - MoneySupply
    /\ pool' = pool + amount
    /\ printed' = printed + amount
    /\ UNCHANGED <<day, taxRate, wallet, income, firm, treasury, equity, labor, offers>>

SetTaxRate(rate) ==
    /\ taxRate' = rate
    /\ UNCHANGED <<day, purse, firm, treasury, equity, labor, offers>>

----------------------------------------------------------------------------
\* The close of an open date (tick.py).

\* Changed form: each close releases the same whole number of shares.
Released_Daily(g) == g.vested + g.total \div g.vest

\* Step 3, _vest_grants: what a row's grant has released after this close,
\* what it mints now, and the row afterwards.
Released(g) == VestTarget(g.total, g.vest, g.elapsed + 1)

Minted(g) == IF g = NoGrant THEN 0 ELSE Released(g) - g.vested

Aged(g) ==
    IF g = NoGrant \/ g.elapsed + 1 >= g.vest THEN NoGrant
    ELSE [g EXCEPT !.elapsed = @ + 1, !.vested = Released(g)]

MintedFor(rows) == Total([e \in rows |-> Minted(e.grant)])

\* Changed form: vested shares are handed out of the existing ones.
SharesAfterVesting_Fixed(c) == shares[c]

SharesAfterVesting(c) == shares[c] + MintedFor(RowsAt(c))

HoldingsAfterVesting ==
    [c \in Companies |->
        [u \in Users |-> holdings[c][u] + MintedFor(RowsAt(c) \cap RowsOf(u))]]

\* Step 4: the outputs and revenues the float products may come to.
Outcomes(options) ==
    {f \in [Companies -> UNION {options[c] : c \in Companies}] :
        \A c \in Companies : f[c] \in options[c]}

Tentative(mood) ==
    Outcomes([c \in Companies |-> Output(Productivity * Cardinality(Workers(c)), mood[c])])

Realized(tentative) ==
    Outcomes([c \in Companies |->
                RealizedRevenue(tentative[c], Total(tentative), RecessionCap(pool))])

\* Step 5: the wages of those clocked in, cut pro-rata when cash is short.
WagesDue(c) == [u \in Users |-> Total([e \in Workers(c) \cap RowsOf(u) |-> e.wage])]

Payroll(cash, due) == IF Total(due) <= cash THEN due ELSE ProrataSplit(cash, due)

\* Changed form: state wages are paid in full.
StatePayrolls_InFull(cash) == {WagesDue(State)}

\* Step 5b: ties fall to the older employment row, in the model to any order.
StatePayrolls(cash) ==
    LET due == WagesDue(State)
        ranked(order) == ProrataSplit(cash, [k \in Users |-> due[order[k]]])
        ofUser(order, u) == CHOOSE k \in Users : order[k] = u
    IN  IF Total(due) <= cash THEN {due}
        ELSE {[u \in Users |-> ranked(order)[ofUser(order, u)]] :
                order \in Bijection(Users, Users)}

\* Changed form: a treasury that is exactly enough counts as short.
InsolventAfter_Exact(c, cash) ==
    IF Total(WagesDue(c)) < cash THEN 0 ELSE insolvent[c] + 1

InsolventAfter(c, cash) ==
    IF Total(WagesDue(c)) <= cash THEN 0 ELSE insolvent[c] + 1

\* _bankrupt: the counter has reached the grace on a close that was short.
Bankrupt(days) == {c \in Companies : days[c] >= Grace}

\* return_treasury_to_pool
Returned(left, dead) == SumOver(left, dead)

\* realized is the revenue of each company.
SettleBusinessDay(realized) ==
    LET cash     == Credit(treasury, realized)
        gross    == [c \in Companies |-> Payroll(cash[c], WagesDue(c))]
        left     == [c \in Companies |-> cash[c] - Total(gross[c])]
        days     == [c \in Companies |-> InsolventAfter(c, cash[c])]
        dead     == Bankrupt(days)
        poolLeft == pool - Total(realized) + Returned(left, dead)
                        + Total([c \in Companies |-> Tax(gross[c])])
        private  == [u \in Users |-> Total([c \in Companies |-> gross[c][u]])]
        takeHome == [u \in Users |-> Total([c \in Companies |-> Net(gross[c])[u]])]
        living   == {e \in employment : e.company \notin dead}
    IN
    /\ \A c \in Companies : SharesAfterVesting(c) <= MaxInt
    /\ \E public \in StatePayrolls(poolLeft) :
        /\ wallet' = Credit(Credit(wallet, takeHome), Net(public))
        /\ pool' = poolLeft - Total(public) + Tax(public)
        /\ income' = Earn(Credit(private, public))
    /\ treasury' = [c \in Companies |-> IF c \in dead THEN 0 ELSE left[c]]
    /\ insolvent' = [c \in Companies |-> IF c \in dead THEN 0 ELSE days[c]]
    /\ shares' = [c \in Companies |-> IF c \in dead THEN 0 ELSE SharesAfterVesting(c)]
    /\ holdings' = Wiped(HoldingsAfterVesting, dead)
    /\ status' = [c \in Companies |-> IF c \in dead THEN "retired" ELSE status[c]]
    /\ round' = RoundsWithout(dead)
    /\ offers' = OffersWithout(dead)
    /\ jobs' = ClosedJobs(dead)
    /\ employment' = {[e EXCEPT !.clocked = FALSE, !.grant = Aged(@)] : e \in living}

TickOpen ==
    /\ IsBusinessDay(day) /\ day < LastDay
    /\ \E mood \in [Companies -> Sentiments] :
        \E tentative \in Tentative(mood) :
            \E realized \in Realized(tentative) : SettleBusinessDay(realized)
    /\ day' = NextDay(day)
    /\ UNCHANGED <<taxRate, printed, owner, pending>>

\* A closed date: attendance is cleared and nothing else happens.
TickClosed ==
    /\ ~IsBusinessDay(day) /\ day < LastDay
    /\ employment' = {[e EXCEPT !.clocked = FALSE] : e \in employment}
    /\ day' = NextDay(day)
    /\ UNCHANGED <<taxRate, purse, firm, treasury, equity, jobs, pending, offers>>

----------------------------------------------------------------------------
CompanyStep ==
    \/ \E u \in Users, c \in Companies : Found(u, c)
    \/ \E j \in DOMAIN jobs, u \in Users : Hire(j, u)
    \/ \E e \in employment : Fire(e)
    \/ \E e \in employment, pct \in RaisePcts : Promote(e, pct)

PlayerStep ==
    \/ \E u \in Users, j \in DOMAIN jobs : Apply(u, j)
    \/ \E u \in Users, wage \in StateWages : ApplyToState(u, wage)
    \/ \E e \in employment, bonus \in Bonuses \cup {0} : ClockIn(e, bonus)
    \/ \E e \in employment : ClockOut(e)

CapitalStep ==
    \/ \E c \in Companies, r \in Raises : OpenRound(c, r.amount, r.pct)
    \/ \E u \in Users, c \in Companies, amount \in Tickets : Invest(u, c, amount)
    \/ \E c \in Companies : CloseRound(c)
    \/ \E c \in Companies, amount \in Deposits : Deposit(c, amount)
    \/ \E c \in Companies, amount \in Dividends : Dividend(c, amount)
    \/ \E a, t \in Companies, amount \in Prices : Offer(a, t, amount)
    \/ \E o \in offers : Accept(o)
    \/ \E o \in offers : Decline(o)

ManagerStep == \E rate \in Rates : SetTaxRate(rate)

CloseStep == TickOpen \/ TickClosed

\* The commands that talk with their author before they act (Commands).
AskedStep ==
    \/ \E c \in Companies, wage \in Wages, terms \in Grants : PostJob(c, wage, terms)
    \/ \E e \in employment : Quit(e)
    \/ \E amount \in Prints : PrintMoney(amount)

\* Everything that takes one transaction and no conversation.
DirectStep == CompanyStep \/ PlayerStep \/ CapitalStep \/ ManagerStep \/ CloseStep

Next == DirectStep \/ AskedStep

Spec == Init /\ [][Next]_vars

----------------------------------------------------------------------------
(***************************************************************************)
(* Properties.                                                             *)
(***************************************************************************)

Jobs == [company : Companies, wage : 1 .. MaxInt, grant : Grants, open : BOOLEAN]

Terms == [total : Nat, vest : Nat, elapsed : Nat, vested : Nat]

Rows == [user : Users, company : Employers, wage : 1 .. MaxInt,
         clocked : BOOLEAN, grant : Terms]

\* Every variable has its type.  For the pool, the wallets and the treasuries
\* this says that no rounding, shortage or order of commands overdraws an
\* account (DESIGN.md:97).
TypeOK ==
    /\ day \in FirstDay .. LastDay
    /\ taxRate \in Rates
    /\ pool \in Nat /\ printed \in Nat
    /\ wallet \in [Users -> Nat]
    /\ income \in [Users -> 0 .. Accreditation]
    /\ status \in [Companies -> {"none", "active", "retired"}]
    /\ owner \in [Companies -> Users \cup {0}]
    /\ treasury \in [Companies -> Nat]
    /\ shares \in [Companies -> 0 .. MaxInt]
    /\ insolvent \in [Companies -> 0 .. Grace - 1]
    /\ holdings \in [Companies -> [Users -> Nat]]
    /\ \A c \in Companies : /\ DOMAIN round[c] = DOMAIN NoRound
                            /\ round[c].open \in BOOLEAN
    /\ jobs \in Seq(Jobs)
    /\ pending \subseteq (DOMAIN jobs) \X Users
    /\ employment \subseteq Rows
    /\ offers \subseteq [acquirer : Companies, target : Companies, amount : Nat]

\* The money supply is the starting pool plus all prints, whatever is taxed,
\* split, cut by a recession, absorbed or wound up (money.py:1-19).
Conserved == MoneySupply = StartingPool + printed

\* A company has exactly the shares its holders hold, through vesting, rounds,
\* acquisition and bankruptcy (DESIGN.md:120).
CapTableExact ==
    \A c \in Companies : shares[c] = Total(holdings[c])

\* A company that was wound up, on either path, leaves nothing behind: no
\* cash, shares, staff, open posting, open round or open offer
\* (lifecycle.py:1-16).
RetiredLeavesNothing ==
    \A c \in Companies : status[c] = "retired" =>
        /\ treasury[c] = 0 /\ shares[c] = 0 /\ Holders(holdings[c]) = {}
        /\ RowsAt(c) = {}
        /\ ~round[c].open
        /\ \A j \in DOMAIN jobs : jobs[j].company = c => ~jobs[j].open
        /\ \A o \in offers : c \notin {o.acquirer, o.target}

\* A player has at most one job, although an application may be pending at
\* many companies while a state job is taken (DESIGN.md:60).
OneJobEach == \A u \in Users : Cardinality(RowsOf(u)) <= 1

\* Nobody works for a company of their own, not even by an application made
\* to the posting's former company (DESIGN.md:93, companies.py hire).
NobodyEmploysThemselves ==
    \A e \in employment : e.company # State => owner[e.company] # e.user

\* An open offer can be resolved: it joins two active companies of different
\* owners, and it is the only one of its pair (models.py Offer).
OffersLive ==
    \A o \in offers :
        /\ Active(o.acquirer) /\ Active(o.target)
        /\ owner[o.acquirer] # owner[o.target]
        /\ \A p \in offers : p.acquirer = o.acquirer /\ p.target = o.target => p = o

\* At any time investors of a round hold no more shares than they have paid
\* for, the last one gets the exact rest, and a round is over when it is full
\* (investment.py:199-251).
RoundWithinTerms ==
    \A c \in Companies : LET r == round[c] IN
        /\ r.raised <= r.amount
        /\ r.minted * r.amount <= r.newShares * r.raised
        /\ r.raised = r.amount /\ r.amount > 0 => r.minted = r.newShares /\ ~r.open

\* A grant is vested to the share as its terms say after the closes the job
\* has lasted, never ahead of them and without drift (DESIGN.md:114).
GrantsOnSchedule ==
    \A e \in employment : LET g == e.grant IN
        g # NoGrant => /\ g.elapsed < g.vest
                       /\ g.vested = (g.total * g.elapsed) \div g.vest

\* An acquisition never pays the target's holders less than the cash it
\* absorbs: no other treasury grows on the day's business when a company
\* ceases to exist (DESIGN.md:155).
NeverBelowBook ==
    [][\A t \in Companies :
        status[t] = "active" /\ status'[t] = "retired" /\ day' = day =>
            \A a \in Companies : treasury'[a] <= treasury[a]]_vars

\* Whoever is clocked in is still employed there when the day closes: no fire,
\* quit or acquisition takes the day's wage away (DESIGN.md:62).
AttendanceHonored ==
    [][day' = day =>
        \A e \in employment : e.clocked =>
            \E f \in employment' : f.user = e.user /\ f.company = e.company
                                   /\ f.wage >= e.wage]_vars

\* What a wage leaves after tax.
TakeHome(wage) == wage - TaxAmount(wage, taxRate)

\* A close that pays all of a company's staff in full never closes the company
\* down: somebody at a company that goes bankrupt gets what at least one nuggy
\* less than the wage would leave after tax, whatever the treasury began the
\* day with (DESIGN.md:110).
PaidStaffMeansSurvival ==
    [][\A c \in Companies :
        status[c] = "active" /\ status'[c] = "retired" /\ day' # day =>
            \E e \in Workers(c) :
                wallet'[e.user] - wallet[e.user] <= TakeHome(e.wage - 1)]_vars

----------------------------------------------------------------------------
\* money.py:39-40: values too large for SQLite are rejected at the service
\* edge, so that no flush fails.  Then the next close can mint what vests.
VestingStorable ==
    \A c \in Companies : Active(c) => SharesAfterVesting(c) <= MaxInt
=============================================================================
