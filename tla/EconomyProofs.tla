--------------------------- MODULE EconomyProofs ---------------------------
(***************************************************************************)
(* Proofs about Economy: who works where on which terms, and which offers  *)
(* can be resolved, for any players, companies, amounts and rates.  What   *)
(* rests on sums of money or shares is in EconomyLedger.                   *)
(***************************************************************************)
EXTENDS Economy, FiniteSetTheorems, TLAPS

\* A row of the employment table, and an offer.
Staff == [user : Users, company : Employers, wage : Nat, clocked : BOOLEAN, grant : Terms]
Bids == [acquirer : Companies, target : Companies, amount : Nat]
Postings == [company : Companies, wage : Nat, grant : Grants, open : BOOLEAN]

FirmOK ==
    /\ day \in Int
    /\ status \in [Companies -> {"none", "active", "retired"}]
    /\ owner \in [Companies -> Users \cup {0}]

\* The invariant: rows name each player once and only companies in business,
\* or else a company founded later, or wound up, would have staff.
StaffInv ==
    /\ FirmOK
    /\ jobs \in Seq(Postings)
    /\ employment \subseteq Staff
    /\ \A e, f \in employment : e.user = f.user => e = f
    /\ \A e \in employment : e.company = State \/ Active(e.company)
    /\ NobodyEmploysThemselves
    /\ GrantsOnSchedule

----------------------------------------------------------------------------
\* What a step may do to the employment table.

\* Somebody without a job gets one, but not at a company of their own.
Hires(r) ==
    /\ r \in Staff /\ RowsOf(r.user) = {}
    /\ r.grant \in Grants \cup {NoGrant}
    /\ r.company = State \/ (Active(r.company) /\ owner[r.company] # r.user)
    /\ employment' = employment \cup {r}
    /\ UNCHANGED <<day, status, owner>>

\* Somebody who is not clocked in loses a job.
Leaves(e) ==
    /\ ~e.clocked
    /\ employment' = employment \ {e}
    /\ UNCHANGED <<day, status, owner>>

\* A raise, a clock-in or a clock-out.
Changes(e, f) ==
    /\ f \in Staff
    /\ f.user = e.user /\ f.company = e.company /\ f.grant = e.grant
    /\ f.wage >= e.wage
    /\ Replace(e, f)
    /\ UNCHANGED <<day, status, owner>>

Founds(u, c) ==
    /\ status[c] = "none"
    /\ status' = [status EXCEPT ![c] = "active"]
    /\ owner' = [owner EXCEPT ![c] = u]
    /\ UNCHANGED <<day, employment>>

\* A company without anybody at work is acquired.
Absorbs(t) ==
    /\ Active(t) /\ Workers(t) = {}
    /\ employment' = employment \ RowsAt(t)
    /\ status' = [status EXCEPT ![t] = "retired"]
    /\ UNCHANGED <<day, owner>>

\* The close: everybody is clocked out, the dead lose their staff, and on a
\* business day (aged) grants vest.
Closes(dead, aged) ==
    /\ \E row \in [employment -> Staff] :
        /\ employment' = {row[e] : e \in {f \in employment : f.company \notin dead}}
        /\ \A e \in employment :
            /\ row[e].user = e.user /\ row[e].company = e.company
            /\ row[e].grant = IF aged THEN Aged(e.grant) ELSE e.grant
    /\ status' = [c \in Companies |-> IF c \in dead THEN "retired" ELSE status[c]]
    /\ owner' = owner
    /\ day' = day + 1

StaffMoves ==
    \/ \E r \in Staff : Hires(r)
    \/ \E e \in employment : Leaves(e)
    \/ \E e \in employment, f \in Staff : Changes(e, f)
    \/ \E u \in Users, c \in Companies : Founds(u, c)
    \/ \E t \in Companies : Absorbs(t)
    \/ \E dead \in SUBSET Companies, aged \in BOOLEAN : Closes(dead, aged)
    \/ UNCHANGED <<day, status, owner, employment>>

----------------------------------------------------------------------------
\* Postings stay postings, whether they are closed, moved or added to.

\* Closing or moving postings changes neither their number nor their terms.
LEMMA PostingsKept ==
    ASSUME jobs \in Seq(Postings)
    PROVE  /\ \A dead : ClosedJobs(dead) \in Seq(Postings)
           /\ \A t, a \in Companies : MovedJobs(t, a) \in Seq(Postings)
<1>1. ASSUME NEW new, DOMAIN new = DOMAIN jobs, new = [i \in DOMAIN jobs |-> new[i]],
             \A i \in DOMAIN jobs : new[i] \in Postings
      PROVE  new \in Seq(Postings)
  BY <1>1
<1>2. \A i \in DOMAIN jobs : jobs[i] \in Postings
  OBVIOUS
<1>3. ASSUME NEW dead PROVE ClosedJobs(dead) \in Seq(Postings)
  BY <1>1, <1>2 DEF ClosedJobs, Postings
<1>4. ASSUME NEW t \in Companies, NEW a \in Companies
      PROVE  MovedJobs(t, a) \in Seq(Postings)
  BY <1>1, <1>2 DEF MovedJobs, Postings
<1> QED
  BY <1>3, <1>4

\* A grant that may be offered, or none, is a well-typed one.
LEMMA TermsOffered == Grants \cup {NoGrant} \subseteq Terms
BY EconomyAssumption DEF NoGrant, Terms

OnSchedule(g) ==
    g.elapsed < g.vest /\ g.vested = (g.total * g.elapsed) \div g.vest

\* A close takes a grant one close further on its schedule, or to its end.
LEMMA GrantAges ==
    ASSUME NEW g \in Terms, g # NoGrant => OnSchedule(g)
    PROVE  /\ Aged(g) \in Terms
           /\ Aged(g) # NoGrant => OnSchedule(Aged(g))
<1>1. CASE g = NoGrant \/ g.elapsed + 1 >= g.vest
  BY <1>1, TermsOffered DEF Aged
<1>2. CASE g # NoGrant /\ g.elapsed + 1 < g.vest
  <2> DEFINE x == g.total * (g.elapsed + 1)
  <2>1. g.total \in Nat /\ g.vest \in Nat /\ g.elapsed \in Nat
    BY DEF Terms
  <2>2. x \in Nat
    BY <2>1
  <2>3. x \div g.vest \in Nat
    <3> HIDE DEF x
    <3> QED
      BY <1>2, <2>1, <2>2
  <2>4. Released(g) = x \div g.vest
    BY <1>2, <2>1 DEF Released, VestTarget
  <2> HIDE DEF x
  <2>5. Aged(g) = [g EXCEPT !.elapsed = g.elapsed + 1, !.vested = x \div g.vest]
    BY <1>2, <2>1, <2>4 DEF Aged
  <2>6. /\ Aged(g) \in Terms
        /\ Aged(g).total = g.total /\ Aged(g).vest = g.vest
        /\ Aged(g).elapsed = g.elapsed + 1 /\ Aged(g).vested = x \div g.vest
    <3> DEFINE y == g.elapsed + 1
               z == x \div g.vest
               f == Aged(g)
    <3>1. y \in Nat /\ z \in Nat /\ f = [g EXCEPT !.elapsed = y, !.vested = z]
      BY <2>1, <2>3, <2>5
    <3> HIDE DEF y, z, f
    <3>2. /\ f \in Terms /\ f.total = g.total /\ f.vest = g.vest
          /\ f.elapsed = y /\ f.vested = z
      BY <2>1, <3>1 DEF Terms
    <3> QED
      BY <3>2 DEF y, z, f
  <2> QED
    BY <1>2, <2>6 DEF OnSchedule, x
<1> QED
  BY <1>1, <1>2 DEF Terms

\* Every step is one of the moves, and postings stay postings.  The offers
\* are needed for an acquisition, which is of a company.
LEMMA StepStaff ==
    ASSUME StaffInv, offers \subseteq Bids, Next
    PROVE  StaffMoves /\ jobs' \in Seq(Postings)
<1> USE EconomyAssumption DEF StaffInv, FirmOK
<1>0. UNCHANGED <<day, status, owner, employment>> => StaffMoves
  BY DEF StaffMoves
<1>1. ASSUME NEW u \in Users, NEW c \in Companies, Found(u, c)
      PROVE  StaffMoves /\ jobs' \in Seq(Postings)
  BY <1>1 DEF Found, StaffMoves, Founds, labor
<1>2. ASSUME NEW j \in DOMAIN jobs, NEW u \in Users, Hire(j, u)
      PROVE  StaffMoves /\ jobs' \in Seq(Postings)
  <2> DEFINE r == [user |-> u, company |-> jobs[j].company, wage |-> jobs[j].wage,
                   clocked |-> FALSE, grant |-> jobs[j].grant]
  <2>1. jobs[j] \in Postings
    OBVIOUS
  <2>2. r \in Staff /\ r.grant \in Grants
    BY <2>1, TermsOffered DEF Staff, Postings, Employers
  <2>3. Hires(r)
    BY <1>2, <2>2 DEF Hire, Hires, firm
  <2> QED
    BY <1>2, <2>2, <2>3 DEF Hire, StaffMoves
<1>3. ASSUME NEW e \in employment, Fire(e) \/ Quit(e)
      PROVE  StaffMoves /\ jobs' \in Seq(Postings)
  BY <1>3 DEF Fire, Quit, StaffMoves, Leaves, firm
<1>4. ASSUME NEW e \in employment, NEW pct \in RaisePcts, Promote(e, pct)
      PROVE  StaffMoves /\ jobs' \in Seq(Postings)
  <2> DEFINE f == [e EXCEPT !.wage = RaisedWage(@, pct)]
  <2>1. e \in Staff /\ RaisedWage(e.wage, pct) \in Nat
        /\ RaisedWage(e.wage, pct) >= e.wage
    <3> DEFINE w == RaisedWage(e.wage, pct)
    <3>1. MaxInt \in Nat
      OBVIOUS
    <3>2. e \in Staff /\ e.wage \in Nat
      BY DEF Staff
    <3>3. w \in (e.wage + 1) .. MaxInt
      BY <1>4 DEF Promote
    <3> HIDE DEF w
    <3>4. w \in Nat /\ w >= e.wage
      BY <3>1, <3>2, <3>3
    <3> QED
      BY <3>2, <3>4 DEF w
  <2>2. f \in Staff /\ f.user = e.user /\ f.company = e.company /\ f.grant = e.grant
        /\ f.wage = RaisedWage(e.wage, pct)
    BY <2>1 DEF Staff
  <2>3. Changes(e, f)
    BY <1>4, <2>1, <2>2 DEF Promote, Changes, firm
  <2> QED
    BY <1>4, <2>2, <2>3 DEF Promote, StaffMoves
<1>5. ASSUME NEW u \in Users, NEW j \in DOMAIN jobs, Apply(u, j)
      PROVE  StaffMoves /\ jobs' \in Seq(Postings)
  BY <1>0, <1>5 DEF Apply, firm
<1>6. ASSUME NEW u \in Users, NEW wage \in StateWages, ApplyToState(u, wage)
      PROVE  StaffMoves /\ jobs' \in Seq(Postings)
  <2> DEFINE r == [user |-> u, company |-> State, wage |-> wage,
                   clocked |-> FALSE, grant |-> NoGrant]
  <2>1. r \in Staff
    BY TermsOffered DEF Staff, Employers
  <2>2. Hires(r)
    BY <1>6, <2>1 DEF ApplyToState, Hires, firm
  <2> QED
    BY <1>6, <2>1, <2>2 DEF ApplyToState, StaffMoves
<1>7. ASSUME NEW e \in employment, NEW on \in BOOLEAN,
             Replace(e, [e EXCEPT !.clocked = on]),
             UNCHANGED <<day, status, owner, jobs>>
      PROVE  StaffMoves /\ jobs' \in Seq(Postings)
  <2> DEFINE f == [e EXCEPT !.clocked = on]
  <2>1. e \in Staff
    OBVIOUS
  <2>2. f \in Staff /\ f.user = e.user /\ f.company = e.company /\ f.grant = e.grant
        /\ f.wage = e.wage /\ f.wage \in Nat
    BY <2>1 DEF Staff
  <2>3. Changes(e, f)
    BY <1>7, <2>2 DEF Changes
  <2> QED
    BY <1>7, <2>2, <2>3 DEF StaffMoves
<1>8. ASSUME CapitalStep PROVE StaffMoves /\ jobs' \in Seq(Postings)
  <2>1. ASSUME NEW o \in offers, Accept(o) PROVE StaffMoves /\ jobs' \in Seq(Postings)
    <3>1. o.target \in Companies /\ o.acquirer \in Companies
      BY DEF Bids
    <3>2. Absorbs(o.target)
      BY <2>1 DEF Accept, Resolves, NobodyAtWork, Absorbs
    <3>3. jobs' \in Seq(Postings)
      BY <2>1, <3>1, PostingsKept DEF Accept
    <3> QED
      BY <3>1, <3>2, <3>3 DEF StaffMoves
  <2>2. ASSUME UNCHANGED <<day, firm, labor>>
        PROVE  StaffMoves /\ jobs' \in Seq(Postings)
    BY <1>0, <2>2 DEF firm, labor
  <2>3. ASSUME NEW c \in Companies, NEW r, OpenRound(c, r.amount, r.pct)
        PROVE  StaffMoves /\ jobs' \in Seq(Postings)
    BY <2>2, <2>3 DEF OpenRound
  <2>4. ASSUME NEW u \in Users, NEW c \in Companies, NEW amount, Invest(u, c, amount)
        PROVE  StaffMoves /\ jobs' \in Seq(Postings)
    BY <2>2, <2>4 DEF Invest
  <2>5. ASSUME NEW c \in Companies, NEW amount,
               CloseRound(c) \/ Deposit(c, amount) \/ Dividend(c, amount)
        PROVE  StaffMoves /\ jobs' \in Seq(Postings)
    BY <2>2, <2>5 DEF CloseRound, Deposit, Dividend
  <2>6. ASSUME NEW a, NEW t, NEW amount, NEW o,
               Offer(a, t, amount) \/ Decline(o)
        PROVE  StaffMoves /\ jobs' \in Seq(Postings)
    BY <2>2, <2>6 DEF Offer, Decline
  <2> QED
    BY <1>8, <2>1, <2>3, <2>4, <2>5, <2>6 DEF CapitalStep
<1>9. ASSUME CloseStep PROVE StaffMoves /\ jobs' \in Seq(Postings)
  <2>1. ASSUME TickOpen PROVE StaffMoves /\ jobs' \in Seq(Postings)
    <3> DEFINE row == [e \in employment |-> [e EXCEPT !.clocked = FALSE, !.grant = Aged(@)]]
    <3>1. PICK realized : SettleBusinessDay(realized)
      BY <2>1 DEF TickOpen
    <3>2. PICK dead \in SUBSET Companies :
            /\ employment' = {row[e] : e \in {f \in employment : f.company \notin dead}}
            /\ status' = [c \in Companies |-> IF c \in dead THEN "retired" ELSE status[c]]
            /\ jobs' = ClosedJobs(dead)
      <4> DEFINE cash == Credit(treasury, realized)
                 days == [c \in Companies |-> InsolventAfter(c, cash[c])]
      <4>1. Bankrupt(days) \in SUBSET Companies
        BY DEF Bankrupt
      <4>2. /\ employment' = {[e EXCEPT !.clocked = FALSE, !.grant = Aged(@)] :
                                e \in {f \in employment : f.company \notin Bankrupt(days)}}
            /\ status' = [c \in Companies |->
                            IF c \in Bankrupt(days) THEN "retired" ELSE status[c]]
            /\ jobs' = ClosedJobs(Bankrupt(days))
        BY <3>1 DEF SettleBusinessDay
      <4>3. employment' = {row[e] : e \in {f \in employment : f.company \notin Bankrupt(days)}}
        <5> DEFINE Left(e) == [e EXCEPT !.clocked = FALSE, !.grant = Aged(@)]
        <5>1. \A e \in employment : row[e] = Left(e)
          OBVIOUS
        <5>2. employment' = {Left(e) : e \in {f \in employment : f.company \notin Bankrupt(days)}}
          BY <4>2
        <5> HIDE DEF row, Left, days
        <5> QED
          BY <5>1, <5>2
      <4> QED
        BY <4>1, <4>2, <4>3
    <3>3. ASSUME NEW e \in employment
          PROVE  /\ row[e] \in Staff /\ row[e].user = e.user
                 /\ row[e].company = e.company /\ row[e].grant = Aged(e.grant)
      <4>1. e \in Staff /\ Aged(e.grant) \in Terms
        BY GrantAges DEF GrantsOnSchedule, OnSchedule, Staff
      <4>2. row[e] = [e EXCEPT !.clocked = FALSE, !.grant = Aged(e.grant)]
        OBVIOUS
      <4> DEFINE terms == Aged(e.grant)
                 f == row[e]
      <4>3. e \in Staff /\ terms \in Terms /\ f = [e EXCEPT !.clocked = FALSE, !.grant = terms]
        BY <4>1, <4>2
      <4> HIDE DEF row, terms, f
      <4>4. f \in Staff /\ f.user = e.user /\ f.company = e.company /\ f.grant = terms
        BY <4>3 DEF Staff
      <4> QED
        BY <4>4 DEF terms, f
    <3>4. row \in [employment -> Staff]
      BY <3>3
    <3> HIDE DEF row
    <3>5. Closes(dead, TRUE)
      BY <2>1, <3>2, <3>3, <3>4 DEF TickOpen, Closes, NextDay
    <3> QED
      BY <3>2, <3>5, PostingsKept DEF StaffMoves
  <2>2. ASSUME TickClosed PROVE StaffMoves /\ jobs' \in Seq(Postings)
    <3> DEFINE row == [e \in employment |-> [e EXCEPT !.clocked = FALSE]]
    <3>1. ASSUME NEW e \in employment
          PROVE  /\ row[e] \in Staff /\ row[e].user = e.user
                 /\ row[e].company = e.company /\ row[e].grant = e.grant
      <4>1. row[e] = [e EXCEPT !.clocked = FALSE] /\ e \in Staff
        OBVIOUS
      <4> HIDE DEF row
      <4> QED
        BY <4>1 DEF Staff
    <3>2. row \in [employment -> Staff]
      BY <3>1
    <3>3. employment' = {row[e] : e \in {f \in employment : f.company \notin {}}}
      BY <2>2 DEF TickClosed
    <3>4. status' = [c \in Companies |-> IF c \in {} THEN "retired" ELSE status[c]]
      BY <2>2 DEF TickClosed, firm
    <3> HIDE DEF row
    <3>5. Closes({}, FALSE)
      BY <2>2, <3>1, <3>2, <3>3, <3>4 DEF TickClosed, Closes, NextDay, firm
    <3> QED
      BY <2>2, <3>5 DEF TickClosed, StaffMoves
  <2> QED
    BY <1>9, <2>1, <2>2 DEF CloseStep
<1>10. ASSUME ManagerStep PROVE StaffMoves /\ jobs' \in Seq(Postings)
  BY <1>0, <1>10 DEF ManagerStep, SetTaxRate, firm, labor
<1>11. ASSUME NEW amount \in Prints, PrintMoney(amount)
       PROVE  StaffMoves /\ jobs' \in Seq(Postings)
  BY <1>0, <1>11 DEF PrintMoney, firm, labor
<1>12. ASSUME NEW c \in Companies, NEW wage \in Wages, NEW terms \in Grants,
              PostJob(c, wage, terms)
       PROVE  StaffMoves /\ jobs' \in Seq(Postings)
  <2> DEFINE job == [company |-> c, wage |-> wage, grant |-> terms, open |-> TRUE]
  <2>1. job \in Postings
    BY DEF Postings
  <2>2. Append(jobs, job) \in Seq(Postings)
    BY <2>1
  <2> QED
    BY <1>0, <1>12, <2>2 DEF PostJob, firm
<1>13. ASSUME NEW e \in employment, NEW bonus, ClockIn(e, bonus)
       PROVE  StaffMoves /\ jobs' \in Seq(Postings)
  BY <1>7, <1>13 DEF ClockIn, firm
<1>14. ASSUME NEW e \in employment, ClockOut(e)
       PROVE  StaffMoves /\ jobs' \in Seq(Postings)
  BY <1>7, <1>14 DEF ClockOut, firm
<1>15. CASE CompanyStep
  BY <1>1, <1>2, <1>3, <1>4, <1>15 DEF CompanyStep
<1>16. CASE PlayerStep
  BY <1>5, <1>6, <1>13, <1>14, <1>16 DEF PlayerStep
<1>17. CASE AskedStep
  BY <1>3, <1>11, <1>12, <1>17 DEF AskedStep
<1> QED
  BY <1>8, <1>9, <1>10, <1>15, <1>16, <1>17 DEF Next, DirectStep

----------------------------------------------------------------------------
\* Every move keeps the invariant.

\* A new row is for a player without one, at a company in business.
LEMMA HiresKeeps ==
    ASSUME StaffInv, NEW r \in Staff, Hires(r), jobs' \in Seq(Postings)
    PROVE  StaffInv'
<1> USE DEF StaffInv, FirmOK, Hires
<1>1. employment' \subseteq Staff
  OBVIOUS
<1>2. \A e, f \in employment' : e.user = f.user => e = f
  BY DEF RowsOf
<1>3. \A e \in employment' : e.company = State \/ Active(e.company)'
  BY DEF Active
<1>4. NobodyEmploysThemselves'
  BY DEF NobodyEmploysThemselves
<1>5. GrantsOnSchedule'
  <2>1. r.grant = NoGrant \/ OnSchedule(r.grant)
    <3>1. ASSUME r.grant \in Grants, r.grant # NoGrant PROVE OnSchedule(r.grant)
      <4>1. /\ r.grant.elapsed = 0 /\ r.grant.vested = 0 /\ r.grant.vest > 0
            /\ r.grant.vest \in Nat /\ r.grant.total \in Nat
        BY <3>1, EconomyAssumption
      <4>2. r.grant.total * 0 = 0 /\ 0 \div r.grant.vest = 0
        BY <4>1
      <4> QED
        BY <4>1, <4>2 DEF OnSchedule
    <3> QED
      BY <3>1
  <2> QED
    BY <2>1 DEF GrantsOnSchedule, OnSchedule
<1> QED
  BY <1>1, <1>2, <1>3, <1>4, <1>5

\* Fewer rows are as consistent as before.
LEMMA LeavesKeeps ==
    ASSUME StaffInv, NEW e \in employment, Leaves(e), jobs' \in Seq(Postings)
    PROVE  StaffInv'
BY DEF StaffInv, FirmOK, Leaves, Active, NobodyEmploysThemselves, GrantsOnSchedule

\* A row that is changed in place stays its player's only one.
LEMMA ChangesKeeps ==
    ASSUME StaffInv, NEW e \in employment, NEW f \in Staff, Changes(e, f),
           jobs' \in Seq(Postings)
    PROVE  StaffInv'
BY DEF StaffInv, FirmOK, Changes, Replace, Active, NobodyEmploysThemselves, GrantsOnSchedule

\* A company that has never been founded has no staff yet.
LEMMA FoundsKeeps ==
    ASSUME StaffInv, NEW u \in Users, NEW c \in Companies, Founds(u, c),
           jobs' \in Seq(Postings)
    PROVE  StaffInv'
<1> USE DEF StaffInv, FirmOK, Founds
<1>1. FirmOK'
  OBVIOUS
<1>2. \A e \in employment : e.company = State \/ (Active(e.company) /\ e.company # c)
  BY DEF Active
<1>3. \A e \in employment' : e.company = State \/ Active(e.company)'
  BY <1>2 DEF Active
<1>4. NobodyEmploysThemselves'
  BY <1>2 DEF NobodyEmploysThemselves, Active
<1>5. GrantsOnSchedule'
  BY DEF GrantsOnSchedule
<1> QED
  BY <1>1, <1>3, <1>4, <1>5

\* A company that is acquired takes its rows along.
LEMMA AbsorbsKeeps ==
    ASSUME StaffInv, NEW t \in Companies, Absorbs(t), jobs' \in Seq(Postings)
    PROVE  StaffInv'
<1> USE DEF StaffInv, FirmOK, Absorbs
<1>1. FirmOK'
  OBVIOUS
<1>2. \A e \in employment' : e.company = State \/ Active(e.company)'
  BY DEF Active, RowsAt
<1>3. NobodyEmploysThemselves' /\ GrantsOnSchedule'
  BY DEF NobodyEmploysThemselves, GrantsOnSchedule
<1> QED
  BY <1>1, <1>2, <1>3

\* A close vests and clocks out, and removes the rows of the bankrupt.
LEMMA ClosesKeeps ==
    ASSUME StaffInv, NEW dead \in SUBSET Companies, NEW aged \in BOOLEAN,
           Closes(dead, aged), jobs' \in Seq(Postings)
    PROVE  StaffInv'
<1> USE DEF StaffInv, FirmOK
<1>1. PICK row \in [employment -> Staff] :
        /\ employment' = {row[e] : e \in {f \in employment : f.company \notin dead}}
        /\ \A e \in employment :
            /\ row[e].user = e.user /\ row[e].company = e.company
            /\ row[e].grant = IF aged THEN Aged(e.grant) ELSE e.grant
  BY DEF Closes
<1>2. FirmOK'
  BY DEF Closes
<1>3. employment' \subseteq Staff
  BY <1>1
<1>4. \A e, f \in employment' : e.user = f.user => e = f
  BY <1>1
<1>5. \A e \in employment' : e.company = State \/ Active(e.company)'
  BY <1>1 DEF Closes, Active
<1>6. NobodyEmploysThemselves'
  BY <1>1 DEF Closes, NobodyEmploysThemselves
<1>7. GrantsOnSchedule'
  <2>1. ASSUME NEW e \in employment
        PROVE  row[e].grant = NoGrant \/ OnSchedule(row[e].grant)
    <3>1. e.grant \in Terms /\ (e.grant # NoGrant => OnSchedule(e.grant))
      BY DEF Staff, GrantsOnSchedule, OnSchedule
    <3> QED
      BY <1>1, <3>1, GrantAges
  <2> QED
    BY <1>1, <2>1 DEF GrantsOnSchedule, OnSchedule
<1> QED
  BY <1>2, <1>3, <1>4, <1>5, <1>6, <1>7

\* The six ways to change the table keep its invariant.
LEMMA MovesKeep ==
    ASSUME StaffInv, StaffMoves, jobs' \in Seq(Postings)
    PROVE  StaffInv'
<1>1. CASE UNCHANGED <<day, status, owner, employment>>
  BY <1>1 DEF StaffInv, FirmOK, Active, NobodyEmploysThemselves, GrantsOnSchedule
<1> QED
  BY <1>1, HiresKeeps, LeavesKeeps, ChangesKeeps, FoundsKeeps, AbsorbsKeeps, ClosesKeeps
  DEF StaffMoves

----------------------------------------------------------------------------
\* The offers.

OfferInv == offers \subseteq Bids /\ OffersLive

\* Offers are made between companies in business, and go with either of them.
OfferMoves ==
    \/ UNCHANGED <<offers, status, owner>>
    \/ \E u \in Users, c \in Companies : Founds(u, c) /\ offers' = offers
    \/ \E a, t \in Companies, amount \in Prices : Offer(a, t, amount)
    \/ \E gone \in SUBSET Companies :
        /\ offers' \subseteq OffersWithout(gone)
        /\ status' = [c \in Companies |-> IF c \in gone THEN "retired" ELSE status[c]]
        /\ owner' = owner

\* Every step changes the offers in one of the ways of OfferMoves.
LEMMA StepOffers ==
    ASSUME FirmOK, OfferInv, Next
    PROVE  OfferMoves
<1> USE DEF FirmOK, OfferInv
<1>0. UNCHANGED <<offers, status, owner>> => OfferMoves
  BY DEF OfferMoves
<1>1. ASSUME NEW u \in Users, NEW c \in Companies, Found(u, c) PROVE OfferMoves
  BY <1>1 DEF Found, Founds, OfferMoves, labor
<1>2. ASSUME NEW o \in offers, Accept(o) PROVE OfferMoves
  <2>1. o.target \in Companies
    BY DEF Bids
  <2>2. /\ offers' \subseteq OffersWithout({o.target})
        /\ owner' = owner
        /\ status' = [c \in Companies |-> IF c \in {o.target} THEN "retired" ELSE status[c]]
    BY <1>2 DEF Accept
  <2> QED
    BY <2>1, <2>2 DEF OfferMoves
<1>3. ASSUME NEW o, Decline(o) PROVE OfferMoves
  <2>1. /\ offers' \subseteq OffersWithout({})
        /\ owner' = owner
        /\ status' = [c \in Companies |-> IF c \in {} THEN "retired" ELSE status[c]]
    BY <1>3 DEF Decline, OffersWithout, firm
  <2> QED
    BY <2>1 DEF OfferMoves
<1>4. ASSUME TickOpen PROVE OfferMoves
  <2>1. PICK realized : SettleBusinessDay(realized)
    BY <1>4 DEF TickOpen
  <2> DEFINE cash == Credit(treasury, realized)
             days == [c \in Companies |-> InsolventAfter(c, cash[c])]
  <2>2. /\ offers' = OffersWithout(Bankrupt(days))
        /\ status' = [c \in Companies |->
                        IF c \in Bankrupt(days) THEN "retired" ELSE status[c]]
    BY <2>1 DEF SettleBusinessDay
  <2>3. Bankrupt(days) \in SUBSET Companies
    BY DEF Bankrupt
  <2> QED
    BY <1>4, <2>2, <2>3 DEF OfferMoves, TickOpen
<1>5. ASSUME NEW c, NEW u, NEW amount, NEW r,
             \/ OpenRound(c, r.amount, r.pct)
             \/ Invest(u, c, amount)
             \/ CloseRound(c)
             \/ Deposit(c, amount)
             \/ Dividend(c, amount)
      PROVE  OfferMoves
  BY <1>0, <1>5 DEF OpenRound, Invest, CloseRound, Deposit, Dividend, firm
<1>6. CASE CapitalStep
  <2>1. ASSUME NEW a \in Companies, NEW t \in Companies, NEW amount \in Prices,
               Offer(a, t, amount)
        PROVE  OfferMoves
    BY <2>1 DEF OfferMoves
  <2> QED
    BY <1>2, <1>3, <1>5, <1>6, <2>1 DEF CapitalStep
<1>7. ASSUME NEW e, NEW j, NEW u, NEW x, NEW c, NEW y,
             \/ Hire(j, u) \/ Fire(e) \/ Promote(e, x) \/ Quit(e)
             \/ Apply(u, j) \/ ApplyToState(u, x)
             \/ ClockIn(e, x) \/ ClockOut(e) \/ PostJob(c, x, y)
      PROVE  OfferMoves
  BY <1>0, <1>7 DEF Hire, Fire, Promote, Quit, Apply, ApplyToState, ClockIn, ClockOut,
                    PostJob, firm
<1>8. ASSUME NEW x, PrintMoney(x) \/ SetTaxRate(x) PROVE OfferMoves
  BY <1>0, <1>8 DEF PrintMoney, SetTaxRate, firm
<1>9. ASSUME TickClosed PROVE OfferMoves
  BY <1>0, <1>9 DEF TickClosed, firm
<1>10. CASE CompanyStep
  BY <1>1, <1>7, <1>10 DEF CompanyStep
<1>11. CASE PlayerStep
  BY <1>7, <1>11 DEF PlayerStep
<1>12. CASE AskedStep
  BY <1>7, <1>8, <1>12 DEF AskedStep
<1>13. CASE ManagerStep
  BY <1>8, <1>13 DEF ManagerStep
<1>14. CASE CloseStep
  BY <1>4, <1>9, <1>14 DEF CloseStep
<1> QED
  BY <1>6, <1>10, <1>11, <1>12, <1>13, <1>14 DEF Next, DirectStep

\* None of these ways leaves an offer that names a company gone.
LEMMA OfferMovesKeep ==
    ASSUME FirmOK, OfferInv, OfferMoves
    PROVE  OfferInv'
<1> USE DEF FirmOK, OfferInv
<1>1. CASE UNCHANGED <<offers, status, owner>>
  BY <1>1 DEF OffersLive, Active
<1>2. ASSUME NEW u \in Users, NEW c \in Companies, Founds(u, c), offers' = offers
      PROVE  OfferInv'
  <2>1. \A o \in offers : c \notin {o.acquirer, o.target}
    BY <1>2 DEF OffersLive, Active, Founds
  <2> QED
    BY <1>2, <2>1 DEF OffersLive, Active, Founds, Bids
<1>3. ASSUME NEW a \in Companies, NEW t \in Companies, NEW amount \in Prices,
             Offer(a, t, amount)
      PROVE  OfferInv'
  <2> DEFINE new == [acquirer |-> a, target |-> t, amount |-> amount]
  <2>1. new \in Bids
    BY EconomyAssumption DEF Bids
  <2> QED
    BY <1>3, <2>1 DEF Offer, OffersLive, Active, firm
<1>4. ASSUME NEW gone \in SUBSET Companies,
             offers' \subseteq OffersWithout(gone),
             status' = [c \in Companies |-> IF c \in gone THEN "retired" ELSE status[c]],
             owner' = owner
      PROVE  OfferInv'
  BY <1>4 DEF OffersWithout, OffersLive, Active
<1> QED
  BY <1>1, <1>2, <1>3, <1>4 DEF OfferMoves

----------------------------------------------------------------------------
\* The theorems.

\* Rows and offers are consistent in every state.
LEMMA Invariant == Spec => [](StaffInv /\ OfferInv)
<1>1. Init => StaffInv /\ OfferInv
  BY EconomyAssumption
  DEF Init, StaffInv, FirmOK, OfferInv, OffersLive, NobodyEmploysThemselves, GrantsOnSchedule
<1>2. StaffInv /\ OfferInv /\ [Next]_vars => (StaffInv /\ OfferInv)'
  <2> SUFFICES ASSUME StaffInv, OfferInv, [Next]_vars PROVE (StaffInv /\ OfferInv)'
    OBVIOUS
  <2>1. CASE Next
    <3>1. StaffInv'
      BY <2>1, StepStaff, MovesKeep DEF OfferInv
    <3>2. OfferInv'
      BY <2>1, StepOffers, OfferMovesKeep DEF StaffInv
    <3> QED
      BY <3>1, <3>2
  <2>2. CASE UNCHANGED vars
    BY <2>2 DEF vars, firm, labor, StaffInv, FirmOK, OfferInv, OffersLive, Active,
                NobodyEmploysThemselves, GrantsOnSchedule
  <2> QED
    BY <2>1, <2>2
<1> QED
  BY <1>1, <1>2, PTL DEF Spec

\* However many owners accept the applications of a player who may also take a
\* state job, only one of them ends up as the employer.
THEOREM OneJob == Spec => []OneJobEach
<1>1. StaffInv => OneJobEach
  <2> SUFFICES ASSUME StaffInv, NEW u \in Users PROVE Cardinality(RowsOf(u)) <= 1
    BY DEF OneJobEach
  <2>1. CASE RowsOf(u) = {}
    BY <2>1, FS_EmptySet
  <2>2. ASSUME NEW e \in RowsOf(u) PROVE Cardinality(RowsOf(u)) <= 1
    <3>1. RowsOf(u) = {e}
      BY DEF RowsOf, StaffInv
    <3>2. Cardinality({e}) = 1
      BY FS_Singleton
    <3> QED
      BY <3>1, <3>2
  <2> QED
    BY <2>1, <2>2
<1> QED
  BY <1>1, Invariant, PTL

\* Nobody is paid by a company of their own, although postings change owners.
THEOREM OwnersElsewhere == Spec => []NobodyEmploysThemselves
<1>1. StaffInv => NobodyEmploysThemselves
  BY DEF StaffInv
<1> QED
  BY <1>1, Invariant, PTL

\* Vesting is exact at every close of every grant's life.
THEOREM VestsOnSchedule == Spec => []GrantsOnSchedule
<1>1. StaffInv => GrantsOnSchedule
  BY DEF StaffInv
<1> QED
  BY <1>1, Invariant, PTL

\* No offer outlives either of its companies, and there is one per pair.
THEOREM OffersStayLive == Spec => []OffersLive
<1>1. OfferInv => OffersLive
  BY DEF OfferInv
<1> QED
  BY <1>1, Invariant, PTL

\* Nobody who is clocked in is out of the job before the close.
THEOREM NobodyLosesADay == Spec => AttendanceHonored
<1> DEFINE Kept == day' = day =>
                \A e \in employment : e.clocked =>
                    \E f \in employment' : f.user = e.user /\ f.company = e.company
                                           /\ f.wage >= e.wage
<1>1. StaffInv /\ OfferInv /\ [Next]_vars => Kept
  <2> SUFFICES ASSUME StaffInv, OfferInv, [Next]_vars, day' = day,
                      NEW e \in employment, e.clocked
               PROVE  \E f \in employment' : f.user = e.user /\ f.company = e.company
                                             /\ f.wage >= e.wage
    OBVIOUS
  <2>0. e \in Staff /\ e.wage >= e.wage
    BY DEF StaffInv, Staff
  <2>1. CASE employment' = employment
    BY <2>0, <2>1
  <2>2. ASSUME NEW r \in Staff, Hires(r) PROVE e \in employment'
    BY <2>2 DEF Hires
  <2>3. ASSUME NEW l \in employment, Leaves(l) PROVE e \in employment'
    BY <2>3 DEF Leaves
  <2>4. ASSUME NEW l \in employment, NEW f \in Staff, Changes(l, f)
        PROVE  e \in employment' \/ (l = e /\ f \in employment')
    BY <2>4 DEF Changes, Replace
  <2>5. ASSUME NEW t \in Companies, Absorbs(t) PROVE e \in employment'
    BY <2>5 DEF Absorbs, Workers
  <2>6. ASSUME NEW dead, NEW aged, Closes(dead, aged) PROVE FALSE
    BY <2>6 DEF Closes, StaffInv, FirmOK
  <2>7. StaffMoves \/ employment' = employment
    BY StepStaff DEF OfferInv, vars, labor
  <2>8. CASE e \in employment'
    BY <2>0, <2>8
  <2> QED
    BY <2>1, <2>2, <2>3, <2>4, <2>5, <2>6, <2>7, <2>8 DEF StaffMoves, Founds, Changes
<1>2. StaffInv /\ OfferInv /\ [Next]_vars => [Kept]_vars
  BY <1>1
<1> QED
  BY <1>2, Invariant, PTL DEF Spec, AttendanceHonored
=============================================================================
