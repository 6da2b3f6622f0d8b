--------------------------- MODULE CommandsProofs ---------------------------
(***************************************************************************)
(* Proofs about Commands: whatever the conversations do, the database      *)
(* behaves as Economy says, and the inflation index is true, for any       *)
(* number of players, companies and conversations.                         *)
(***************************************************************************)
EXTENDS Commands, EconomyLedger

\* What a conversation still carries when it comes to act was allowed when it
\* was asked for.
Carries(talk) ==
    /\ talk.about = "print" => talk.amount \in Prints
    /\ talk.about = "fields" =>
        talk \in [about : {"fields"}, company : Companies, tries : {1, 2}]
    /\ talk.about = "description" =>
        talk.company \in Companies /\ talk.wage \in Wages /\ talk.grant \in Grants

ChatInv ==
    /\ chat = [t \in Chats |-> chat[t]]
    /\ \A t \in Chats : Carries(chat[t])

\* A closed conversation carries nothing.
LEMMA ClosedCarries == Carries(Closed)
BY DEF Carries, Closed

\* Whatever one conversation is made, the others stay as they were.
LEMMA ChatSet ==
    ASSUME ChatInv, NEW t \in Chats, NEW talk, Carries(talk),
           chat' = [chat EXCEPT ![t] = talk]
    PROVE  ChatInv'
BY DEF ChatInv, Carries

\* Every step of a conversation keeps ChatInv and is a step of Economy, or
\* leaves the database alone.
LEMMA TalkStepActs ==
    ASSUME ChatInv, NEW t \in Chats, TalkStep(t)
    PROVE  ChatInv' /\ [Next]_vars
<1> USE DEF ChatInv
<1>0. Carries(chat[t])
  OBVIOUS
<1>1. ASSUME NEW amount \in Prints, AskPrint(t, amount)
      PROVE  ChatInv' /\ [Next]_vars
  <2> DEFINE talk == [about |-> "print", amount |-> amount, supply |-> MoneySupply]
  <2>1. Carries(talk)
    BY DEF Carries
  <2>2. chat' = [chat EXCEPT ![t] = talk] /\ UNCHANGED vars
    BY <1>1 DEF AskPrint, Begins
  <2> HIDE DEF talk
  <2> QED
    BY <2>1, <2>2, ChatSet
<1>2. ASSUME ConfirmPrint(t) PROVE ChatInv' /\ [Next]_vars
  <2>1. PrintMoney(chat[t].amount) /\ chat[t].amount \in Prints
    BY <1>0, <1>2 DEF ConfirmPrint, Carries
  <2>2. Next
    BY <2>1 DEF Next, AskedStep
  <2> QED
    BY <1>2, <2>2, ClosedCarries, ChatSet DEF ConfirmPrint, Ends
<1>3. ASSUME NEW u \in Users, NEW c \in Employers \cup {AnyCompany}, AskQuit(t, u, c)
      PROVE  ChatInv' /\ [Next]_vars
  <2> DEFINE talk == [about |-> "quit", user |-> u, company |-> c]
  <2>1. Carries(talk)
    BY DEF Carries
  <2>2. chat' = [chat EXCEPT ![t] = talk] /\ UNCHANGED vars
    BY <1>3 DEF AskQuit, Begins
  <2> HIDE DEF talk
  <2> QED
    BY <2>1, <2>2, ChatSet
<1>4. ASSUME ConfirmQuit(t) PROVE ChatInv' /\ [Next]_vars
  <2>1. PICK e \in JobNamed(chat[t].user, chat[t].company) : Quit(e)
    BY <1>4 DEF ConfirmQuit
  <2>2. e \in employment
    BY DEF JobNamed, RowsOf
  <2>3. Next
    BY <2>1, <2>2 DEF Next, AskedStep
  <2> QED
    BY <1>4, <2>3, ClosedCarries, ChatSet DEF ConfirmQuit, Ends
<1>5. ASSUME NEW u \in Users, NEW c \in Companies, AskPost(t, u, c)
      PROVE  ChatInv' /\ [Next]_vars
  <2> DEFINE talk == [about |-> "fields", company |-> c, tries |-> 1]
  <2>1. Carries(talk)
    BY DEF Carries
  <2>2. chat' = [chat EXCEPT ![t] = talk] /\ UNCHANGED vars
    BY <1>5 DEF AskPost, Begins
  <2> HIDE DEF talk
  <2> QED
    BY <2>1, <2>2, ChatSet
<1>6. ASSUME NEW wage \in Wages, NEW terms \in Grants, AnswerFields(t, wage, terms)
      PROVE  ChatInv' /\ [Next]_vars
  <2> DEFINE talk == [about |-> "description", company |-> chat[t].company,
                      wage |-> wage, grant |-> terms]
  <2>1. Carries(talk)
    BY <1>0, <1>6 DEF Carries, AnswerFields
  <2>2. chat' = [chat EXCEPT ![t] = talk] /\ UNCHANGED vars
    BY <1>6 DEF AnswerFields, Continues
  <2> HIDE DEF talk
  <2> QED
    BY <2>1, <2>2, ChatSet
<1>7. ASSUME MistypeFields(t) PROVE ChatInv' /\ [Next]_vars
  <2> DEFINE talk == [chat[t] EXCEPT !.tries = 2]
  <2>1. chat[t] \in [about : {"fields"}, company : Companies, tries : {1, 2}]
    BY <1>0, <1>7 DEF Carries, MistypeFields
  <2>2. Carries(talk)
    BY <2>1 DEF Carries
  <2>3. chat' = [chat EXCEPT ![t] = talk] /\ UNCHANGED vars
    BY <1>7 DEF MistypeFields, Continues
  <2> HIDE DEF talk
  <2> QED
    BY <2>2, <2>3, ChatSet
<1>8. ASSUME AnswerDescription(t) PROVE ChatInv' /\ [Next]_vars
  <2>1. /\ PostJob(chat[t].company, chat[t].wage, chat[t].grant)
        /\ chat[t].company \in Companies
        /\ chat[t].wage \in Wages /\ chat[t].grant \in Grants
    BY <1>0, <1>8 DEF AnswerDescription, Post, Carries
  <2>2. Next
    BY <2>1 DEF Next, AskedStep
  <2> QED
    BY <1>8, <2>2, ClosedCarries, ChatSet DEF AnswerDescription, Ends
<1>9. ASSUME GiveUp(t) PROVE ChatInv' /\ [Next]_vars
  BY <1>9, ClosedCarries, ChatSet DEF GiveUp, Continues
<1> QED
  BY <1>1, <1>2, <1>3, <1>4, <1>5, <1>6, <1>7, <1>8, <1>9 DEF TalkStep

\* So is every step of the conversations and the direct commands together.
LEMMA StepActs == ChatInv /\ [TalkNext]_talkVars => ChatInv' /\ [Next]_vars
<1> SUFFICES ASSUME ChatInv, [TalkNext]_talkVars PROVE ChatInv' /\ [Next]_vars
  OBVIOUS
<1>1. CASE \E t \in Chats : TalkStep(t)
  BY <1>1, TalkStepActs
<1>2. CASE DirectStep /\ UNCHANGED <<index, chat>>
  BY <1>2 DEF Next, ChatInv
<1>3. CASE Restart
  BY <1>3, ClosedCarries DEF Restart, ChatInv
<1>4. CASE UNCHANGED talkVars
  BY <1>4 DEF talkVars, ChatInv
<1> QED
  BY <1>1, <1>2, <1>3, <1>4 DEF TalkNext

\* Commands implements Economy: between a question and its answer anything may
\* happen, yet whatever is done in the end Economy allows at that moment.
THEOREM Implements == TalkSpec => ActsAsEconomy
<1>1. TalkInit => Init /\ ChatInv
  BY ClosedCarries DEF TalkInit, ChatInv
<1> QED
  BY <1>1, StepActs, PTL DEF TalkSpec, ActsAsEconomy, Spec

----------------------------------------------------------------------------
\* The confirmation of a $quit.

QuitsAsNamed ==
    \A t \in Chats : chat[t].about = "quit" /\ chat'[t] = Closed =>
        \A e \in RowsOf(chat[t].user) :
            chat[t].company \notin {AnyCompany, e.company} => e \in employment'

\* Only a confirmation, a refusal or a restart ends the conversation of a
\* $quit, and of these only the confirmation ends a job: one at the company.
LEMMA StepQuits == ChatInv /\ [TalkNext]_talkVars => QuitsAsNamed
<1> SUFFICES ASSUME ChatInv, [TalkNext]_talkVars,
                    NEW t \in Chats, chat[t].about = "quit", chat'[t] = Closed,
                    NEW e \in RowsOf(chat[t].user),
                    chat[t].company \notin {AnyCompany, e.company}
             PROVE  e \in employment'
  BY DEF QuitsAsNamed
<1>1. chat[t] # Closed
  BY DEF Closed
<1>2. e \in employment /\ e.user = chat[t].user
  BY DEF RowsOf
<1>3. ASSUME NEW s \in Chats, TalkStep(s), s # t PROVE FALSE
  <2>1. PICK talk : chat' = [chat EXCEPT ![s] = talk]
    BY <1>3 DEF TalkStep, AskPrint, ConfirmPrint, AskQuit, ConfirmQuit, AskPost,
                AnswerFields, MistypeFields, AnswerDescription, GiveUp,
                Begins, Continues, Ends
  <2> QED
    BY <1>1, <1>3, <2>1 DEF ChatInv
<1>4. ASSUME TalkStep(t) PROVE ConfirmQuit(t) \/ UNCHANGED vars
  BY <1>1, <1>4 DEF TalkStep, AskPrint, ConfirmPrint, AskQuit, AskPost, AnswerFields,
                    MistypeFields, AnswerDescription, GiveUp, Begins, Continues
<1>5. CASE ConfirmQuit(t)
  <2>1. PICK f \in JobNamed(chat[t].user, chat[t].company) : Quit(f)
    BY <1>5 DEF ConfirmQuit
  <2>2. f # e
    BY DEF JobNamed
  <2> QED
    BY <1>2, <2>1, <2>2 DEF Quit
<1>6. CASE UNCHANGED vars
  BY <1>2, <1>6 DEF vars, labor
<1>7. CASE UNCHANGED chat
  BY <1>1, <1>7
<1> QED
  BY <1>3, <1>4, <1>5, <1>6, <1>7 DEF TalkNext, Restart, talkVars

\* A $quit that names a company never ends a job at another one, whatever has
\* happened to the player between question and confirmation.
THEOREM QuitsTheJobNamed == TalkSpec => NamedQuit
<1>1. TalkInit => ChatInv
  BY ClosedCarries DEF TalkInit, ChatInv
<1>2. ChatInv /\ [TalkNext]_talkVars => ChatInv' /\ [QuitsAsNamed]_talkVars
  BY StepActs, StepQuits
<1>3. TalkSpec => [][QuitsAsNamed]_talkVars
  BY <1>1, <1>2, PTL DEF TalkSpec
<1>4. NamedQuit <=> [][QuitsAsNamed]_talkVars
  BY PTL DEF NamedQuit, QuitsAsNamed
<1> QED
  BY <1>3, <1>4

----------------------------------------------------------------------------
\* The inflation index.

IndexInv ==
    /\ index \in [num : Nat, den : Nat]
    /\ IndexIsSupplyRatio

\* Only a print adds to the history of prints.
LEMMA OthersPrintNothing ==
    ASSUME DirectStep \/ (\E e : Quit(e)) \/ (\E c, wage, terms : PostJob(c, wage, terms))
    PROVE  printed' = printed
<1>1. ASSUME NEW c, NEW j, NEW u, NEW e, NEW x, NEW y, NEW r,
             \/ Found(u, c) \/ Hire(j, u) \/ Fire(e) \/ Quit(e) \/ Promote(e, x)
             \/ ClockIn(e, x) \/ ClockOut(e) \/ Apply(u, j) \/ ApplyToState(u, x)
             \/ PostJob(c, x, y) \/ OpenRound(c, r.amount, r.pct) \/ Invest(u, c, x)
             \/ CloseRound(c) \/ Deposit(c, x) \/ Dividend(c, x)
             \/ Offer(c, x, y) \/ Accept(e) \/ Decline(e) \/ SetTaxRate(x)
             \/ TickOpen \/ TickClosed
      PROVE  printed' = printed
  BY <1>1 DEF Found, Hire, Fire, Quit, Promote, ClockIn, ClockOut, Apply, ApplyToState,
              PostJob, OpenRound, Invest, CloseRound, Deposit, Dividend, Offer, Accept,
              Decline, SetTaxRate, TickOpen, TickClosed, purse
<1>2. CASE CompanyStep
  BY <1>1, <1>2 DEF CompanyStep
<1>3. CASE PlayerStep
  BY <1>1, <1>3 DEF PlayerStep
<1>4. CASE CapitalStep
  BY <1>1, <1>4 DEF CapitalStep
<1>5. CASE ManagerStep \/ CloseStep
  BY <1>1, <1>5 DEF ManagerStep, CloseStep
<1> QED
  BY <1>1, <1>2, <1>3, <1>4, <1>5 DEF DirectStep

\* A step of the conversations prints with the index, or does neither.
LEMMA PrintsMoveIndex ==
    ASSUME ChatInv, [TalkNext]_talkVars
    PROVE  \/ index' = index /\ printed' = printed
           \/ \E amount \in Prints :
                PrintMoney(amount) /\ index' = Projected(amount, MoneySupply)
<1> DEFINE Idle == index' = index /\ printed' = printed
           Moves == \E amount \in Prints :
                        PrintMoney(amount) /\ index' = Projected(amount, MoneySupply)
<1> SUFFICES Idle \/ Moves
  OBVIOUS
<1>1. UNCHANGED <<vars, index>> => Idle
  BY DEF vars, purse
<1>2. ASSUME NEW t \in Chats, ConfirmPrint(t) PROVE Moves
  BY <1>2 DEF ConfirmPrint, IndexAfter, ChatInv, Carries
<1>3. ASSUME NEW t \in Chats, ConfirmQuit(t) \/ AnswerDescription(t) PROVE Idle
  <2>1. index' = index
    BY <1>3 DEF ConfirmQuit, AnswerDescription
  <2>2. (\E e : Quit(e)) \/ (\E c, wage, terms : PostJob(c, wage, terms))
    BY <1>3 DEF ConfirmQuit, AnswerDescription, Post
  <2> QED
    BY <2>1, <2>2, OthersPrintNothing
<1>4. CASE DirectStep /\ UNCHANGED <<index, chat>>
  BY <1>4, OthersPrintNothing
<1> HIDE DEF Idle, Moves
<1>5. ASSUME NEW t \in Chats, TalkStep(t) PROVE Idle \/ Moves
  BY <1>1, <1>2, <1>3, <1>5
  DEF TalkStep, AskPrint, AskQuit, AskPost, AnswerFields, MistypeFields, GiveUp,
      Begins, Continues
<1> QED
  BY <1>1, <1>4, <1>5 DEF TalkNext, Restart, talkVars

\* A fraction that is extended by the same factor above and below.
LEMMA Extended ==
    ASSUME NEW num \in Nat, NEW den \in Nat, NEW start \in Nat, NEW supply \in Nat,
           NEW grown \in Nat, num * start = den * supply
    PROVE  (num * grown) * start = (den * supply) * grown
<1>1. (num * grown) * start = (num * start) * grown
  OBVIOUS
<1> QED
  BY <1>1

\* Only prints change the supply, and each extends the index by what it adds to
\* the supply that it finds.
LEMMA StepIndex ==
    ASSUME BooksOK, BooksOK', ChatInv, IndexInv, [TalkNext]_talkVars
    PROVE  IndexInv'
<1>1. PICK supply \in Nat : supply = MoneySupply
  BY Parts DEF BooksOK
<1>2. /\ supply = StartingPool + printed
      /\ MoneySupply' = StartingPool + printed'
      /\ StartingPool \in Nat /\ printed \in Nat
  BY <1>1, EconomyAssumption DEF BooksOK, Conserved, CashOK
<1>3. /\ index \in [num : Nat, den : Nat]
      /\ index.num \in Nat /\ index.den \in Nat
      /\ index.num * StartingPool = index.den * supply
  BY <1>1 DEF IndexInv, IndexIsSupplyRatio
<1>4. CASE index' = index /\ printed' = printed
  <2>1. MoneySupply' = supply
    BY <1>2, <1>4
  <2> QED
    BY <1>3, <1>4, <2>1 DEF IndexInv, IndexIsSupplyRatio
<1>5. ASSUME NEW amount \in Prints, PrintMoney(amount), index' = Projected(amount, MoneySupply)
      PROVE  IndexInv'
  <2> DEFINE grown == supply + amount
  <2>1. amount \in Nat /\ printed' = printed + amount
    BY <1>5, EconomyAssumption DEF PrintMoney
  <2>2. MoneySupply' = grown /\ grown \in Nat
    BY <1>2, <2>1
  <2>3. index' = [num |-> index.num * grown, den |-> index.den * supply]
    BY <1>1, <1>5 DEF Projected
  <2> HIDE DEF grown
  <2>4. index.num * grown \in Nat /\ index.den * supply \in Nat
    BY <1>3, <2>2, Product
  <2>5. (index.num * grown) * StartingPool = (index.den * supply) * grown
    BY <1>2, <1>3, <2>2, Extended
  <2> QED
    BY <2>2, <2>3, <2>4, <2>5 DEF IndexInv, IndexIsSupplyRatio
<1> QED
  BY <1>4, <1>5, PrintsMoveIndex

\* However the previews and confirmations of several prints interleave, the
\* index says how many times the supply has grown.
THEOREM IndexTrue == TalkSpec => []IndexIsSupplyRatio
<1>1. TalkInit => ChatInv
  BY ClosedCarries DEF TalkInit, ChatInv
<1>2. TalkInit /\ BooksOK => IndexInv
  <2> SUFFICES ASSUME TalkInit, BooksOK PROVE IndexInv
    OBVIOUS
  <2>1. index = [num |-> 1, den |-> 1] /\ printed = 0
    BY DEF TalkInit, Init
  <2>2. MoneySupply = StartingPool + printed /\ StartingPool \in Nat
    BY EconomyAssumption DEF BooksOK, Conserved
  <2> QED
    BY <2>1, <2>2 DEF IndexInv, IndexIsSupplyRatio
<1>3. TalkSpec => []BooksOK
  <2>1. TalkSpec => Spec
    BY Implements DEF ActsAsEconomy
  <2> QED
    BY <2>1, BooksBalance, PTL
<1>4. ChatInv /\ [TalkNext]_talkVars => ChatInv'
  BY StepActs
<1>5. BooksOK /\ BooksOK' /\ ChatInv /\ IndexInv /\ [TalkNext]_talkVars => IndexInv'
  BY StepIndex
<1>6. IndexInv => IndexIsSupplyRatio
  BY DEF IndexInv
<1> QED
  BY <1>1, <1>2, <1>3, <1>4, <1>5, <1>6, PTL DEF TalkSpec
=============================================================================
