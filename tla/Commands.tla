------------------------------ MODULE Commands ------------------------------
(***************************************************************************)
(* The commands that talk with their author before they act, on top of     *)
(* Economy: $print and $quit show what will happen and wait for a          *)
(* confirmation, $postjob asks two questions (cogs/admin.py,               *)
(* cogs/player.py, cogs/company.py, discordutil.py).                       *)
(*                                                                         *)
(* Each reads the database in one transaction, waits up to minutes without *)
(* the lock, and acts in another one.  Meanwhile every other command and   *)
(* the close may run, and the same author may start the command again.     *)
(* The inflation index is here, for $print is all that moves it.           *)
(***************************************************************************)
EXTENDS Economy

CONSTANTS
    Chats,       \* conversations that may be open at once
    AnyCompany   \* $quit without a ticker

ASSUME CommandsAssumption ==
    /\ StartingPool > 0
    /\ AnyCompany \notin Employers

VARIABLES
    index,   \* ServerState.inflation_index, as a fraction
    chat     \* what each conversation is about, and where it is

talkVars == <<vars, index, chat>>

Closed == [about |-> "nothing"]

TalkInit ==
    /\ Init
    /\ index = [num |-> 1, den |-> 1]
    /\ chat = [t \in Chats |-> Closed]

\* An author asks something the database allows; no row changes.
Begins(t, talk) ==
    /\ chat[t] = Closed
    /\ chat' = [chat EXCEPT ![t] = talk]
    /\ UNCHANGED <<vars, index>>

Continues(t, talk) ==
    /\ chat' = [chat EXCEPT ![t] = talk]
    /\ UNCHANGED <<vars, index>>

Ends(t) == chat' = [chat EXCEPT ![t] = Closed]

\* A refusal, `cancel`, the timeout, or an error: a second malformed line, or
\* a last transaction that finds it must refuse.
GiveUp(t) ==
    /\ chat[t] # Closed
    /\ Continues(t, Closed)

\* Conversations are coroutines: a restart of the bot ends them all.
Restart ==
    /\ chat' = [t \in Chats |-> Closed]
    /\ UNCHANGED <<vars, index>>

----------------------------------------------------------------------------
\* $print: the preview shows the supply and what becomes of the index.

\* projected_index, of an economy with that much money in it.
Projected(amount, supply) ==
    [num |-> index.num * (supply + amount), den |-> index.den * supply]

AskPrint(t, amount) ==
    Begins(t, [about |-> "print", amount |-> amount, supply |-> MoneySupply])

\* Changed form: the confirmed print applies what the preview showed.
IndexAfter_AsShown(talk) == Projected(talk.amount, talk.supply)

\* print_money takes the supply of its own transaction.
IndexAfter(talk) == Projected(talk.amount, MoneySupply)

ConfirmPrint(t) ==
    /\ chat[t].about = "print"
    /\ PrintMoney(chat[t].amount)
    /\ index' = IndexAfter(chat[t])
    /\ Ends(t)

----------------------------------------------------------------------------
\* $quit [ticker]

\* Changed form: the ticker is only compared before the question.
ConfirmQuit_AnyJob(t) ==
    /\ chat[t].about = "quit"
    /\ \E e \in RowsOf(chat[t].user) : Quit(e)
    /\ Ends(t)
    /\ UNCHANGED index

\* _resolve_employment: the player's job, if it is at the company named.
JobNamed(u, c) == {e \in RowsOf(u) : c \in {AnyCompany, e.company}}

\* employment_summary refuses during a shift, as quit_job will again.
AskQuit(t, u, c) ==
    /\ \E e \in JobNamed(u, c) : ~e.clocked
    /\ Begins(t, [about |-> "quit", user |-> u, company |-> c])

\* What is quit is the job at this moment, whichever the preview showed.
ConfirmQuit(t) ==
    /\ chat[t].about = "quit"
    /\ \E e \in JobNamed(chat[t].user, chat[t].company) : Quit(e)
    /\ Ends(t)
    /\ UNCHANGED index

----------------------------------------------------------------------------
\* $postjob <ticker>: the fields, once more if they are malformed, then the
\* description.

AskPost(t, u, c) ==
    /\ Owns(u, c)
    /\ Begins(t, [about |-> "fields", company |-> c, tries |-> 1])

AnswerFields(t, wage, terms) ==
    /\ chat[t].about = "fields"
    /\ Continues(t, [about |-> "description", company |-> chat[t].company,
                     wage |-> wage, grant |-> terms])

\* A malformed line is asked for once more; the second one is an error.
MistypeFields(t) ==
    /\ chat[t].about = "fields"
    /\ chat[t].tries = 1
    /\ Continues(t, [chat[t] EXCEPT !.tries = 2])

\* Changed form: the company is as it was when the questions were asked.
Post_Unchecked(c, wage, terms) ==
    /\ Len(jobs) < MaxJobs
    /\ jobs' = Append(jobs, [company |-> c, wage |-> wage, grant |-> terms, open |-> TRUE])
    /\ UNCHANGED <<day, taxRate, purse, firm, treasury, equity, pending, employment, offers>>

\* post_job looks the company up again, and its shares for the grant's cap.
Post(c, wage, terms) == PostJob(c, wage, terms)

AnswerDescription(t) ==
    /\ chat[t].about = "description"
    /\ Post(chat[t].company, chat[t].wage, chat[t].grant)
    /\ Ends(t)
    /\ UNCHANGED index

----------------------------------------------------------------------------
TalkStep(t) ==
    \/ \E amount \in Prints : AskPrint(t, amount)
    \/ ConfirmPrint(t)
    \/ \E u \in Users, c \in Employers \cup {AnyCompany} : AskQuit(t, u, c)
    \/ ConfirmQuit(t)
    \/ \E u \in Users, c \in Companies : AskPost(t, u, c)
    \/ \E wage \in Wages, terms \in Grants : AnswerFields(t, wage, terms)
    \/ MistypeFields(t)
    \/ AnswerDescription(t)
    \/ GiveUp(t)

TalkNext ==
    \/ \E t \in Chats : TalkStep(t)
    \/ DirectStep /\ UNCHANGED <<index, chat>>
    \/ Restart

TalkSpec == TalkInit /\ [][TalkNext]_talkVars

----------------------------------------------------------------------------
(***************************************************************************)
(* Properties.                                                             *)
(***************************************************************************)

\* Whatever is asked, answered late, asked twice or cut off, the database only
\* takes steps that Economy allows at that moment: what was checked before a
\* question is checked again after it.
ActsAsEconomy == Spec

\* The index is how many times the money supply has grown since the start,
\* however the previews and confirmations of several prints interleave
\* (DESIGN.md:28-35, money.py print_money).
IndexIsSupplyRatio == index.num * StartingPool = index.den * MoneySupply

\* A player who named a company, and by the time of the confirmation works
\* elsewhere (fired, acquired, hired again), keeps the other job
\* (employment.py _resolve_employment).
NamedQuit ==
    [][\A t \in Chats : chat[t].about = "quit" /\ chat'[t] = Closed =>
        \A e \in RowsOf(chat[t].user) :
            chat[t].company \notin {AnyCompany, e.company} => e \in employment']_talkVars
=============================================================================
