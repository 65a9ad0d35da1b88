------------------------------ MODULE Dashboard ------------------------------
(***************************************************************************)
(* What the client sees of a wallet: the dashboard sums the balances in    *)
(* one query and lists the transactions in the next, and wallet history    *)
(* lists them by a filter.  Other requests and the webhooks run between.   *)
(***************************************************************************)
EXTENDS Ledger

VARIABLES
  view,    \* the answer being put together, of one dashboard at a time
  moved    \* whether PERFORMED rows of its wallet changed since its first query

viewVars == <<view, moved>>

NoView == [pc |-> "none", wallet |-> Null, balance |-> 0, list |-> {}]

DashboardTypeOK ==
  /\ view \in [pc : {"none", "summed", "shown", "history"}, wallet : Wallet \cup {Null},
               balance : Int, list : SUBSET Row]
  /\ moved \in BOOLEAN

DashboardInit == view = NoView /\ moved = FALSE

-----------------------------------------------------------------------------
\* getWalletBalances: a wallet without rows shows 0.
ReadBalances(w) ==
  /\ view.pc = "none"
  /\ view' = [NoView EXCEPT !.pc = "summed", !.wallet = w,
                            !.balance = Balance(w)]
  /\ moved' = FALSE

\* Mutant: the list shows payments in progress too.
ListedAny(w, kinds) == {t \in transaction : t.wallet = w /\ t.type \in kinds}

\* findManyByFilter: PERFORMED rows, of some types if the query names any.
Listed(w, kinds) == {t \in Performed(w) : t.type \in kinds}

\* The dashboard's list, filtered by nothing.
ReadList ==
  /\ view.pc = "summed"
  /\ view' = [view EXCEPT !.pc = "shown", !.list = Listed(view.wallet, Kind)]
  /\ UNCHANGED moved

\* The answer is sent; a provider that fails to list the cards spoils it.  Or
\* the client leaves its history.
Answered ==
  /\ view.pc \in {"shown", "history"}
  /\ view' = NoView /\ moved' = FALSE

\* getWalletTransactions: one query, of the types the user names.  What it has
\* answered stays on the client's screen.
ReadHistory(w, kinds) ==
  /\ view.pc = "none"
  /\ view' = [NoView EXCEPT !.pc = "history", !.wallet = w,
                            !.list = Listed(w, kinds)]
  /\ UNCHANGED moved

DashboardNext ==
  \/ \E w \in Wallet :
       ReadBalances(w) \/ \E kinds \in SUBSET Kind : ReadHistory(w, kinds)
  \/ ReadList \/ Answered

\* A step of the ledger between the two queries.  The answer that is put
\* together is not looked at again.
LedgerMoves ==
  /\ view.pc # "shown"
  /\ UNCHANGED view
  /\ moved' = (moved \/ (view.pc = "summed" /\
                           Performed(view.wallet)' # Performed(view.wallet)))

DashboardSpec ==
  /\ Init /\ DashboardInit
  /\ [][ \/ Next /\ LedgerMoves
         \/ DashboardNext /\ UNCHANGED vars ]_<<vars, viewVars>>

-----------------------------------------------------------------------------
(***************************************************************************)
(* The dashboard adds up: the incomes less the outgoings it lists are the  *)
(* balance it shows, unless a payment of the wallet was settled between    *)
(* its two queries, which share no transaction.  And what a history has    *)
(* listed stays as it was listed: a webhook that comes later, or again,    *)
(* settles no row twice and takes none back.                               *)
(***************************************************************************)
Incomes   == {t \in view.list : t.affectedAmount > 0}
Outgoings == view.list \ Incomes

Magnitude(t) == IF t.affectedAmount > 0 THEN t.affectedAmount
                ELSE - t.affectedAmount

AddsUp ==
  SumFunction([t \in Incomes |-> Magnitude(t)])
    - SumFunction([t \in Outgoings |-> Magnitude(t)]) = view.balance

HistoryStands == view.pc = "history" => view.list \subseteq Performed(view.wallet)

DashboardAddsUp ==
  /\ DashboardTypeOK
  /\ view.pc = "shown" /\ ~ moved => AddsUp
  /\ HistoryStands
=============================================================================
