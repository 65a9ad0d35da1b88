------------------------------- MODULE Charges -------------------------------
(***************************************************************************)
(* What a client is told an operation costs and what it is then charged:   *)
(* the get-fees endpoints quote from the pricing tables, and the apply     *)
(* endpoints read the tables again, with other queries in another order.   *)
(* Nothing carries the quote from one to the other.  The tables have no    *)
(* unique keys, and are edited by hand under the running api.              *)
(* Amounts are in cents, of one country and one currency.                  *)
(***************************************************************************)
EXTENDS Integers

CONSTANTS
  Deal,      \* what clients ask for: a quote, then the operation
  Size,      \* the amounts of deals
  Rate,      \* the rows [percent, fixed] the fee tables may have
  Price,     \* the card prices the table card_price may have
  MaxEdits,  \* bound on the edits of the tables
  MaxTries   \* bound on the operations asked for one deal

ASSUME ChargesAssumption ==
  /\ Size \subseteq Nat \ {0}
  /\ Rate \subseteq [percent : Nat, fixed : Nat]
  /\ Price \subseteq Nat
  /\ MaxEdits \in Nat /\ MaxTries \in Nat

VARIABLES
  rates,   \* the rows of the fee tables
  prices,  \* the rows of the table card_price
  edits,   \* how often the tables were edited
  deal,    \* progress of each deal
  due,     \* the totals asked of the provider or of the ledger, per deal
  tries    \* [sent, lost]: operations that took effect, answers that got lost

chargeVars == <<rates, prices, edits, deal, due, tries>>

Usage    == {"MULTIPLE", "UNIQUE"}
CardType == {"VIRTUAL", "PHYSICAL"}
Wire     == {"deposit", "withdrawal", "transfer", "card_withdrawal"}
Operation == Wire \cup {"topup", "card"}

\* Card orders and top-ups pay the top-up fee of the card's usage.
RateKeys == Wire \cup Usage

NoDeal == [pc |-> "idle", op |-> "none", size |-> 0, usage |-> "UNIQUE",
           shown |-> 0, price |-> 0, fee |-> 0, quote |-> 0, firm |-> TRUE]

Step == {"shown", "half", "quoted", "priced", "ready", "done", "lost",
         "refused"}

ChargesTypeOK ==
  /\ rates \in [RateKeys -> SUBSET Rate]
  /\ prices \in [CardType \X Usage -> SUBSET Price]
  /\ edits \in 0 .. MaxEdits
  /\ \A d \in Deal :
       \/ deal[d] = NoDeal
       \/ /\ deal[d].pc \in Step /\ deal[d].op \in Operation
          /\ deal[d].usage \in Usage
  /\ tries \in [Deal -> [sent : 0 .. MaxTries, lost : 0 .. MaxTries]]

\* Every key has one row.
ChargesInit ==
  /\ \E r, s \in Rate :
       rates = [k \in RateKeys |-> IF k = "UNIQUE" THEN {s} ELSE {r}]
  /\ \E p \in Price : prices = [k \in CardType \X Usage |-> {p}]
  /\ edits = 0
  /\ deal = [d \in Deal |-> NoDeal]
  /\ due = [d \in Deal |-> {}]
  /\ tries = [d \in Deal |-> [sent |-> 0, lost |-> 0]]

-----------------------------------------------------------------------------
(* Amounts.                                                                *)

\* toFixed(2): which of two cents a tie goes to is up to the binary fraction,
\* the same in the quote and in the charge.
ToFixed(n) ==
  CHOOSE c \in {n \div 100, n \div 100 + 1} :
    100 * c - n \in -50 .. 50

FeesApplied(a, r) == ToFixed(a * r.percent) + r.fixed

\* amount_after_fee, amount_to_receive, totalToPay.
Total(op, a, fee, price) ==
  CASE op \in {"withdrawal", "transfer"} -> a - fee
    [] op = "card"                       -> price + a + fee
    [] OTHER                             -> a + fee

\* One row matches.
Only(S) == \E x \in S : S = {x}

Move(d, new) == deal' = [deal EXCEPT ![d] = new]

TurnDown(d) == Move(d, [deal[d] EXCEPT !.pc = "refused"])

Tables == <<rates, prices, edits>>

-----------------------------------------------------------------------------
(* Quotes.                                                                 *)

\* The finders of PricingService: some row that matches, or NotFound.
FeeRows(op, usage) == rates[IF op \in Wire THEN op ELSE usage]

CardPrices(type, usage) == prices[<<type, usage>>]

GetFee(d, op, a, usage) ==
  /\ deal[d].pc = "idle"
  /\ LET rows  == FeeRows(op, usage)
         asked == [NoDeal EXCEPT !.op = op, !.size = a, !.usage = usage]
     IN  \/ \E r \in rows :
              LET fee == FeesApplied(a, r)
              IN  Move(d, [asked EXCEPT !.pc = "quoted", !.fee = fee,
                                        !.quote = Total(op, a, fee, 0),
                                        !.firm = Only(rows)])
         \/ rows = {} /\ Move(d, [asked EXCEPT !.pc = "refused"])
  /\ UNCHANGED <<Tables, due, tries>>

GetDepositFee(d, a)                == GetFee(d, "deposit", a, "UNIQUE")
GetWithdrawalFee(d, a)             == GetFee(d, "withdrawal", a, "UNIQUE")
GetTransferFee(d, a)               == GetFee(d, "transfer", a, "UNIQUE")
GetCardWithdrawalSettings(d, a)    == GetFee(d, "card_withdrawal", a, "UNIQUE")
GetCardTopupSettings(d, a, usage)  == GetFee(d, "topup", a, usage)

Shelf(usage) == CardPrices("VIRTUAL", usage)

\* getCreateCardSettings: a virtual card of each usage must have a price.
GetCreateCardSettings(d, a, usage) ==
  /\ deal[d].pc = "idle"
  /\ LET asked == [NoDeal EXCEPT !.op = "card", !.size = a, !.usage = usage]
     IN  IF \E u \in Usage : Shelf(u) = {}
         THEN Move(d, [asked EXCEPT !.pc = "refused"])
         ELSE \E p \in Shelf(usage) :
                Move(d, [asked EXCEPT !.pc = "shown", !.shown = p,
                                      !.firm = Only(Shelf(usage))])
  /\ UNCHANGED <<Tables, due, tries>>

\* getFeesAppliedTotalToPay: the fee, then the price of a virtual card.
QuoteCardFee(d) ==
  /\ deal[d].pc = "shown"
  /\ LET rows == FeeRows("card", deal[d].usage)
     IN  \/ \E r \in rows :
              Move(d, [deal[d] EXCEPT
                         !.pc = "half", !.fee = FeesApplied(deal[d].size, r),
                         !.firm = @ /\ Only(rows)])
         \/ rows = {} /\ TurnDown(d)
  /\ UNCHANGED <<Tables, due, tries>>

QuoteCardPrice(d) ==
  /\ deal[d].pc = "half"
  /\ LET rows == Shelf(deal[d].usage)
     IN  \/ \E p \in rows :
              Move(d, [deal[d] EXCEPT
                         !.pc = "quoted", !.price = p,
                         !.quote = Total("card", deal[d].size, deal[d].fee, p),
                         !.firm = @ /\ Only(rows)])
         \/ rows = {} /\ TurnDown(d)
  /\ UNCHANGED <<Tables, due, tries>>

-----------------------------------------------------------------------------
(* Charges.  The client sends the amount again, and a card order the type. *)

\* createCard reads the price first, by the type the body asks for.
ReadPrice(d, type) ==
  /\ deal[d].pc = "quoted" /\ deal[d].op = "card"
  /\ tries[d].sent < MaxTries
  /\ LET rows == CardPrices(type, deal[d].usage)
     IN  \/ \E p \in rows :
              Move(d, [deal[d] EXCEPT !.pc = "priced", !.price = p,
                                      !.firm = @ /\ type = "VIRTUAL"])
         \/ rows = {} /\ TurnDown(d)
  /\ UNCHANGED <<Tables, due, tries>>

MayReadRate(d) ==
  \/ deal[d].pc = "priced"
  \/ deal[d].pc = "quoted" /\ deal[d].op # "card" /\ tries[d].sent < MaxTries

\* Mutant: the query forgets the usage of the card.
ReadRateAnyUsage(d) ==
  /\ MayReadRate(d)
  /\ LET rows == IF deal[d].op \in Wire THEN rates[deal[d].op]
                 ELSE UNION {rates[u] : u \in Usage}
     IN  \/ \E r \in rows :
              Move(d, [deal[d] EXCEPT
                         !.pc = "ready", !.fee = FeesApplied(deal[d].size, r)])
         \/ rows = {} /\ TurnDown(d)
  /\ UNCHANGED <<Tables, due, tries>>

\* The fee lookup of every apply endpoint.
ReadRate(d) ==
  /\ MayReadRate(d)
  /\ LET rows == FeeRows(deal[d].op, deal[d].usage)
     IN  \/ \E r \in rows :
              Move(d, [deal[d] EXCEPT
                         !.pc = "ready", !.fee = FeesApplied(deal[d].size, r)])
         \/ rows = {} /\ TurnDown(d)
  /\ UNCHANGED <<Tables, due, tries>>

\* The balance is short, the card is not found or the provider fails.
Decline(d) ==
  /\ deal[d].pc \in {"ready", "priced", "quoted"}
  /\ TurnDown(d)
  /\ UNCHANGED <<Tables, due, tries>>

\* The balance sufficed.  The provider call, the two rows of a transfer or the
\* event of a card order; the rows of card top-ups and card withdrawals are
\* created and never saved, so that nothing is debited for them.
Charge(d) ==
  /\ deal[d].pc = "ready"
  /\ due' = [due EXCEPT ![d] = @ \cup
               {Total(deal[d].op, deal[d].size, deal[d].fee, deal[d].price)}]
  /\ \E lost \in {0, 1} :
       /\ tries' = [tries EXCEPT ![d] = [sent |-> @.sent + 1,
                                         lost |-> @.lost + lost]]
       /\ Move(d, [deal[d] EXCEPT !.pc = IF lost = 1 THEN "lost" ELSE "done"])
  /\ UNCHANGED Tables

Apply(d, ops) == deal[d].op \in ops /\ (ReadRate(d) \/ Decline(d) \/ Charge(d))

ApplyPayment(d)        == Apply(d, {"deposit", "withdrawal", "transfer"})
ApplyCardTopup(d)      == Apply(d, {"topup"})
ApplyCardWithdrawal(d) == Apply(d, {"card_withdrawal"})

ApplyCreateCard(d) ==
  Apply(d, {"card"}) \/ \E type \in CardType : ReadPrice(d, type)

\* A client that got no answer asks again.  uuid() makes a new reference for
\* each call of fundCard and unloadCard: the provider cannot tell.
Again(d) ==
  /\ deal[d].pc = "lost" /\ tries[d].sent < MaxTries
  /\ Move(d, [deal[d] EXCEPT !.pc = "quoted"])
  /\ UNCHANGED <<Tables, due, tries>>

-----------------------------------------------------------------------------
(* The tables, edited by hand: no code writes them.                        *)

UsesRate(d, k) ==
  /\ deal[d] # NoDeal
  /\ k = IF deal[d].op \in Wire THEN deal[d].op ELSE deal[d].usage

Unsettle(moved(_)) ==
  deal' = [d \in Deal |-> [deal[d] EXCEPT !.firm = @ /\ ~ moved(d)]]

EditRates(k, rows) ==
  /\ edits < MaxEdits /\ rows # rates[k]
  /\ edits' = edits + 1
  /\ rates' = [rates EXCEPT ![k] = rows]
  /\ Unsettle(LAMBDA d : UsesRate(d, k))
  /\ UNCHANGED <<prices, due, tries>>

EditPrices(type, usage, rows) ==
  /\ edits < MaxEdits /\ rows # prices[<<type, usage>>]
  /\ edits' = edits + 1
  /\ prices' = [prices EXCEPT ![<<type, usage>>] = rows]
  /\ Unsettle(LAMBDA d : deal[d].op = "card" /\ deal[d].usage = usage)
  /\ UNCHANGED <<rates, due, tries>>

-----------------------------------------------------------------------------
ChargesNext ==
  \/ \E d \in Deal, a \in Size :
       \/ GetDepositFee(d, a) \/ GetWithdrawalFee(d, a) \/ GetTransferFee(d, a)
       \/ GetCardWithdrawalSettings(d, a)
       \/ \E usage \in Usage :
            GetCardTopupSettings(d, a, usage) \/ GetCreateCardSettings(d, a, usage)
  \/ \E d \in Deal :
       \/ QuoteCardFee(d) \/ QuoteCardPrice(d)
       \/ ApplyPayment(d) \/ ApplyCardTopup(d) \/ ApplyCardWithdrawal(d)
       \/ ApplyCreateCard(d) \/ Again(d)
  \/ \E k \in RateKeys, rows \in SUBSET Rate : EditRates(k, rows)
  \/ \E type \in CardType, usage \in Usage, rows \in SUBSET Price :
       EditPrices(type, usage, rows)

ChargesSpec == ChargesInit /\ [][ChargesNext]_chargeVars

-----------------------------------------------------------------------------
(***************************************************************************)
(* A client is charged what it was quoted, and once per answer it missed,  *)
(* though quote and charge share no code and read the tables apart.  What  *)
(* may make them differ is an edit of a row the deal rests on, a key with  *)
(* more than one row, and a card order that asks for a PHYSICAL card: the  *)
(* quote prices VIRTUAL ones only, and createCard believes the body.       *)
(***************************************************************************)
QuotedIsCharged ==
  /\ ChargesTypeOK
  /\ \A d \in Deal :
       /\ deal[d].firm => due[d] \subseteq {deal[d].quote}
       /\ deal[d].firm /\ deal[d].pc = "quoted" /\ deal[d].op = "card"
            => deal[d].price = deal[d].shown
       /\ tries[d].sent <= 1 + tries[d].lost
=============================================================================
