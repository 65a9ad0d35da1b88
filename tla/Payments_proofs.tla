-------------------------- MODULE Payments_proofs ---------------------------
(***************************************************************************)
(* Theorems about what surrounds a payment: the price it is quoted, the    *)
(* token its call to the provider carries and the beneficiary it leaves    *)
(* behind.  The parts share no variable; each theorem is about one.        *)
(***************************************************************************)
EXTENDS Charges, Beneficiaries, AccessTokens, FiniteSetTheorems, TLAPS

(***************************************************************************)
(* Charges, for any deals, sizes, percentages and prices.                  *)
(***************************************************************************)

DealType == [pc : Step \cup {"idle"}, op : Operation \cup {"none"}, size : Size \cup {0},
             usage : Usage, shown : Int, price : Int, fee : Int, quote : Int,
             firm : BOOLEAN]

TriesType == [sent : 0 .. MaxTries, lost : 0 .. MaxTries]

\* The steps of a deal after its quote.
Quoted == {"quoted", "priced", "ready", "done", "lost"}

(***************************************************************************)
(* What holds of every deal x with the totals D asked for it and the       *)
(* operations t: nothing is asked before the quote, and each operation but *)
(* the last was not answered.                                              *)
(***************************************************************************)
Plain(x, D, t) ==
  /\ x.pc = "idle" => x = NoDeal
  /\ x.pc # "idle" => x.op \in Operation
  /\ x.pc \in {"idle", "shown", "half"} => D = {}
  /\ x.pc \in {"shown", "half", "priced"} => x.op = "card"
  /\ x.pc \in {"priced", "ready"} => t.sent < MaxTries
  /\ t.sent = t.lost + (IF x.pc = "done" THEN 1 ELSE 0)

(***************************************************************************)
(* What holds of a deal while nobody edited a row it rests on, each key it *)
(* uses has one row, and a card order asked for a VIRTUAL card: the row    *)
(* that gave the fee and the one that gave the price are the tables', and  *)
(* the quote is their total.                                               *)
(***************************************************************************)
Kept(x, D) ==
  x.firm =>
    /\ D \subseteq {x.quote}
    /\ x.op = "card" /\ x.pc \in {"shown", "half"} \cup Quoted => Shelf(x.usage) = {x.shown}
    /\ x.pc \in {"half"} \cup Quoted =>
         \E r \in Rate : FeeRows(x.op, x.usage) = {r} /\ x.fee = FeesApplied(x.size, r)
    /\ x.pc \in Quoted => /\ x.quote = Total(x.op, x.size, x.fee, x.price)
                          /\ x.op = "card" => x.price = x.shown

TablesOK ==
  /\ rates \in [RateKeys -> SUBSET Rate]
  /\ prices \in [CardType \X Usage -> SUBSET Price]
  /\ edits \in 0 .. MaxEdits

ChargeInv ==
  /\ TablesOK
  /\ deal \in [Deal -> DealType]
  /\ due \in [Deal -> SUBSET Int]
  /\ tries \in [Deal -> TriesType]
  /\ \A d \in Deal : Plain(deal[d], due[d], tries[d]) /\ Kept(deal[d], due[d])

-----------------------------------------------------------------------------
(* Amounts.                                                                *)

LEMMA ToFixedIsNearest ==
  ASSUME NEW n \in Int
  PROVE  ToFixed(n) \in Int /\ 100 * ToFixed(n) - n \in -50 .. 50
<1>1. PICK q \in Int : q = n \div 100 /\ 0 <= n - 100 * q /\ n - 100 * q < 100
  OBVIOUS
<1>2. \E c \in {q, q + 1} : 100 * c - n \in -50 .. 50
  <2>1. CASE n - 100 * q <= 50
    BY <1>1, <2>1
  <2>2. CASE n - 100 * q > 50
    BY <1>1, <2>2
  <2>3. QED
    BY <1>1, <2>1, <2>2
<1>3. ToFixed(n) \in {q, q + 1} /\ 100 * ToFixed(n) - n \in -50 .. 50
  BY <1>1, <1>2 DEF ToFixed
<1>4. QED
  BY <1>1, <1>3

LEMMA FeesAreIntegers ==
  ASSUME NEW a \in Size \cup {0}, NEW r \in Rate
  PROVE  FeesApplied(a, r) \in Int
<1>1. a \in Nat /\ r.percent \in Nat /\ r.fixed \in Nat
  BY ChargesAssumption
<1>2. a * r.percent \in Int
  BY <1>1
<1>3. QED
  BY <1>1, <1>2, ToFixedIsNearest DEF FeesApplied

LEMMA TotalsAreIntegers ==
  ASSUME NEW op, NEW a \in Size \cup {0}, NEW fee \in Int, NEW price \in Int
  PROVE  Total(op, a, fee, price) \in Int
<1>1. a \in Int
  BY ChargesAssumption
<1>2. QED
  BY <1>1 DEF Total

LEMMA RowsAreRates ==
  ASSUME TablesOK, NEW op \in Operation, NEW usage \in Usage
  PROVE  FeeRows(op, usage) \subseteq Rate
BY DEF TablesOK, FeeRows, RateKeys, Operation, Wire

LEMMA ShelvesArePrices ==
  ASSUME TablesOK, NEW usage \in Usage, NEW type \in CardType
  PROVE  CardPrices(type, usage) \subseteq Price /\ Shelf(usage) \subseteq Price
BY DEF TablesOK, CardPrices, Shelf, CardType

LEMMA PricesAreIntegers ==
  ASSUME ChargeInv, NEW usage \in Usage
  PROVE  /\ \A type \in CardType : CardPrices(type, usage) \subseteq Int
         /\ Shelf(usage) \subseteq Int
<1>1. TablesOK
  BY DEF ChargeInv
<1>2. Price \subseteq Int /\ "VIRTUAL" \in CardType
  BY ChargesAssumption DEF CardType
<1>3. QED
  BY <1>1, <1>2, ShelvesArePrices

LEMMA OnlyIsBoolean ==
  ASSUME NEW S
  PROVE  Only(S) \in BOOLEAN
BY DEF Only

LEMMA SomeDeals ==
  ASSUME NEW op \in Operation, NEW a \in Size, NEW usage \in Usage, NEW pc \in Step,
         NEW shown \in Int, NEW fee \in Int, NEW quote \in Int, NEW firm \in BOOLEAN
  PROVE  [pc |-> pc, op |-> op, size |-> a, usage |-> usage, shown |-> shown, price |-> 0,
          fee |-> fee, quote |-> quote, firm |-> firm] \in DealType
BY DEF DealType

LEMMA RefusedDeals ==
  ASSUME NEW op \in Operation, NEW a \in Size, NEW usage \in Usage
  PROVE  [pc |-> "refused", op |-> op, size |-> a, usage |-> usage, shown |-> 0, price |-> 0,
          fee |-> 0, quote |-> 0, firm |-> TRUE] \in DealType
BY DEF DealType, Step

-----------------------------------------------------------------------------
LEMMA ChargeInitInv == ChargesInit => ChargeInv
<1> SUFFICES ASSUME ChargesInit PROVE ChargeInv
  OBVIOUS
<1>1. TablesOK
  BY ChargesAssumption DEF ChargesInit, TablesOK
<1>2. NoDeal \in DealType /\ NoDeal.pc = "idle"
  BY DEF NoDeal, DealType, Usage
<1>3. \A d \in Deal : deal[d] = NoDeal /\ due[d] = {} /\ tries[d] = [sent |-> 0, lost |-> 0]
  BY DEF ChargesInit
<1>4. \A d \in Deal : Plain(deal[d], due[d], tries[d]) /\ Kept(deal[d], due[d])
  <2>1. Plain(NoDeal, {}, [sent |-> 0, lost |-> 0])
    BY <1>2 DEF Plain
  <2>2. Kept(NoDeal, {})
    BY DEF Kept, Quoted, NoDeal
  <2>3. QED
    BY <1>3, <2>1, <2>2
<1>5. deal \in [Deal -> DealType] /\ due \in [Deal -> SUBSET Int] /\ tries \in [Deal -> TriesType]
  BY <1>2, ChargesAssumption DEF ChargesInit, TriesType
<1>6. QED
  BY <1>1, <1>4, <1>5 DEF ChargeInv

\* A step of one deal that leaves the tables alone.
LEMMA DealMoves ==
  ASSUME ChargeInv, UNCHANGED Tables, NEW d \in Deal,
         NEW x \in DealType, NEW D \in SUBSET Int, NEW t \in TriesType,
         deal' = [deal EXCEPT ![d] = x], due' = [due EXCEPT ![d] = D],
         tries' = [tries EXCEPT ![d] = t],
         Plain(x, D, t), Kept(x, D)
  PROVE  ChargeInv'
<1>1. TablesOK'
  BY DEF ChargeInv, TablesOK, Tables
<1>2. /\ deal' \in [Deal -> DealType] /\ due' \in [Deal -> SUBSET Int]
      /\ tries' \in [Deal -> TriesType]
  BY DEF ChargeInv
<1>3. \A e \in Deal : /\ deal'[e] = IF e = d THEN x ELSE deal[e]
                      /\ due'[e] = IF e = d THEN D ELSE due[e]
                      /\ tries'[e] = IF e = d THEN t ELSE tries[e]
  BY DEF ChargeInv
<1>4. \A y, E : Kept(y, E)' <=> Kept(y, E)
  BY DEF Kept, Shelf, CardPrices, FeeRows, Tables
<1>5. ASSUME NEW e \in Deal
      PROVE  (Plain(deal[e], due[e], tries[e]) /\ Kept(deal[e], due[e]))'
  <2>1. PICK y, E, s : y = deal'[e] /\ E = due'[e] /\ s = tries'[e]
    OBVIOUS
  <2>2. Plain(y, E, s) /\ Kept(y, E)
    BY <1>3, <2>1 DEF ChargeInv
  <2>3. Kept(y, E)'
    BY <1>4, <2>2
  <2>4. QED
    BY <2>1, <2>2, <2>3
<1>6. QED
  BY <1>1, <1>2, <1>5 DEF ChargeInv

\* ... and asks for nothing.
LEMMA DealGoesOn ==
  ASSUME ChargeInv, UNCHANGED Tables, UNCHANGED <<due, tries>>,
         NEW d \in Deal, NEW x \in DealType, Move(d, x),
         Plain(x, due[d], tries[d]), Kept(x, due[d])
  PROVE  ChargeInv'
<1>1. due' = [due EXCEPT ![d] = due[d]] /\ tries' = [tries EXCEPT ![d] = tries[d]]
  BY DEF ChargeInv
<1>2. deal' = [deal EXCEPT ![d] = x]
  BY DEF Move
<1>3. due[d] \in SUBSET Int /\ tries[d] \in TriesType
  BY DEF ChargeInv
<1>4. QED
  BY <1>1, <1>2, <1>3, DealMoves

LEMMA TurnDownKeeps ==
  ASSUME ChargeInv, NEW d \in Deal, TurnDown(d), UNCHANGED <<Tables, due, tries>>,
         deal[d].pc \notin {"idle", "done"}
  PROVE  ChargeInv'
<1>1. PICK x : x = [deal[d] EXCEPT !.pc = "refused"]
  OBVIOUS
<1>2. deal[d] \in DealType /\ Plain(deal[d], due[d], tries[d]) /\ Kept(deal[d], due[d])
  BY DEF ChargeInv
<1>3. /\ x \in DealType /\ x.pc = "refused" /\ x.op = deal[d].op
      /\ x.quote = deal[d].quote /\ x.firm = deal[d].firm
  BY <1>1, <1>2 DEF DealType, Step
<1>4. Plain(x, due[d], tries[d])
  BY <1>2, <1>3 DEF Plain
<1>5. Kept(x, due[d])
  BY <1>2, <1>3 DEF Kept, Quoted
<1>6. QED
  BY <1>1, <1>3, <1>4, <1>5, DealGoesOn DEF TurnDown

-----------------------------------------------------------------------------
(* Quotes.                                                                 *)

LEMMA GetFeeKeeps ==
  ASSUME ChargeInv, NEW d \in Deal, NEW op \in Operation \ {"card"}, NEW a \in Size,
         NEW usage \in Usage, GetFee(d, op, a, usage)
  PROVE  ChargeInv'
<1>1. /\ deal[d] \in DealType /\ deal[d].pc = "idle"
      /\ Plain(deal[d], due[d], tries[d]) /\ UNCHANGED <<Tables, due, tries>>
  BY DEF GetFee, ChargeInv
<1>2. due[d] = {} /\ tries[d].sent = tries[d].lost /\ tries[d].lost \in Int
  BY <1>1 DEF Plain, ChargeInv, TriesType
<1>3. CASE \E r \in FeeRows(op, usage) :
             LET fee == FeesApplied(a, r)
             IN  Move(d, [NoDeal EXCEPT !.op = op, !.size = a, !.usage = usage,
                            !.pc = "quoted", !.fee = fee,
                            !.quote = Total(op, a, fee, 0),
                            !.firm = Only(FeeRows(op, usage))])
  <2>1. PICK r \in FeeRows(op, usage) :
          Move(d, [NoDeal EXCEPT !.op = op, !.size = a, !.usage = usage,
                     !.pc = "quoted", !.fee = FeesApplied(a, r),
                     !.quote = Total(op, a, FeesApplied(a, r), 0),
                     !.firm = Only(FeeRows(op, usage))])
    BY <1>3
  <2>2. PICK x : x = [NoDeal EXCEPT !.op = op, !.size = a, !.usage = usage,
                        !.pc = "quoted", !.fee = FeesApplied(a, r),
                        !.quote = Total(op, a, FeesApplied(a, r), 0),
                        !.firm = Only(FeeRows(op, usage))]
    OBVIOUS
  <2>3. r \in Rate
    BY RowsAreRates DEF ChargeInv
  <2>4. FeesApplied(a, r) \in Int /\ Total(op, a, FeesApplied(a, r), 0) \in Int
    BY <2>3, FeesAreIntegers, TotalsAreIntegers
  <2>5. Only(FeeRows(op, usage)) \in BOOLEAN
    BY OnlyIsBoolean
  <2>6. /\ x.pc = "quoted" /\ x.op = op /\ x.size = a /\ x.usage = usage
        /\ x.fee = FeesApplied(a, r) /\ x.price = 0
        /\ x.quote = Total(op, a, FeesApplied(a, r), 0)
        /\ x.firm = Only(FeeRows(op, usage))
    BY <2>2 DEF NoDeal
  <2>7. x \in DealType
    <3>1. x = [pc |-> "quoted", op |-> op, size |-> a, usage |-> usage, shown |-> 0,
                 price |-> 0, fee |-> FeesApplied(a, r), quote |-> Total(op, a, FeesApplied(a, r), 0),
                 firm |-> Only(FeeRows(op, usage))]
      BY <2>2 DEF NoDeal
    <3>2. "quoted" \in Step
      BY DEF Step
    <3>3. QED
      BY <2>4, <2>5, <3>1, <3>2, SomeDeals
  <2>8. Plain(x, due[d], tries[d])
    BY <1>1, <1>2, <2>6 DEF Plain
  <2>9. x.firm => FeeRows(op, usage) = {r}
    BY <2>1, <2>6 DEF Only
  <2>10. Kept(x, due[d])
    BY <1>2, <2>3, <2>6, <2>9 DEF Kept
  <2>11. QED
    BY <1>1, <2>1, <2>2, <2>7, <2>8, <2>10, DealGoesOn
<1>4. CASE Move(d, [NoDeal EXCEPT !.op = op, !.size = a, !.usage = usage, !.pc = "refused"])
  <2>1. PICK x : x = [NoDeal EXCEPT !.op = op, !.size = a, !.usage = usage, !.pc = "refused"]
    OBVIOUS
  <2>2. x \in DealType /\ x.pc = "refused" /\ x.op = op
    <3>1. x = [pc |-> "refused", op |-> op, size |-> a, usage |-> usage, shown |-> 0,
                 price |-> 0, fee |-> 0, quote |-> 0,
                 firm |-> TRUE]
      BY <2>1 DEF NoDeal
    <3>2. QED
      BY <3>1, RefusedDeals
  <2>3. Plain(x, due[d], tries[d]) /\ Kept(x, due[d])
    BY <1>2, <2>2 DEF Plain, Kept, Quoted
  <2>4. QED
    BY <1>1, <1>4, <2>1, <2>2, <2>3, DealGoesOn
<1>5. QED
  BY <1>3, <1>4 DEF GetFee

LEMMA CardSettingsKeep ==
  ASSUME ChargeInv, NEW d \in Deal, NEW a \in Size, NEW usage \in Usage,
         GetCreateCardSettings(d, a, usage)
  PROVE  ChargeInv'
<1>1. /\ deal[d] \in DealType /\ deal[d].pc = "idle"
      /\ Plain(deal[d], due[d], tries[d]) /\ UNCHANGED <<Tables, due, tries>>
  BY DEF GetCreateCardSettings, ChargeInv
<1>2. due[d] = {} /\ tries[d].sent = tries[d].lost /\ tries[d].lost \in Int
  BY <1>1 DEF Plain, ChargeInv, TriesType
<1>3. CASE \E p \in Shelf(usage) :
             Move(d, [NoDeal EXCEPT !.op = "card", !.size = a, !.usage = usage,
                        !.pc = "shown", !.shown = p, !.firm = Only(Shelf(usage))])
  <2>1. PICK p \in Shelf(usage) :
          Move(d, [NoDeal EXCEPT !.op = "card", !.size = a, !.usage = usage,
                     !.pc = "shown", !.shown = p, !.firm = Only(Shelf(usage))])
    BY <1>3
  <2>2. PICK x : x = [NoDeal EXCEPT !.op = "card", !.size = a, !.usage = usage,
                        !.pc = "shown", !.shown = p, !.firm = Only(Shelf(usage))]
    OBVIOUS
  <2>3. p \in Int
    BY PricesAreIntegers
  <2>4. /\ x.pc = "shown" /\ x.op = "card" /\ x.usage = usage /\ x.shown = p
        /\ x.firm = Only(Shelf(usage))
    BY <2>2 DEF NoDeal
  <2>5. x \in DealType
    <3>1. x = [pc |-> "shown", op |-> "card", size |-> a, usage |-> usage, shown |-> p,
                 price |-> 0, fee |-> 0, quote |-> 0,
                 firm |-> Only(Shelf(usage))]
      BY <2>2 DEF NoDeal
    <3>2. "shown" \in Step /\ "card" \in Operation
      BY DEF Step, Operation
    <3>3. QED
      BY <2>3, <3>1, <3>2, OnlyIsBoolean, SomeDeals
  <2>6. Plain(x, due[d], tries[d])
    BY <1>2, <2>4 DEF Plain, Operation
  <2>7. x.firm => Shelf(usage) = {p}
    BY <2>1, <2>4 DEF Only
  <2>8. Kept(x, due[d])
    BY <1>2, <2>4, <2>7 DEF Kept, Quoted
  <2>9. QED
    BY <1>1, <2>1, <2>2, <2>5, <2>6, <2>8, DealGoesOn
<1>4. CASE Move(d, [NoDeal EXCEPT !.op = "card", !.size = a, !.usage = usage,
                      !.pc = "refused"])
  <2>1. PICK x : x = [NoDeal EXCEPT !.op = "card", !.size = a, !.usage = usage,
                        !.pc = "refused"]
    OBVIOUS
  <2>2. x \in DealType /\ x.pc = "refused" /\ x.op = "card"
    <3>1. x = [pc |-> "refused", op |-> "card", size |-> a, usage |-> usage, shown |-> 0,
                 price |-> 0, fee |-> 0, quote |-> 0,
                 firm |-> TRUE]
      BY <2>1 DEF NoDeal
    <3>2. "card" \in Operation
      BY DEF Operation
    <3>3. QED
      BY <3>1, <3>2, RefusedDeals
  <2>3. Plain(x, due[d], tries[d]) /\ Kept(x, due[d])
    BY <1>2, <2>2 DEF Plain, Kept, Quoted, Operation
  <2>4. QED
    BY <1>1, <1>4, <2>1, <2>2, <2>3, DealGoesOn
<1>5. QED
  BY <1>3, <1>4 DEF GetCreateCardSettings

LEMMA CardFeeKeeps ==
  ASSUME ChargeInv, NEW d \in Deal, QuoteCardFee(d)
  PROVE  ChargeInv'
<1>1. /\ deal[d] \in DealType /\ deal[d].pc = "shown" /\ UNCHANGED <<Tables, due, tries>>
      /\ Plain(deal[d], due[d], tries[d]) /\ Kept(deal[d], due[d])
  BY DEF QuoteCardFee, ChargeInv
<1>2. PICK op, usage, a : op = deal[d].op /\ usage = deal[d].usage /\ a = deal[d].size
  OBVIOUS
<1>3. op = "card" /\ usage \in Usage /\ a \in Size \cup {0} /\ op \in Operation
  BY <1>1, <1>2 DEF Plain, DealType, Operation
<1>4. CASE TurnDown(d)
  BY <1>1, <1>4, TurnDownKeeps
<1>5. CASE \E r \in FeeRows(op, usage) :
             Move(d, [deal[d] EXCEPT !.pc = "half", !.fee = FeesApplied(a, r),
                                     !.firm = @ /\ Only(FeeRows(op, usage))])
  <2>1. PICK r \in FeeRows(op, usage) :
             Move(d, [deal[d] EXCEPT !.pc = "half", !.fee = FeesApplied(a, r),
                                     !.firm = @ /\ Only(FeeRows(op, usage))])
    BY <1>5
  <2>2. PICK x : x = [deal[d] EXCEPT !.pc = "half", !.fee = FeesApplied(a, r),
                                     !.firm = @ /\ Only(FeeRows(op, usage))]
    OBVIOUS
  <2>3. r \in Rate /\ FeesApplied(a, r) \in Int
    BY <1>3, RowsAreRates, FeesAreIntegers DEF ChargeInv
  <2>4. /\ x.pc = "half" /\ x.op = op /\ x.usage = usage /\ x.size = a
        /\ x.fee = FeesApplied(a, r) /\ x.shown = deal[d].shown /\ x.quote = deal[d].quote
        /\ x.firm = (deal[d].firm /\ Only(FeeRows(op, usage)))
    BY <1>1, <1>2, <2>2 DEF DealType
  <2>5. x \in DealType
    BY <1>1, <2>2, <2>3, OnlyIsBoolean DEF DealType, Step
  <2>6. Plain(x, due[d], tries[d])
    BY <1>1, <1>3, <2>4 DEF Plain
  <2>7. x.firm => FeeRows(op, usage) = {r}
    BY <2>1, <2>4 DEF Only
  <2>8. Kept(x, due[d])
    BY <1>1, <1>2, <1>3, <2>3, <2>4, <2>7 DEF Kept, Quoted
  <2>9. QED
    BY <1>1, <2>1, <2>2, <2>5, <2>6, <2>8, DealGoesOn
<1>6. QED
  BY <1>2, <1>3, <1>4, <1>5 DEF QuoteCardFee

LEMMA CardPriceKeeps ==
  ASSUME ChargeInv, NEW d \in Deal, QuoteCardPrice(d)
  PROVE  ChargeInv'
<1>1. /\ deal[d] \in DealType /\ deal[d].pc = "half" /\ UNCHANGED <<Tables, due, tries>>
      /\ Plain(deal[d], due[d], tries[d]) /\ Kept(deal[d], due[d])
  BY DEF QuoteCardPrice, ChargeInv
<1>2. PICK usage, a, fee : usage = deal[d].usage /\ a = deal[d].size /\ fee = deal[d].fee
  OBVIOUS
<1>3. /\ deal[d].op = "card" /\ usage \in Usage /\ a \in Size \cup {0} /\ fee \in Int
      /\ due[d] = {}
  BY <1>1, <1>2 DEF Plain, DealType
<1>4. CASE TurnDown(d)
  BY <1>1, <1>4, TurnDownKeeps
<1>5. CASE \E p \in Shelf(usage) :
             Move(d, [deal[d] EXCEPT !.pc = "quoted", !.price = p,
                                     !.quote = Total("card", a, fee, p),
                                     !.firm = @ /\ Only(Shelf(usage))])
  <2>1. PICK p \in Shelf(usage) :
             Move(d, [deal[d] EXCEPT !.pc = "quoted", !.price = p,
                                     !.quote = Total("card", a, fee, p),
                                     !.firm = @ /\ Only(Shelf(usage))])
    BY <1>5
  <2>2. PICK x : x = [deal[d] EXCEPT !.pc = "quoted", !.price = p,
                                     !.quote = Total("card", a, fee, p),
                                     !.firm = @ /\ Only(Shelf(usage))]
    OBVIOUS
  <2>3. p \in Int
    BY <1>3, PricesAreIntegers
  <2>4. Total("card", a, fee, p) \in Int
    BY <1>3, <2>3, TotalsAreIntegers
  <2>5. /\ x.pc = "quoted" /\ x.op = "card" /\ x.usage = usage /\ x.size = a
        /\ x.fee = fee /\ x.shown = deal[d].shown /\ x.price = p
        /\ x.quote = Total("card", a, fee, p)
        /\ x.firm = (deal[d].firm /\ Only(Shelf(usage)))
    BY <1>1, <1>2, <1>3, <2>2 DEF DealType
  <2>6. x \in DealType
    BY <1>1, <2>2, <2>3, <2>4, OnlyIsBoolean DEF DealType, Step
  <2>7. Plain(x, due[d], tries[d])
    BY <1>1, <2>5 DEF Plain, Operation
  <2>8. Kept(x, due[d])
    BY <1>1, <1>2, <1>3, <2>1, <2>5 DEF Kept, Quoted
  <2>9. QED
    BY <1>1, <2>1, <2>2, <2>6, <2>7, <2>8, DealGoesOn
<1>6. QED
  BY <1>2, <1>4, <1>5 DEF QuoteCardPrice

-----------------------------------------------------------------------------
(* Charges.                                                                *)

LEMMA ReadPriceKeeps ==
  ASSUME ChargeInv, NEW d \in Deal, NEW type \in CardType, ReadPrice(d, type)
  PROVE  ChargeInv'
<1>1. /\ deal[d] \in DealType /\ deal[d].pc = "quoted" /\ deal[d].op = "card"
      /\ tries[d].sent < MaxTries /\ UNCHANGED <<Tables, due, tries>>
      /\ Plain(deal[d], due[d], tries[d]) /\ Kept(deal[d], due[d])
  BY DEF ReadPrice, ChargeInv
<1>2. PICK usage : usage = deal[d].usage
  OBVIOUS
<1>3. usage \in Usage
  BY <1>1, <1>2 DEF DealType
<1>4. CASE TurnDown(d)
  BY <1>1, <1>4, TurnDownKeeps
<1>5. CASE \E p \in CardPrices(type, usage) :
             Move(d, [deal[d] EXCEPT !.pc = "priced", !.price = p,
                                     !.firm = @ /\ type = "VIRTUAL"])
  <2>1. PICK p \in CardPrices(type, usage) :
             Move(d, [deal[d] EXCEPT !.pc = "priced", !.price = p,
                                     !.firm = @ /\ type = "VIRTUAL"])
    BY <1>5
  <2>2. PICK x : x = [deal[d] EXCEPT !.pc = "priced", !.price = p,
                                     !.firm = @ /\ type = "VIRTUAL"]
    OBVIOUS
  <2>3. p \in Int
    BY <1>3, PricesAreIntegers
  <2>4. /\ x.pc = "priced" /\ x.op = "card" /\ x.usage = usage /\ x.size = deal[d].size
        /\ x.fee = deal[d].fee /\ x.shown = deal[d].shown /\ x.price = p
        /\ x.quote = deal[d].quote /\ x.firm = (deal[d].firm /\ type = "VIRTUAL")
    BY <1>1, <1>2, <2>2 DEF DealType
  <2>5. x \in DealType
    BY <1>1, <2>2, <2>3 DEF DealType, Step
  <2>6. Plain(x, due[d], tries[d])
    BY <1>1, <2>4 DEF Plain
  <2>7. x.firm => p = deal[d].shown /\ deal[d].price = deal[d].shown
    BY <1>1, <1>2, <2>1, <2>4 DEF Kept, Quoted, Shelf
  <2>8. Kept(x, due[d])
    BY <1>1, <1>2, <2>4, <2>7 DEF Kept, Quoted
  <2>9. QED
    BY <1>1, <2>1, <2>2, <2>5, <2>6, <2>8, DealGoesOn
<1>6. QED
  BY <1>2, <1>4, <1>5 DEF ReadPrice

LEMMA ReadRateKeeps ==
  ASSUME ChargeInv, NEW d \in Deal, ReadRate(d)
  PROVE  ChargeInv'
<1>1. /\ deal[d] \in DealType /\ deal[d].pc \in {"quoted", "priced"}
      /\ tries[d].sent < MaxTries /\ UNCHANGED <<Tables, due, tries>>
      /\ Plain(deal[d], due[d], tries[d]) /\ Kept(deal[d], due[d])
  BY DEF ReadRate, MayReadRate, ChargeInv, Plain
<1>2. PICK op, usage, a : op = deal[d].op /\ usage = deal[d].usage /\ a = deal[d].size
  OBVIOUS
<1>3. op \in Operation /\ usage \in Usage /\ a \in Size \cup {0}
  BY <1>1, <1>2 DEF Plain, DealType
<1>4. CASE TurnDown(d)
  BY <1>1, <1>4, TurnDownKeeps
<1>5. CASE \E r \in FeeRows(op, usage) :
             Move(d, [deal[d] EXCEPT !.pc = "ready", !.fee = FeesApplied(a, r)])
  <2>1. PICK r \in FeeRows(op, usage) :
             Move(d, [deal[d] EXCEPT !.pc = "ready", !.fee = FeesApplied(a, r)])
    BY <1>5
  <2>2. PICK x : x = [deal[d] EXCEPT !.pc = "ready", !.fee = FeesApplied(a, r)]
    OBVIOUS
  <2>3. r \in Rate /\ FeesApplied(a, r) \in Int
    BY <1>3, RowsAreRates, FeesAreIntegers DEF ChargeInv
  <2>4. /\ x.pc = "ready" /\ x.op = op /\ x.usage = usage /\ x.size = a
        /\ x.fee = FeesApplied(a, r) /\ x.shown = deal[d].shown /\ x.quote = deal[d].quote
        /\ x.price = deal[d].price /\ x.firm = deal[d].firm
    BY <1>1, <1>2, <2>2 DEF DealType
  <2>5. x \in DealType
    BY <1>1, <2>2, <2>3 DEF DealType, Step
  <2>6. Plain(x, due[d], tries[d])
    BY <1>1, <1>3, <2>4 DEF Plain
  <2>7. x.firm => x.fee = deal[d].fee
    BY <1>1, <1>2, <2>1, <2>4 DEF Kept, Quoted
  <2>8. Kept(x, due[d])
    BY <1>1, <1>2, <2>4, <2>7 DEF Kept, Quoted
  <2>9. QED
    BY <1>1, <2>1, <2>2, <2>5, <2>6, <2>8, DealGoesOn
<1>6. QED
  BY <1>2, <1>4, <1>5 DEF ReadRate

LEMMA ChargeKeeps ==
  ASSUME ChargeInv, NEW d \in Deal, Charge(d)
  PROVE  ChargeInv'
<1>1. /\ deal[d] \in DealType /\ deal[d].pc = "ready" /\ tries[d] \in TriesType
      /\ UNCHANGED Tables
      /\ Plain(deal[d], due[d], tries[d]) /\ Kept(deal[d], due[d])
  BY DEF Charge, ChargeInv
<1>2. PICK total : total = Total(deal[d].op, deal[d].size, deal[d].fee, deal[d].price)
  OBVIOUS
<1>3. PICK D : D = due[d] \cup {total}
  OBVIOUS
<1>4. total \in Int /\ D \in SUBSET Int
  BY <1>1, <1>2, <1>3, TotalsAreIntegers DEF DealType, ChargeInv
<1>5. PICK lost \in {0, 1} :
        /\ tries' = [tries EXCEPT ![d] = [sent |-> @.sent + 1, lost |-> @.lost + lost]]
        /\ Move(d, [deal[d] EXCEPT !.pc = IF lost = 1 THEN "lost" ELSE "done"])
  BY DEF Charge
<1>6. PICK t : t = [sent |-> tries[d].sent + 1, lost |-> tries[d].lost + lost]
  OBVIOUS
<1>7. PICK x : x = [deal[d] EXCEPT !.pc = IF lost = 1 THEN "lost" ELSE "done"]
  OBVIOUS
<1>8. tries[d].sent = tries[d].lost /\ tries[d].sent < MaxTries
  BY <1>1 DEF Plain, TriesType
<1>9. t \in TriesType
  BY <1>1, <1>6, <1>8, ChargesAssumption DEF TriesType
<1>10. /\ x \in DealType /\ x.pc = (IF lost = 1 THEN "lost" ELSE "done")
       /\ x.op = deal[d].op /\ x.usage = deal[d].usage /\ x.size = deal[d].size
       /\ x.fee = deal[d].fee /\ x.shown = deal[d].shown /\ x.quote = deal[d].quote
       /\ x.price = deal[d].price /\ x.firm = deal[d].firm
  BY <1>1, <1>7 DEF DealType, Step
<1>11. Plain(x, D, t)
  BY <1>1, <1>6, <1>8, <1>10 DEF Plain, TriesType
<1>12. x.firm => total = x.quote
  BY <1>1, <1>2, <1>10 DEF Kept, Quoted
<1>13. Kept(x, D)
  BY <1>1, <1>3, <1>10, <1>12 DEF Kept, Quoted
<1>14. /\ deal' = [deal EXCEPT ![d] = x] /\ tries' = [tries EXCEPT ![d] = t]
       /\ due' = [due EXCEPT ![d] = D]
  BY <1>2, <1>3, <1>5, <1>6, <1>7 DEF Charge, Move
<1>15. QED
  BY <1>1, <1>4, <1>9, <1>10, <1>11, <1>13, <1>14, DealMoves

LEMMA AgainKeeps ==
  ASSUME ChargeInv, NEW d \in Deal, Again(d)
  PROVE  ChargeInv'
<1>1. /\ deal[d] \in DealType /\ deal[d].pc = "lost" /\ UNCHANGED <<Tables, due, tries>>
      /\ Plain(deal[d], due[d], tries[d]) /\ Kept(deal[d], due[d])
  BY DEF Again, ChargeInv
<1>2. PICK x : x = [deal[d] EXCEPT !.pc = "quoted"]
  OBVIOUS
<1>3. /\ x \in DealType /\ x.pc = "quoted"
      /\ x.op = deal[d].op /\ x.usage = deal[d].usage /\ x.size = deal[d].size
      /\ x.fee = deal[d].fee /\ x.shown = deal[d].shown /\ x.quote = deal[d].quote
      /\ x.price = deal[d].price /\ x.firm = deal[d].firm
  BY <1>1, <1>2 DEF DealType, Step
<1>4. Plain(x, due[d], tries[d])
  BY <1>1, <1>3 DEF Plain
<1>5. Kept(x, due[d])
  BY <1>1, <1>3 DEF Kept, Quoted
<1>6. QED
  BY <1>1, <1>2, <1>3, <1>4, <1>5, DealGoesOn DEF Again

LEMMA ApplyKeeps ==
  ASSUME ChargeInv, NEW d \in Deal, NEW ops, Apply(d, ops)
  PROVE  ChargeInv'
<1>1. ASSUME Decline(d)
      PROVE  ChargeInv'
  BY <1>1, TurnDownKeeps DEF Decline
<1>2. QED
  BY <1>1, ReadRateKeeps, ChargeKeeps DEF Apply

-----------------------------------------------------------------------------
(***************************************************************************)
(* An edit of the tables unsettles every deal that rests on the row, and   *)
(* the others do not see it.                                               *)
(***************************************************************************)
LEMMA EditKeeps ==
  ASSUME ChargeInv, TablesOK', UNCHANGED <<due, tries>>, NEW settled \in [Deal -> BOOLEAN],
         deal' = [d \in Deal |-> [deal[d] EXCEPT !.firm = @ /\ settled[d]]],
         \A d \in Deal : \A x, D :
           x = deal[d] /\ D = due[d] /\ settled[d] /\ x.firm => Kept(x, D)',
         \A d \in Deal : deal[d] = NoDeal => settled[d]
  PROVE  ChargeInv'
<1>1. ASSUME NEW d \in Deal
      PROVE  /\ deal'[d] \in DealType
             /\ Plain(deal[d], due[d], tries[d])' /\ Kept(deal[d], due[d])'
  <2>1. PICK x, D, t : x = deal[d] /\ D = due[d] /\ t = tries[d]
    OBVIOUS
  <2>2. x \in DealType /\ Plain(x, D, t)
    BY <2>1 DEF ChargeInv
  <2>3. PICK y : y = [x EXCEPT !.firm = @ /\ settled[d]]
    OBVIOUS
  <2>4. /\ y \in DealType /\ y.firm = (x.firm /\ settled[d]) /\ y.pc = x.pc /\ y.op = x.op
        /\ deal'[d] = y /\ due'[d] = D /\ tries'[d] = t
    BY <2>1, <2>2, <2>3 DEF DealType
  <2>5. x = NoDeal => y = NoDeal
    <3>1. ASSUME x = NoDeal
          PROVE  (x.firm /\ settled[d]) = x.firm
      <4>1. NoDeal.firm = TRUE
        BY DEF NoDeal
      <4>2. settled[d] \in BOOLEAN /\ settled[d]
        BY <2>1, <3>1
      <4>3. settled[d] = TRUE
        BY <4>2
      <4>4. QED
        BY <3>1, <4>1, <4>3
    <3>2. x = NoDeal => y = [x EXCEPT !.firm = x.firm]
      BY <2>3, <3>1
    <3>3. QED
      BY <3>2 DEF NoDeal
  <2>6. Plain(y, D, t)
    BY <2>2, <2>4, <2>5 DEF Plain
  <2>7. Kept(y, D)'
    <3>1. CASE y.firm
      <4>1. y = x /\ x.firm /\ settled[d]
        BY <2>2, <2>3, <2>4, <3>1 DEF DealType
      <4>2. QED
        BY <2>1, <4>1
    <3>2. CASE ~ y.firm
      BY <3>2 DEF Kept
    <3>3. QED
      BY <3>1, <3>2
  <2>8. QED
    BY <2>4, <2>6, <2>7
<1>2. deal' \in [Deal -> DealType]
  BY <1>1
<1>3. QED
  BY <1>1, <1>2 DEF ChargeInv

LEMMA EditRatesKeeps ==
  ASSUME ChargeInv, NEW k \in RateKeys, NEW rows \in SUBSET Rate, EditRates(k, rows)
  PROVE  ChargeInv'
<1>1. PICK settled : settled = [d \in Deal |-> ~ UsesRate(d, k)]
  OBVIOUS
<1>2. settled \in [Deal -> BOOLEAN]
  BY <1>1 DEF UsesRate
<1>3. deal' = [d \in Deal |-> [deal[d] EXCEPT !.firm = @ /\ settled[d]]]
  BY <1>1 DEF EditRates, Unsettle
<1>4. /\ TablesOK' /\ UNCHANGED <<prices, due, tries>>
      /\ rates \in [RateKeys -> SUBSET Rate] /\ rates' = [rates EXCEPT ![k] = rows]
  BY ChargesAssumption DEF EditRates, ChargeInv, TablesOK
<1>5. ASSUME NEW d \in Deal, NEW x, NEW D, x = deal[d], D = due[d], settled[d], x.firm
      PROVE  Kept(x, D)'
  <2>1. x \in DealType /\ Kept(x, D) /\ (x.pc # "idle" => x.op \in Operation)
    BY <1>5 DEF ChargeInv, Plain
  <2>2. x # NoDeal => k # (IF x.op \in Wire THEN x.op ELSE x.usage)
    BY <1>1, <1>5 DEF UsesRate
  <2>3. x.pc \in {"half"} \cup Quoted => FeeRows(x.op, x.usage)' = FeeRows(x.op, x.usage)
    BY <1>4, <2>1, <2>2 DEF FeeRows, NoDeal, Quoted, RateKeys, DealType
  <2>4. Shelf(x.usage)' = Shelf(x.usage)
    BY <1>4 DEF Shelf, CardPrices
  <2>5. CASE x.pc \in {"half"} \cup Quoted
    BY <1>5, <2>1, <2>3, <2>4, <2>5 DEF Kept
  <2>6. CASE x.pc \notin {"half"} \cup Quoted
    BY <1>5, <2>1, <2>4, <2>6 DEF Kept
  <2>7. QED
    BY <2>5, <2>6
<1>6. \A d \in Deal : deal[d] = NoDeal => settled[d]
  BY <1>1 DEF UsesRate
<1>7. QED
  BY <1>2, <1>3, <1>4, <1>5, <1>6, EditKeeps

LEMMA EditPricesKeeps ==
  ASSUME ChargeInv, NEW type \in CardType, NEW usage \in Usage, NEW rows \in SUBSET Price,
         EditPrices(type, usage, rows)
  PROVE  ChargeInv'
<1>1. PICK settled : settled = [d \in Deal |-> ~ (deal[d].op = "card" /\ deal[d].usage = usage)]
  OBVIOUS
<1>2. settled \in [Deal -> BOOLEAN]
  BY <1>1
<1>3. deal' = [d \in Deal |-> [deal[d] EXCEPT !.firm = @ /\ settled[d]]]
  BY <1>1 DEF EditPrices, Unsettle
<1>4. /\ UNCHANGED <<rates, due, tries>> /\ edits' \in 0 .. MaxEdits
      /\ prices \in [CardType \X Usage -> SUBSET Price]
      /\ prices' = [prices EXCEPT ![<<type, usage>>] = rows]
  BY ChargesAssumption DEF EditPrices, ChargeInv, TablesOK
<1>5. TablesOK'
  <2>1. prices' \in [CardType \X Usage -> SUBSET Price]
    BY <1>4
  <2>2. QED
    BY <1>4, <2>1 DEF ChargeInv, TablesOK
<1>6. ASSUME NEW d \in Deal, NEW x, NEW D, x = deal[d], D = due[d], settled[d], x.firm
      PROVE  Kept(x, D)'
  <2>1. x \in DealType /\ Kept(x, D)
    BY <1>6 DEF ChargeInv
  <2>2. x.op = "card" => x.usage # usage
    BY <1>1, <1>6
  <2>3. x.op = "card" => Shelf(x.usage)' = Shelf(x.usage)
    <3>1. x.usage \in Usage /\ "VIRTUAL" \in CardType
      BY <2>1 DEF DealType, CardType
    <3>2. <<"VIRTUAL", x.usage>> \in CardType \X Usage
      BY <3>1
    <3>3. QED
      BY <1>4, <2>2, <3>2 DEF Shelf, CardPrices
  <2>4. FeeRows(x.op, x.usage)' = FeeRows(x.op, x.usage)
    BY <1>4 DEF FeeRows
  <2>5. QED
    BY <1>6, <2>1, <2>3, <2>4 DEF Kept
<1>7. \A d \in Deal : deal[d] = NoDeal => settled[d]
  <2>1. NoDeal.op # "card"
    BY DEF NoDeal
  <2>2. QED
    BY <1>1, <2>1
<1>8. QED
  BY <1>2, <1>3, <1>4, <1>5, <1>6, <1>7, EditKeeps

-----------------------------------------------------------------------------
LEMMA ChargeStep == ChargeInv /\ [ChargesNext]_chargeVars => ChargeInv'
<1> SUFFICES ASSUME ChargeInv, [ChargesNext]_chargeVars
             PROVE  ChargeInv'
  OBVIOUS
<1>1. ASSUME NEW d \in Deal, NEW a \in Size,
             \/ GetDepositFee(d, a) \/ GetWithdrawalFee(d, a) \/ GetTransferFee(d, a)
             \/ GetCardWithdrawalSettings(d, a)
             \/ \E usage \in Usage :
                  GetCardTopupSettings(d, a, usage) \/ GetCreateCardSettings(d, a, usage)
      PROVE  ChargeInv'
  <2>1. /\ {"deposit", "withdrawal", "transfer", "card_withdrawal", "topup"}
              \subseteq Operation \ {"card"}
        /\ "UNIQUE" \in Usage
    BY DEF Operation, Wire, Usage
  <2>2. QED
    BY <1>1, <2>1, GetFeeKeeps, CardSettingsKeep
       DEF GetDepositFee, GetWithdrawalFee, GetTransferFee, GetCardWithdrawalSettings,
           GetCardTopupSettings
<1>2. ASSUME NEW d \in Deal, QuoteCardFee(d) \/ QuoteCardPrice(d) \/ Again(d)
      PROVE  ChargeInv'
  BY <1>2, CardFeeKeeps, CardPriceKeeps, AgainKeeps
<1>3. ASSUME NEW d \in Deal,
             \/ ApplyPayment(d) \/ ApplyCardTopup(d) \/ ApplyCardWithdrawal(d)
             \/ ApplyCreateCard(d)
      PROVE  ChargeInv'
  BY <1>3, ApplyKeeps, ReadPriceKeeps
     DEF ApplyPayment, ApplyCardTopup, ApplyCardWithdrawal, ApplyCreateCard
<1>4. ASSUME NEW k \in RateKeys, NEW rows \in SUBSET Rate, EditRates(k, rows)
      PROVE  ChargeInv'
  BY <1>4, EditRatesKeeps
<1>5. ASSUME NEW type \in CardType, NEW usage \in Usage, NEW rows \in SUBSET Price,
             EditPrices(type, usage, rows)
      PROVE  ChargeInv'
  BY <1>5, EditPricesKeeps
<1>6. ASSUME UNCHANGED chargeVars
      PROVE  ChargeInv'
  BY <1>6 DEF chargeVars, ChargeInv, TablesOK, Kept, Shelf, CardPrices, FeeRows
<1>7. QED
  BY <1>1, <1>2, <1>3, <1>4, <1>5, <1>6 DEF ChargesNext

(***************************************************************************)
(* A client is charged what it was quoted, once per answer it missed,      *)
(* unless a row the deal rests on was edited, a key has more than one row  *)
(* or the order asks for a PHYSICAL card: for every contents of the        *)
(* tables, every amount and every number of edits and of retries.          *)
(***************************************************************************)
THEOREM QuotesAreKept == ChargesSpec => []QuotedIsCharged
<1>1. ChargeInv => QuotedIsCharged
  <2> SUFFICES ASSUME ChargeInv PROVE QuotedIsCharged
    OBVIOUS
  <2>1. ASSUME NEW d \in Deal
        PROVE  \/ deal[d] = NoDeal
               \/ /\ deal[d].pc \in Step /\ deal[d].op \in Operation
                  /\ deal[d].usage \in Usage
    <3>1. deal[d] \in DealType /\ Plain(deal[d], due[d], tries[d])
      BY DEF ChargeInv
    <3>2. QED
      BY <3>1 DEF Plain, DealType
  <2>2. ChargesTypeOK
    BY <2>1 DEF ChargeInv, TablesOK, ChargesTypeOK, TriesType
  <2>3. ASSUME NEW d \in Deal
        PROVE  /\ deal[d].firm => due[d] \subseteq {deal[d].quote}
               /\ deal[d].firm /\ deal[d].pc = "quoted" /\ deal[d].op = "card"
                    => deal[d].price = deal[d].shown
               /\ tries[d].sent <= 1 + tries[d].lost
    <3>1. /\ Plain(deal[d], due[d], tries[d]) /\ Kept(deal[d], due[d])
          /\ tries[d].sent \in Int /\ tries[d].lost \in Int
      BY DEF ChargeInv, TriesType
    <3>2. QED
      BY <3>1 DEF Plain, Kept, Quoted
  <2>4. QED
    BY <2>2, <2>3 DEF QuotedIsCharged
<1>2. QED
  BY <1>1, ChargeInitInv, ChargeStep, PTL DEF ChargesSpec

-----------------------------------------------------------------------------
(***************************************************************************)
(* BeneficiaryOnce for any payments, owners, addresses and names.  It      *)
(* needs to know where the money of a payment is before its answer         *)
(* (Course), and that of an entry nobody raced for there is one holder: a  *)
(* row, or a payment about to insert it (Sole).                            *)
(***************************************************************************)

Finds(e) == Found(errand[e].entry) # {}

Course(e) ==
  LET pc    == errand[e].pc
      entry == errand[e].entry
  IN  /\ pc = "idle" => e \notin spent
      /\ pc = "paying" => /\ ~ Unnamed(entry) /\ e \notin spent
                          /\ entry.manner # "transfer" => Finds(e)
      /\ pc \in {"looking", "adding"} =>
           (e \in spent <=> entry.manner = "transfer")
      /\ pc = "ok" => Finds(e) /\ (e \in spent <=> ~ Unnamed(entry))
      /\ pc = "error" /\ e \in spent =>
           entry.manner = "transfer" \/ ~ errand[e].answered

Named == \A e \in Errand : errand[e].pc # "idle" => errand[e].entry \in Entry

Sole(entry) ==
  /\ \A r, s \in Listed(entry) : r = s
  /\ \A e, f \in At("adding") :
       errand[e].entry = entry /\ errand[f].entry = entry => e = f
  /\ \A e \in At("adding") : errand[e].entry = entry => Listed(entry) = {}

BookInv ==
  /\ BookTypeOK /\ Named
  /\ \A e \in Errand : Course(e)
  /\ \A entry \in Entry \ raced : Sole(entry)

LEMMA BookStart == BookInit => BookInv
<1> SUFFICES ASSUME BookInit PROVE BookInv
  OBVIOUS
<1>1. BookTypeOK
  BY DEF BookInit, BookTypeOK
<1>2. Named /\ \A e \in Errand : Course(e)
  BY DEF BookInit, Named, Course
<1>3. \A entry \in Entry : Sole(entry)
  BY DEF BookInit, Sole, Listed, At
<1> QED
  BY <1>1, <1>2, <1>3 DEF BookInv

-----------------------------------------------------------------------------
(* What a step leaves alone.                                               *)

\* The book grows: what a payment has found it still finds.
LEMMA CourseFrame ==
  ASSUME book \subseteq book', NEW e \in Errand, Course(e),
         errand'[e] = errand[e], e \in spent' <=> e \in spent
  PROVE  Course(e)'
<1>1. Finds(e) => Finds(e)'
  <2>1. \A row \in Found(errand[e].entry) :
          row \in book' /\ Matches(row, errand'[e].entry)
    BY DEF Found
  <2> QED
    BY <2>1 DEF Finds, Found
<1> QED
  BY <1>1 DEF Course, Unnamed

\* A step that lets nobody insert and inserts nothing.
LEMMA SoleFrame ==
  ASSUME book' = book, raced \subseteq raced',
         \A e \in Errand : errand'[e].pc = "adding" =>
           errand[e].pc = "adding" /\ errand'[e].entry = errand[e].entry,
         \A entry \in Entry \ raced : Sole(entry)
  PROVE  \A entry \in Entry \ raced' : Sole(entry)'
<1> SUFFICES ASSUME NEW entry \in Entry \ raced' PROVE Sole(entry)'
  OBVIOUS
<1>1. Sole(entry)
  OBVIOUS
<1>2. Listed(entry)' = Listed(entry)
  BY DEF Listed
<1>3. \A e \in At("adding")' : e \in At("adding")
                               /\ errand'[e].entry = errand[e].entry
  BY DEF At
<1> QED
  BY <1>1, <1>2, <1>3 DEF Sole

\* One payment moves.
LEMMA OneErrand ==
  ASSUME BookInv, NEW e \in Errand, NEW new,
         errand' = [errand EXCEPT ![e] = new],
         new \in [pc : {"idle", "paying", "looking", "adding", "ok", "error"},
                  entry : Entry, answered : BOOLEAN],
         book' \subseteq [id : Errand, entry : Entry], book \subseteq book',
         spent' \subseteq spent \cup {e}, spent \subseteq spent',
         raced' \subseteq Entry
  PROVE  /\ BookTypeOK' /\ Named'
         /\ errand'[e] = new
         /\ \A d \in Errand \ {e} : errand'[d] = errand[d]
         /\ \A d \in Errand \ {e} : Course(d)'
<1>1. errand'[e] = new /\ \A d \in Errand \ {e} : errand'[d] = errand[d]
  BY DEF BookInv, BookTypeOK
<1>2. BookTypeOK'
  BY DEF BookInv, BookTypeOK
<1>3. Named'
  BY <1>1 DEF BookInv, Named
<1>4. \A d \in Errand \ {e} : Course(d)'
  BY <1>1, CourseFrame DEF BookInv
<1> QED
  BY <1>1, <1>2, <1>3, <1>4

-----------------------------------------------------------------------------
(* One lemma per action.                                                   *)

LEMMA BeginStep ==
  ASSUME BookInv, NEW e \in Errand, NEW entry \in Entry,
         StartErrand(e, entry) \/ AddWallet(e, entry)
  PROVE  BookInv'
<1> DEFINE pc  == IF StartErrand(e, entry) /\ entry.manner = "transfer"
                  THEN "paying" ELSE "looking"
           new == [errand[e] EXCEPT !.pc = pc, !.entry = entry]
<1>1. errand[e] \in [pc : {"idle", "paying", "looking", "adding", "ok", "error"},
                     entry : Entry \cup {NoEntry}, answered : BOOLEAN]
      /\ errand[e].pc = "idle" /\ e \notin spent
  BY DEF BookInv, BookTypeOK, StartErrand, AddWallet, Course
<1>2. errand' = [errand EXCEPT ![e] = new] /\ UNCHANGED <<book, spent, raced>>
  BY <1>1 DEF StartErrand, AddWallet, Unnamed, BookInv, BookTypeOK
<1>3. /\ new \in [pc : {"idle", "paying", "looking", "adding", "ok", "error"},
                  entry : Entry, answered : BOOLEAN]
      /\ new.pc = pc /\ new.entry = entry
  BY <1>1
<1>4. pc \in {"paying", "looking"}
      /\ (pc = "paying" => entry.manner = "transfer")
      /\ (pc = "looking" => entry.manner # "transfer")
  BY DEF StartErrand, AddWallet, Unnamed
<1> HIDE DEF pc, new
<1>5. /\ BookTypeOK' /\ Named'
      /\ errand'[e] = new /\ \A d \in Errand \ {e} : errand'[d] = errand[d]
      /\ \A d \in Errand \ {e} : Course(d)'
  BY <1>2, <1>3, OneErrand DEF BookInv, BookTypeOK
<1>6. Course(e)'
  BY <1>1, <1>2, <1>3, <1>4, <1>5 DEF Course, Unnamed
<1>7. \A d \in Entry \ raced' : Sole(d)'
  BY <1>2, <1>3, <1>4, <1>5, SoleFrame DEF BookInv
<1> QED
  BY <1>5, <1>6, <1>7 DEF BookInv

LEMMA MoneyStep ==
  ASSUME BookInv, NEW e \in Errand, MoveMoney(e)
  PROVE  BookInv'
<1> DEFINE entry == errand[e].entry
<1>1. /\ errand[e] \in [pc : {"idle", "paying", "looking", "adding", "ok", "error"},
                        entry : Entry, answered : BOOLEAN]
      /\ errand[e].pc = "paying" /\ entry \in Entry
  BY DEF BookInv, BookTypeOK, MoveMoney, At, Named
<1>2. ~ Unnamed(entry) /\ (entry.manner # "transfer" => Finds(e))
  BY <1>1 DEF BookInv, Course
<1>3. PICK new \in [pc : {"idle", "paying", "looking", "adding", "ok", "error"},
                    entry : Entry, answered : BOOLEAN] :
        /\ errand' = [errand EXCEPT ![e] = new]
        /\ new.entry = entry
        /\ \/ new.pc = "looking" /\ entry.manner = "transfer"
           \/ new.pc = "ok" /\ entry.manner # "transfer"
           \/ new.pc = "error" /\ ~ new.answered
  <2>1. CASE Goto(e, AfterPay(e))
    <3> DEFINE new == [errand[e] EXCEPT !.pc = AfterPay(e)]
    <3>1. AfterPay(e) \in {"looking", "ok"}
          /\ (AfterPay(e) = "looking" <=> entry.manner = "transfer")
      BY DEF AfterPay
    <3>2. /\ new \in [pc : {"idle", "paying", "looking", "adding", "ok", "error"},
                      entry : Entry, answered : BOOLEAN]
          /\ new.pc = AfterPay(e) /\ new.entry = entry
      BY <1>1, <3>1
    <3>3. errand' = [errand EXCEPT ![e] = new]
      BY <2>1 DEF Goto, BookInv, BookTypeOK
    <3> QED
      BY <3>1, <3>2, <3>3
  <2>2. CASE errand' = [errand EXCEPT ![e].pc = "error", ![e].answered = FALSE]
    <3> DEFINE new == [errand[e] EXCEPT !.pc = "error", !.answered = FALSE]
    <3>1. /\ new \in [pc : {"idle", "paying", "looking", "adding", "ok", "error"},
                      entry : Entry, answered : BOOLEAN]
          /\ new.pc = "error" /\ new.entry = entry /\ new.answered = FALSE
      BY <1>1
    <3>2. errand' = [errand EXCEPT ![e] = new]
      BY <1>1, <2>2 DEF BookInv, BookTypeOK
    <3> QED
      BY <3>1, <3>2
  <2> QED
    BY <2>1, <2>2 DEF MoveMoney
<1>4. spent' = spent \cup {e} /\ UNCHANGED <<book, raced>>
  BY DEF MoveMoney
<1> HIDE DEF entry
<1>5. /\ BookTypeOK' /\ Named'
      /\ errand'[e] = new /\ \A d \in Errand \ {e} : errand'[d] = errand[d]
      /\ \A d \in Errand \ {e} : Course(d)'
  BY <1>3, <1>4, OneErrand DEF BookInv, BookTypeOK
<1>6. Course(e)'
  <2>1. Finds(e)' <=> Finds(e)
    <3>1. errand'[e].entry = errand[e].entry
      BY <1>3, <1>5 DEF entry
    <3> QED
      BY <1>4, <3>1 DEF Finds, Found
  <2> QED
    BY <1>2, <1>3, <1>4, <1>5, <2>1 DEF Course, Unnamed, entry
<1>7. \A d \in Entry \ raced' : Sole(d)'
  BY <1>3, <1>4, <1>5, SoleFrame DEF BookInv
<1> QED
  BY <1>5, <1>6, <1>7 DEF BookInv

LEMMA FailStep ==
  ASSUME BookInv, NEW e \in Errand, ErrandFails(e)
  PROVE  BookInv'
<1> DEFINE new == [errand[e] EXCEPT !.pc = "error"]
<1>1. /\ errand[e] \in [pc : {"idle", "paying", "looking", "adding", "ok", "error"},
                        entry : Entry, answered : BOOLEAN]
      /\ errand[e].pc \in {"paying", "looking", "adding"}
  BY DEF BookInv, BookTypeOK, ErrandFails, Named
<1>2. errand' = [errand EXCEPT ![e] = new] /\ UNCHANGED <<book, spent, raced>>
  BY DEF ErrandFails, Goto, BookInv, BookTypeOK
<1>3. /\ new \in [pc : {"idle", "paying", "looking", "adding", "ok", "error"},
                  entry : Entry, answered : BOOLEAN]
      /\ new.pc = "error" /\ new.entry = errand[e].entry
  BY <1>1
<1>4. e \in spent => new.entry.manner = "transfer"
  BY <1>1, <1>3 DEF BookInv, Course
<1> HIDE DEF new
<1>5. /\ BookTypeOK' /\ Named'
      /\ errand'[e] = new /\ \A d \in Errand \ {e} : errand'[d] = errand[d]
      /\ \A d \in Errand \ {e} : Course(d)'
  BY <1>2, <1>3, OneErrand DEF BookInv, BookTypeOK
<1>6. Course(e)'
  BY <1>2, <1>3, <1>4, <1>5 DEF Course
<1>7. \A d \in Entry \ raced' : Sole(d)'
  BY <1>2, <1>3, <1>5, SoleFrame DEF BookInv
<1> QED
  BY <1>5, <1>6, <1>7 DEF BookInv

LEMMA FindStep ==
  ASSUME BookInv, NEW e \in Errand, FindBeneficiary(e)
  PROVE  BookInv'
<1> DEFINE entry == errand[e].entry
           pc    == IF Found(entry) # {} THEN AfterSave(e) ELSE "adding"
           new   == [errand[e] EXCEPT !.pc = pc]
<1>1. /\ errand[e] \in [pc : {"idle", "paying", "looking", "adding", "ok", "error"},
                        entry : Entry, answered : BOOLEAN]
      /\ errand[e].pc = "looking" /\ entry \in Entry
  BY DEF BookInv, BookTypeOK, FindBeneficiary, At, Named
<1>2. e \in spent <=> entry.manner = "transfer"
  BY <1>1 DEF BookInv, Course
<1>3. errand' = [errand EXCEPT ![e] = new] /\ UNCHANGED <<book, spent>>
  BY DEF FindBeneficiary, Goto, BookInv, BookTypeOK
<1>4. /\ raced' \subseteq Entry /\ raced \subseteq raced'
      /\ entry \notin raced' => \A f \in At("adding") : errand[f].entry # entry
  BY <1>1 DEF FindBeneficiary, BookInv, BookTypeOK
<1>5. AfterSave(e) \in {"ok", "paying"}
      /\ (AfterSave(e) = "ok" <=> entry.manner = "transfer" \/ Unnamed(entry))
  BY DEF AfterSave
<1>6. pc \in {"ok", "paying", "adding"} /\ (pc # "adding" => Found(entry) # {})
      /\ (pc = "adding" => Found(entry) = {})
      /\ (pc = "ok" => entry.manner = "transfer" \/ Unnamed(entry))
      /\ (pc = "paying" => entry.manner # "transfer" /\ ~ Unnamed(entry))
  BY <1>5
<1>7. /\ new \in [pc : {"idle", "paying", "looking", "adding", "ok", "error"},
                  entry : Entry, answered : BOOLEAN]
      /\ new.pc = pc /\ new.entry = entry
  BY <1>1, <1>6
<1> HIDE DEF entry, pc, new
<1>8. /\ BookTypeOK' /\ Named'
      /\ errand'[e] = new /\ \A d \in Errand \ {e} : errand'[d] = errand[d]
      /\ \A d \in Errand \ {e} : Course(d)'
  BY <1>3, <1>4, <1>7, OneErrand DEF BookInv, BookTypeOK
<1>9. Course(e)'
  <2>1. Finds(e)' <=> Found(entry) # {}
    <3>1. errand'[e].entry = entry
      BY <1>7, <1>8
    <3> QED
      BY <1>3, <3>1 DEF Finds, Found
  <2> QED
    BY <1>2, <1>3, <1>6, <1>7, <1>8, <2>1 DEF Course, Unnamed
<1>10. ASSUME NEW d \in Entry \ raced' PROVE Sole(d)'
  <2>1. Sole(d)
    BY <1>4 DEF BookInv
  <2>2. Listed(d)' = Listed(d)
    BY <1>3 DEF Listed
  <2>3. CASE pc # "adding" \/ d # entry
    <3>1. \A f \in At("adding")' : errand'[f].entry = d =>
            f \in At("adding") /\ errand[f].entry = d
      BY <1>7, <1>8, <2>3 DEF At
    <3> QED
      BY <2>1, <2>2, <3>1 DEF Sole
  <2>4. CASE pc = "adding" /\ d = entry
    <3>1. Listed(d) = {}
      BY <1>6, <2>4 DEF Found, Matches, Listed
    <3>2. \A f \in At("adding")' : errand'[f].entry = d => f = e
      BY <1>4, <1>8, <2>4 DEF At
    <3> QED
      BY <2>1, <2>2, <3>1, <3>2 DEF Sole
  <2> QED
    BY <2>3, <2>4
<1> QED
  BY <1>8, <1>9, <1>10 DEF BookInv

LEMMA SaveStep ==
  ASSUME BookInv, NEW e \in Errand, SaveBeneficiary(e)
  PROVE  BookInv'
<1> DEFINE entry == errand[e].entry
           pc    == AfterSave(e)
           new   == [errand[e] EXCEPT !.pc = pc]
           row   == [id |-> e, entry |-> entry]
<1>1. /\ errand[e] \in [pc : {"idle", "paying", "looking", "adding", "ok", "error"},
                        entry : Entry, answered : BOOLEAN]
      /\ errand[e].pc = "adding" /\ entry \in Entry /\ ~ Unnamed(entry)
  BY DEF BookInv, BookTypeOK, SaveBeneficiary, At, Named
<1>2. e \in spent <=> entry.manner = "transfer"
  BY <1>1 DEF BookInv, Course
<1>3. /\ errand' = [errand EXCEPT ![e] = new]
      /\ book' = book \cup {row} /\ UNCHANGED <<spent, raced>>
  BY DEF SaveBeneficiary, Goto, BookInv, BookTypeOK
<1>4. pc \in {"ok", "paying"} /\ (pc = "ok" <=> entry.manner = "transfer")
  BY <1>1 DEF AfterSave
<1>5. /\ new \in [pc : {"idle", "paying", "looking", "adding", "ok", "error"},
                  entry : Entry, answered : BOOLEAN]
      /\ new.pc = pc /\ new.entry = entry
  BY <1>1, <1>4
<1>6. row \in [id : Errand, entry : Entry] /\ row.entry = entry
  BY <1>1
<1> HIDE DEF entry, pc, new, row
<1>7. /\ BookTypeOK' /\ Named'
      /\ errand'[e] = new /\ \A d \in Errand \ {e} : errand'[d] = errand[d]
      /\ \A d \in Errand \ {e} : Course(d)'
  BY <1>3, <1>5, <1>6, OneErrand DEF BookInv, BookTypeOK
<1>8. Course(e)'
  <2>1. Finds(e)'
    <3>1. row \in book' /\ Matches(row, errand'[e].entry)
      BY <1>3, <1>5, <1>6, <1>7 DEF Matches
    <3> QED
      BY <3>1 DEF Finds, Found
  <2> QED
    BY <1>1, <1>2, <1>3, <1>4, <1>5, <1>7, <2>1 DEF Course, Unnamed
<1>9. ASSUME NEW d \in Entry \ raced' PROVE Sole(d)'
  <2>1. Sole(d)
    BY <1>3 DEF BookInv
  <2>2. \A f \in At("adding")' : f \in At("adding") /\ f # e
                                 /\ errand'[f].entry = errand[f].entry
    BY <1>4, <1>5, <1>7 DEF At
  <2>3. CASE d # entry
    <3>1. Listed(d)' = Listed(d)
      BY <1>3, <1>6, <2>3 DEF Listed
    <3> QED
      BY <2>1, <2>2, <3>1 DEF Sole
  <2>4. CASE d = entry
    <3>1. e \in At("adding") /\ errand[e].entry = d
      BY <1>1, <2>4 DEF At, entry
    <3>2. Listed(d) = {} /\ \A f \in At("adding") : errand[f].entry = d => f = e
      BY <2>1, <3>1 DEF Sole
    <3>3. \A r \in Listed(d)' : r = row
      BY <1>3, <3>2 DEF Listed
    <3> QED
      BY <2>2, <3>2, <3>3 DEF Sole
  <2> QED
    BY <2>3, <2>4
<1> QED
  BY <1>7, <1>8, <1>9 DEF BookInv

LEMMA BookStep == BookInv /\ [BookNext]_bookVars => BookInv'
<1> SUFFICES ASSUME BookInv, [BookNext]_bookVars PROVE BookInv'
  OBVIOUS
<1>1. CASE UNCHANGED bookVars
  <2>1. BookTypeOK' /\ Named'
    BY <1>1 DEF BookInv, BookTypeOK, Named, bookVars
  <2>2. \A e \in Errand : Course(e)'
    BY <1>1, CourseFrame DEF BookInv, bookVars
  <2>3. \A d \in Entry \ raced' : Sole(d)'
    BY <1>1, SoleFrame DEF BookInv, bookVars
  <2> QED
    BY <2>1, <2>2, <2>3 DEF BookInv
<1>2. ASSUME NEW e \in Errand, NEW entry \in Entry,
             StartErrand(e, entry) \/ AddWallet(e, entry)
      PROVE  BookInv'
  BY <1>2, BeginStep
<1>3. ASSUME NEW e \in Errand,
             MoveMoney(e) \/ FindBeneficiary(e) \/ SaveBeneficiary(e)
               \/ ErrandFails(e)
      PROVE  BookInv'
  BY <1>3, MoneyStep, FindStep, SaveStep, FailStep
<1> QED
  BY <1>1, <1>2, <1>3 DEF BookNext

\* A set whose members are all one.
LEMMA AtMostOne ==
  ASSUME NEW S, \A r, s \in S : r = s
  PROVE  Cardinality(S) <= 1
<1>1. CASE S = {}
  BY <1>1, FS_EmptySet
<1>2. CASE S # {}
  <2>1. PICK r : S = {r}
    BY <1>2
  <2> QED
    BY <2>1, FS_Singleton
<1> QED
  BY <1>1, <1>2

LEMMA BookIsGood == BookInv => BeneficiaryOnce
<1> SUFFICES ASSUME BookInv PROVE BeneficiaryOnce
  OBVIOUS
<1>1. ListedOnce
  BY AtMostOne DEF BookInv, ListedOnce, Sole
<1>2. ListedWhenAsked /\ PaidWhenOk /\ ErrorMeansUnpaid
  BY DEF BookInv, Course, Finds, Found, At, ListedWhenAsked, PaidWhenOk,
         ErrorMeansUnpaid
<1> QED
  BY <1>1, <1>2 DEF BookInv, BeneficiaryOnce

(***************************************************************************)
(* Whatever payments save whatever beneficiaries at once: an entry nobody  *)
(* raced for is listed once, a success has its beneficiary listed and its  *)
(* money moved, and an error of a withdrawal has moved none unless its     *)
(* answer was lost.                                                        *)
(***************************************************************************)
THEOREM SavedOnce == BookSpec => []BeneficiaryOnce
BY BookStart, BookStep, BookIsGood, PTL DEF BookSpec

-----------------------------------------------------------------------------
(***************************************************************************)
(* The access tokens of Triple-A, for any calls, keys and times.           *)
(***************************************************************************)

TokenType == {Unissued} \cup [state : {"issued", "stored"}, key : Key,
                              asked : Time, issued : Time, saved : Time]

CallType == {NoCall} \cup
  [pc : {"missed", "fetched", "holding", "prepared", "refused"}, key : Key,
   bearer : Bearer \cup {NoBearer}, since : Time, ended : Time]

IsStored(b) == bearer[b].state = "stored"

(***************************************************************************)
(* A row tells times in the order they came.                               *)
(***************************************************************************)
InOrder ==
  \A b \in Bearer : bearer[b] # Unissued =>
    /\ bearer[b].asked <= bearer[b].issued
    /\ bearer[b].issued <= bearer[b].saved
    /\ bearer[b].saved <= clock

\* Whoever looked at time t for a token of key k and found none: each row of k
\* had expired, or was saved since.
Missed(k, t) ==
  \A d \in Bearer : IsStored(d) /\ bearer[d].key = k =>
    ExpireAt(d) <= t \/ t <= bearer[d].saved

(***************************************************************************)
(* What each call knows.  A fetched token is its call's own until it is    *)
(* saved, and a token that was found had not expired then.                 *)
(***************************************************************************)
Knows(c) ==
  /\ call[c].since <= clock
  /\ call[c].pc = "missed" => Missed(call[c].key, call[c].since)
  /\ call[c].pc = "fetched" =>
       /\ call[c].bearer \in Bearer
       /\ bearer[call[c].bearer].state = "issued"
       /\ \A e \in Asker \ {c} : call[e].pc = "fetched" => call[e].bearer # call[c].bearer
  /\ call[c].pc \in {"holding", "prepared"} /\ call[c].bearer # NoBearer =>
       IsStored(call[c].bearer) /\ call[c].since < ExpireAt(call[c].bearer)
  /\ call[c].pc = "refused" /\ call[c].bearer # NoBearer => IsStored(call[c].bearer)

CallsKnow == \A c \in Asker : Knows(c)

Caused(b) == bearer[b].state = "issued" => Missed(bearer[b].key, bearer[b].asked)

IssuedForCause == \A b \in Bearer : Caused(b)

AccessInv ==
  /\ AccessTypeOK
  /\ InOrder
  /\ CallsKnow
  /\ IssuedForCause
  /\ RefusedForCause
  /\ FetchedForCause

-----------------------------------------------------------------------------
LEMMA TimeIsInt ==
  /\ Time \subseteq Int /\ Horizon \in Nat /\ Lifetime \in Nat /\ Lifetime > 0
  /\ 0 \in Time /\ NoBearer \notin Bearer
BY AccessAssumption DEF Time

LEMMA Types ==
  ASSUME AccessTypeOK
  PROVE  /\ clock \in Int /\ clock \in Time
         /\ bearer \in [Bearer -> TokenType] /\ call \in [Asker -> CallType]
         /\ \A b \in Bearer : /\ bearer[b].asked \in Int /\ bearer[b].issued \in Int
                              /\ bearer[b].saved \in Int /\ ExpireAt(b) \in Int
                              /\ bearer[b] # Unissued <=> bearer[b].state \in {"issued", "stored"}
         /\ \A c \in Asker : /\ call[c].since \in Int /\ call[c].ended \in Int
                             /\ call[c].bearer \in Bearer \cup {NoBearer}
                             /\ call[c].pc # "idle" => /\ call[c].key \in Key
                                                       /\ call[c].since \in Time
<1>1. bearer \in [Bearer -> TokenType] /\ call \in [Asker -> CallType] /\ clock \in Time
  BY DEF AccessTypeOK, TokenType, CallType
<1>2. ASSUME NEW r \in TokenType
      PROVE  /\ r.asked \in Int /\ r.issued \in Int /\ r.saved \in Int
             /\ r # Unissued <=> r.state \in {"issued", "stored"}
  <2>1. CASE r = Unissued
    BY <2>1, TimeIsInt DEF Unissued
  <2>2. CASE r \in [state : {"issued", "stored"}, key : Key,
                    asked : Time, issued : Time, saved : Time]
    <3>1. r.state \in {"issued", "stored"} /\ r.asked \in Time /\ r.issued \in Time
          /\ r.saved \in Time
      BY <2>2
    <3>2. Unissued.state = "unissued"
      BY DEF Unissued
    <3>3. QED
      BY <3>1, <3>2, TimeIsInt
  <2>3. QED
    BY <2>1, <2>2 DEF TokenType
<1>3. ASSUME NEW x \in CallType
      PROVE  /\ x.since \in Int /\ x.ended \in Int
             /\ x.bearer \in Bearer \cup {NoBearer}
             /\ x.pc # "idle" => x.key \in Key /\ x.since \in Time
  <2>1. CASE x = NoCall
    BY <2>1, TimeIsInt DEF NoCall
  <2>2. CASE x \in [pc : {"missed", "fetched", "holding", "prepared", "refused"}, key : Key,
                    bearer : Bearer \cup {NoBearer}, since : Time, ended : Time]
    BY <2>2, TimeIsInt
  <2>3. QED
    BY <2>1, <2>2 DEF CallType
<1>4. QED
  BY <1>1, <1>2, <1>3, TimeIsInt DEF ExpireAt

LEMMA AccessInitInv == AccessInit => AccessInv
<1> SUFFICES ASSUME AccessInit PROVE AccessInv
  OBVIOUS
<1>1. clock = 0 /\ (\A b \in Bearer : bearer[b] = Unissued) /\ (\A c \in Asker : call[c] = NoCall)
  BY DEF AccessInit
<1>2. AccessTypeOK
  BY TimeIsInt DEF AccessInit, AccessTypeOK
<1>3. InOrder /\ IssuedForCause /\ RefusedForCause /\ FetchedForCause
  BY <1>1 DEF InOrder, IssuedForCause, Caused, RefusedForCause, FetchedForCause, TokenRows,
              Unissued, NoCall
<1>4. CallsKnow
  BY <1>1 DEF CallsKnow, Knows, NoCall
<1>5. QED
  BY <1>2, <1>3, <1>4 DEF AccessInv

-----------------------------------------------------------------------------
(***************************************************************************)
(* A step of one call that leaves the clock and the table alone keeps the  *)
(* invariant if it leaves that call with what it should know.              *)
(***************************************************************************)
LEMMA CallMoves ==
  ASSUME AccessInv, NEW c \in Asker, NEW x \in CallType,
         UNCHANGED <<clock, bearer>>, call' = [call EXCEPT ![c] = x],
         x.since <= clock,
         x.pc = "missed" => Missed(x.key, x.since),
         x.pc # "fetched",
         x.pc \in {"holding", "prepared"} /\ x.bearer # NoBearer =>
            IsStored(x.bearer) /\ x.since < ExpireAt(x.bearer),
         x.pc = "refused" /\ x.bearer # NoBearer =>
            IsStored(x.bearer) /\ (x.ended - x.since) + Lag(x.bearer) > 0
  PROVE  AccessInv'
<1>1. \A e \in Asker : call'[e] = IF e = c THEN x ELSE call[e]
  BY Types DEF AccessInv
<1>2. AccessTypeOK'
  BY Types DEF AccessInv, AccessTypeOK, CallType
<1>3. InOrder' /\ IssuedForCause' /\ FetchedForCause'
  BY DEF AccessInv, InOrder, IssuedForCause, Caused, FetchedForCause, Missed, TokenRows, IsStored,
         ExpireAt
<1>4. \A k, t : Missed(k, t)' <=> Missed(k, t)
  BY DEF Missed, IsStored, ExpireAt
<1>5. \A b : (IsStored(b)' <=> IsStored(b)) /\ ExpireAt(b)' = ExpireAt(b) /\ Lag(b)' = Lag(b)
  BY DEF IsStored, ExpireAt, Lag
<1>6. CallsKnow'
  BY <1>1, <1>4, <1>5 DEF AccessInv, CallsKnow, Knows
<1>7. RefusedForCause'
  BY <1>1, <1>5 DEF AccessInv, RefusedForCause
<1>8. QED
  BY <1>2, <1>3, <1>6, <1>7 DEF AccessInv

LEMMA NoCallMoves ==
  ASSUME AccessInv, NEW c \in Asker, UNCHANGED <<clock, bearer>>,
         call' = [call EXCEPT ![c] = NoCall]
  PROVE  AccessInv'
<1>1. PICK x : x = NoCall
  OBVIOUS
<1>2. x \in CallType /\ x.pc = "idle" /\ x.since = 0
  BY <1>1 DEF CallType, NoCall
<1>3. x.since <= clock
  BY <1>2, Types, TimeIsInt DEF AccessInv, Time
<1>4. QED
  BY <1>1, <1>2, <1>3, CallMoves

LEMMA LookupKeeps ==
  ASSUME AccessInv, NEW c \in Asker, NEW k \in Key, Lookup(c, k)
  PROVE  AccessInv'
<1>1. CASE \E b \in Youngest(ValidRows(k)) :
             call' = [call EXCEPT ![c] = [pc |-> "holding", key |-> k, bearer |-> b,
                                          since |-> clock, ended |-> 0]]
  <2>1. PICK b \in Youngest(ValidRows(k)) :
             call' = [call EXCEPT ![c] = [pc |-> "holding", key |-> k, bearer |-> b,
                                          since |-> clock, ended |-> 0]]
    BY <1>1
  <2>2. b \in Bearer /\ IsStored(b) /\ clock < ExpireAt(b)
    BY <2>1, Types DEF Youngest, ValidRows, TokenRows, IsStored, AccessInv
  <2>3. PICK x : x = [pc |-> "holding", key |-> k, bearer |-> b, since |-> clock, ended |-> 0]
    OBVIOUS
  <2>4. x \in CallType /\ x.since = clock /\ x.pc = "holding" /\ x.bearer = b
    BY <2>2, <2>3, Types, TimeIsInt DEF CallType, AccessInv
  <2>5. call' = [call EXCEPT ![c] = x] /\ x.since <= clock /\ UNCHANGED <<clock, bearer>>
    BY <2>1, <2>3, <2>4, Types DEF Lookup, AccessInv
  <2>6. QED
    BY <2>2, <2>4, <2>5, CallMoves
<1>2. CASE /\ ValidRows(k) = {}
           /\ call' = [call EXCEPT ![c] = [pc |-> "missed", key |-> k, bearer |-> NoBearer,
                                           since |-> clock, ended |-> 0]]
  <2>1. Missed(k, clock)
    <3>1. \A d \in Bearer : IsStored(d) /\ bearer[d].key = k => ~ (ExpireAt(d) > clock)
      BY <1>2 DEF ValidRows, TokenRows, IsStored
    <3>2. QED
      BY <3>1, Types DEF Missed, AccessInv
  <2>2. PICK x : x = [pc |-> "missed", key |-> k, bearer |-> NoBearer,
                      since |-> clock, ended |-> 0]
    OBVIOUS
  <2>3. x \in CallType /\ x.since = clock /\ x.pc = "missed" /\ x.key = k
    BY <2>2, Types, TimeIsInt DEF CallType, AccessInv
  <2>4. call' = [call EXCEPT ![c] = x] /\ x.since <= clock /\ UNCHANGED <<clock, bearer>>
    BY <1>2, <2>2, <2>3, Types DEF Lookup, AccessInv
  <2>5. QED
    BY <2>1, <2>3, <2>4, CallMoves
<1>3. QED
  BY <1>1, <1>2 DEF Lookup

LEMMA FetchKeeps ==
  ASSUME AccessInv, NEW c \in Asker, NEW b \in Bearer, Fetch(c, b)
  PROVE  AccessInv'
<1>1. PICK k \in Key, t \in Time : k = call[c].key /\ t = call[c].since
  BY Types DEF Fetch, AccessInv
<1>2. PICK r : r = [state |-> "issued", key |-> k, asked |-> t,
                    issued |-> clock, saved |-> clock]
  OBVIOUS
<1>3. r \in TokenType /\ r # Unissued
  BY <1>2, Types DEF TokenType, Unissued, AccessInv
<1>4. PICK x : x = [call[c] EXCEPT !.pc = "fetched", !.bearer = b]
  OBVIOUS
<1>5. x \in CallType /\ x.pc = "fetched" /\ x.bearer = b /\ x.since = t
  <2>1. call[c] \in [pc : {"missed", "fetched", "holding", "prepared", "refused"}, key : Key,
                     bearer : Bearer \cup {NoBearer}, since : Time, ended : Time]
    BY Types DEF CallType, NoCall, Fetch, AccessInv
  <2>2. QED
    BY <1>1, <1>4, <2>1 DEF CallType
<1>6. /\ bearer' = [bearer EXCEPT ![b] = r] /\ call' = [call EXCEPT ![c] = x] /\ clock' = clock
      /\ bearer[b] = Unissued /\ call[c].pc = "missed"
  BY <1>1, <1>2, <1>4, Types DEF Fetch, AccessInv
<1>7. /\ \A e \in Asker : call'[e] = IF e = c THEN x ELSE call[e]
      /\ \A d \in Bearer : bearer'[d] = IF d = b THEN r ELSE bearer[d]
  BY <1>6, Types DEF AccessInv
<1>8. AccessTypeOK'
  BY <1>3, <1>5, <1>6, Types DEF AccessInv, AccessTypeOK, CallType, TokenType
<1>9. t <= clock /\ Missed(k, t)
  BY <1>1, <1>6 DEF AccessInv, CallsKnow, Knows
<1>10. InOrder'
  BY <1>2, <1>6, <1>7, <1>9, Types DEF AccessInv, InOrder
<1>11. \A d \in Bearer : /\ IsStored(d)' <=> IsStored(d)
                         /\ IsStored(d) => d # b /\ bearer'[d] = bearer[d]
                                           /\ ExpireAt(d)' = ExpireAt(d) /\ Lag(d)' = Lag(d)
  BY <1>2, <1>6, <1>7 DEF IsStored, Unissued, ExpireAt, Lag
<1>12. \A q, s : Missed(q, s)' <=> Missed(q, s)
  BY <1>11 DEF Missed
<1>13. ASSUME NEW e \in Asker
       PROVE  Knows(e)'
  <2>1. \A f \in Asker : call[f].pc = "fetched" => call[f].bearer # b
    BY <1>6 DEF AccessInv, CallsKnow, Knows, Unissued
  <2>2. CASE e = c
    <3>1. /\ call'[e] = x /\ bearer'[b].state = "issued"
          /\ \A f \in Asker \ {e} : call'[f].pc = "fetched" => call'[f].bearer # b
      BY <1>2, <1>7, <2>1, <2>2
    <3>2. QED
      BY <1>5, <1>6, <1>9, <3>1 DEF Knows
  <2>3. CASE e # c
    <3>1. call'[e] = call[e] /\ call[e].bearer \in Bearer \cup {NoBearer} /\ Knows(e)
      BY <1>7, <2>3, Types DEF AccessInv, CallsKnow, Knows
    <3>2. call[e].pc = "fetched" =>
            /\ bearer'[call[e].bearer].state = "issued"
            /\ \A f \in Asker \ {e} :
                 call'[f].pc = "fetched" => call'[f].bearer # call[e].bearer
      BY <1>2, <1>5, <1>7, <2>1, <3>1 DEF Knows
    <3>3. PICK d \in Bearer \cup {NoBearer} : d = call[e].bearer
      BY <3>1
    <3>4. PICK q, s : q = call[e].key /\ s = call[e].since
      OBVIOUS
    <3>5. Missed(q, s)' <=> Missed(q, s)
      BY <1>12
    <3>6. IsStored(d) /\ d # NoBearer => IsStored(d)' /\ ExpireAt(d)' = ExpireAt(d)
      BY <1>11
    <3>7. QED
      BY <1>6, <3>1, <3>2, <3>3, <3>4, <3>5, <3>6 DEF Knows
  <2>4. QED
    BY <2>2, <2>3
<1>14. CallsKnow'
  BY <1>13 DEF CallsKnow
<1>15. IssuedForCause'
  BY <1>2, <1>7, <1>9, <1>12 DEF AccessInv, IssuedForCause, Caused
<1>16. RefusedForCause'
  BY <1>5, <1>7, <1>11, Types DEF AccessInv, RefusedForCause, CallsKnow, Knows
<1>17. FetchedForCause'
  <2>1. \A q : TokenRows(q)' = TokenRows(q)
    BY <1>11 DEF TokenRows, IsStored
  <2>2. \A q : \A d \in TokenRows(q) : /\ bearer'[d] = bearer[d]
                                       /\ ExpireAt(d)' = ExpireAt(d)
    BY <1>11 DEF TokenRows, IsStored
  <2>3. QED
    BY <2>1, <2>2 DEF AccessInv, FetchedForCause
<1>18. QED
  BY <1>8, <1>10, <1>14, <1>15, <1>16, <1>17 DEF AccessInv

LEMMA SaveKeeps ==
  ASSUME AccessInv, NEW c \in Asker, Save(c)
  PROVE  AccessInv'
<1>1. PICK b \in Bearer : b = call[c].bearer
  BY DEF Save, AccessInv, CallsKnow, Knows
<1>2. /\ bearer[b].state = "issued" /\ call[c].pc = "fetched"
      /\ \A e \in Asker \ {c} : call[e].pc = "fetched" => call[e].bearer # b
      /\ call[c].since <= clock
  BY <1>1 DEF Save, AccessInv, CallsKnow, Knows
<1>3. PICK r : r = [bearer[b] EXCEPT !.state = "stored", !.saved = clock]
  OBVIOUS
<1>4. bearer[b] \in [state : {"issued", "stored"}, key : Key,
                     asked : Time, issued : Time, saved : Time]
  BY <1>2, Types DEF AccessInv, TokenType, Unissued
<1>5. /\ r \in TokenType /\ r.state = "stored" /\ r.saved = clock
      /\ r.asked = bearer[b].asked /\ r.issued = bearer[b].issued /\ r.key = bearer[b].key
  BY <1>3, <1>4, Types DEF AccessInv, TokenType
<1>6. PICK x : x = [call[c] EXCEPT !.pc = "holding", !.since = clock]
  OBVIOUS
<1>7. call[c] \in [pc : {"missed", "fetched", "holding", "prepared", "refused"}, key : Key,
                   bearer : Bearer \cup {NoBearer}, since : Time, ended : Time]
  BY <1>2, Types DEF CallType, NoCall, AccessInv
<1>8. x \in CallType /\ x.pc = "holding" /\ x.bearer = b /\ x.since = clock
  BY <1>1, <1>6, <1>7, Types DEF CallType, AccessInv
<1>9. bearer' = [bearer EXCEPT ![b] = r] /\ call' = [call EXCEPT ![c] = x] /\ clock' = clock
  BY <1>1, <1>3, <1>6, Types DEF Save, AccessInv
<1>10. /\ \A e \in Asker : call'[e] = IF e = c THEN x ELSE call[e]
       /\ \A d \in Bearer : bearer'[d] = IF d = b THEN r ELSE bearer[d]
  BY <1>9, Types DEF AccessInv
<1>11. AccessTypeOK'
  BY <1>5, <1>8, <1>9, Types DEF AccessInv, AccessTypeOK, CallType, TokenType
<1>12. InOrder'
  BY <1>2, <1>5, <1>9, <1>10, Types DEF AccessInv, InOrder
<1>13. /\ \A d \in Bearer \ {b} : /\ bearer'[d] = bearer[d] /\ (IsStored(d)' <=> IsStored(d))
                                 /\ ExpireAt(d)' = ExpireAt(d) /\ Lag(d)' = Lag(d)
       /\ IsStored(b)' /\ ~ IsStored(b) /\ ExpireAt(b)' = clock + Lifetime
  BY <1>2, <1>5, <1>10 DEF IsStored, ExpireAt, Lag
\* The row that is saved is younger than any lookup.
<1>14. ASSUME NEW q, NEW t \in Int, Missed(q, t), t <= clock
       PROVE  Missed(q, t)'
  BY <1>5, <1>10, <1>13, <1>14 DEF Missed
<1>15. ASSUME NEW e \in Asker
       PROVE  Knows(e)'
  <2>1. CASE e = c
    <3>1. call'[e] = x /\ clock < clock + Lifetime /\ clock <= clock
      BY <1>10, <2>1, Types, TimeIsInt DEF AccessInv
    <3>2. QED
      BY <1>8, <1>9, <1>13, <3>1 DEF Knows
  <2>2. CASE e # c
    <3>1. /\ call'[e] = call[e] /\ call[e].bearer \in Bearer \cup {NoBearer} /\ Knows(e)
          /\ call[e].since \in Int
      BY <1>10, <2>2, Types DEF AccessInv, CallsKnow
    <3>2. PICK d \in Bearer \cup {NoBearer} : d = call[e].bearer
      BY <3>1
    <3>3. PICK q, t : q = call[e].key /\ t = call[e].since
      OBVIOUS
    <3>4. call[e].pc = "missed" => Missed(q, t)'
      BY <1>14, <3>1, <3>3 DEF Knows
    <3>5. call[e].pc = "fetched" =>
            /\ bearer'[d].state = "issued"
            /\ \A f \in Asker \ {e} : call'[f].pc = "fetched" => call'[f].bearer # d
      BY <1>2, <1>8, <1>10, <2>2, <3>1, <3>2 DEF Knows
    <3>6. IsStored(d) /\ d # NoBearer => IsStored(d)' /\ ExpireAt(d)' = ExpireAt(d)
      BY <1>13
    <3>7. QED
      BY <1>9, <3>1, <3>2, <3>3, <3>4, <3>5, <3>6 DEF Knows
  <2>3. QED
    BY <2>1, <2>2
<1>16. CallsKnow'
  BY <1>15 DEF CallsKnow
<1>17. IssuedForCause'
  <2>1. ASSUME NEW d \in Bearer, bearer'[d].state = "issued"
        PROVE  Caused(d)'
    <3>1. d # b /\ bearer'[d] = bearer[d]
      BY <1>5, <1>10, <2>1
    <3>2. PICK q, t : q = bearer[d].key /\ t = bearer[d].asked
      OBVIOUS
    <3>3. Missed(q, t) /\ t \in Int /\ t <= clock
      BY <2>1, <3>1, <3>2, Types DEF AccessInv, IssuedForCause, Caused, InOrder
    <3>4. Missed(q, t)'
      BY <1>14, <3>3
    <3>5. QED
      BY <3>1, <3>2, <3>4 DEF Caused
  <2>2. ASSUME NEW d \in Bearer
        PROVE  Caused(d)'
    <3>1. bearer'[d].state # "issued" => Caused(d)'
      BY DEF Caused
    <3>2. QED
      BY <2>1, <3>1
  <2>3. QED
    BY <2>2 DEF IssuedForCause
<1>18. RefusedForCause'
  <2>1. ASSUME NEW e \in Asker, call'[e].pc = "refused", call'[e].bearer # NoBearer
        PROVE  (call'[e].ended - call'[e].since) + Lag(call[e].bearer)' > 0 /\ call'[e] = call[e]
    <3>1. call'[e] = call[e] /\ Knows(e) /\ call[e].bearer \in Bearer \ {b}
      BY <1>8, <1>10, <1>13, <2>1, Types DEF AccessInv, CallsKnow, Knows
    <3>2. PICK d \in Bearer \ {b} : d = call[e].bearer
      BY <3>1
    <3>3. (call[e].ended - call[e].since) + Lag(d) > 0
      BY <2>1, <3>1, <3>2 DEF AccessInv, RefusedForCause
    <3>4. Lag(d)' = Lag(d) /\ call'[e].bearer = d
      BY <1>13, <3>1, <3>2
    <3>5. QED
      BY <3>1, <3>2, <3>3, <3>4
  <2>2. QED
    BY <2>1 DEF RefusedForCause
<1>19. FetchedForCause'
  <2>1. ASSUME NEW k \in Key, NEW d \in Bearer \ {b}, IsStored(d), bearer[d].key = k, r.key = k
        PROVE  \/ ExpireAt(d) <= r.asked
               \/ r.asked <= bearer[d].saved /\ bearer[d].asked <= clock
    <3>1. Missed(k, r.asked)
      BY <1>2, <1>5, <2>1 DEF AccessInv, IssuedForCause, Caused
    <3>2. bearer[d].asked <= clock
      BY <2>1, Types DEF AccessInv, InOrder, IsStored
    <3>3. QED
      BY <2>1, <3>1, <3>2 DEF Missed
  <2>2. ASSUME NEW k \in Key, NEW d \in TokenRows(k)', NEW e \in TokenRows(k)', d # e
        PROVE  \/ ExpireAt(d)' <= bearer'[e].asked
               \/ ExpireAt(e)' <= bearer'[d].asked
               \/ /\ bearer'[d].asked <= bearer'[e].saved
                  /\ bearer'[e].asked <= bearer'[d].saved
    <3>1. /\ d \in Bearer /\ IsStored(d)' /\ bearer'[d].key = k
          /\ e \in Bearer /\ IsStored(e)' /\ bearer'[e].key = k
      BY <2>2 DEF TokenRows, IsStored
    <3>2. CASE d = b
      <4>1. /\ e \in Bearer \ {b} /\ IsStored(e) /\ bearer[e].key = k /\ r.key = k
            /\ bearer'[e] = bearer[e] /\ ExpireAt(e)' = ExpireAt(e) /\ bearer'[d] = r
        BY <1>10, <1>13, <2>2, <3>1, <3>2
      <4>2. QED
        BY <1>5, <2>1, <4>1
    <3>3. CASE e = b
      <4>1. /\ d \in Bearer \ {b} /\ IsStored(d) /\ bearer[d].key = k /\ r.key = k
            /\ bearer'[d] = bearer[d] /\ ExpireAt(d)' = ExpireAt(d) /\ bearer'[e] = r
        BY <1>10, <1>13, <2>2, <3>1, <3>3
      <4>2. QED
        BY <1>5, <2>1, <4>1
    <3>4. CASE d # b /\ e # b
      <4>1. /\ d \in TokenRows(k) /\ e \in TokenRows(k)
            /\ bearer'[d] = bearer[d] /\ ExpireAt(d)' = ExpireAt(d)
            /\ bearer'[e] = bearer[e] /\ ExpireAt(e)' = ExpireAt(e)
        BY <1>13, <3>1, <3>4 DEF TokenRows, IsStored
      <4>2. QED
        BY <2>2, <4>1 DEF AccessInv, FetchedForCause
    <3>5. QED
      BY <3>2, <3>3, <3>4
  <2>3. QED
    BY <2>2 DEF FetchedForCause
<1>20. QED
  BY <1>11, <1>12, <1>16, <1>17, <1>18, <1>19 DEF AccessInv

-----------------------------------------------------------------------------
\* A call that is under way moves on with what it has.
LEMMA GoesOn ==
  ASSUME AccessInv, NEW c \in Asker, call[c].pc # "idle"
  PROVE  /\ call[c] \in [pc : {"missed", "fetched", "holding", "prepared", "refused"},
                          key : Key, bearer : Bearer \cup {NoBearer},
                          since : Time, ended : Time]
         /\ call[c].since <= clock
BY Types DEF CallType, NoCall, AccessInv, CallsKnow, Knows

LEMMA PaymentTokenFailsKeeps ==
  ASSUME AccessInv, NEW c \in Asker, PaymentTokenFails(c)
  PROVE  AccessInv'
<1>1. PICK x : x = [call[c] EXCEPT !.pc = "holding", !.bearer = NoBearer]
  OBVIOUS
<1>2. x \in CallType /\ x.pc = "holding" /\ x.bearer = NoBearer /\ x.since = call[c].since
  BY <1>1, GoesOn DEF CallType, PaymentTokenFails
<1>3. call' = [call EXCEPT ![c] = x] /\ call[c].since <= clock
  BY <1>1, Types, GoesOn DEF PaymentTokenFails, AccessInv
<1>4. QED
  BY <1>2, <1>3, CallMoves DEF PaymentTokenFails

LEMMA PreparePayoutKeeps ==
  ASSUME AccessInv, NEW c \in Asker, PreparePayout(c)
  PROVE  AccessInv'
<1>1. PICK x : x = [call[c] EXCEPT !.pc = "prepared"]
  OBVIOUS
<1>2. /\ x \in CallType /\ x.pc = "prepared" /\ x.since = call[c].since
      /\ x.bearer = call[c].bearer
  BY <1>1, GoesOn DEF CallType, PreparePayout
<1>3. call' = [call EXCEPT ![c] = x] /\ call[c].since <= clock
  BY <1>1, Types, GoesOn DEF PreparePayout, AccessInv
<1>4. call[c].bearer # NoBearer =>
        IsStored(call[c].bearer) /\ call[c].since < ExpireAt(call[c].bearer)
  BY DEF PreparePayout, AccessInv, CallsKnow, Knows
<1>5. QED
  BY <1>2, <1>3, <1>4, CallMoves DEF PreparePayout

LEMMA RefusedKeeps ==
  ASSUME AccessInv, NEW c \in Asker, call[c].pc \in {"holding", "prepared"},
         ~ Accepted(c), Refused(c), UNCHANGED <<clock, bearer>>
  PROVE  AccessInv'
<1>1. PICK x : x = [call[c] EXCEPT !.pc = "refused", !.ended = clock]
  OBVIOUS
<1>2. /\ x \in CallType /\ x.pc = "refused" /\ x.since = call[c].since
      /\ x.bearer = call[c].bearer /\ x.ended = clock
  BY <1>1, GoesOn, Types DEF CallType, AccessInv
<1>3. call' = [call EXCEPT ![c] = x] /\ call[c].since <= clock
  BY <1>1, Types, GoesOn DEF Refused, AccessInv
<1>4. ASSUME call[c].bearer # NoBearer
      PROVE  /\ IsStored(call[c].bearer)
             /\ (clock - call[c].since) + Lag(call[c].bearer) > 0
  <2>1. PICK b \in Bearer : b = call[c].bearer
    BY <1>4, Types DEF AccessInv
  <2>2. IsStored(b) /\ call[c].since < ExpireAt(b)
    BY <1>4, <2>1 DEF AccessInv, CallsKnow, Knows
  <2>3. ~ (clock < bearer[b].issued + Lifetime)
    BY <1>4, <2>1 DEF Accepted
  <2>4. /\ clock \in Int /\ call[c].since \in Int /\ Lifetime \in Int
        /\ bearer[b].issued \in Int /\ bearer[b].saved \in Int
    BY Types, TimeIsInt DEF AccessInv
  <2>5. QED
    BY <2>1, <2>2, <2>3, <2>4 DEF Lag, ExpireAt
<1>5. QED
  BY <1>2, <1>3, <1>4, CallMoves

LEMMA TickKeeps ==
  ASSUME AccessInv, Tick
  PROVE  AccessInv'
<1>1. clock' = clock + 1 /\ UNCHANGED <<bearer, call>> /\ clock < Horizon
  BY DEF Tick
<1>2. AccessTypeOK'
  <2>1. clock + 1 \in Time
    BY <1>1, TimeIsInt, Types DEF AccessInv, Time
  <2>2. QED
    BY <1>1, <2>1 DEF AccessInv, AccessTypeOK
<1>3. InOrder'
  BY <1>1, Types DEF AccessInv, InOrder
<1>4. \A k, t : Missed(k, t)' <=> Missed(k, t)
  BY <1>1 DEF Missed, IsStored, ExpireAt
<1>5. ASSUME NEW c \in Asker
      PROVE  Knows(c)'
  <2>1. Knows(c) /\ call[c].since \in Int /\ clock \in Int
    BY Types DEF AccessInv, CallsKnow
  <2>2. PICK q, t : q = call[c].key /\ t = call[c].since
    OBVIOUS
  <2>3. Missed(q, t)' <=> Missed(q, t)
    BY <1>4
  <2>4. call[c].pc = "missed" => Missed(q, t)'
    BY <2>1, <2>2, <2>3 DEF Knows
  <2>5. QED
    BY <1>1, <2>1, <2>2, <2>4 DEF Knows, IsStored, ExpireAt
<1>6. CallsKnow'
  BY <1>5 DEF CallsKnow
<1>7. IssuedForCause' /\ RefusedForCause' /\ FetchedForCause'
  BY <1>1 DEF AccessInv, IssuedForCause, Caused, Missed, IsStored, ExpireAt, RefusedForCause, Lag,
              FetchedForCause, TokenRows
<1>8. QED
  BY <1>2, <1>3, <1>6, <1>7 DEF AccessInv

LEMMA AccessStep == AccessInv /\ [AccessNext]_accessVars => AccessInv'
<1> SUFFICES ASSUME AccessInv, [AccessNext]_accessVars
             PROVE  AccessInv'
  OBVIOUS
<1>1. ASSUME NEW c \in Asker, NEW k \in Key, Lookup(c, k)
      PROVE  AccessInv'
  BY <1>1, LookupKeeps
<1>2. ASSUME NEW c \in Asker, NEW b \in Bearer, Fetch(c, b)
      PROVE  AccessInv'
  BY <1>2, FetchKeeps
<1>3. ASSUME NEW c \in Asker, Save(c)
      PROVE  AccessInv'
  BY <1>3, SaveKeeps
<1>4. ASSUME NEW c \in Asker, PaymentTokenFails(c)
      PROVE  AccessInv'
  BY <1>4, PaymentTokenFailsKeeps
<1>5. ASSUME NEW c \in Asker, ReviewTokenFails(c) \/ Hangup(c)
      PROVE  AccessInv'
  BY <1>5, NoCallMoves DEF ReviewTokenFails, Hangup
<1>6. ASSUME NEW c \in Asker, UseRefused(c) \/ ConfirmRefused(c)
      PROVE  AccessInv'
  BY <1>6, RefusedKeeps DEF UseRefused, ConfirmRefused
<1>7. ASSUME NEW c \in Asker, PreparePayout(c)
      PROVE  AccessInv'
  BY <1>7, PreparePayoutKeeps
<1>8. ASSUME Tick
      PROVE  AccessInv'
  BY <1>8, TickKeeps
<1>9. ASSUME UNCHANGED accessVars
      PROVE  AccessInv'
  BY <1>9 DEF accessVars, AccessInv, AccessTypeOK, InOrder, CallsKnow, Knows, IssuedForCause, Caused,
              Missed, IsStored, ExpireAt, RefusedForCause, Lag, FetchedForCause, TokenRows
<1>10. QED
  BY <1>1, <1>2, <1>3, <1>4, <1>5, <1>6, <1>7, <1>8, <1>9 DEF AccessNext

(***************************************************************************)
(* A provider refuses a token only for time that passed after its lookup   *)
(* or before its save, and a second one is requested only when the first   *)
(* has expired or by calls that overlap: for every number of calls, keys   *)
(* and tokens, and every lifetime.                                         *)
(***************************************************************************)
THEOREM TokensFresh == AccessSpec => []TokensAreFresh
<1>1. AccessInv => TokensAreFresh
  BY DEF AccessInv, TokensAreFresh
<1>2. QED
  BY <1>1, AccessInitInv, AccessStep, PTL DEF AccessSpec

=============================================================================
