---------------------------- MODULE Balance_proofs ----------------------------
(***************************************************************************)
(* What wallets hold, for every set of wallets, requests and handlers: a   *)
(* settled row is final, no wallet is overdrawn, the books agree with the  *)
(* provider's, and the dashboard adds up.  The sums are taken apart with   *)
(* the lemmas of Sums.                                                     *)
(***************************************************************************)
EXTENDS Dashboard, Notifications, Ledger_proofs, Sums

(* Either the provider reports final statuses only, or its notices of one  *)
(* payment arrive in order and are handled one at a time.                  *)
Steady == ~ ({"interim_notice", "unordered_notices"} \subseteq Hazard)

-----------------------------------------------------------------------------
(***************************************************************************)
(* A handler about to reject a payment finds no row of it PERFORMED.       *)
(***************************************************************************)
Engaged(h) == handler[h].pc # "free"

OneAtATime ==
  \A g, h \in Handler : Engaged(g) /\ Engaged(h) /\ Ref(g) = Ref(h) => g = h

Untouched(ref) == \A t \in transaction : t.id = ref => t.status # "PERFORMED"

NoneUndoes ==
  \A h \in Handler :
    handler[h].pc = "decided" /\ handler[h].verdict # "done" => Untouched(Ref(h))

(* The rows of a payment the provider has are a deposit's or withdrawal's.  *)
LEMMA PaidRows ==
  ASSUME ProviderInv, RowsInv, NEW t \in transaction,
         t.id \in Req, payment[t.id] # "none"
  PROVE  /\ PaymentRow(t) /\ RowsOf(t.id) = {t}
         /\ t.status = "PERFORMED" => payment[t.id] = "done"
BY DEF ProviderInv, PaymentRequested, RowsInv, RowsOfDone, PaymentRow,
       SettledBacked, RowsMatchRequests

LEMMA HandlerRef ==
  ASSUME TypeOK
  PROVE  \A h \in Handler : handler[h].pc # "free" => Ref(h) \in Req
BY BusyHandler DEF Busy, Notice, Ref

(* Where every word is final: the verdict is the provider's.                *)
LEMMA FinalUndoesNone ==
  TypeOK /\ LedgerInv /\ HandlerRequested /\ FinalInv => NoneUndoes
<1> SUFFICES ASSUME TypeOK, LedgerInv, HandlerRequested, FinalInv,
                    NEW h \in Handler, handler[h].pc = "decided",
                    handler[h].verdict # "done",
                    NEW t \in transaction, t.id = Ref(h)
             PROVE  t.status # "PERFORMED"
  BY DEF NoneUndoes, Untouched
<1>1. Ref(h) \in Req /\ payment[Ref(h)] # "done" /\ payment[Ref(h)] # "none"
  BY HandlerRef DEF FinalInv, HandlerRequested
<1>2. QED BY <1>1, PaidRows, InvParts

(* Handlers come and go one by one, in order.                               *)
LEMMA OneAtATimeStep ==
  ASSUME "unordered_notices" \notin Hazard
  PROVE  TypeOK /\ OneAtATime /\ [Next]_vars => OneAtATime'
<1> SUFFICES ASSUME TypeOK, OneAtATime, [Next]_vars PROVE OneAtATime'
  OBVIOUS
<1>1. ASSUME \A h \in Handler :
               handler'[h].pc # "free" =>
                 handler[h].pc # "free" /\ handler'[h].notice = handler[h].notice
      PROVE  OneAtATime'
  BY <1>1 DEF OneAtATime, Engaged, Ref
<1>2. ASSUME NEW h \in Handler, NEW n \in notice, TakeNotice(h, n)
      PROVE  OneAtATime'
  <2>1. /\ \A g \in Handler \ {h} : handler'[g] = handler[g]
        /\ handler'[h].notice = n
        /\ Active(n.ref) = {}
    BY <1>2 DEF TakeNotice, InOrder, TypeOK, Free
  <2>2. \A g \in Handler \ {h} : handler[g].pc # "free" => Ref(g) # n.ref
    BY <2>1 DEF Active
  <2>3. QED BY <2>1, <2>2 DEF OneAtATime, Engaged, Ref
<1>3. ASSUME NEW h \in Handler, HandlerStep(h) PROVE OneAtATime'
  <2>1. handler[h] \in Busy
    BY <1>3, BusyHandler
    DEF HandlerStep, HandleReject, HandleUpdate, HandleCommit, HandleEnqueue
  <2>2. \A g \in Handler :
          \/ handler'[g].pc = "free"
          \/ handler[g].pc # "free" /\ handler'[g].notice = handler[g].notice
    BY <1>3, <2>1
    DEF HandlerStep, HandleReject, HandleUpdate, HandleCommit, HandleEnqueue,
        TypeOK, Busy, Free
  <2>3. QED BY <1>1, <2>2
<1>4. CASE UNCHANGED handler \/ WebhookCrash
  BY <1>1, <1>4 DEF WebhookCrash, Free
<1>5. \/ UNCHANGED handler \/ WebhookCrash
      \/ \E h \in Handler, n \in notice : TakeNotice(h, n)
      \/ \E h \in Handler : HandlerStep(h)
  BY DEF Next, ApiStep, DepositPay, WithdrawalCheck, TransferCheck, WithdrawalPay,
         Refuse, SaveRow, TransferInsert, ApiCrash, ProviderSettle,
         ProviderInterim, vars
<1>6. QED BY <1>2, <1>3, <1>4, <1>5

(* What the rows of a step are: those there were, those of the request that *)
(* saves its own, or those one handler updated.                             *)
LEMMA RowChanges ==
  [Next]_vars =>
    \/ UNCHANGED transaction
    \/ \E r \in Req : SaveRow(r) \/ TransferInsert(r)
    \/ \E h \in Handler : HandleReject(h) \/ (HandleCommit(h) /\ handler[h].hit)
BY DEF Next, ApiStep, HandlerStep, DepositPay, WithdrawalCheck, TransferCheck,
       WithdrawalPay, Refuse, ApiCrash, ProviderSettle, ProviderInterim,
       TakeNotice, HandleUpdate, HandleCommit, HandleEnqueue, WebhookCrash, vars

LEMMA NoneUndoesStep ==
  ASSUME "unordered_notices" \notin Hazard
  PROVE  TypeOK /\ LedgerInv /\ HandlerRequested /\ OneAtATime /\ NoneUndoes
         /\ [Next]_vars => NoneUndoes'
<1> SUFFICES ASSUME TypeOK, LedgerInv, HandlerRequested, OneAtATime, NoneUndoes,
                    [Next]_vars
             PROVE  NoneUndoes'
  OBVIOUS
<1>0. ProviderInv /\ RowsInv BY InvParts
<1>1. ASSUME \A h \in Handler :
               handler'[h].pc = "decided" =>
                 /\ handler[h].pc = "decided"
                 /\ handler'[h].notice = handler[h].notice
                 /\ handler'[h].verdict = handler[h].verdict
                 /\ \A u \in transaction' :
                      u.id = Ref(h) /\ u.status = "PERFORMED" => u \in transaction
      PROVE  NoneUndoes'
  BY <1>1 DEF NoneUndoes, Untouched, Ref
<1>2. ASSUME NEW h \in Handler, NEW n \in notice, TakeNotice(h, n)
      PROVE  NoneUndoes'
  <2>1. n.ref \in Req /\ payment[n.ref] # "none"
    BY <1>0 DEF TypeOK, Notice, ProviderInv, NoticeBacked
  <2>2. /\ \A g \in Handler \ {h} : handler'[g] = handler[g]
        /\ handler'[h].notice = n
        /\ handler'[h].verdict = payment[n.ref]
        /\ UNCHANGED transaction
    BY <1>2 DEF TakeNotice, InOrder, TypeOK, Free
  <2>3. payment[n.ref] # "done" => Untouched(n.ref)
    BY <1>0, <2>1, PaidRows DEF Untouched
  <2>4. QED BY <2>2, <2>3 DEF NoneUndoes, Untouched, Ref
<1>3. ASSUME NEW r \in Req, SaveRow(r) \/ TransferInsert(r) PROVE NoneUndoes'
  <2>1. \A u \in transaction' \ transaction :
          u.id = r /\ (u.status = "PERFORMED" => TransferInsert(r))
    BY <1>3 DEF SaveRow, TransferInsert, NewRow, PaidRow, ReceivedRow
  <2>2. UNCHANGED handler
    BY <1>3 DEF SaveRow, TransferInsert
  <2>3. TransferInsert(r) => payment[r] = "none"
    BY <1>0 DEF TransferInsert, ProviderInv, PaymentRequested
  <2>4. \A h \in Handler : handler[h].pc = "decided" => payment[Ref(h)] # "none"
    BY DEF HandlerRequested
  <2>5. QED BY <1>1, <2>1, <2>2, <2>3, <2>4
<1>4. ASSUME NEW h \in Handler, HandlerStep(h) PROVE NoneUndoes'
  <2>1. handler[h] \in Busy /\ handler[h].pc # "free"
    BY <1>4, BusyHandler
    DEF HandlerStep, HandleReject, HandleUpdate, HandleCommit, HandleEnqueue
  <2>2. /\ \A g \in Handler \ {h} : handler'[g] = handler[g]
        /\ handler'[h].pc # "decided"
    BY <1>4, <2>1
    DEF HandlerStep, HandleReject, HandleUpdate, HandleCommit, HandleEnqueue,
        TypeOK, Busy, Free
  <2>3. \/ UNCHANGED transaction
        \/ \E s \in Status : transaction' = SetStatus(Ref(h), s)
    BY <1>4
    DEF HandlerStep, HandleReject, HandleUpdate, HandleCommit, HandleEnqueue,
        Status
  <2>4. \A u \in transaction' : u.id # Ref(h) => u \in transaction
    BY <2>3, SetStatusRow DEF TypeOK
  <2>5. \A g \in Handler \ {h} : handler[g].pc # "free" => Ref(g) # Ref(h)
    BY <2>1 DEF OneAtATime, Engaged
  <2>6. QED BY <1>1, <2>2, <2>4, <2>5
<1>5. CASE UNCHANGED <<handler, transaction>> \/ WebhookCrash
  BY <1>1, <1>5 DEF WebhookCrash, Free
<1>6. \/ UNCHANGED <<handler, transaction>> \/ WebhookCrash
      \/ \E h \in Handler, n \in notice : TakeNotice(h, n)
      \/ \E h \in Handler : HandlerStep(h)
      \/ \E r \in Req : SaveRow(r) \/ TransferInsert(r)
  BY DEF Next, ApiStep, DepositPay, WithdrawalCheck, TransferCheck, WithdrawalPay,
         Refuse, ApiCrash, ProviderSettle, ProviderInterim, vars
<1>7. QED BY <1>2, <1>3, <1>4, <1>5, <1>6

(* In a steady environment no handler ever undoes what another settled.     *)
THEOREM HandlersUndoNothing ==
  ASSUME Steady
  PROVE  Spec => [](HandlerRequested /\ NoneUndoes)
<1>1. Init => HandlerRequested /\ FinalInv /\ OneAtATime /\ NoneUndoes
  BY DEF Init, HandlerRequested, FinalInv, OneAtATime, NoneUndoes, Engaged, Free
<1>2. TypeOK /\ LedgerInv /\ HandlerRequested /\ [Next]_vars => HandlerRequested'
  BY HandlerRequestedStep, InvParts
<1>3. CASE "interim_notice" \notin Hazard
  <2>1. TypeOK /\ LedgerInv /\ FinalInv /\ [Next]_vars => FinalInv'
    BY <1>3, FinalStep
  <2>2. QED
    BY <1>1, <1>2, <2>1, FinalUndoesNone, TypeCorrect, LedgerInvariant, PTL
    DEF Spec
<1>4. CASE "unordered_notices" \notin Hazard
  <2>1. TypeOK /\ OneAtATime /\ [Next]_vars => OneAtATime'
    BY <1>4, OneAtATimeStep
  <2>2. TypeOK /\ LedgerInv /\ HandlerRequested /\ OneAtATime /\ NoneUndoes
        /\ [Next]_vars => NoneUndoes'
    BY <1>4, NoneUndoesStep
  <2>3. QED
    BY <1>1, <1>2, <2>1, <2>2, TypeCorrect, LedgerInvariant, PTL DEF Spec
<1>5. QED BY <1>3, <1>4 DEF Steady

Stays == \A t \in transaction : t.status = "PERFORMED" => t \in transaction'

(* Writing PERFORMED once more changes nothing.                             *)
LEMMA PerformAgain ==
  ASSUME transaction \subseteq Row, NEW t \in transaction, t.status = "PERFORMED"
  PROVE  [t EXCEPT !.status = "PERFORMED"] = t
BY DEF Row

LEMMA StaysStep ==
  TypeOK /\ NoneUndoes /\ [Next]_vars => Stays
<1> SUFFICES ASSUME TypeOK, NoneUndoes, [Next]_vars,
                    NEW t \in transaction, t.status = "PERFORMED"
             PROVE  t \in transaction'
  BY DEF Stays
<1>1. ASSUME NEW h \in Handler, HandleReject(h) PROVE t \in transaction'
  <2>1. t.id # Ref(h)
    BY <1>1 DEF HandleReject, Succeeded, NoneUndoes, Untouched
  <2>2. QED BY <1>1, <2>1 DEF HandleReject, SetStatus
<1>2. ASSUME NEW h \in Handler, HandleCommit(h), handler[h].hit
      PROVE  t \in transaction'
  BY <1>2, PerformAgain DEF HandleCommit, SetStatus, TypeOK
<1>3. QED BY <1>1, <1>2, RowChanges DEF SaveRow, TransferInsert

(***************************************************************************)
(* In a steady environment a PERFORMED row stays as it is: whatever else   *)
(* is repeated, lost or crashes, a webhook settles and never unsettles.    *)
(* (With interim notices handled out of order it does: Ledger_final.)      *)
(***************************************************************************)
THEOREM SettledStays ==
  ASSUME Steady
  PROVE  Spec => SettledIsFinal
<1>1. TypeOK /\ NoneUndoes /\ [Next]_vars => [Stays]_vars
  BY StaysStep
<1>2. QED
  BY <1>1, HandlersUndoNothing, TypeCorrect, PTL
  DEF Spec, SettledIsFinal, Stays

-----------------------------------------------------------------------------
(***************************************************************************)
(* Balances.  The table is finite, so its sums are numbers.                *)
(***************************************************************************)
LEMMA RowsAreFinite == Spec => []IsFiniteSet(transaction)
<1>1. Init => IsFiniteSet(transaction)
  BY FS_EmptySet DEF Init
<1>2. TypeOK /\ IsFiniteSet(transaction) /\ [Next]_vars
        => IsFiniteSet(transaction)'
  <2> SUFFICES ASSUME TypeOK, IsFiniteSet(transaction), [Next]_vars
               PROVE  IsFiniteSet(transaction')
    OBVIOUS
  <2>1. ASSUME NEW r \in Req, SaveRow(r) PROVE IsFiniteSet(transaction')
    BY <2>1, FS_AddElement DEF SaveRow
  <2>2. ASSUME NEW r \in Req, TransferInsert(r) PROVE IsFiniteSet(transaction')
    <3>1. transaction' = (transaction \cup {PaidRow(r)}) \cup {ReceivedRow(r)}
      BY <2>2 DEF TransferInsert
    <3>2. QED BY <3>1, FS_AddElement
  <2>3. ASSUME NEW ref, NEW s, transaction' = SetStatus(ref, s)
        PROVE  IsFiniteSet(transaction')
    <3> DEFINE f == [t \in transaction |->
                       IF t.id = ref THEN [t EXCEPT !.status = s] ELSE t]
    <3>1. f \in Surjection(transaction, SetStatus(ref, s))
      BY DEF Surjection, SetStatus
    <3>2. QED BY <2>3, <3>1, FS_Surjection
  <2>4. QED
    BY <2>1, <2>2, <2>3, RowChanges DEF HandleReject, HandleCommit
<1>3. QED BY <1>1, <1>2, TypeCorrect, PTL DEF Spec

LEMMA SumOfDef ==
  ASSUME NEW S, IsFiniteSet(S), S \subseteq Row
  PROVE  /\ SumOf(S) \in Int
         /\ \A f : (\A t \in S : f[t] = t.affectedAmount) =>
              SumOf(S) = SumFunctionOnSet(f, S)
<1> DEFINE g == [t \in S |-> t.affectedAmount]
<1>1. \A t \in S : g[t] \in Int /\ g[t] = t.affectedAmount BY DEF Row
<1>2. DOMAIN g = S OBVIOUS
<1>3. SumOf(S) = SumFunctionOnSet(g, S) BY <1>2 DEF SumOf, SumFunction
<1> HIDE DEF g
<1>4. SumOf(S) \in Int BY <1>1, <1>3, SumOut
<1>5. ASSUME NEW f, \A t \in S : f[t] = t.affectedAmount
      PROVE  SumOf(S) = SumFunctionOnSet(f, S)
  BY <1>1, <1>3, <1>5, SumAgree
<1>6. QED BY <1>4, <1>5

(* A row more, and the balance has its amount more.                         *)
LEMMA SumOfMore ==
  ASSUME NEW S, IsFiniteSet(S), S \subseteq Row, NEW x \in Row, x \notin S
  PROVE  SumOf(S \cup {x}) = SumOf(S) + x.affectedAmount
<1> DEFINE T == S \cup {x}
           f == [t \in T |-> t.affectedAmount]
<1>1. IsFiniteSet(T) /\ T \subseteq Row BY FS_AddElement
<1>2. \A t \in T : f[t] = t.affectedAmount OBVIOUS
<1>3. \A t \in T : f[t] \in Int BY <1>1 DEF Row
<1> HIDE DEF f
<1>4. SumOf(T) = SumFunctionOnSet(f, T) /\ SumOf(S) = SumFunctionOnSet(f, S)
  BY <1>1, <1>2, SumOfDef
<1>5. SumFunctionOnSet(f, T) = SumFunctionOnSet(f, S) + f[x]
  BY <1>3, SumAdd
<1>6. QED BY <1>2, <1>4, <1>5

LEMMA PerformedRows ==
  ASSUME TypeOK, IsFiniteSet(transaction), NEW w
  PROVE  /\ Performed(w) \subseteq Row /\ IsFiniteSet(Performed(w))
         /\ Balance(w) \in Int
<1>1. Performed(w) \subseteq transaction BY DEF Performed
<1>2. Performed(w) \subseteq Row /\ IsFiniteSet(Performed(w))
  BY <1>1, FS_Subset DEF TypeOK
<1>3. QED BY <1>2, SumOfDef DEF Balance

-----------------------------------------------------------------------------
(***************************************************************************)
(* The balance check.  It is good for as long as no other debit of the     *)
(* wallet is open: of those let in alone at most one is open, and what the *)
(* wallet holds of its own covers it.                                      *)
(***************************************************************************)
OpenBy(r) ==
  IsDebit(r) /\ \/ req[r].pc \in {"checked", "saving"}
                \/ req[r].pc = "done" /\ payment[r] # "none" /\ ~ Agreed(r)

Alone(r) == OpenBy(r) /\ req[r].beside = "none"

OneDebit ==
  \A r, q \in Req :
    Alone(r) /\ Alone(q) /\ req[r].wallet = req[q].wallet => r = q

Covered ==
  \A r \in Req, w \in Wallet :
    Alone(r) /\ req[r].wallet = w => req[r].amount <= Own(w)

Money == ChecksHold /\ OneDebit /\ Covered

OwnRows(w) == {t \in Performed(w) : ~ Unchecked(t)}

LEMMA OwnIsSum == \A w : Own(w) = SumOf(OwnRows(w))
BY DEF Own, OwnRows

(* What a wallet holds of its own is no less than its balance.              *)
LEMMA OwnSum ==
  ASSUME TypeOK, IsFiniteSet(transaction), NEW w
  PROVE  /\ OwnRows(w) \subseteq Row /\ IsFiniteSet(OwnRows(w))
         /\ Own(w) \in Int /\ Balance(w) <= Own(w)
<1> DEFINE P == Performed(w)
           S == OwnRows(w)
           U == P \ S
           f == [t \in P |-> t.affectedAmount]
           z == [t \in P |-> 0]
<1>1. P \subseteq Row /\ IsFiniteSet(P) /\ Balance(w) = SumOf(P)
  BY PerformedRows DEF Balance
<1>2. S \subseteq P /\ U \subseteq P /\ S \cup U = P /\ S \cap U = {}
      /\ \A t \in U : Unchecked(t)
  BY DEF OwnRows
<1>3. \A t \in P : f[t] = t.affectedAmount /\ f[t] \in Int /\ z[t] = 0
  BY <1>1 DEF Row
<1> HIDE DEF P, S, U, f, z
<1>4. IsFiniteSet(S) /\ IsFiniteSet(U) /\ S \subseteq Row
  BY <1>1, <1>2, FS_Subset
<1>5. SumOf(P) = SumFunctionOnSet(f, P) /\ SumOf(S) = SumFunctionOnSet(f, S)
      /\ SumOf(S) \in Int
  BY <1>1, <1>2, <1>3, <1>4, SumOfDef
<1>6. SumFunctionOnSet(f, S \cup U)
        = SumFunctionOnSet(f, S) + SumFunctionOnSet(f, U)
  BY <1>2, <1>3, <1>4, SumUnion
<1>7. SumFunctionOnSet(f, U) <= 0 /\ SumFunctionOnSet(f, U) \in Int
  <2>1. \A t \in U : f[t] \in Int /\ z[t] \in Int /\ f[t] <= z[t] /\ z[t] = 0
    BY <1>2, <1>3 DEF Unchecked
  <2>2. SumFunctionOnSet(f, U) <= SumFunctionOnSet(z, U)
    BY <1>4, <2>1, SumAtMost
  <2>3. SumFunctionOnSet(z, U) = 0 BY <1>4, <2>1, SumZero
  <2>4. SumFunctionOnSet(f, U) \in Int BY <1>4, <2>1, SumOut
  <2>5. QED BY <2>2, <2>3, <2>4
<1>8. Own(w) = SumOf(S) BY OwnIsSum DEF S
<1>9. SumOf(P) = SumFunctionOnSet(f, S) + SumFunctionOnSet(f, U)
  BY <1>2, <1>5, <1>6
<1>10. Balance(w) <= Own(w) BY <1>1, <1>5, <1>7, <1>8, <1>9
<1>11. QED BY <1>4, <1>5, <1>8, <1>10 DEF S

(* A step by which no debit is let in, and each wallet keeps or gains, or   *)
(* loses what a debit it closes was for.                                   *)
LEMMA MoneyMoves ==
  ASSUME TypeOK, Money, IsFiniteSet(transaction),
         \A r \in Req : Alone(r)' => /\ Alone(r)
                                     /\ req'[r].wallet = req[r].wallet
                                     /\ req'[r].amount = req[r].amount,
         \A w \in Wallet :
           /\ Own(w)' \in Int
           /\ \/ Own(w) <= Own(w)'
              \/ \E r \in Req :
                   /\ Alone(r) /\ ~ Alone(r)' /\ req[r].wallet = w
                   /\ Own(w) - req[r].amount <= Own(w)'
  PROVE  Money'
<1>1. \A w \in Wallet : Own(w) \in Int BY OwnSum
<1>2. \A r \in Req : Alone(r) => req[r].wallet \in Wallet /\ req[r].amount \in Int
  <2>1. ASSUME NEW r \in Req, Alone(r) PROVE req[r] \in Begun
    <3>1. req[r] # Idle BY <2>1 DEF Alone, OpenBy, IsDebit, Idle
    <3>2. QED BY <3>1 DEF TypeOK
  <2>2. QED BY <2>1, AmountIsInt DEF Begun
<1>3. ASSUME NEW w \in Wallet PROVE Own(w)' >= 0
  BY <1>1, <1>2 DEF Money, ChecksHold, Covered
<1>4. OneDebit' BY DEF Money, OneDebit
<1>5. ASSUME NEW r \in Req, NEW w \in Wallet, Alone(r)', req'[r].wallet = w
      PROVE  req'[r].amount <= Own(w)'
  <2>1. /\ Alone(r) /\ req[r].wallet = w /\ req'[r].amount = req[r].amount
        /\ req[r].amount <= Own(w)
    BY <1>5 DEF Money, Covered
  <2>2. ~ \E q \in Req : Alone(q) /\ ~ Alone(q)' /\ req[q].wallet = w
    BY <1>5, <2>1 DEF Money, OneDebit
  <2>3. Own(w) <= Own(w)' /\ Own(w) \in Int /\ Own(w)' \in Int
    BY <1>1, <2>2
  <2>4. req[r].amount \in Int BY <1>2, <2>1
  <2>5. QED BY <2>1, <2>3, <2>4
<1>6. ChecksHold' BY <1>3 DEF ChecksHold
<1>7. Covered' BY <1>5 DEF Covered
<1>8. QED BY <1>4, <1>6, <1>7 DEF Money

(* A step that settles nothing moves no money.                              *)
LEMMA OwnKept ==
  ASSUME TypeOK, NEW w, Performed(w)' = Performed(w),
         \A t \in transaction : req'[t.id].beside = req[t.id].beside
  PROVE  OwnRows(w)' = OwnRows(w) /\ Own(w)' = Own(w)
<1>1. \A t : t \in Performed(w) => t \in transaction BY DEF Performed
<1>2. \A t : t \in transaction => (Unchecked(t)' <=> Unchecked(t))
  BY DEF Unchecked, DebitRow
<1>3. \A t : t \in OwnRows(w)' <=> t \in OwnRows(w)
  BY <1>1, <1>2 DEF OwnRows
<1>4. OwnRows(w)' = OwnRows(w) BY <1>3 DEF OwnRows
<1>5. SumOf(OwnRows(w)') = SumOf(OwnRows(w)) BY <1>4
<1>6. Own(w)' = SumOf(OwnRows(w)') BY DEF Own, OwnRows
<1>7. QED BY <1>4, <1>5, <1>6, OwnIsSum

LEMMA MoneyKept ==
  ASSUME TypeOK, Money, IsFiniteSet(transaction),
         \A w \in Wallet : Performed(w)' = Performed(w),
         \A t \in transaction : req'[t.id].beside = req[t.id].beside,
         \A r \in Req : Alone(r)' => /\ Alone(r)
                                     /\ req'[r].wallet = req[r].wallet
                                     /\ req'[r].amount = req[r].amount
  PROVE  Money'
<1>1. ASSUME NEW w \in Wallet PROVE Own(w)' = Own(w) /\ Own(w) \in Int
  BY OwnKept, OwnSum
<1>2. \A w \in Wallet : Own(w)' \in Int /\ Own(w) <= Own(w)'
  BY <1>1
<1> QED BY <1>2, MoneyMoves

(* The check lets a debit in that the wallet covers, or that is not alone,  *)
(* or none.                                                                *)
LEMMA MoneyChecked ==
  ASSUME TypeOK, LedgerInv, Money, IsFiniteSet(transaction),
         NEW r \in Req, NEW w \in Wallet, NEW to \in Wallet, NEW a \in Amount,
         NEW kind \in Kind, NEW pc,
         pc \in {"checked", "refused"}, pc = "checked" => EnoughFor(w, a),
         Begin(r, pc, kind, w, to, a), UNCHANGED <<transaction, payment>>
  PROVE  Money'
<1>1. /\ req[r].pc = "idle"
      /\ \A q \in Req \ {r} : req'[q] = req[q]
      /\ req'[r].pc = pc /\ req'[r].wallet = w /\ req'[r].amount = a
      /\ req'[r].beside = IF OpenDebit(w) THEN "debit" ELSE "none"
  BY DEF Begin, TypeOK
<1>2. \A v \in Wallet : Own(v)' = Own(v) /\ Own(v) \in Int /\ Balance(v) <= Own(v)
  <2>1. \A t \in transaction : t.id \in Req /\ t.id # r
    BY <1>1 DEF LedgerInv, RowsOfDone, TypeOK, Row
  <2>2. \A t \in transaction : req'[t.id].beside = req[t.id].beside
    BY <1>1, <2>1
  <2>3. ASSUME NEW v \in Wallet PROVE Own(v)' = Own(v)
    <3>1. Performed(v)' = Performed(v) BY DEF Performed
    <3>2. QED BY <2>2, <3>1, OwnKept
  <2>4. QED BY <2>3, OwnSum
<1>3. ChecksHold' BY <1>2 DEF Money, ChecksHold
<1>4. payment[r] = "none"
  BY <1>1 DEF LedgerInv, PaymentRequested
<1>5. \A q \in Req \ {r} : Alone(q)' => Alone(q)
  BY <1>1 DEF Alone, OpenBy, IsDebit, Agreed, RowsOf
<1>6. Alone(r)' => EnoughFor(w, a) /\ \A q \in Req : Alone(q) => req[q].wallet # w
  BY <1>1, <1>4 DEF Alone, OpenBy, OpenDebit
<1>7. OneDebit' BY <1>1, <1>5, <1>6 DEF Money, OneDebit
<1>8. ASSUME NEW q \in Req, NEW v \in Wallet, Alone(q)', req'[q].wallet = v
      PROVE  req'[q].amount <= Own(v)'
  <2>1. CASE q = r
    <3>1. ~ (Balance(w) < a) /\ a \in Int /\ v = w
      BY <1>1, <1>6, <1>8, <2>1, LedgerAssumption DEF EnoughFor
    <3>2. Balance(w) \in Int BY PerformedRows
    <3>3. QED BY <1>1, <1>2, <2>1, <3>1, <3>2
  <2>2. CASE q # r
    <3>1. Alone(q) /\ req'[q] = req[q] BY <1>1, <1>5, <1>8, <2>2
    <3>2. QED BY <1>2, <1>8, <3>1 DEF Money, Covered
  <2>3. QED BY <2>1, <2>2
<1>9. Covered' BY <1>8 DEF Covered
<1>10. QED BY <1>3, <1>7, <1>9 DEF Money

(* What the webhook settles.  The one row of a payment becomes PERFORMED:   *)
(* its wallet gets the amount, or loses that of a debit no longer open,     *)
(* unless it is none of what the check answers for.                        *)
LEMMA MoneySettles ==
  ASSUME TypeOK, LedgerInv, HandlerRequested, Money, IsFiniteSet(transaction),
         NEW h \in Handler, HandleCommit(h), handler[h].hit
  PROVE  Money'
<1>0. ProviderInv /\ RowsInv BY InvParts
<1>1. PICK ref \in Req :
        /\ payment[ref] = "done"
        /\ transaction' = SetStatus(ref, "PERFORMED")
  BY <1>0, HandlerRef DEF HandleCommit, ProviderInv, VerdictBacked
<1>2. transaction' = SetStatus(ref, "PERFORMED") /\ UNCHANGED <<req, payment>>
  BY <1>1 DEF HandleCommit
<1>3. ASSUME NEW r \in Req, r # ref PROVE Agreed(r)' <=> Agreed(r)
  <2>1. \A u : u \in RowsOf(r)' <=> u \in RowsOf(r)
    <3>1. ASSUME NEW u \in transaction', u.id = r PROVE u \in transaction
      BY <1>2, <1>3, <3>1, SetStatusRow DEF TypeOK, Status
    <3>2. ASSUME NEW u \in transaction, u.id = r PROVE u \in transaction'
      BY <1>2, <1>3, <3>2 DEF SetStatus
    <3>3. QED BY <3>1, <3>2 DEF RowsOf
  <2>2. QED BY <1>2, <2>1 DEF Agreed
<1>4. CASE \A t \in transaction : t.id = ref => t.status = "PERFORMED"
  <2>1. transaction' = transaction
    <3>1. \A t \in transaction :
            (IF t.id = ref THEN [t EXCEPT !.status = "PERFORMED"] ELSE t) = t
      BY <1>4, PerformAgain DEF TypeOK
    <3>2. QED BY <1>2, <3>1 DEF SetStatus
  <2>2. QED
    BY <1>2, <2>1, MoneyKept
    DEF Performed, Alone, OpenBy, IsDebit, Agreed, RowsOf
<1>5. CASE \E t \in transaction : t.id = ref /\ t.status # "PERFORMED"
  <2>1. PICK t \in transaction : t.id = ref /\ t.status # "PERFORMED" BY <1>5
  <2>2. RowsOf(ref) = {t} /\ PaymentRow(t) BY <1>0, <1>1, <2>1, PaidRows
  <2> DEFINE u == [t EXCEPT !.status = "PERFORMED"]
  <2>3. /\ u \in Row /\ u.id = ref /\ u.status = "PERFORMED"
        /\ u.wallet = t.wallet /\ u.affectedAmount = t.affectedAmount
        /\ u.type = t.type
        /\ t.affectedAmount \in Int /\ t.wallet \in Wallet
    BY <2>1 DEF TypeOK, Row, Status
  <2> HIDE DEF u
  <2>4. transaction' = (transaction \ {t}) \cup {u}
    <3>1. \A v \in transaction : v.id = ref <=> v = t
      BY <2>1, <2>2 DEF RowsOf
    <3>2. QED BY <1>2, <2>1, <3>1 DEF SetStatus, u
  <2>5. /\ t.wallet = req[ref].wallet
        /\ t.affectedAmount = IF t.type = "deposit" THEN req[ref].amount
                              ELSE - req[ref].amount
        /\ t.type = req[ref].kind
    BY <1>0, <2>1, <2>2 DEF RowsInv, RowsMatchRequests
  <2>6. /\ \A w : \A x : x \in Performed(w)' =>
              (x \in OwnRows(w)' <=> ~ Unchecked(x))
        /\ \A w : \A x : x \in OwnRows(w)' => x \in Performed(w)'
    BY <1>2 DEF OwnRows, Unchecked, DebitRow
  <2>7. ASSUME NEW w, w # t.wallet \/ Unchecked(u)
        PROVE  Own(w)' = Own(w)
    <3>1. \A x : x \in OwnRows(w)' <=> x \in OwnRows(w)
      BY <2>1, <2>3, <2>4, <2>6, <2>7 DEF Performed, OwnRows
    <3>2. OwnRows(w)' = OwnRows(w) BY <3>1 DEF OwnRows
    <3>3. SumOf(OwnRows(w)') = SumOf(OwnRows(w)) BY <3>2
    <3>4. QED BY <3>3, OwnIsSum DEF Own, OwnRows
  <2>8. ASSUME ~ Unchecked(u)
        PROVE  Own(t.wallet)' = Own(t.wallet) + t.affectedAmount
    <3> DEFINE w == t.wallet
    <3>1. u \notin transaction
      BY <2>1, <2>2, <2>3 DEF RowsOf
    <3>2. u \notin OwnRows(w) BY <3>1 DEF OwnRows, Performed
    <3>3. \A x : x \in OwnRows(w)' <=> x \in OwnRows(w) \/ x = u
      BY <2>1, <2>3, <2>4, <2>6, <2>8 DEF Performed, OwnRows
    <3>4. OwnRows(w)' = OwnRows(w) \cup {u} BY <3>3 DEF OwnRows
    <3>5. OwnRows(w) \subseteq Row /\ IsFiniteSet(OwnRows(w))
      BY OwnSum
    <3>6. SumOf(OwnRows(w) \cup {u}) = SumOf(OwnRows(w)) + u.affectedAmount
      BY <2>3, <3>2, <3>5, SumOfMore
    <3>7. SumOf(OwnRows(w)') = SumOf(OwnRows(w)) + u.affectedAmount
      BY <3>4, <3>6
    <3>8. QED BY <2>3, <3>7, OwnIsSum DEF Own, OwnRows
  <2>9. Agreed(ref)' /\ ~ Agreed(ref)
    <3>1. u \in transaction' BY <2>4
    <3>2. Agreed(ref)'
      BY <1>1, <1>2, <2>3, <3>1 DEF Agreed, RowsOf
    <3>3. QED BY <1>1, <2>1, <2>2, <3>2 DEF Agreed
  <2>10. \A w : Own(w) \in Int BY OwnSum
  <2>11. \A r \in Req : Alone(r)' => Alone(r)
    BY <1>2, <1>3, <2>9 DEF Alone, OpenBy, IsDebit
  <2>12. ASSUME NEW w \in Wallet
         PROVE  /\ Own(w)' \in Int
                /\ \/ Own(w) <= Own(w)'
                   \/ \E r \in Req :
                        /\ Alone(r) /\ ~ Alone(r)' /\ req[r].wallet = w
                        /\ Own(w) - req[r].amount <= Own(w)'
    <3>1. CASE w # t.wallet \/ Unchecked(u)
      <4>1. Own(w)' = Own(w) BY <2>7, <3>1
      <4>2. QED BY <2>10, <4>1
    <3>2. CASE w = t.wallet /\ ~ Unchecked(u) /\ t.affectedAmount >= 0
      <4>1. Own(w)' = Own(w) + t.affectedAmount BY <2>8, <3>2
      <4>2. QED BY <2>3, <2>10, <3>2, <4>1
    <3>3. CASE w = t.wallet /\ ~ Unchecked(u) /\ t.affectedAmount < 0
      <4>1. Own(w)' = Own(w) + t.affectedAmount BY <2>8, <3>3
      <4>2. t.type # "deposit" /\ req[ref].beside # "debit"
        BY <2>3, <3>3 DEF Unchecked, DebitRow
      <4>3. req[ref].pc = "done" /\ req[ref].kind = t.type
        BY <1>0, <2>1, <2>5 DEF RowsInv, RowsOfDone
      <4>4. req[ref] \in Begun BY <1>1, <4>3, BegunReq
      <4>5. req[ref].beside = "none" /\ req[ref].amount \in Int
        BY <1>1, <4>2, <4>4, AmountIsInt DEF Begun
      <4>6. IsDebit(ref) BY <2>2, <4>2, <4>3 DEF PaymentRow, IsDebit
      <4>7. Alone(ref) /\ ~ Alone(ref)'
        BY <1>1, <1>2, <2>9, <4>3, <4>5, <4>6 DEF Alone, OpenBy
      <4>8. Own(w)' = Own(w) - req[ref].amount
        BY <2>5, <2>10, <4>1, <4>2, <4>5
      <4>9. Own(w)' \in Int /\ Own(w) - req[ref].amount <= Own(w)'
        BY <2>10, <4>5, <4>8
      <4>10. req[ref].wallet = w BY <2>5, <3>3
      <4>11. QED BY <1>1, <4>7, <4>9, <4>10
    <3>4. QED BY <2>3, <3>1, <3>2, <3>3
  <2>13. \A r \in Req : Alone(r)' => /\ Alone(r)
                                     /\ req'[r].wallet = req[r].wallet
                                     /\ req'[r].amount = req[r].amount
    BY <1>2, <2>11
  <2>14. QED BY <2>12, <2>13, MoneyMoves
<1>6. QED BY <1>4, <1>5

(* A transfer: the payer loses what his open debit was for, the receiver    *)
(* gains the rest, or what he loses is not for the check to answer for.    *)
LEMMA MoneyTransfers ==
  ASSUME TypeOK, LedgerInv, Money, IsFiniteSet(transaction),
         NEW r \in Req, TransferInsert(r)
  PROVE  Money'
<1>0. ProviderInv /\ RowsInv BY InvParts
<1>1. req[r] \in Begun /\ req[r].pc = "checked" /\ req[r].kind = "transfer"
  BY BegunReq DEF TransferInsert
<1>2. PICK w \in Wallet, v \in Wallet, a \in Int :
        /\ w = req[r].wallet /\ v = req[r].to /\ a = req[r].amount
        /\ Fee \in Int /\ req[r].beside \in {"none", "debit"}
  BY <1>1, AmountIsInt, LedgerAssumption DEF Begun
<1>20. PICK debit \in Row, credit \in Row :
        debit = PaidRow(r) /\ credit = ReceivedRow(r)
  BY <1>1, TransferRowTypes
<1>3. /\ debit # credit
      /\ debit.id = r /\ credit.id = r
      /\ debit.type = "transfer" /\ credit.type = "transfer"
      /\ debit.senderId = Null /\ credit.senderId = w
      /\ debit.status = "PERFORMED" /\ credit.status = "PERFORMED"
      /\ debit.wallet = w /\ credit.wallet = v
      /\ debit.affectedAmount = - a /\ credit.affectedAmount = a - Fee
  BY <1>1, <1>2, <1>20, TransferRowTypes
<1>4. transaction' = transaction \cup {debit, credit}
  BY <1>20 DEF TransferInsert
<1>5. /\ \A q \in Req \ {r} : req'[q] = req[q]
      /\ req'[r].kind = req[r].kind /\ req'[r].pc = "done"
      /\ req'[r].beside = req[r].beside
      /\ UNCHANGED payment
  BY <1>1 DEF TransferInsert, TypeOK, Begun
<1>6. \A t \in transaction : t.id # r /\ t.id \in Req
  BY <1>0, <1>1 DEF RowsInv, RowsOfDone, TypeOK, Row
<1>7. payment[r] = "none"
  BY <1>0, <1>1 DEF ProviderInv, PaymentRequested
<1>8. /\ Unchecked(debit)' <=> - a < 0 /\ req[r].beside = "debit"
      /\ Unchecked(credit)' <=> a - Fee < 0
      /\ \A t \in transaction : Unchecked(t)' <=> Unchecked(t)
  <2>1. Null \notin Wallet BY LedgerAssumption
  <2>2. /\ DebitRow(debit) /\ ~ DebitRow(credit)
    BY <1>2, <1>3, <2>1 DEF DebitRow
  <2>3. Unchecked(debit)' <=> - a < 0 /\ req[r].beside = "debit"
    BY <1>3, <1>5, <2>2 DEF Unchecked, DebitRow
  <2>4. Unchecked(credit)' <=> a - Fee < 0
    BY <1>3, <2>2 DEF Unchecked, DebitRow
  <2>5. \A t \in transaction : Unchecked(t)' <=> Unchecked(t)
    BY <1>5, <1>6 DEF Unchecked, DebitRow
  <2>6. QED BY <2>3, <2>4, <2>5
<1>9. req[r].beside = "none" => Alone(r) /\ ~ Alone(r)'
  BY <1>1, <1>5, <1>7 DEF Alone, OpenBy, IsDebit
<1>10. ASSUME NEW q \in Req, Alone(q)'
       PROVE  Alone(q) /\ req'[q].wallet = req[q].wallet
              /\ req'[q].amount = req[q].amount
  <2>1. q # r /\ req'[q] = req[q]
    BY <1>5, <1>7, <1>10 DEF Alone, OpenBy
  <2>2. RowsOf(q)' = RowsOf(q) BY <1>3, <1>4, <2>1 DEF RowsOf
  <2>3. QED BY <1>5, <1>10, <2>1, <2>2 DEF Alone, OpenBy, IsDebit, Agreed
<1> DEFINE Loss(x) == x = w /\ ~ Unchecked(debit)'
           Gain(x) == x = v /\ ~ Unchecked(credit)'
<1>11. ASSUME NEW x \in Wallet
       PROVE  Own(x)' = Own(x) + (IF Loss(x) THEN - a ELSE 0)
                        + (IF Gain(x) THEN a - Fee ELSE 0)
  <2> DEFINE P == OwnRows(x)
  <2>1. /\ P \subseteq Row /\ IsFiniteSet(P) /\ debit \notin P /\ credit \notin P
        /\ SumOf(P) \in Int /\ Own(x) = SumOf(P)
    BY <1>3, <1>6, OwnSum, OwnIsSum DEF Performed, OwnRows
  <2>2. \A t : t \in OwnRows(x)' <=> \/ t \in P
                                    \/ (Loss(x) /\ t = debit)
                                    \/ (Gain(x) /\ t = credit)
    BY <1>3, <1>4, <1>8 DEF Performed, OwnRows
  <2>3. Own(x)' = SumOf(OwnRows(x)') BY DEF Own, OwnRows
  <2>4. \A S : (\A t : t \in OwnRows(x)' <=> t \in S) => OwnRows(x)' = S
    BY DEF OwnRows
  <2> HIDE DEF P, Loss, Gain
  <2>5. SumOf(P \cup {debit}) = SumOf(P) - a
        /\ SumOf(P \cup {credit}) = SumOf(P) + (a - Fee)
    BY <1>2, <1>3, <2>1, SumOfMore
  <2>6. SumOf((P \cup {debit}) \cup {credit}) = SumOf(P) - a + (a - Fee)
    <3>1. IsFiniteSet(P \cup {debit}) /\ P \cup {debit} \subseteq Row
          /\ credit \notin P \cup {debit}
      BY <1>3, <2>1, FS_AddElement
    <3>2. SumOf((P \cup {debit}) \cup {credit}) = SumOf(P \cup {debit}) + (a - Fee)
      BY <1>3, <3>1, SumOfMore
    <3>3. QED BY <2>5, <3>2
  <2>7. CASE Loss(x) /\ Gain(x)
    <3>1. OwnRows(x)' = (P \cup {debit}) \cup {credit} BY <2>2, <2>4, <2>7
    <3>2. QED BY <1>2, <2>1, <2>3, <2>6, <2>7, <3>1
  <2>8. CASE Loss(x) /\ ~ Gain(x)
    <3>1. OwnRows(x)' = P \cup {debit} BY <2>2, <2>4, <2>8
    <3>2. QED BY <1>2, <2>1, <2>3, <2>5, <2>8, <3>1
  <2>9. CASE ~ Loss(x) /\ Gain(x)
    <3>1. OwnRows(x)' = P \cup {credit} BY <2>2, <2>4, <2>9
    <3>2. QED BY <1>2, <2>1, <2>3, <2>5, <2>9, <3>1
  <2>10. CASE ~ Loss(x) /\ ~ Gain(x)
    <3>1. OwnRows(x)' = P BY <2>2, <2>4, <2>10
    <3>2. QED BY <1>2, <2>1, <2>3, <2>10, <3>1
  <2>11. QED BY <2>7, <2>8, <2>9, <2>10
<1>12. ASSUME NEW x \in Wallet
       PROVE  /\ Own(x)' \in Int
              /\ \/ Own(x) <= Own(x)'
                 \/ \E q \in Req :
                      /\ Alone(q) /\ ~ Alone(q)' /\ req[q].wallet = x
                      /\ Own(x) - req[q].amount <= Own(x)'
  <2>1. Own(x) \in Int BY OwnSum
  <2>2. Gain(x) => a - Fee >= 0 BY <1>2, <1>8
  <2>3. Loss(x) => x = w /\ (- a >= 0 \/ req[r].beside = "none")
    BY <1>2, <1>8
  <2> HIDE DEF Loss, Gain
  <2>4. Own(x)' \in Int BY <1>2, <1>11, <2>1
  <2>5. CASE ~ Loss(x) \/ - a >= 0
    <3>1. Own(x) <= Own(x)' BY <1>2, <1>11, <2>1, <2>2, <2>5
    <3>2. QED BY <2>4, <3>1
  <2>6. CASE Loss(x) /\ req[r].beside = "none"
    <3>1. Own(x) - a <= Own(x)' BY <1>2, <1>11, <2>1, <2>2, <2>6
    <3>2. QED BY <1>2, <1>9, <2>3, <2>4, <2>6, <3>1
  <2>7. QED BY <2>3, <2>5, <2>6
<1>13. QED BY <1>10, <1>12, MoneyMoves

(* The other steps of a request under way, or of the provider: no row is     *)
(* settled, no debit opens.                                                *)
LEMMA MoneyWaits ==
  ASSUME TypeOK, Money, IsFiniteSet(transaction),
         \A u \in transaction' \ transaction : u.status = "IN_PROGRESS",
         transaction \subseteq transaction',
         \A r \in Req :
           /\ req'[r] = req[r] \/ (req'[r].kind = req[r].kind
                                   /\ req'[r].wallet = req[r].wallet
                                   /\ req'[r].amount = req[r].amount
                                   /\ req'[r].beside = req[r].beside)
           /\ \/ req[r].pc \in {"checked", "saving"}
              \/ /\ req'[r] = req[r]
                 /\ payment'[r] # payment[r] => payment[r] = "open"
  PROVE  Money'
<1>1. \A w \in Wallet : Performed(w)' = Performed(w)
  BY DEF Performed
<1>2. ASSUME NEW r \in Req, Alone(r)'
      PROVE  Alone(r) /\ req'[r].wallet = req[r].wallet
             /\ req'[r].amount = req[r].amount
  <2>1. IsDebit(r) /\ req[r].beside = "none" BY <1>2 DEF Alone, OpenBy, IsDebit
  <2>2. CASE req[r].pc \in {"checked", "saving"} BY <2>1, <2>2 DEF Alone, OpenBy
  <2>3. CASE req[r].pc \notin {"checked", "saving"}
    <3>1. /\ req'[r] = req[r] /\ req[r].pc = "done"
          /\ payment'[r] # "none" /\ ~ Agreed(r)'
      BY <1>2, <2>1, <2>3 DEF Alone, OpenBy
    <3>2. RowsOf(r) \subseteq RowsOf(r)' BY DEF RowsOf
    <3>3. CASE payment[r] = "open"
      BY <2>1, <3>1, <3>3 DEF Alone, OpenBy, Agreed
    <3>4. CASE payment'[r] = payment[r]
      BY <2>1, <3>1, <3>2, <3>4 DEF Alone, OpenBy, Agreed
    <3>5. QED BY <2>1, <2>3, <3>1, <3>3, <3>4
  <2>4. QED BY <2>2, <2>3
<1>3. \A t \in transaction : req'[t.id].beside = req[t.id].beside
  BY DEF TypeOK, Row
<1>4. QED BY <1>1, <1>2, <1>3, MoneyKept

LEMMA MoneyStep ==
  TypeOK /\ LedgerInv /\ HandlerRequested /\ NoneUndoes
  /\ IsFiniteSet(transaction) /\ Money /\ [Next]_vars => Money'
<1> SUFFICES ASSUME TypeOK, LedgerInv, HandlerRequested, NoneUndoes,
                    IsFiniteSet(transaction), Money, [Next]_vars
             PROVE  Money'
  OBVIOUS
<1>0. ProviderInv /\ RowsInv BY InvParts
<1>1. ASSUME NEW r \in Req, NEW w \in Wallet, NEW a \in Amount,
             DepositPay(r, w, a)
      PROVE  Money'
  <2>1. /\ req[r].pc = "idle" /\ UNCHANGED transaction
        /\ \A q \in Req \ {r} : req'[q] = req[q] /\ payment'[q] = payment[q]
        /\ req'[r].kind = "deposit"
    BY <1>1, DepositRequest DEF TypeOK
  <2>2. \A q \in Req : Alone(q)' => Alone(q) /\ req'[q] = req[q]
    BY <2>1 DEF Alone, OpenBy, IsDebit, Agreed, RowsOf
  <2>3. \A v \in Wallet : Performed(v)' = Performed(v)
    BY <2>1 DEF Performed
  <2>4. \A t \in transaction : req'[t.id].beside = req[t.id].beside
    BY <1>0, <2>1 DEF RowsInv, RowsOfDone, TypeOK, Row
  <2>5. QED BY <2>2, <2>3, <2>4, MoneyKept
<1>2. ASSUME NEW r \in Req, NEW w \in Wallet, NEW a \in Amount,
             WithdrawalCheck(r, w, a)
      PROVE  Money'
  BY <1>2, MoneyChecked DEF WithdrawalCheck, Kind
<1>3. ASSUME NEW r \in Req, NEW w \in Wallet, NEW to \in Wallet, NEW a \in Amount,
             TransferCheck(r, w, to, a)
      PROVE  Money'
  <2>1. ~ EnoughFor(Null, a)
    BY LedgerAssumption DEF EnoughFor, Performed, TypeOK, Row
  <2>2. EnoughFor(Caller(w), a) => EnoughFor(w, a)
    BY <2>1 DEF Caller
  <2> DEFINE pc == IF EnoughFor(Caller(w), a) THEN "checked" ELSE "refused"
  <2>3. pc \in {"checked", "refused"} /\ (pc = "checked" => EnoughFor(w, a))
    BY <2>2
  <2>4. /\ Begin(r, pc, "transfer", w, to, a)
        /\ UNCHANGED <<transaction, payment>>
    BY <1>3 DEF TransferCheck
  <2> HIDE DEF pc
  <2>5. QED BY <2>3, <2>4, MoneyChecked DEF Kind
<1>4. ASSUME NEW r \in Req, req[r].pc \in {"checked", "saving"}, req[r] \in Begun,
             \E pc \in {"saving", "refused", "done", "lost"} :
               req' = [req EXCEPT ![r].pc = pc],
             \A q \in Req \ {r} : payment'[q] = payment[q],
             transaction \subseteq transaction',
             \A u \in transaction' \ transaction :
               u.status = "IN_PROGRESS" /\ u.id = r
      PROVE  Money'
  <2>1. \A q \in Req \ {r} : req'[q] = req[q] BY <1>4 DEF TypeOK
  <2>2. /\ req'[r].kind = req[r].kind /\ req'[r].wallet = req[r].wallet
        /\ req'[r].amount = req[r].amount /\ req'[r].beside = req[r].beside
    BY <1>4 DEF TypeOK, Begun
  <2>3. QED BY <1>4, <2>1, <2>2, MoneyWaits
<1>5. ASSUME NEW r \in Req, WithdrawalPay(r) \/ Refuse(r) PROVE Money'
  <2>1. req[r] \in Begun BY <1>5, BegunReq DEF WithdrawalPay, Refuse
  <2>2. \A q \in Req \ {r} : payment'[q] = payment[q]
    BY <1>5 DEF WithdrawalPay, ProviderCall, Refuse, TypeOK
  <2>3. req[r].pc = "checked" /\ UNCHANGED transaction
    BY <1>5 DEF WithdrawalPay, Refuse
  <2>4. \E pc \in {"saving", "refused", "done", "lost"} :
          req' = [req EXCEPT ![r].pc = pc]
    BY <1>5 DEF WithdrawalPay, ProviderCall, Refuse
  <2>5. QED BY <1>4, <2>1, <2>2, <2>3, <2>4
<1>6. ASSUME NEW r \in Req, SaveRow(r) PROVE Money'
  <2>1. req[r] \in Begun BY <1>6, BegunReq DEF SaveRow
  <2>2. /\ transaction \subseteq transaction'
        /\ \A u \in transaction' \ transaction :
             u.status = "IN_PROGRESS" /\ u.id = r
    BY <1>6 DEF SaveRow, NewRow
  <2>3. QED BY <1>4, <1>6, <2>1, <2>2 DEF SaveRow
<1>7. ASSUME NEW r \in Req, TransferInsert(r) PROVE Money'
  BY <1>7, MoneyTransfers
<1>8. CASE ApiCrash
  <2>1. ASSUME NEW r \in Req, req[r].pc \in {"checked", "saving"}
        PROVE  /\ req'[r].kind = req[r].kind /\ req'[r].wallet = req[r].wallet
               /\ req'[r].amount = req[r].amount
               /\ req'[r].beside = req[r].beside
    <3>1. req[r] \in Begun BY <2>1, BegunReq
    <3>2. req'[r] = [req[r] EXCEPT !.pc = "lost"] BY <1>8, <2>1 DEF ApiCrash
    <3>3. QED BY <3>1, <3>2 DEF Begun
  <2>2. \A r \in Req : req[r].pc \notin {"checked", "saving"} => req'[r] = req[r]
    BY <1>8 DEF ApiCrash
  <2>3. UNCHANGED <<payment, transaction>> BY <1>8 DEF ApiCrash
  <2>4. QED BY <2>1, <2>2, <2>3, MoneyWaits
<1>9. ASSUME NEW r \in Req, NEW outcome \in {"done", "dead"},
             ProviderSettle(r, outcome)
      PROVE  Money'
  <2>1. \A q \in Req : payment'[q] # payment[q] => payment[q] = "open"
    BY <1>9 DEF ProviderSettle, TypeOK
  <2>2. UNCHANGED <<req, transaction>> BY <1>9 DEF ProviderSettle
  <2>3. QED BY <2>1, <2>2, MoneyWaits
<1>10. CASE UNCHANGED <<transaction, req, payment>>
  BY <1>10, MoneyWaits
<1>11. ASSUME NEW h \in Handler, HandleReject(h) PROVE Money'
  <2>1. PICK ref \in Req : ref = Ref(h) BY <1>11, HandlerRef DEF HandleReject
  <2>2. transaction' = SetStatus(ref, "REJECTED") /\ Untouched(ref)
        /\ UNCHANGED <<req, payment>>
    BY <1>11, <2>1 DEF HandleReject, Succeeded, NoneUndoes
  <2>3. ASSUME NEW u, u.status = "PERFORMED"
        PROVE  u \in transaction' <=> u \in transaction
    <3>1. ASSUME u \in transaction' PROVE u \in transaction
      BY <2>2, <2>3, <3>1, SetStatusRow DEF TypeOK, Status
    <3>2. ASSUME u \in transaction PROVE u \in transaction'
      BY <2>2, <2>3, <3>2 DEF Untouched, SetStatus
    <3>3. QED BY <3>1, <3>2
  <2>4. \A w \in Wallet : Performed(w)' = Performed(w)
    BY <2>3 DEF Performed
  <2>5. ASSUME NEW r \in Req, Agreed(r) PROVE Agreed(r)'
    <3>1. PICK t \in transaction : /\ t.id = r
            /\ <<payment[r], t.status>> \in
                 {<<"done", "PERFORMED">>, <<"dead", "REJECTED">>}
      BY <2>5 DEF Agreed, RowsOf
    <3>2. t \in transaction'
      <4>1. CASE t.id # ref BY <2>2, <4>1 DEF SetStatus
      <4>2. CASE t.id = ref
        <5>1. t.status = "REJECTED" BY <2>2, <3>1, <4>2 DEF Untouched
        <5>2. [t EXCEPT !.status = "REJECTED"] = t BY <5>1 DEF TypeOK, Row
        <5>3. QED BY <2>2, <4>2, <5>2 DEF SetStatus
      <4>3. QED BY <4>1, <4>2
    <3>3. QED BY <2>2, <3>1, <3>2 DEF Agreed, RowsOf
  <2>6. \A r \in Req : Alone(r)' => Alone(r)
    BY <2>2, <2>5 DEF Alone, OpenBy, IsDebit
  <2>7. QED BY <2>2, <2>4, <2>6, MoneyKept
<1>12. ASSUME NEW h \in Handler, HandleCommit(h) PROVE Money'
  <2>1. CASE handler[h].hit BY <1>12, <2>1, MoneySettles
  <2>2. CASE ~ handler[h].hit BY <1>10, <1>12, <2>2 DEF HandleCommit
  <2>3. QED BY <2>1, <2>2
<1>13. QED
  BY <1>1, <1>2, <1>3, <1>5, <1>6, <1>7, <1>8, <1>9, <1>10, <1>11, <1>12
  DEF Next, ApiStep, HandlerStep, ProviderInterim, TakeNotice, HandleUpdate,
      HandleEnqueue, WebhookCrash, vars

(***************************************************************************)
(* The balance check does its work, whatever is lost, repeated, early or   *)
(* crashes, and whatever amounts requests name: leaving out the debits let *)
(* in beside another one, and what is credited below zero, no wallet is    *)
(* overdrawn in a steady environment.  (With them it is: Ledger_overdraft, *)
(* Ledger_receipt.)                                                        *)
(***************************************************************************)
THEOREM BalanceChecksHold ==
  ASSUME Steady
  PROVE  Spec => []ChecksHold
<1>1. Init => Money
  <2> SUFFICES ASSUME Init PROVE Money OBVIOUS
  <2>1. ASSUME NEW w \in Wallet PROVE Own(w) >= 0
    <3>1. OwnRows(w) = {} BY DEF Init, Performed, OwnRows
    <3>2. SumFunction([t \in {} |-> t.affectedAmount]) = 0
      BY SumEmpty DEF SumFunction
    <3>3. Own(w) = 0 BY <3>1, <3>2, OwnIsSum, Zenon DEF SumOf
    <3>4. QED BY <3>3
  <2>2. \A r \in Req : ~ Alone(r) BY DEF Init, Alone, OpenBy, IsDebit, Idle
  <2>3. QED BY <2>1, <2>2 DEF Money, ChecksHold, OneDebit, Covered
<1>2. TypeOK /\ LedgerInv /\ HandlerRequested /\ NoneUndoes
      /\ IsFiniteSet(transaction) /\ Money /\ [Next]_vars => Money'
  BY MoneyStep
<1>3. Money => ChecksHold BY DEF Money
<1>4. QED
  BY <1>1, <1>2, <1>3, TypeCorrect, LedgerInvariant, HandlersUndoNothing,
     RowsAreFinite, PTL
  DEF Spec

-----------------------------------------------------------------------------
(***************************************************************************)
(* Reconciliation.  A completed payment has its notice out or its row      *)
(* PERFORMED, and a transfer's rows are the two it inserted.               *)
(***************************************************************************)
TransferRows == \A r \in Transferred : RowsOf(r) = {PaidRow(r), ReceivedRow(r)}

SettledRow(r) == \E t \in RowsOf(r) : t.status = "PERFORMED"

Pending ==
  \A r \in Req :
    payment[r] = "done" => [ref |-> r, status |-> "done"] \in notice \/ SettledRow(r)

(* A handler that took a notice of success has that verdict.                *)
WordKept ==
  \A h \in Handler :
    handler[h].pc # "free" /\ handler[h].notice.status = "done"
      => handler[h].verdict = "done"

LEMMA WordStep ==
  TypeOK /\ LedgerInv /\ WordKept /\ [Next]_vars => WordKept'
<1> SUFFICES ASSUME TypeOK, LedgerInv, WordKept, [Next]_vars PROVE WordKept'
  OBVIOUS
<1>1. ASSUME NEW h \in Handler, NEW n \in notice, TakeNotice(h, n)
      PROVE  WordKept'
  <2>1. n.status = "done" => payment[n.ref] = "done"
    BY DEF LedgerInv, NoticeBacked
  <2>2. /\ \A g \in Handler \ {h} : handler'[g] = handler[g]
        /\ handler'[h].notice = n
        /\ handler'[h].verdict = IF req[n.ref].kind = "withdrawal"
                                 THEN payment[n.ref] ELSE n.status
    BY <1>1 DEF TakeNotice, TypeOK, Free
  <2>3. QED BY <2>1, <2>2 DEF WordKept
<1>2. ASSUME NEW h \in Handler, HandlerStep(h) PROVE WordKept'
  <2>1. handler[h] \in Busy
    BY <1>2, BusyHandler
    DEF HandlerStep, HandleReject, HandleUpdate, HandleCommit, HandleEnqueue
  <2>2. \A g \in Handler :
          \/ handler'[g].pc = "free"
          \/ /\ handler[g].pc # "free" /\ handler'[g].notice = handler[g].notice
             /\ handler'[g].verdict = handler[g].verdict
    BY <1>2, <2>1
    DEF HandlerStep, HandleReject, HandleUpdate, HandleCommit, HandleEnqueue,
        TypeOK, Busy, Free
  <2>3. QED BY <2>2 DEF WordKept
<1>3. CASE UNCHANGED handler \/ WebhookCrash
  BY <1>3 DEF WordKept, WebhookCrash, Free
<1>4. QED
  BY <1>1, <1>2, <1>3
  DEF Next, ApiStep, DepositPay, WithdrawalCheck, TransferCheck, WithdrawalPay,
      Refuse, SaveRow, TransferInsert, ApiCrash, ProviderSettle,
      ProviderInterim, vars

LEMMA TransferRowsStep ==
  TypeOK /\ LedgerInv /\ HandlerRequested /\ TransferRows /\ [Next]_vars
    => TransferRows'
<1> SUFFICES ASSUME TypeOK, LedgerInv, HandlerRequested, TransferRows, [Next]_vars,
                    NEW r \in Req, req'[r].kind = "transfer", req'[r].pc = "done"
             PROVE  RowsOf(r)' = {PaidRow(r)', ReceivedRow(r)'}
  BY DEF TransferRows, Transferred
<1>0. ProviderInv /\ RowsInv BY InvParts
<1>1. ASSUME req'[r] = req[r], RowsOf(r)' = RowsOf(r)
      PROVE  RowsOf(r)' = {PaidRow(r)', ReceivedRow(r)'}
  BY <1>1 DEF TransferRows, Transferred, PaidRow, ReceivedRow, NewRow
<1>2. CASE TransferInsert(r)
  <2>1. req[r] \in Begun BY <1>2, BegunReq DEF TransferInsert
  <2>2. transaction' = transaction \cup {PaidRow(r), ReceivedRow(r)}
    BY <1>2 DEF TransferInsert
  <2>3. PaidRow(r)' = PaidRow(r) /\ ReceivedRow(r)' = ReceivedRow(r)
    <3>1. /\ req'[r].kind = req[r].kind /\ req'[r].wallet = req[r].wallet
          /\ req'[r].to = req[r].to /\ req'[r].amount = req[r].amount
      BY <1>2, <2>1 DEF TransferInsert, TypeOK, Begun
    <3>2. QED BY <3>1 DEF PaidRow, ReceivedRow, NewRow
  <2>4. PaidRow(r).id = r /\ ReceivedRow(r).id = r
    BY <2>1, TransferRowTypes
  <2>5. \A t \in transaction : t.id # r
    BY <1>0, <1>2 DEF TransferInsert, RowsInv, RowsOfDone
  <2>6. QED BY <2>2, <2>3, <2>4, <2>5 DEF RowsOf
<1>3. ASSUME NEW q \in Req, q # r, SaveRow(q) \/ TransferInsert(q)
      PROVE  RowsOf(r)' = {PaidRow(r)', ReceivedRow(r)'}
  <2>1. /\ transaction \subseteq transaction'
        /\ \A u \in transaction' \ transaction : u.id = q
    BY <1>3, BegunReq, TransferRowTypes DEF SaveRow, TransferInsert, NewRow
  <2>2. req'[r] = req[r] BY <1>3 DEF SaveRow, TransferInsert, TypeOK
  <2>3. RowsOf(r)' = RowsOf(r) BY <1>3, <2>1 DEF RowsOf
  <2>4. QED BY <1>1, <2>2, <2>3
<1>4. ~ SaveRow(r)
  <2>1. SUFFICES ASSUME SaveRow(r) PROVE FALSE OBVIOUS
  <2>2. req[r] \in Begun BY <2>1, BegunReq DEF SaveRow
  <2>3. req'[r].kind = req[r].kind BY <2>1, <2>2 DEF SaveRow, TypeOK, Begun
  <2>4. QED BY <1>0, <2>1, <2>3 DEF SaveRow, ProviderInv, PaymentRequested
<1>5. ASSUME NEW h \in Handler, HandleReject(h) \/ HandleCommit(h)
      PROVE  RowsOf(r)' = {PaidRow(r)', ReceivedRow(r)'}
  <2>1. PICK ref \in Req : ref = Ref(h) /\ payment[ref] # "none"
    BY <1>5, HandlerRef DEF HandleReject, HandleCommit, HandlerRequested
  <2>2. /\ UNCHANGED req
        /\ \/ UNCHANGED transaction
           \/ \E s \in Status : transaction' = SetStatus(ref, s)
    BY <1>5, <2>1 DEF HandleReject, HandleCommit, Status
  <2>3. ref # r BY <1>0, <2>1, <2>2 DEF ProviderInv, PaymentRequested
  <2>4. \A u : u.id = r => (u \in transaction' <=> u \in transaction)
    <3>1. ASSUME NEW u \in transaction', u.id = r PROVE u \in transaction
      BY <2>2, <2>3, <3>1, SetStatusRow DEF TypeOK
    <3>2. ASSUME NEW u \in transaction, u.id = r PROVE u \in transaction'
      BY <2>2, <2>3, <3>2 DEF SetStatus
    <3>3. QED BY <3>1, <3>2
  <2>5. RowsOf(r)' = RowsOf(r) BY <2>4 DEF RowsOf
  <2>6. QED BY <1>1, <2>2, <2>5
<1>6. ASSUME UNCHANGED transaction, req'[r] = req[r]
      PROVE  RowsOf(r)' = {PaidRow(r)', ReceivedRow(r)'}
  BY <1>1, <1>6 DEF RowsOf
<1>7. ASSUME NEW q \in Req, NEW w \in Wallet, NEW a \in Amount,
             \/ DepositPay(q, w, a)
             \/ WithdrawalCheck(q, w, a)
             \/ \E to \in Wallet : TransferCheck(q, w, to, a)
      PROVE  RowsOf(r)' = {PaidRow(r)', ReceivedRow(r)'}
  <2>1. UNCHANGED transaction
    BY <1>7 DEF DepositPay, WithdrawalCheck, TransferCheck
  <2>2. req'[r] = req[r]
    <3>1. CASE DepositPay(q, w, a)
      BY <3>1, DepositRequest DEF TypeOK
    <3>2. CASE WithdrawalCheck(q, w, a) \/ \E to \in Wallet : TransferCheck(q, w, to, a)
      BY <3>2 DEF WithdrawalCheck, TransferCheck, Begin, TypeOK
    <3>3. QED BY <1>7, <3>1, <3>2
  <2>3. QED BY <1>6, <2>1, <2>2
<1>8. ASSUME NEW q \in Req, WithdrawalPay(q) \/ Refuse(q)
      PROVE  RowsOf(r)' = {PaidRow(r)', ReceivedRow(r)'}
  <2>0. req[q] \in Begun BY <1>8, BegunReq DEF WithdrawalPay, Refuse
  <2>1. UNCHANGED transaction BY <1>8 DEF WithdrawalPay, Refuse
  <2>2. req'[q].pc # "done"
    BY <1>8, <2>0 DEF WithdrawalPay, ProviderCall, Refuse, TypeOK, Begun
  <2>3. req'[r] = req[r]
    BY <1>8, <2>2 DEF WithdrawalPay, ProviderCall, Refuse, TypeOK
  <2>4. QED BY <1>6, <2>1, <2>3
<1>9. CASE ApiCrash
  <2>1. req'[r] = req[r]
    <3>1. ASSUME req[r].pc \in {"checked", "saving"} PROVE FALSE
      <4>1. req[r] \in Begun BY <3>1, BegunReq
      <4>2. req'[r] = [req[r] EXCEPT !.pc = "lost"] BY <1>9, <3>1 DEF ApiCrash
      <4>3. QED BY <4>1, <4>2 DEF Begun
    <3>2. QED BY <1>9, <3>1 DEF ApiCrash
  <2>2. QED BY <1>6, <1>9, <2>1 DEF ApiCrash
<1>10. CASE UNCHANGED <<transaction, req>>
  BY <1>6, <1>10
<1>11. QED
  BY <1>2, <1>3, <1>4, <1>5, <1>7, <1>8, <1>9, <1>10
  DEF Next, ApiStep, HandlerStep, ProviderSettle, ProviderInterim, TakeNotice,
      HandleUpdate, HandleEnqueue, WebhookCrash, vars

LEMMA PendingStep ==
  TypeOK /\ LedgerInv /\ EventInv /\ WordKept /\ NoneUndoes /\ Pending
  /\ [Next]_vars => Pending'
<1> SUFFICES ASSUME TypeOK, LedgerInv, EventInv, WordKept, NoneUndoes, Pending,
                    [Next]_vars, NEW r \in Req, payment'[r] = "done"
             PROVE  [ref |-> r, status |-> "done"] \in notice' \/ SettledRow(r)'
  BY DEF Pending
<1> DEFINE word == [ref |-> r, status |-> "done"]
<1>0. SettledRow(r) => SettledRow(r)'
  BY StaysStep DEF Stays, SettledRow, RowsOf
<1>1. ASSUME payment[r] = "done", notice \subseteq notice'
      PROVE  word \in notice' \/ SettledRow(r)'
  BY <1>0, <1>1 DEF Pending
<1>2. ASSUME NEW q \in Req, NEW w \in Wallet, NEW a \in Amount,
             \/ DepositPay(q, w, a)
             \/ WithdrawalCheck(q, w, a)
             \/ \E to \in Wallet : TransferCheck(q, w, to, a)
      PROVE  word \in notice' \/ SettledRow(r)'
  <2>1. UNCHANGED notice /\ payment[r] = "done"
    BY <1>2
    DEF DepositPay, ProviderCall, WithdrawalCheck, TransferCheck, TypeOK
  <2>2. QED BY <1>1, <2>1
<1>3. ASSUME NEW q \in Req, ApiStep(q) PROVE word \in notice' \/ SettledRow(r)'
  <2>1. UNCHANGED notice /\ payment[r] = "done"
    BY <1>3
    DEF ApiStep, WithdrawalPay, ProviderCall, Refuse, SaveRow, TransferInsert,
        TypeOK
  <2>2. QED BY <1>1, <2>1
<1>4. ASSUME NEW q \in Req, NEW outcome \in {"done", "dead"},
             ProviderSettle(q, outcome)
      PROVE  word \in notice' \/ SettledRow(r)'
  <2>1. notice' = notice \cup {[ref |-> q, status |-> outcome]}
        /\ payment' = [payment EXCEPT ![q] = outcome]
    BY <1>4 DEF ProviderSettle
  <2>2. CASE q = r
    <3>1. outcome = "done" BY <2>1, <2>2 DEF TypeOK
    <3>2. QED BY <2>1, <2>2, <3>1
  <2>3. CASE q # r
    <3>1. payment[r] = "done" BY <2>1, <2>3 DEF TypeOK
    <3>2. QED BY <1>1, <2>1, <3>1
  <2>4. QED BY <2>2, <2>3
<1>5. ASSUME NEW q \in Req, ProviderInterim(q)
      PROVE  word \in notice' \/ SettledRow(r)'
  BY <1>1, <1>5 DEF ProviderInterim
<1>6. ASSUME NEW h \in Handler, HandleReject(h)
      PROVE  word \in notice' \/ SettledRow(r)'
  <2>1. handler[h].notice # word
    BY <1>6 DEF HandleReject, Succeeded, WordKept
  <2>2. payment[r] = "done" /\ (word \in notice => word \in notice')
    BY <1>6, <2>1 DEF HandleReject, Answer
  <2>3. QED BY <1>0, <2>2 DEF Pending
<1>7. ASSUME NEW h \in Handler, HandleCommit(h)
      PROVE  word \in notice' \/ SettledRow(r)'
  <2>1. PICK ref \in Req : ref = Ref(h) BY <1>7, HandlerRef DEF HandleCommit
  <2>2. CASE ref # r
    <3>1. handler[h].notice # word BY <2>1, <2>2 DEF Ref
    <3>2. payment[r] = "done" /\ (word \in notice => word \in notice')
      BY <1>7, <3>1 DEF HandleCommit, Answer
    <3>3. QED BY <1>0, <3>2 DEF Pending
  <2>3. CASE ref = r
    <3>1. transaction' = SetStatus(r, "PERFORMED") /\ HasRow(r)
      BY <1>7, <2>1, <2>3 DEF HandleCommit, EventInv
    <3>2. PICK t \in transaction : t.id = r BY <3>1 DEF HasRow, RowsOf
    <3> DEFINE u == [t EXCEPT !.status = "PERFORMED"]
    <3>3. u \in transaction' BY <3>1, <3>2 DEF SetStatus
    <3>4. u.id = r /\ u.status = "PERFORMED" BY <3>2 DEF TypeOK, Row
    <3>5. QED BY <3>3, <3>4 DEF SettledRow, RowsOf
  <2>4. QED BY <2>2, <2>3
<1>8. CASE UNCHANGED <<payment, notice>>
  BY <1>1, <1>8
<1>9. QED
  BY <1>2, <1>3, <1>4, <1>5, <1>6, <1>7, <1>8
  DEF Next, HandlerStep, ApiCrash, TakeNotice, HandleUpdate, HandleEnqueue,
      WebhookCrash, vars

(* In a quiet state the PERFORMED rows of a finished request are worth what *)
(* the provider holds for it less the fee.                                 *)
Finished == Done("deposit") \cup Done("withdrawal") \cup Transferred

Settled == {t \in transaction : t.status = "PERFORMED"}

HeldFor(r) == CASE req[r].kind = "deposit"    -> req[r].amount + Fee
                [] req[r].kind = "withdrawal" -> - (req[r].amount - Fee)
                [] req[r].kind = "transfer"   -> 0

Books == /\ TypeOK /\ LedgerInv /\ EventInv /\ Pending /\ TransferRows
         /\ IsFiniteSet(transaction)

LEMMA QuietRow ==
  ASSUME Books, Quiet, NEW r \in Req, payment[r] = "done"
  PROVE  /\ req[r] \in Begun
         /\ req[r].kind \in {"deposit", "withdrawal"}
         /\ \E t \in Settled :
              /\ {u \in Settled : u.id = r} = {t}
              /\ t.affectedAmount = IF req[r].kind = "deposit" THEN req[r].amount
                                    ELSE - req[r].amount
<1>0. ProviderInv /\ RowsInv BY InvParts DEF Books
<1>1. [ref |-> r, status |-> "done"] \notin notice BY DEF Quiet
<1>2. PICK t \in transaction : t.id = r /\ t.status = "PERFORMED"
  BY <1>1 DEF Books, Pending, SettledRow, RowsOf
<1>3. PaymentRow(t) /\ RowsOf(r) = {t} BY <1>0, <1>2, PaidRows
<1>4. /\ t.type = req[r].kind /\ req[r].pc = "done"
      /\ t.affectedAmount = IF t.type = "deposit" THEN req[r].amount
                            ELSE - req[r].amount
  BY <1>0, <1>2, <1>3 DEF RowsInv, RowsMatchRequests
<1>5. req[r] \in Begun
  BY <1>4, BegunReq DEF Books
<1>6. {u \in Settled : u.id = r} = {t}
  BY <1>2, <1>3 DEF Settled, RowsOf
<1>7. t \in Settled BY <1>2 DEF Settled
<1>8. QED BY <1>3, <1>4, <1>5, <1>6, <1>7 DEF PaymentRow

(* A transfer has its two rows, also one to oneself.                        *)
LEMMA QuietTransfer ==
  ASSUME Books, NEW r \in Transferred
  PROVE  \E t, u \in Settled :
           /\ t # u /\ {v \in Settled : v.id = r} = {t, u}
           /\ t.affectedAmount + u.affectedAmount = - Fee
<1> DEFINE t == PaidRow(r)
           u == ReceivedRow(r)
           a == req[r].amount
<1>1. r \in Req /\ req[r].pc = "done" BY DEF Transferred
<1>2. req[r] \in Begun BY <1>1, BegunReq DEF Books
<1>3. a \in Int /\ Fee \in Int
  BY <1>1, <1>2, AmountIsInt, LedgerAssumption
<1>4. /\ t.id = r /\ u.id = r /\ t.status = "PERFORMED" /\ u.status = "PERFORMED"
      /\ t.affectedAmount = - a /\ u.affectedAmount = a - Fee /\ t # u
  BY <1>1, <1>2, TransferRowTypes DEF Books
<1>5. RowsOf(r) = {t, u} BY DEF Books, TransferRows
<1> HIDE DEF t, u, a
<1>6. t # u /\ t.affectedAmount + u.affectedAmount = - Fee
  BY <1>3, <1>4
<1>7. {v \in Settled : v.id = r} = {t, u} /\ t \in Settled /\ u \in Settled
  BY <1>4, <1>5 DEF Settled, RowsOf
<1>8. QED BY <1>6, <1>7

(* Every settled row is a finished request's, and every finished request has *)
(* one: so there are finitely many of them.                                *)
LEMMA SettledIsFinished ==
  ASSUME Books, Quiet
  PROVE  /\ \A t \in Settled : t.id \in Finished
         /\ IsFiniteSet(Settled) /\ IsFiniteSet(Finished)
<1> DEFINE k == [t \in Settled |-> t.id]
<1>0. ProviderInv /\ RowsInv BY InvParts DEF Books
<1>1. ASSUME NEW t \in Settled PROVE t.id \in Finished
  <2>1. /\ t \in transaction /\ t.status = "PERFORMED" /\ t.id \in Req
        /\ t.type \in Kind
    BY DEF Settled, Books, TypeOK, Row
  <2>2. req[t.id].pc = "done" /\ t.type = req[t.id].kind
    BY <1>0, <2>1 DEF RowsInv, RowsOfDone
  <2>3. CASE PaymentRow(t)
    <3>1. payment[t.id] = "done"
      BY <1>0, <2>1, <2>3 DEF RowsInv, SettledBacked
    <3>2. QED BY <2>1, <2>2, <2>3, <3>1 DEF PaymentRow, Finished, Done
  <2>4. CASE ~ PaymentRow(t)
    BY <2>1, <2>2, <2>4 DEF PaymentRow, Kind, Finished, Transferred
  <2>5. QED BY <2>3, <2>4
<1>2. IsFiniteSet(Settled)
  BY FS_Subset DEF Books, Settled
<1>3. ASSUME NEW r \in Finished PROVE \E t \in Settled : t.id = r
  <2>1. CASE r \in Transferred
    <3>1. PICK t, u \in Settled : {v \in Settled : v.id = r} = {t, u}
      BY <2>1, QuietTransfer
    <3>2. QED BY <3>1
  <2>2. CASE r \in Done("deposit") \cup Done("withdrawal")
    <3>1. r \in Req /\ payment[r] = "done" BY <2>2 DEF Done
    <3>2. PICK t \in Settled : {v \in Settled : v.id = r} = {t}
      BY <3>1, QuietRow
    <3>3. QED BY <3>2
  <2>3. QED BY <2>1, <2>2 DEF Finished
<1>4. k \in Surjection(Settled, Finished)
  BY <1>1, <1>3 DEF Surjection
<1>5. QED BY <1>1, <1>2, <1>4, FS_Surjection

(* The settled rows of one request, and what is held for it.                *)
LEMMA HeldIsSettled ==
  ASSUME Books, Quiet, NEW r \in Finished,
         NEW f, \A t \in Settled : f[t] = t.affectedAmount /\ f[t] \in Int,
         NEW k, \A t \in Settled : k[t] = t.id,
         NEW s, s = SumFunctionOnSet(f, Group(k, Settled, r))
  PROVE  s \in Int /\ HeldFor(r) = s + Fee /\ HeldFor(r) \in Int
<1>0. Fee \in Nat BY LedgerAssumption
<1> DEFINE own == {t \in Settled : t.id = r}
<1>4. Group(k, Settled, r) = own BY DEF Group
<1>5. s = SumFunctionOnSet(f, own) BY <1>4
<1> HIDE DEF own
<1>1. CASE r \in Transferred
  <2>1. PICK t, u \in Settled :
               /\ t # u /\ own = {t, u}
               /\ t.affectedAmount + u.affectedAmount = - Fee
    BY <1>1, QuietTransfer DEF own
  <2>2. SumFunctionOnSet(f, {t, u}) = f[t] + f[u] BY <2>1, SumTwo
  <2>3. s = - Fee BY <1>5, <2>1, <2>2
  <2>4. HeldFor(r) = 0 BY <1>1 DEF HeldFor, Transferred
  <2>5. QED BY <1>0, <2>3, <2>4
<1>2. CASE r \in Done("deposit") \cup Done("withdrawal")
  <2>1. r \in Req /\ payment[r] = "done" BY <1>2 DEF Done
  <2>2. req[r] \in Begun /\ req[r].kind \in {"deposit", "withdrawal"}
    BY <2>1, QuietRow
  <2>3. PICK t \in Settled :
               /\ own = {t}
               /\ t.affectedAmount = IF req[r].kind = "deposit"
                                     THEN req[r].amount ELSE - req[r].amount
    BY <2>1, QuietRow DEF own
  <2>4. SumFunctionOnSet(f, {t}) = f[t] BY SumOne
  <2>5. s = t.affectedAmount BY <1>5, <2>3, <2>4
  <2>6. req[r].amount \in Int BY <2>1, <2>2, AmountIsInt
  <2>7. CASE req[r].kind = "deposit"
    <3>1. HeldFor(r) = req[r].amount + Fee BY <2>7 DEF HeldFor
    <3>2. QED BY <1>0, <2>3, <2>5, <2>6, <2>7, <3>1
  <2>8. CASE req[r].kind = "withdrawal"
    <3>1. HeldFor(r) = - (req[r].amount - Fee) BY <2>8 DEF HeldFor
    <3>2. QED BY <1>0, <2>3, <2>5, <2>6, <2>8, <3>1
  <2>9. QED BY <2>2, <2>7, <2>8
<1>3. QED BY <1>1, <1>2 DEF Finished

(* What is held, request by request.                                       *)
LEMMA HeldByRequest ==
  ASSUME IsFiniteSet(Finished), NEW hold,
         \A r \in Finished : hold[r] = HeldFor(r) /\ hold[r] \in Int,
         \A r \in Done("withdrawal") : req[r].amount \in Int
  PROVE  Held = SumFunctionOnSet(hold, Finished)
<1> DEFINE D == Done("deposit")
           W == Done("withdrawal")
           T == Transferred
           d == [r \in D |-> req[r].amount + Fee]
           w == [r \in W |-> req[r].amount - Fee]
<1>1. /\ D \cup W \cup T = Finished
      /\ IsFiniteSet(D) /\ IsFiniteSet(W) /\ IsFiniteSet(T) /\ IsFiniteSet(D \cup W)
  BY FS_Subset DEF Finished
<1>2. D \cap W = {} /\ (D \cup W) \cap T = {}
  BY DEF Done, Transferred
<1>3. \A r \in D : hold[r] = d[r] BY <1>1 DEF HeldFor, Done
<1>4. \A r \in W : hold[r] = - (req[r].amount - Fee) BY <1>1 DEF HeldFor, Done
<1>5. \A r \in T : hold[r] = 0 BY <1>1 DEF HeldFor, Transferred
<1>6. Held = SumFunctionOnSet(d, D) - SumFunctionOnSet(w, W)
  BY DEF Held, SumFunction
<1>7. \A r \in W : w[r] \in Int /\ hold[r] = - w[r]
  BY <1>4, LedgerAssumption
<1>8. \A r \in D : hold[r] \in Int /\ d[r] = hold[r]
  BY <1>1, <1>3
<1> HIDE DEF d, w, D, W, T
<1>9. SumFunctionOnSet(d, D) = SumFunctionOnSet(hold, D)
  BY <1>1, <1>8, SumAgree
<1>10. SumFunctionOnSet(hold, W) = - SumFunctionOnSet(w, W)
  BY <1>1, <1>7, SumMinus
<1>11. SumFunctionOnSet(hold, T) = 0 BY <1>1, <1>5, SumZero
<1>12. /\ SumFunctionOnSet(hold, D \cup W)
           = SumFunctionOnSet(hold, D) + SumFunctionOnSet(hold, W)
       /\ SumFunctionOnSet(hold, (D \cup W) \cup T)
           = SumFunctionOnSet(hold, D \cup W) + SumFunctionOnSet(hold, T)
  <2>1. /\ \A r \in D \cup W : hold[r] \in Int
        /\ \A r \in (D \cup W) \cup T : hold[r] \in Int
    BY <1>1
  <2>2. QED BY <1>1, <1>2, <2>1, SumUnion
<1>13. /\ SumFunctionOnSet(hold, D) \in Int /\ SumFunctionOnSet(hold, W) \in Int
       /\ SumFunctionOnSet(w, W) \in Int
  BY <1>1, <1>7, <1>8, SumOut
<1>14. (D \cup W) \cup T = Finished BY <1>1
<1>15. SumFunctionOnSet(hold, Finished)
         = SumFunctionOnSet(hold, D) + SumFunctionOnSet(hold, W)
  <2>1. SumFunctionOnSet(hold, Finished)
          = SumFunctionOnSet(hold, (D \cup W) \cup T)
    BY <1>14
  <2>2. QED BY <1>11, <1>12, <1>13, <2>1
<1>16. QED BY <1>6, <1>9, <1>10, <1>13, <1>15

LEMMA BooksBalance ==
  ASSUME Books, Quiet
  PROVE  Held - Owed = Fees
<1> DEFINE f    == [t \in Settled |-> t.affectedAmount]
           k    == [t \in Settled |-> t.id]
           g    == [r \in Finished |->
                      SumFunctionOnSet(f, Group(k, Settled, r))]
           hold == [r \in Finished |-> HeldFor(r)]
           fee  == [r \in Finished |-> Fee]
<1>1. /\ IsFiniteSet(Settled) /\ IsFiniteSet(Finished)
      /\ \A t \in Settled : k[t] \in Finished
  BY SettledIsFinished
<1>2. \A t \in Settled : f[t] = t.affectedAmount /\ f[t] \in Int
  BY DEF Books, TypeOK, Row, Settled
<1>3. \A r \in Finished : g[r] = SumFunctionOnSet(f, Group(k, Settled, r))
  OBVIOUS
<1>4. \A t \in Settled : k[t] = t.id
  OBVIOUS
<1> HIDE DEF f, k, g
<1>5. \A r \in Finished : /\ g[r] \in Int /\ fee[r] \in Int
                          /\ hold[r] = g[r] + fee[r]
                          /\ hold[r] = HeldFor(r) /\ hold[r] \in Int
  <2> TAKE r \in Finished
  <2>1. /\ g[r] \in Int /\ HeldFor(r) = g[r] + Fee /\ HeldFor(r) \in Int
    BY <1>2, <1>3, <1>4, HeldIsSettled
  <2>2. QED BY <2>1, LedgerAssumption
<1>6. \A r \in Finished : fee[r] = Fee OBVIOUS
<1> HIDE DEF hold, fee
<1>7. SumFunctionOnSet(hold, Finished)
        = SumFunctionOnSet(g, Finished) + SumFunctionOnSet(fee, Finished)
  BY <1>1, <1>5, SumPlus
<1>8. SumFunctionOnSet(f, Settled) = SumFunctionOnSet(g, Finished)
  BY <1>1, <1>2, <1>3, SumByGroup
<1>9. Owed = SumFunctionOnSet(f, Settled)
  <2>1. Settled \subseteq Row BY DEF Settled, Books, TypeOK
  <2>2. SumOf(Settled) = SumFunctionOnSet(f, Settled)
    BY <1>1, <1>2, <2>1, SumOfDef
  <2>3. QED BY <2>2 DEF Owed, Settled
<1>10. SumFunctionOnSet(fee, Finished) = Fees
  <2>1. Fee \in Int BY LedgerAssumption
  <2>2. SumFunctionOnSet(fee, Finished) = Fee * Cardinality(Finished)
    BY <1>1, <1>6, <2>1, SumConstant
  <2>3. QED BY <2>2 DEF Fees, Finished
<1>11. Held = SumFunctionOnSet(hold, Finished)
  <2>1. \A r \in Done("withdrawal") : req[r].amount \in Int
    BY QuietRow, AmountIsInt DEF Done
  <2>2. QED BY <1>1, <1>5, <2>1, HeldByRequest
<1>12. SumFunctionOnSet(g, Finished) \in Int
       /\ SumFunctionOnSet(fee, Finished) \in Int
  BY <1>1, <1>5, SumOut
<1>13. QED BY <1>7, <1>8, <1>9, <1>10, <1>11, <1>12

(* The events' invariant of Ledger_proofs, as a property of the behaviours. *)
LEMMA EventsInvariant ==
  ASSUME Attentive
  PROVE  Spec => []EventInv
<1>1. Init => EventInv
  BY DEF Init, EventInv, EventCarriesSettledRow, Free
<1>2. TypeOK /\ LedgerInv /\ EventInv /\ [Next]_vars => EventInv'
  BY EventStep
<1>3. QED BY <1>1, <1>2, TypeCorrect, LedgerInvariant, PTL DEF Spec

(***************************************************************************)
(* Whenever nothing is under way, what the provider holds is what the      *)
(* wallets are owed plus the fees: no row was lost, doubled or left behind *)
(* by any number of handlers and redeliveries, in a steady environment in  *)
(* which no process dies, every answer arrives and the provider waits for  *)
(* the row.  It takes no premise on who debits what wallet when.           *)
(***************************************************************************)
THEOREM BooksAgree ==
  ASSUME Attentive, Steady
  PROVE  Spec => []Reconciled
<1>1. Init => WordKept /\ Pending /\ TransferRows
  BY DEF Init, WordKept, Pending, TransferRows, Transferred, Free, Idle
<1>2. TypeOK /\ LedgerInv /\ WordKept /\ [Next]_vars => WordKept'
  BY WordStep
<1>3. TypeOK /\ LedgerInv /\ HandlerRequested /\ TransferRows /\ [Next]_vars
        => TransferRows'
  BY TransferRowsStep
<1>4. TypeOK /\ LedgerInv /\ EventInv /\ WordKept /\ NoneUndoes /\ Pending
      /\ [Next]_vars => Pending'
  BY PendingStep
<1>5. TypeOK /\ LedgerInv /\ EventInv /\ Pending /\ TransferRows
      /\ IsFiniteSet(transaction) => Reconciled
  BY BooksBalance DEF Books, Reconciled
<1>6. QED
  BY <1>1, <1>2, <1>3, <1>4, <1>5, TypeCorrect, LedgerInvariant, RowsAreFinite,
     EventsInvariant, HandlersUndoNothing, PTL
  DEF Spec

-----------------------------------------------------------------------------
(***************************************************************************)
(* The dashboard.  The balance it has read is still the wallet's, or the   *)
(* wallet has moved; its list is the one that balance was the sum of.      *)
(***************************************************************************)
ViewInv ==
  /\ DashboardTypeOK
  /\ view.pc # "none" => view.wallet \in Wallet
  /\ \A w \in Wallet :
       view.pc = "summed" /\ ~ moved /\ view.wallet = w => view.balance = Balance(w)
  /\ view.pc = "shown" /\ ~ moved =>
       IsFiniteSet(view.list) /\ view.balance = SumOf(view.list)
  /\ \A w \in Wallet :
       view.pc = "history" /\ view.wallet = w => view.list \subseteq Performed(w)

LEMMA ListedRows ==
  ASSUME TypeOK, NEW w
  PROVE  /\ \A kinds : Listed(w, kinds) \subseteq Performed(w)
         /\ Listed(w, Kind) = Performed(w)
         /\ Performed(w) \subseteq Row
BY DEF Listed, Performed, TypeOK, Row

LEMMA NoViewType ==
  NoView \in [pc : {"none", "summed", "shown", "history"},
              wallet : Wallet \cup {Null}, balance : Int, list : SUBSET Row]
<1>1. 0 \in Int /\ {} \in SUBSET Row /\ Null \in Wallet \cup {Null} OBVIOUS
<1>2. QED BY <1>1 DEF NoView

LEMMA ViewReads ==
  ASSUME TypeOK, IsFiniteSet(transaction), ViewInv, DashboardNext, UNCHANGED vars
  PROVE  ViewInv'
<1>0. \A w \in Wallet :
        Performed(w)' = Performed(w) /\ Balance(w)' = Balance(w)
  BY DEF vars, Performed, Balance
<1>1. ASSUME NEW w \in Wallet, ReadBalances(w) PROVE ViewInv'
  <2>1. Balance(w) \in Int BY PerformedRows
  <2>2. view' = [pc |-> "summed", wallet |-> w, balance |-> Balance(w), list |-> {}]
        /\ moved' = FALSE
    BY <1>1 DEF ReadBalances, NoView
  <2>3. DashboardTypeOK' BY <2>1, <2>2 DEF DashboardTypeOK
  <2>4. QED BY <1>0, <2>2, <2>3 DEF ViewInv
<1>2. ASSUME NEW w \in Wallet, NEW kinds \in SUBSET Kind, ReadHistory(w, kinds)
      PROVE  ViewInv'
  <2>1. Listed(w, kinds) \subseteq Performed(w) /\ Listed(w, kinds) \subseteq Row
    BY ListedRows
  <2>2. /\ view' = [pc |-> "history", wallet |-> w, balance |-> 0,
                    list |-> Listed(w, kinds)]
        /\ UNCHANGED moved
    BY <1>2 DEF ReadHistory, NoView
  <2>3. DashboardTypeOK' BY <2>1, <2>2 DEF ViewInv, DashboardTypeOK
  <2>4. QED BY <1>0, <2>1, <2>2, <2>3 DEF ViewInv
<1>3. CASE ReadList
  <2> DEFINE w == view.wallet
  <2>1. view.pc = "summed" /\ UNCHANGED moved /\ w \in Wallet
    BY <1>3 DEF ReadList, ViewInv
  <2>2. Listed(w, Kind) = Performed(w) /\ Performed(w) \subseteq Row
    BY ListedRows
  <2>3. IsFiniteSet(Performed(w)) BY PerformedRows
  <2>4. /\ view'.pc = "shown" /\ view'.wallet = w /\ view'.balance = view.balance
        /\ view'.list = Performed(w)
        /\ view' \in [pc : {"none", "summed", "shown", "history"},
                      wallet : Wallet \cup {Null}, balance : Int,
                      list : SUBSET Row]
    BY <1>3, <2>2 DEF ReadList, ViewInv, DashboardTypeOK
  <2>5. ~ moved => view.balance = SumOf(Performed(w))
    BY <2>1 DEF ViewInv, Balance
  <2>6. DashboardTypeOK' BY <2>1, <2>4 DEF ViewInv, DashboardTypeOK
  <2> HIDE DEF w
  <2>7. QED BY <2>1, <2>3, <2>4, <2>5, <2>6 DEF ViewInv
<1>4. CASE Answered
  <2>1. view' = NoView /\ moved' = FALSE BY <1>4 DEF Answered
  <2>2. DashboardTypeOK' BY <2>1, NoViewType DEF DashboardTypeOK
  <2>3. QED BY <2>1, <2>2 DEF ViewInv, NoView
<1>5. QED BY <1>1, <1>2, <1>3, <1>4 DEF DashboardNext

LEMMA ViewWaits ==
  ASSUME Stays, ViewInv, LedgerMoves
  PROVE  ViewInv'
<1>1. UNCHANGED view /\ view.pc # "shown" BY DEF LedgerMoves
<1>2. moved' \in BOOLEAN /\ (~ moved' => ~ moved)
  BY DEF LedgerMoves, ViewInv, DashboardTypeOK
<1>3. \A w \in Wallet : view.pc = "summed" /\ ~ moved' /\ view.wallet = w =>
        Performed(w)' = Performed(w)
  BY <1>1 DEF LedgerMoves, Performed
<1>4. \A w \in Wallet : Performed(w) \subseteq Performed(w)'
  BY DEF Stays, Performed
<1>5. DashboardTypeOK' BY <1>1, <1>2 DEF ViewInv, DashboardTypeOK
<1>6. \A w \in Wallet :
        view.pc = "summed" /\ ~ moved' /\ view.wallet = w =>
          view.balance = Balance(w)'
  BY <1>2, <1>3 DEF ViewInv, Balance
<1>7. \A w \in Wallet :
        view.pc = "history" /\ view.wallet = w => view.list \subseteq Performed(w)'
  BY <1>4 DEF ViewInv
<1>8. QED BY <1>1, <1>5, <1>6, <1>7 DEF ViewInv

(* The incomes less the outgoings are the sum of both.                      *)
LEMMA ViewAddsUp == ViewInv => DashboardAddsUp
<1> SUFFICES ASSUME ViewInv PROVE DashboardAddsUp OBVIOUS
<1>1. DashboardTypeOK BY DEF ViewInv
<1>2. HistoryStands BY DEF ViewInv, HistoryStands
<1>3. ASSUME view.pc = "shown", ~ moved PROVE AddsUp
  <2> DEFINE I == Incomes
             O == Outgoings
             f == [t \in view.list |-> t.affectedAmount]
             i == [t \in I |-> Magnitude(t)]
             o == [t \in O |-> Magnitude(t)]
  <2>1. view.list \subseteq Row /\ IsFiniteSet(view.list)
        /\ view.balance = SumOf(view.list)
    BY <1>3 DEF ViewInv, DashboardTypeOK
  <2>2. /\ I \cup O = view.list /\ I \cap O = {}
        /\ IsFiniteSet(I) /\ IsFiniteSet(O)
    BY <2>1, FS_Subset DEF Incomes, Outgoings
  <2>3. /\ \A t \in I \cup O : f[t] \in Int
        /\ \A t \in view.list : f[t] = t.affectedAmount
        /\ \A t \in I : f[t] \in Int /\ i[t] = f[t]
        /\ \A t \in O : f[t] \in Int /\ o[t] = - f[t]
    BY <2>1, <2>2 DEF Row, Incomes, Outgoings, Magnitude
  <2>4. AddsUp <=>
          SumFunctionOnSet(i, I) - SumFunctionOnSet(o, O) = view.balance
    BY DEF AddsUp, SumFunction
  <2> HIDE DEF I, O, f, i, o
  <2>5. SumFunctionOnSet(i, I) = SumFunctionOnSet(f, I)
    BY <2>2, <2>3, SumAgree
  <2>6. SumFunctionOnSet(o, O) = - SumFunctionOnSet(f, O)
    BY <2>2, <2>3, SumMinus
  <2>7. SumFunctionOnSet(f, I \cup O)
          = SumFunctionOnSet(f, I) + SumFunctionOnSet(f, O)
    BY <2>2, <2>3, SumUnion
  <2>8. SumOf(view.list) = SumFunctionOnSet(f, I \cup O)
    BY <2>1, <2>2, <2>3, SumOfDef
  <2>9. SumFunctionOnSet(f, I) \in Int /\ SumFunctionOnSet(f, O) \in Int
    BY <2>2, <2>3, SumOut
  <2>10. QED BY <2>1, <2>4, <2>5, <2>6, <2>7, <2>8, <2>9
<1>4. QED BY <1>1, <1>2, <1>3 DEF DashboardAddsUp

(***************************************************************************)
(* The dashboard adds up and a history stands, for any wallets, requests   *)
(* and handlers, in a steady environment: its incomes less its outgoings   *)
(* are its balance unless the wallet moved between its queries, and no     *)
(* later webhook takes back a row that was listed.                         *)
(***************************************************************************)
THEOREM DashboardsAddUp ==
  ASSUME Steady
  PROVE  DashboardSpec => []DashboardAddsUp
<1>1. DashboardSpec => Spec
  <2>1. [ \/ Next /\ LedgerMoves
          \/ DashboardNext /\ UNCHANGED vars ]_<<vars, viewVars>> => [Next]_vars
    BY DEF vars
  <2>2. QED BY <2>1, PTL DEF DashboardSpec, Spec
<1>2. Init /\ DashboardInit => ViewInv
  <2> SUFFICES ASSUME DashboardInit PROVE ViewInv OBVIOUS
  <2>1. DashboardTypeOK BY NoViewType DEF DashboardInit, DashboardTypeOK
  <2>2. QED BY <2>1 DEF DashboardInit, ViewInv, NoView
<1>3. /\ TypeOK /\ IsFiniteSet(transaction) /\ NoneUndoes /\ ViewInv
      /\ [ \/ Next /\ LedgerMoves
           \/ DashboardNext /\ UNCHANGED vars ]_<<vars, viewVars>>
      => ViewInv'
  <2> SUFFICES ASSUME TypeOK, IsFiniteSet(transaction), NoneUndoes, ViewInv,
                      [ \/ Next /\ LedgerMoves
                        \/ DashboardNext /\ UNCHANGED vars ]_<<vars, viewVars>>
               PROVE  ViewInv'
    OBVIOUS
  <2>1. CASE Next /\ LedgerMoves BY <2>1, StaysStep, ViewWaits
  <2>2. CASE DashboardNext /\ UNCHANGED vars BY <2>2, ViewReads
  <2>3. CASE UNCHANGED <<vars, viewVars>>
    BY <2>3 DEF vars, viewVars, ViewInv, DashboardTypeOK, Balance, Performed
  <2>4. QED BY <2>1, <2>2, <2>3
<1>4. QED
  BY <1>1, <1>2, <1>3, ViewAddsUp, TypeCorrect, RowsAreFinite,
     HandlersUndoNothing, PTL
  DEF DashboardSpec

-----------------------------------------------------------------------------
(***************************************************************************)
(* Notifications.  Every event in the outbox, or in the hand of a handler, *)
(* is of a payment whose row is PERFORMED, and so is what users were told. *)
(***************************************************************************)
Vouched ==
  /\ \A e \in outbox : SettledRow(e.ref)
  /\ \A h \in Handler : handler[h].pc = "enqueue" => SettledRow(Ref(h))

LEMMA SettledRowStays ==
  ASSUME TypeOK, Stays, NEW r, SettledRow(r)
  PROVE  SettledRow(r)'
<1>1. PICK t \in transaction : t.id = r /\ t.status = "PERFORMED"
  BY DEF SettledRow, RowsOf
<1>2. t \in transaction'
  BY <1>1 DEF Stays
<1>3. QED BY <1>1, <1>2 DEF SettledRow, RowsOf

LEMMA VouchedStep ==
  TypeOK /\ EventInv /\ NoneUndoes /\ Vouched /\ [Next]_vars => Vouched'
<1> SUFFICES ASSUME TypeOK, EventInv, Stays, Vouched, [Next]_vars
             PROVE  Vouched'
  BY StaysStep
<1>0. \A r : SettledRow(r) => SettledRow(r)'
  BY SettledRowStays
<1>1. ASSUME NEW h \in Handler, HandleCommit(h) PROVE Vouched'
  <2>1. PICK r : r = Ref(h)
    OBVIOUS
  <2>2. handler[h].hit /\ HasRow(r)
    BY <1>1, <2>1 DEF HandleCommit, EventInv
  <2>3. SettledRow(r)'
    <3>1. PICK t \in transaction : t.id = r
      BY <2>2 DEF HasRow, RowsOf
    <3>2. [t EXCEPT !.status = "PERFORMED"] \in transaction'
      BY <1>1, <2>1, <2>2, <3>1 DEF HandleCommit, SetStatus
    <3>3. /\ [t EXCEPT !.status = "PERFORMED"].status = "PERFORMED"
          /\ [t EXCEPT !.status = "PERFORMED"].id = r
      BY <3>1 DEF TypeOK, Row
    <3>4. QED BY <3>2, <3>3 DEF SettledRow, RowsOf
  <2>4. \A e \in outbox' : e \in outbox \/ e.ref = r
    BY <1>1, <2>1 DEF HandleCommit, Enqueue
  <2>5. ASSUME NEW g \in Handler, handler'[g].pc = "enqueue"
        PROVE  SettledRow(Ref(g))'
    <3>1. PICK q : q = handler'[g].notice.ref
      OBVIOUS
    <3>2. q = r \/ (handler[g].pc = "enqueue" /\ q = Ref(g))
      <4>1. handler[h] \in Busy
        BY <1>1, BusyHandler DEF HandleCommit
      <4>2. CASE g = h
        BY <1>1, <2>1, <2>5, <3>1, <4>1, <4>2
        DEF HandleCommit, Ref, TypeOK, Free, Busy
      <4>3. CASE g # h
        BY <1>1, <2>5, <3>1, <4>3 DEF HandleCommit, Ref, TypeOK
      <4>4. QED BY <4>2, <4>3
    <3>3. SettledRow(q)'
      BY <1>0, <2>3, <3>2 DEF Vouched
    <3>4. QED BY <3>1, <3>3 DEF SettledRow, RowsOf, Ref
  <2>6. ASSUME NEW e \in outbox' PROVE SettledRow(e.ref)'
    <3>1. PICK q : q = e.ref
      OBVIOUS
    <3>2. SettledRow(q)'
      BY <1>0, <2>3, <2>4, <2>6, <3>1 DEF Vouched
    <3>3. QED BY <3>1, <3>2
  <2>7. QED BY <2>5, <2>6 DEF Vouched
<1>2. ASSUME /\ \A g \in Handler :
                  handler'[g].pc = "enqueue" =>
                    handler[g].pc = "enqueue" /\ handler'[g] = handler[g],
             \A e \in outbox' :
               \/ e \in outbox
               \/ \E g \in Handler : handler[g].pc = "enqueue" /\ e.ref = Ref(g)
      PROVE  Vouched'
  <2>1. ASSUME NEW g \in Handler, handler'[g].pc = "enqueue"
        PROVE  SettledRow(Ref(g))'
    <3>1. PICK q : q = Ref(g) /\ q = Ref(g)'
      BY <1>2, <2>1 DEF Ref
    <3>2. SettledRow(q)'
      BY <1>0, <1>2, <2>1, <3>1 DEF Vouched
    <3>3. QED BY <3>1, <3>2 DEF SettledRow, RowsOf
  <2>2. ASSUME NEW e \in outbox' PROVE SettledRow(e.ref)'
    <3>1. PICK q : q = e.ref
      OBVIOUS
    <3>2. SettledRow(q)'
      BY <1>0, <1>2, <2>2, <3>1 DEF Vouched
    <3>3. QED BY <3>1, <3>2
  <2>3. QED BY <2>1, <2>2 DEF Vouched
<1>3. ASSUME NEW h \in Handler, HandleEnqueue(h) PROVE Vouched'
  BY <1>2, <1>3 DEF HandleEnqueue, Enqueue, TypeOK, Free
<1>4. ASSUME NEW h \in Handler, HandleReject(h) \/ HandleUpdate(h)
      PROVE  Vouched'
  <2>1. handler[h] \in Busy
    BY <1>4, BusyHandler DEF HandleReject, HandleUpdate
  <2>2. /\ handler'[h].pc # "enqueue" /\ UNCHANGED outbox
        /\ \A g \in Handler \ {h} : handler'[g] = handler[g]
    BY <1>4, <2>1 DEF HandleReject, HandleUpdate, TypeOK, Free, Busy
  <2>3. QED BY <1>2, <2>2
<1>5. ASSUME NEW h \in Handler, NEW n \in notice, TakeNotice(h, n)
      PROVE  Vouched'
  BY <1>2, <1>5 DEF TakeNotice, TypeOK, Free
<1>6. CASE UNCHANGED <<handler, outbox>> \/ WebhookCrash
  BY <1>2, <1>6 DEF WebhookCrash, Free
<1>7. QED
  BY <1>1, <1>3, <1>4, <1>5, <1>6
  DEF Next, ApiStep, HandlerStep, DepositPay, WithdrawalCheck, TransferCheck,
      WithdrawalPay, Refuse, SaveRow, TransferInsert, ApiCrash, ProviderSettle,
      ProviderInterim, vars

ToldInv == told \in [Req -> Nat] /\ ToldOfSettled

LEMMA ToldStep ==
  ASSUME TypeOK, Stays, Vouched, ToldInv,
         \/ UNCHANGED noticeVars
         \/ NotificationsNext /\ UNCHANGED vars
  PROVE  ToldInv'
<1>1. ASSUME NEW r \in Req, SettledRow(r) PROVE SettledRow(r)'
  BY <1>1, SettledRowStays
<1>2. CASE UNCHANGED noticeVars
  BY <1>1, <1>2 DEF noticeVars, ToldInv, ToldOfSettled, SettledRow
<1>3. CASE NotificationsNext /\ UNCHANGED vars
  <2>1. PICK e \in outbox : NotificationsStep(e)
    BY <1>3 DEF NotificationsNext
  <2>2. SettledRow(e.ref)
    BY DEF Vouched
  <2>3. \A r \in Req : told'[r] > 0 => told[r] > 0 \/ r = e.ref
    BY <2>1
    DEF NotificationsStep, HandleTransactionEvent, DropTransactionEvent,
        TransactionEventFails, Notify, ToldInv
  <2>4. UNCHANGED transaction
    BY <1>3 DEF vars
  <2>5. told' \in [Req -> Nat]
    BY <2>1
    DEF NotificationsStep, HandleTransactionEvent, DropTransactionEvent,
        TransactionEventFails, Notify, ToldInv
  <2>6. QED
    BY <2>2, <2>3, <2>4, <2>5 DEF ToldInv, ToldOfSettled, SettledRow, RowsOf
<1>4. QED BY <1>2, <1>3

(***************************************************************************)
(* Users are told of nothing but what is settled: behind every notice of a *)
(* deposit or a withdrawal there is a PERFORMED row, for any number of     *)
(* handlers, redelivered events and failing queries (the safety part of    *)
(* SettledIsNotified, in the environment of BooksAgree).                   *)
(***************************************************************************)
THEOREM NoticesAreTrue ==
  ASSUME Attentive, Steady
  PROVE  NotificationsSpec => []ToldOfSettled
<1> DEFINE Step == [ \/ Next /\ UNCHANGED noticeVars
                     \/ NotificationsNext /\ UNCHANGED vars ]_<<vars, noticeVars>>
<1>1. NotificationsSpec => Spec
  <2>1. Step => [Next]_vars
    BY DEF vars
  <2>2. QED BY <2>1, PTL DEF NotificationsSpec, Spec
<1>2. Init /\ NotificationsInit => Vouched /\ ToldInv
  BY DEF Init, NotificationsInit, Vouched, ToldInv, ToldOfSettled, Free
<1>3. TypeOK /\ EventInv /\ NoneUndoes /\ Vouched /\ ToldInv /\ Step
        => Vouched' /\ ToldInv'
  <2> SUFFICES ASSUME TypeOK, EventInv, NoneUndoes, Vouched, ToldInv, Step
               PROVE  Vouched' /\ ToldInv'
    OBVIOUS
  <2>1. [Next]_vars
    BY DEF vars
  <2>2. Stays
    BY <2>1, StaysStep
  <2>3. \/ UNCHANGED noticeVars
        \/ NotificationsNext /\ UNCHANGED vars
    OBVIOUS
  <2>4. QED BY <2>1, <2>2, <2>3, VouchedStep, ToldStep
<1>4. ToldInv => ToldOfSettled
  BY DEF ToldInv
<1>5. QED
  BY <1>1, <1>2, <1>3, <1>4, TypeCorrect, EventsInvariant, HandlersUndoNothing,
     PTL
  DEF NotificationsSpec
=============================================================================
