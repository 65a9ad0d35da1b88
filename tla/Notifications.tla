---------------------------- MODULE Notifications ----------------------------
(***************************************************************************)
(* What the consumer makes of the events the webhooks commit: it tells the *)
(* user that a deposit or a withdrawal is settled, and would credit the    *)
(* one who referred the user.  The events are those of Ledger's outbox;    *)
(* that each reaches the consumer is what OutboxDelivers promises.         *)
(***************************************************************************)
EXTENDS Ledger

CONSTANT
  MaxAgain   \* bound on the deliveries of an event after the first

ASSUME NotificationsAssumption == MaxAgain \in Nat

VARIABLES
  feeless,   \* the country has no row in referral_fee
  handled,   \* how often each event was delivered and consumed
  failed,    \* payments of which a delivery was dropped by a failing query
  told       \* the rows of the table notification, per payment

noticeVars == <<feeless, handled, failed, told>>

Event == [ref : Req, snapshot : Status \cup {"null"}]

NotificationsTypeOK ==
  /\ feeless \in BOOLEAN
  /\ handled \in [Event -> 0 .. 1 + MaxAgain]
  /\ failed \subseteq Req
  /\ told \in [Req -> Nat]

NotificationsInit ==
  /\ feeless \in BOOLEAN
  /\ handled = [e \in Event |-> 0]
  /\ failed = {}
  /\ told = [r \in Req |-> 0]

-----------------------------------------------------------------------------
Notify(r) == told' = [told EXCEPT ![r] = @ + 1]

Consumed(e) ==
  /\ e \in outbox /\ handled[e] <= MaxAgain
  /\ handled' = [handled EXCEPT ![e] = @ + 1]

IsDeposit(e) == req[e.ref].kind = "deposit"

\* The user who referred is looked for by referralAppliedId.  For a user whom
\* nobody referred that is null, which findOne skips: it answers some user,
\* and the fee is looked up for him as well.
ReferralFeeMissing(e) == IsDeposit(e) /\ feeless

\* Mutant: the handler of withdrawals is as empty as that of transfers.
HandleTransactionEventDepositOnly(e) ==
  /\ Consumed(e)
  /\ e.snapshot # "null" /\ ~ ReferralFeeMissing(e)
  /\ IF IsDeposit(e) THEN Notify(e.ref) ELSE UNCHANGED told
  /\ UNCHANGED <<feeless, failed>>

\* The message names a row: its user is told.  The referral transaction is
\* created and never saved.
HandleTransactionEvent(e) ==
  /\ Consumed(e)
  /\ e.snapshot # "null" /\ ~ ReferralFeeMissing(e)
  /\ Notify(e.ref)
  /\ UNCHANGED <<feeless, failed>>

\* transaction.userId of null throws; findReferralFee throws: the error is
\* logged and the message is consumed.
DropTransactionEvent(e) ==
  /\ Consumed(e)
  /\ e.snapshot = "null" \/ ReferralFeeMissing(e)
  /\ UNCHANGED <<feeless, failed, told>>

\* Any query of the handler may fail.
TransactionEventFails(e) ==
  /\ Consumed(e)
  /\ failed' = failed \cup {e.ref}
  /\ UNCHANGED <<feeless, told>>

-----------------------------------------------------------------------------
NotificationsStep(e) ==
  \/ HandleTransactionEvent(e)
  \/ DropTransactionEvent(e)
  \/ TransactionEventFails(e)

NotificationsNext == \E e \in outbox : NotificationsStep(e)

NotificationsSpec ==
  /\ Init /\ NotificationsInit
  /\ [][ \/ Next /\ UNCHANGED noticeVars
         \/ NotificationsNext /\ UNCHANGED vars ]_<<vars, noticeVars>>

-----------------------------------------------------------------------------
(***************************************************************************)
(* The user of a settled payment is told in the end, and told of nothing   *)
(* else.  Two things stand in the way: a query that fails, whose message   *)
(* is not retried, and, for deposits, a country that has no referral fee,  *)
(* whether or not anyone referred the user.                                *)
(***************************************************************************)
ToldOfSettled ==
  \A r \in Req :
    told[r] > 0 => \E t \in RowsOf(r) : t.status = "PERFORMED"

Untold(r) == r \in failed \/ (req[r].kind = "deposit" /\ feeless)

SettledIsNotified ==
  /\ [] ToldOfSettled
  /\ \A r \in Req :
       payment[r] = "done" ~> told[r] > 0 \/ Untold(r)
=============================================================================
