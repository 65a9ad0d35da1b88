------------------------------- MODULE Ledger -------------------------------
(***************************************************************************)
(* The wallet ledger: KeecashService's deposit, withdrawal and transfer,   *)
(* the balance query of TransactionRepository, and the two Triple-A        *)
(* webhook handlers that settle the rows the first two leave behind.       *)
(*                                                                         *)
(* A wallet is one user's wallet in one currency.  The Triple-A reference  *)
(* of a payment is the request that created it: a request makes at most    *)
(* one provider call, and the provider never reuses a reference.           *)
(* Every await of the code is a boundary between two actions, so requests  *)
(* and webhook handlers interleave as they do on the event loops of the    *)
(* api and webhook processes and in the READ COMMITTED database they share.*)
(***************************************************************************)
EXTENDS Integers, FiniteSets, Functions

CONSTANTS
  Wallet,         \* the wallets
  Req,            \* the requests clients send, each to one endpoint
  Handler,        \* concurrent executions of the webhook handlers
  Amount,         \* the amounts requests may name: any number passes @IsNumber
  Fee,            \* the fee the pricing tables answer (flat here)
  Null,           \* no wallet, no notice
  TokenCarriesId, \* whether req.user has an id: transfer passes req.user.id
  Hazard          \* what the environment may do, a subset of AllHazards

AllHazards ==
  { "crash",             \* the api or the webhook process dies
    "lost_answer",       \* a provider call takes effect, its answer is lost
    "early_notice",      \* the webhook arrives before the row is saved
    "interim_notice",    \* the provider also reports non-final statuses
    "unordered_notices" } \* notices reordered, handled concurrently

ASSUME LedgerAssumption ==
  /\ Null \notin Wallet
  /\ Amount \subseteq Int
  /\ Fee \in Nat
  /\ TokenCarriesId \in BOOLEAN
  /\ Hazard \subseteq AllHazards

VARIABLES
  transaction,  \* the rows of the table transaction
  req,          \* progress of each request
  payment,      \* the provider's status of the payment of each request
  notice,       \* notifications the provider (re)delivers until answered
  handler,      \* progress of each webhook handler execution
  outbox        \* the distinct events committed to the table outbox

vars == <<transaction, req, payment, notice, handler, outbox>>

Kind     == {"deposit", "withdrawal", "transfer"}
Status   == {"IN_PROGRESS", "PERFORMED", "REJECTED"}
Provider == {"open", "done", "dead"}   \* open stands for every interim status
Notice   == [ref : Req, status : Provider]
Row      == [id : Req, wallet : Wallet, senderId : Wallet \cup {Null},
             affectedAmount : Int, type : Kind, status : Status]

Idle == [pc |-> "idle", kind |-> "none", wallet |-> Null, to |-> Null,
         amount |-> 0, beside |-> "none"]
Free == [pc |-> "free", notice |-> Null, verdict |-> "open", hit |-> FALSE,
         snapshot |-> "null"]

\* beside is no state of the code: it tells whether another debit of the wallet
\* was open when the balance was checked.
Begun == [pc : {"checked", "saving", "done", "refused", "lost"}, kind : Kind,
          wallet : Wallet, to : Wallet, amount : Amount,
          beside : {"none", "debit"}]
Busy  == [pc : {"decided", "updated", "enqueue"}, notice : Notice,
          verdict : Provider \cup {"none"}, hit : BOOLEAN,
          snapshot : Status \cup {"null"}]

TypeOK ==
  /\ transaction \subseteq Row
  /\ req \in [Req -> {Idle} \cup Begun]
  /\ payment \in [Req -> Provider \cup {"none"}]
  /\ notice \subseteq Notice
  /\ handler \in [Handler -> {Free} \cup Busy]
  /\ outbox \subseteq [ref : Req, snapshot : Status \cup {"null"}]

Init ==
  /\ transaction = {}
  /\ req = [r \in Req |-> Idle]
  /\ payment = [r \in Req |-> "none"]
  /\ notice = {}
  /\ handler = [h \in Handler |-> Free]
  /\ outbox = {}

-----------------------------------------------------------------------------
(* Queries and updates on the table transaction.                           *)

Performed(w) == {t \in transaction : t.wallet = w /\ t.status = "PERFORMED"}

SumOf(rows) == SumFunction([t \in rows |-> t.affectedAmount])

Balance(w) == SumOf(Performed(w))

\* Mutant: the check forgets the amount.
EnoughForAny(w, a) == Performed(w) # {}

\* With no row the grouped query answers nothing and its caller throws.
EnoughFor(w, a) == Performed(w) # {} /\ ~ (Balance(w) < a)

RowsOf(ref) == {t \in transaction : t.id = ref}

\* Mutants: the provider's word is stored; a copy is inserted; a rejected row
\* is deleted.
SetStatusRaw(ref, s) ==
  {IF t.id = ref
   THEN [t EXCEPT !.status = IF s = "PERFORMED" THEN "done" ELSE "invalid"]
   ELSE t : t \in transaction}
SetStatusCopy(ref, s) ==
  transaction \cup {[t EXCEPT !.status = s] : t \in RowsOf(ref)}
SetStatusDelete(ref, s) ==
  IF s = "REJECTED" THEN transaction \ RowsOf(ref)
  ELSE {IF t.id = ref THEN [t EXCEPT !.status = s] ELSE t : t \in transaction}

SetStatus(ref, s) ==
  {IF t.id = ref THEN [t EXCEPT !.status = s] ELSE t : t \in transaction}

\* Mutants: the fee is taken off the row; the row is saved as settled.
NewRowNet(r, w, a, s) ==
  [id |-> r, wallet |-> w, senderId |-> Null, affectedAmount |-> a - Fee,
   type |-> req[r].kind, status |-> s]
NewRowSettled(r, w, a, s) ==
  [id |-> r, wallet |-> w, senderId |-> Null, affectedAmount |-> a,
   type |-> req[r].kind, status |-> "PERFORMED"]

NewRow(r, w, a, s) ==
  [id |-> r, wallet |-> w, senderId |-> Null, affectedAmount |-> a,
   type |-> req[r].kind, status |-> s]

-----------------------------------------------------------------------------
(* The api process.                                                        *)

IsDebit(r) == req[r].kind \in {"withdrawal", "transfer"}

\* The row of the payment shows what the provider finally decided.
Agreed(r) == \E t \in RowsOf(r) :
  <<payment[r], t.status>> \in {<<"done", "PERFORMED">>, <<"dead", "REJECTED">>}

\* A debit of w whose outcome is not in the ledger yet, but may get there.
OpenDebit(w) ==
  \E r \in Req : /\ IsDebit(r) /\ req[r].wallet = w
                 /\ \/ req[r].pc \in {"checked", "saving"}
                    \/ req[r].pc = "done" /\ payment[r] # "none" /\ ~ Agreed(r)

Begin(r, pc, kind, w, to, a) ==
  /\ req[r].pc = "idle"
  /\ req' = [req EXCEPT ![r] =
       [pc |-> pc, kind |-> kind, wallet |-> w, to |-> to, amount |-> a,
        beside |-> IF OpenDebit(w) THEN "debit" ELSE "none"]]

\* The provider acts on the call; the caller may never learn of it.
ProviderCall(r, request) ==
  /\ payment' = [payment EXCEPT ![r] = "open"]
  /\ \/ req' = [req EXCEPT ![r] = [request EXCEPT !.pc = "saving"]]
     \/ /\ "lost_answer" \in Hazard
        /\ req' = [req EXCEPT ![r] = [request EXCEPT !.pc = "lost"]]

\* getDepositPaymentLink up to the answer of tripleA.deposit.
DepositPay(r, w, a) ==
  /\ req[r].pc = "idle"
  /\ ProviderCall(r, [Idle EXCEPT !.kind = "deposit", !.wallet = w,
                                  !.to = w, !.amount = a])
  /\ UNCHANGED <<transaction, notice, handler, outbox>>

\* applyWithdrawal's balance check.
WithdrawalCheck(r, w, a) ==
  /\ Begin(r, IF EnoughFor(w, a) THEN "checked" ELSE "refused",
           "withdrawal", w, w, a)
  /\ UNCHANGED <<transaction, payment, notice, handler, outbox>>

\* tripleA.withdraw: prepare and confirm.
WithdrawalPay(r) ==
  /\ req[r].pc = "checked" /\ req[r].kind = "withdrawal"
  /\ ProviderCall(r, req[r])
  /\ UNCHANGED <<transaction, notice, handler, outbox>>

\* A beneficiary that exists, a missing fee or a provider error throws: so does
\* an amount the provider will not take.
Refuse(r) ==
  /\ req[r].pc = "checked"
  /\ req' = [req EXCEPT ![r].pc = "refused"]
  /\ UNCHANGED <<transaction, payment, notice, handler, outbox>>

\* The save that ends getDepositPaymentLink and applyWithdrawal.
SaveRow(r) ==
  /\ req[r].pc = "saving"
  /\ LET a == IF IsDebit(r) THEN - req[r].amount ELSE req[r].amount
     IN  transaction' = transaction \cup
                          {NewRow(r, req[r].wallet, a, "IN_PROGRESS")}
  /\ req' = [req EXCEPT ![r].pc = "done"]
  /\ UNCHANGED <<payment, notice, handler, outbox>>

\* The wallet applyTransfer looks up: that of an undefined user has no rows.
Caller(w) == IF TokenCarriesId THEN w ELSE Null

TransferCheck(r, w, to, a) ==
  /\ Begin(r, IF EnoughFor(Caller(w), a) THEN "checked" ELSE "refused",
           "transfer", w, to, a)
  /\ UNCHANGED <<transaction, payment, notice, handler, outbox>>

\* The 2 records of a transfer, for its sender and its receiver.
PaidRow(r) == NewRow(r, req[r].wallet, - req[r].amount, "PERFORMED")

ReceivedRow(r) ==
  [NewRow(r, req[r].to, req[r].amount - Fee, "PERFORMED")
     EXCEPT !.senderId = req[r].wallet]

TransferInsert(r) ==
  /\ req[r].pc = "checked" /\ req[r].kind = "transfer"
  /\ transaction' = transaction \cup {PaidRow(r), ReceivedRow(r)}
  /\ req' = [req EXCEPT ![r].pc = "done"]
  /\ UNCHANGED <<payment, notice, handler, outbox>>

ApiCrash ==
  /\ "crash" \in Hazard
  /\ req' = [r \in Req |-> IF req[r].pc \in {"checked", "saving"}
                           THEN [req[r] EXCEPT !.pc = "lost"] ELSE req[r]]
  /\ UNCHANGED <<transaction, payment, notice, handler, outbox>>

-----------------------------------------------------------------------------
(* Triple-A.                                                               *)

MayNotify(r) == "early_notice" \in Hazard \/ req[r].pc # "saving"

ProviderSettle(r, outcome) ==
  /\ payment[r] = "open" /\ MayNotify(r)
  /\ payment' = [payment EXCEPT ![r] = outcome]
  /\ notice' = notice \cup {[ref |-> r, status |-> outcome]}
  /\ UNCHANGED <<transaction, req, handler, outbox>>

ProviderInterim(r) ==
  /\ "interim_notice" \in Hazard
  /\ payment[r] = "open" /\ MayNotify(r)
  /\ notice' = notice \cup {[ref |-> r, status |-> "open"]}
  /\ UNCHANGED <<transaction, req, payment, handler, outbox>>

-----------------------------------------------------------------------------
(* The webhook process.                                                    *)

Ref(h) == handler[h].notice.ref

Active(ref) == {h \in Handler : handler[h].pc # "free" /\ Ref(h) = ref}

\* In order: no other execution for this payment, no superseded notice.
InOrder(n) == n.status = payment[n.ref] /\ Active(n.ref) = {}

\* A deposit is judged by the body of the notification, a withdrawal by the
\* details the provider answers now.
TakeNotice(h, n) ==
  /\ handler[h].pc = "free"
  /\ "unordered_notices" \in Hazard \/ InOrder(n)
  /\ LET verdict == IF req[n.ref].kind = "withdrawal"
                    THEN payment[n.ref] ELSE n.status
     IN  handler' = [handler EXCEPT
           ![h] = [Free EXCEPT !.pc = "decided", !.notice = n,
                               !.verdict = verdict]]
  /\ UNCHANGED <<transaction, req, payment, notice, outbox>>

\* Mutants: every status but a final failure counts; none does.
SucceededUnlessDead(h) == handler[h].verdict # "dead"
SucceededNever(h)      == FALSE

Succeeded(h) == handler[h].verdict = "done"

\* An open transaction holds the lock of the row its UPDATE hit.
Locked(ref) == \E h \in Active(ref) : handler[h].pc = "updated" /\ handler[h].hit

\* The answer may get lost, and the provider then delivers again.
Answer(h) == notice' \in {notice, notice \ {handler[h].notice}}

\* The else branches: one UPDATE outside a transaction.
HandleReject(h) ==
  /\ handler[h].pc = "decided" /\ ~ Succeeded(h)
  /\ ~ Locked(Ref(h))
  /\ transaction' = SetStatus(Ref(h), "REJECTED")
  /\ Answer(h)
  /\ handler' = [handler EXCEPT ![h] = Free]
  /\ UNCHANGED <<req, payment, outbox>>

\* BEGIN and the UPDATE: its effect is invisible to others until COMMIT.
HandleUpdate(h) ==
  /\ handler[h].pc = "decided" /\ Succeeded(h)
  /\ ~ Locked(Ref(h))
  /\ handler' = [handler EXCEPT ![h].pc = "updated",
                                ![h].hit = RowsOf(Ref(h)) # {}]
  /\ UNCHANGED <<transaction, req, payment, notice, outbox>>

\* Mutant: the row is read outside the transaction that updates it.
SnapshotOutside(h) ==
  IF RowsOf(Ref(h)) = {} THEN "null"
  ELSE (CHOOSE t \in RowsOf(Ref(h)) : TRUE).status

\* findOneBy in the transaction: the row hit, or one saved meanwhile.
Snapshot(h) ==
  IF handler[h].hit THEN "PERFORMED"
  ELSE IF RowsOf(Ref(h)) = {} THEN "null"
  ELSE (CHOOSE t \in RowsOf(Ref(h)) : TRUE).status

\* Mutant: the entity is created and never saved.
EnqueueUnsaved(h, snapshot) == UNCHANGED outbox

\* outboxService.create.
Enqueue(h, snapshot) ==
  outbox' = outbox \cup {[ref |-> Ref(h), snapshot |-> snapshot]}

\* findOneBy and COMMIT, after which the provider is answered.
\* outboxService.create is called before COMMIT but not awaited: its INSERT
\* runs inside the transaction or some time after it.
HandleCommit(h) ==
  /\ handler[h].pc = "updated"
  /\ transaction' = IF handler[h].hit THEN SetStatus(Ref(h), "PERFORMED")
                    ELSE transaction
  /\ \/ /\ Enqueue(h, Snapshot(h))
        /\ handler' = [handler EXCEPT ![h] = Free]
     \/ /\ handler' = [handler EXCEPT ![h].pc = "enqueue",
                                      ![h].snapshot = Snapshot(h)]
        /\ UNCHANGED outbox
  /\ Answer(h)
  /\ UNCHANGED <<req, payment>>

HandleEnqueue(h) ==
  /\ handler[h].pc = "enqueue"
  /\ Enqueue(h, handler[h].snapshot)
  /\ handler' = [handler EXCEPT ![h] = Free]
  /\ UNCHANGED <<transaction, req, payment, notice>>

WebhookCrash ==
  /\ "crash" \in Hazard
  /\ handler' = [h \in Handler |-> Free]
  /\ UNCHANGED <<transaction, req, payment, notice, outbox>>

-----------------------------------------------------------------------------
ApiStep(r) == WithdrawalPay(r) \/ Refuse(r) \/ SaveRow(r) \/ TransferInsert(r)

HandlerStep(h) ==
  HandleReject(h) \/ HandleUpdate(h) \/ HandleCommit(h) \/ HandleEnqueue(h)

Next ==
  \/ \E r \in Req, w \in Wallet, a \in Amount :
       \/ DepositPay(r, w, a)
       \/ WithdrawalCheck(r, w, a)
       \/ \E to \in Wallet : TransferCheck(r, w, to, a)
  \/ \E r \in Req : ApiStep(r)
  \/ \E r \in Req : ProviderInterim(r)
  \/ \E r \in Req, outcome \in {"done", "dead"} : ProviderSettle(r, outcome)
  \/ \E h \in Handler, n \in notice : TakeNotice(h, n)
  \/ \E h \in Handler : HandlerStep(h)
  \/ ApiCrash
  \/ WebhookCrash

Spec == Init /\ [][Next]_vars

(***************************************************************************)
(* The event loops run what they started, and the provider delivers a      *)
(* notice until it is answered: Handler only bounds the executions TLC     *)
(* considers at once, the code has no such limit, hence strong fairness.   *)
(***************************************************************************)
Fairness ==
  /\ \A r \in Req : WF_vars(ApiStep(r))
  /\ \A h \in Handler : WF_vars(HandlerStep(h))
  /\ \A r \in Req, s \in Provider :
       SF_vars(\E h \in Handler, n \in notice :
                 n = [ref |-> r, status |-> s] /\ TakeNotice(h, n))

FairSpec == Spec /\ Fairness

-----------------------------------------------------------------------------
(* Safety under every hazard.                                              *)

PaymentRow(t) == t.type \in {"deposit", "withdrawal"}

(***************************************************************************)
(* A deposit or withdrawal counts in a balance only if the provider has    *)
(* really completed that payment, whatever is lost, reordered, duplicated  *)
(* or crashes between the provider's decision and the COMMIT.              *)
(***************************************************************************)
SettledBacked ==
  \A t \in transaction :
    PaymentRow(t) /\ t.status = "PERFORMED" => payment[t.id] = "done"

(***************************************************************************)
(* A payment is in the ledger at most once, on the wallet and with the     *)
(* amount its request asked for, and its row is only there once the        *)
(* request that asked the provider for it has run to its end.              *)
(***************************************************************************)
RowsMatchRequests ==
  \A t \in transaction : PaymentRow(t) =>
    /\ req[t.id].pc = "done" /\ t.type = req[t.id].kind
    /\ payment[t.id] # "none"
    /\ t.wallet = req[t.id].wallet
    /\ t.affectedAmount = IF t.type = "deposit" THEN req[t.id].amount
                          ELSE - req[t.id].amount
    /\ RowsOf(t.id) = {t}

(***************************************************************************)
(* History is append-only: webhooks change the status of payments and      *)
(* nothing else, and rows enter as IN_PROGRESS payments or as both sides   *)
(* of one PERFORMED transfer.                                              *)
(***************************************************************************)
SameButStatus(t, u) == u \in {[t EXCEPT !.status = s] : s \in Status}

Appended ==
  /\ \A t \in transaction :
       \E u \in transaction' : SameButStatus(t, u) /\ (PaymentRow(t) \/ u = t)
  /\ \A u \in transaction' :
       \/ \E t \in transaction : SameButStatus(t, u)
       \/ PaymentRow(u) /\ u.status = "IN_PROGRESS"
       \/ /\ u.type = "transfer" /\ u.status = "PERFORMED"
          /\ \E v \in transaction' \ {u} :
               v.id = u.id /\ v.affectedAmount + u.affectedAmount = - Fee

AppendOnly == [][Appended]_transaction

(***************************************************************************)
(* Why SettledBacked and RowsMatchRequests hold: a "done" in a notice or   *)
(* in a handler's verdict is only ever copied from the provider, for whom  *)
(* done is final, and a request saves its row once, after its payment.     *)
(***************************************************************************)
NoticeBacked ==
  \A n \in notice : /\ payment[n.ref] # "none"
                    /\ n.status = "done" => payment[n.ref] = "done"

VerdictBacked ==
  \A h \in Handler : handler[h].pc # "free" =>
    /\ handler[h].verdict = "done" => payment[Ref(h)] = "done"
    /\ handler[h].pc = "updated" => handler[h].verdict = "done"

PaymentRequested ==
  \A r \in Req :
    /\ payment[r] # "none" => /\ req[r].pc \in {"saving", "done", "lost"}
                              /\ req[r].kind \in {"deposit", "withdrawal"}
    /\ req[r].pc = "saving" => payment[r] # "none"

RowsOfDone ==
  \A t \in transaction : req[t.id].pc = "done" /\ t.type = req[t.id].kind

LedgerInv == /\ NoticeBacked
             /\ VerdictBacked
             /\ PaymentRequested
             /\ RowsOfDone
             /\ SettledBacked
             /\ RowsMatchRequests

-----------------------------------------------------------------------------
(* Safety that needs a kind environment.                                   *)

(***************************************************************************)
(* "Check if user has enough balance" (applyWithdrawal, applyTransfer): no *)
(* wallet is ever overdrawn.                                               *)
(***************************************************************************)
NoOverdraft == \A w \in Wallet : Balance(w) >= 0

DebitRow(t) == t.type # "deposit" /\ t.senderId = Null

\* What takes money off a wallet behind the back of the balance check.
Unchecked(t) == /\ t.affectedAmount < 0
                /\ DebitRow(t) => req[t.id].beside = "debit"

\* What a wallet would hold without it.
Own(w) == SumOf({t \in Performed(w) : ~ Unchecked(t)})

(***************************************************************************)
(* As far as the balance check can see it does its work, although the row  *)
(* it lets in counts only when a webhook settles it much later: a wallet   *)
(* goes below zero only by debits let in while another debit of it was     *)
(* open (and by those alone, not by the first of them), and by a deposit   *)
(* or a receipt that is negative, as the receipt of a transfer is that is  *)
(* below its fee.                                                          *)
(***************************************************************************)
ChecksHold == \A w \in Wallet : Own(w) >= 0

(***************************************************************************)
(* "Total pay amount exceeds current wallet balance": the balance check    *)
(* turns a request away only for that reason.                              *)
(***************************************************************************)
RefusedOnlyWhenShort ==
  [][ \A r \in Req :
        req[r].pc = "idle" /\ req'[r].pc = "refused"
          => \/ Performed(req'[r].wallet) = {}
             \/ Balance(req'[r].wallet) < req'[r].amount ]_vars

Done(kind) == {r \in Req : req[r].kind = kind /\ payment[r] = "done"}

\* What the provider holds for Keecash: it charges a deposit the amount plus
\* the fee, and pays a withdrawal the amount minus the fee.
Held == SumFunction([r \in Done("deposit") |-> req[r].amount + Fee])
        - SumFunction([r \in Done("withdrawal") |-> req[r].amount - Fee])

Owed == SumOf({t \in transaction : t.status = "PERFORMED"})

Transferred == {r \in Req : req[r].kind = "transfer" /\ req[r].pc = "done"}

Fees == Fee * Cardinality(Done("deposit") \cup Done("withdrawal")
                          \cup Transferred)

Quiet ==
  /\ \A r \in Req : req[r].pc \notin {"checked", "saving"}
                    /\ payment[r] # "open"
  /\ \A h \in Handler : handler[h].pc = "free"
  /\ \A n \in notice : n.status # payment[n.ref]

(***************************************************************************)
(* When nothing is under way, what the provider holds is what the wallets  *)
(* are owed plus the fees earned: no row was lost, doubled or left behind. *)
(***************************************************************************)
Reconciled == Quiet => Held - Owed = Fees

(***************************************************************************)
(* "Update IN PROGRESS transaction's status": a webhook settles a payment  *)
(* that is in progress, so a PERFORMED one stays PERFORMED.                *)
(***************************************************************************)
SettledIsFinal ==
  [][ \A t \in transaction : t.status = "PERFORMED" => t \in transaction' ]_vars

(***************************************************************************)
(* The row whose status the webhook just updated is the one its event      *)
(* carries: consumers notify from that row, which is there and PERFORMED.  *)
(***************************************************************************)
EventCarriesSettledRow == \A e \in outbox : e.snapshot = "PERFORMED"

(***************************************************************************)
(* A settled payment is announced: its event is in the outbox, or the      *)
(* INSERT nobody awaits is still under way.                                *)
(***************************************************************************)
Announced ==
  \A t \in transaction : PaymentRow(t) /\ t.status = "PERFORMED" =>
    \/ \E e \in outbox : e.ref = t.id
    \/ \E h \in Active(t.id) : handler[h].pc = "enqueue"

(***************************************************************************)
(* A payment the provider completes gets its row PERFORMED in the end, and *)
(* for good.                                                               *)
(***************************************************************************)
Settles(r) ==
  payment[r] = "done" ~>
    [](\E t \in RowsOf(r) : t.status = "PERFORMED")

SettlementLive == \A r \in Req : Settles(r)

\* What the wallet history shows of each payment.
Shown(r) ==
  IF req[r].kind = "transfer" \/ RowsOf(r) = {} THEN "absent"
  ELSE LET t == CHOOSE t \in RowsOf(r) : TRUE
       IN  CASE t.status = "IN_PROGRESS" -> "pending"
             [] t.status = "PERFORMED"   -> "paid"
             [] t.status = "REJECTED"    -> "failed"

history == [r \in Req |-> Shown(r)]

Lifecycle == INSTANCE PaymentLifecycle WITH Payment <- Req, state <- history

(***************************************************************************)
(* As long as the provider reports final statuses only, the ledger keeps   *)
(* the promise of PaymentLifecycle: no handler undoes what another settled.*)
(***************************************************************************)
KeepsLifecycle == Lifecycle!Spec
=============================================================================
