# Verification of the Keecash backend

TLA+ models of the Keecash backend (a NestJS monorepo: wallets funded and
emptied in cryptocurrency through Triple-A, transfers between users, virtual
cards from Bridgecard, identity verification by Sumsub), the TLC runs that
check them and the theorems the TLA+ proof system checks about them.

Paths below are relative to the repository (`src/` in `PROJECT.json`).

## 1. The system

### Processes

| Process | Code | What it does |
|---|---|---|
| api | `apps/api` | HTTP endpoints: authentication, wallets, cards, history |
| webhook | `apps/webhook` | receives notifications of Triple-A and Bridgecard |
| producer | `apps/producer` | every 10 s reads the table `outbox`, publishes to Kafka |
| consumer | `apps/consumer` | Kafka consumer group: provider calls, notifications |
| admin | `apps/admin` | a stub |

All of them share one PostgreSQL database at its default isolation level, READ
COMMITTED. Each is a Node.js event loop: code runs without interruption between
two `await`s, and any other request, callback or cron job may run at an
`await`. That is the grain of the models: **one action per stretch of code
between two awaits that matter**, so requests of one process interleave exactly
as requests of two processes do.

### Inventory

| Component | State | Operations | Interacts with | Hard behaviour | What makes it correct |
|---|---|---|---|---|---|
| Wallet ledger (`keecash.service.ts`, `transaction.*`) | table `transaction` | deposit, withdrawal, transfer, balance query | Triple-A (calls), webhook (shared table) | check, provider call and save are separated by awaits; answers get lost | balances count completed payments only, once each; no overdraft; money is conserved |
| Triple-A webhook (`apps/webhook/src/triple-a`) | rows of `transaction`, `outbox` | deposit and withdrawal notification | ledger, outbox | redelivery, reordering, early arrival, an INSERT nobody awaits | a settled payment stays settled and is announced |
| Triple-A client (`libs/triple-a`) | cached access tokens | payment, payout, details, token | cipher tokens | concurrent token refresh, swallowed errors | a call is made with a live token |
| Outbox relay (`libs/outbox`, producer, consumer) | table `outbox`, Kafka log, offsets | create, poll, publish, mark, consume, commit | every service that raises events | overlapping cron runs, exits between publish and mark, resends, restarts | committed events are handled, rolled back ones never |
| Card issuing (`keecash.service.ts`, `consumer.service.ts`, `libs/bridgecard`) | tables `card`, `transaction`; the provider's cards | create, block, unblock, remove, top up, withdraw | outbox, Bridgecard | the card is made at the provider and booked here, in two systems | one debit per card, no card unpaid |
| Sessions (`apps/api/src/auth`, `libs/cipher-token`) | table `cipher_token`, JWTs | login, refresh, logout, resets | users | concurrent use of one token, expiry | a rotated token opens no second session |
| Onboarding (`user.service.ts`, `libs/twilio`, `libs/sumsub`, consumer) | user status and flags | create, verify, complete, Sumsub events | outbox, Bridgecard | webhooks without order, codes, duplicate events | status only advances through its checks |
| Fees (`libs/pricing`) | seven price tables, written by hand only | lookups for a quote, lookups for a charge | ledger, cards | quote and charge read the tables apart, a row may be missing or double | what is charged is what was quoted |
| Beneficiaries (`libs/beneficiary-*`) | two tables | save while paying, add, list | ledger | find, then insert; part of a payment | one row per beneficiary; an answer that tells what happened |
| Provider tokens (`libs/cipher-token`, `libs/triple-a`, `libs/sumsub`) | table of cached tokens | lookup, request, save | Triple-A, Sumsub | calls overlap; the row outlives the token | a refused call had an old token |
| Accounts (`auth.controller.ts`, `jwt.strategy.ts`) | PIN and status of a user, JWTs | set and check a PIN, refresh, close | sessions | a JWT keeps the status it was made with | a closed account stays out |
| Email codes (`libs/twilio`) | Twilio's verification per address | send, confirm | onboarding, sessions | one code serves four purposes | a code buys one thing |
| Card control (`keecash.service.ts`, consumer) | events on two topics, the provider's cards | block, unlock, list | outbox, Bridgecard | answered first, handled later, in any order | a card is as last asked |
| Cardholders (consumer, `apps/webhook/src/bridgecard`) | columns of `user` | register, verify | Bridgecard | the id is never stored by code | verified means verified |
| Views (`getDashboardItemsByUserUuid`, history) | none | read | ledger, cards | two queries without a transaction | the list makes the balance |
| Notifications (consumer) | table `notification` | insert | outbox, ledger | a failing handler consumes its message | a settled payment is told of |

Section 6 says what is not modelled and why.
`PROJECT.json` lists every component with its status and every hazard with its
line.

## 2. Modules

| Module | Role |
|---|---|
| `PaymentLifecycle` | abstract: what a wallet owner is promised about one crypto payment |
| `Ledger` | the api's wallet operations, Triple-A, the webhook handlers |
| `MCLedger` | sets, symmetry and hazards for TLC |
| `Ledger_proofs` | theorems about `Ledger` |
| `EventDelivery` | abstract: what the transactional outbox promises |
| `Outbox` | table `outbox`, producer, Kafka, consumer group |
| `CardIssuing` | `createCard` and the consumer's handler of its event |
| `CardControl` | block and unlock, and the list of cards |
| `Cardholders` | the registration of cardholders and its webhook |
| `Charges` | fees and prices: every quote and every charge |
| `Beneficiaries` | find-then-insert of both tables, within payments |
| `AccessTokens` | the cached tokens of Triple-A and Sumsub |
| `Notifications` | extends `Ledger`: the consumer's notifications |
| `Dashboard` | extends `Ledger`: dashboard and wallet history |
| `Sessions` | the table `cipher_token`: logins, refreshes, logouts, resets |
| `Accounts` | PIN, access tokens, the guard, closing |
| `Codes` | the codes that prove a mailbox, and what they give |
| `Onboarding` | signup, email and phone codes, Sumsub reviews, account completion |
| `MCOutbox`, `MCCardIssuing`, `MCSessions`, `MCOnboarding` | as `MCLedger` |
| `MCCharges`, `MCViews`, `MCCardDesk`, `MCVerify` | compositions of several of the above for TLC |
| `Sums` | lemmas about sums over finite sets |
| `Balance_proofs` | theorems about money: `Ledger` again, `Dashboard`, `Notifications` |
| `Outbox_proofs`, `Sessions_proofs` | theorems about `Outbox`, `Sessions` |
| `Cards_proofs` | theorems about `CardIssuing`, `CardControl`, `Cardholders`, `Accounts` |
| `Onboarding_proofs` | theorems about `Onboarding`, `Codes` |
| `Payments_proofs` | theorems about `Charges`, `Beneficiaries`, `AccessTokens` |

### Compositions

`MCViews` is a composition in the full sense: `Notifications` and `Dashboard`
read the variables of `Ledger`, so the rows a dashboard shows and the events a
consumer handles are those of the same behaviour. `Notifications` takes from
`EventDelivery` that each event arrives, and that it may arrive again.

`MCCharges`, `MCCardDesk` and `MCVerify` put components side by side that share
no variable. Their next-state relation moves one component while the others
stand in their initial state: the state graph is the sum of the components'
graphs and not their product. For properties that each read one component, this
loses nothing: the steps of one are neither enabled nor changed by another.
`MCOutbox` does the same with two relays, one with everything that spoils
deliveries and one without.

### Ledger

`transaction` holds the rows that count towards balances (id, wallet, sender,
signed amount, type, status). A *wallet* is one user's wallet in one currency, since the
balance query groups by currency. The provider's payment reference is the id of
the request that caused the call: a request makes at most one provider call and
the provider never reuses a reference. `req` is the progress of each HTTP
request: `checked` after the balance check, `saving` after the provider's
answer, `done`, `refused`, or `lost` when its process died or the answer never
came. `payment` is the provider's own record, `notice` what it still has to
deliver, `handler` the executions of the webhook handlers, `outbox` the events
they wrote.

| Action | Code |
|---|---|
| `DepositPay`, `SaveRow` | `getDepositPaymentLink` 278-327, split at the provider's answer |
| `WithdrawalCheck`, `Refuse`, `WithdrawalPay`, `SaveRow` | `applyWithdrawal` 351-411, split at the balance check and the provider's answer |
| `TransferCheck`, `Refuse`, `TransferInsert` | `applyTransfer` 434-508 |
| `ProviderSettle`, `ProviderInterim` | Triple-A (external) |
| `TakeNotice` | both handlers up to the verdict; a withdrawal asks the provider again |
| `HandleReject` | the `else` branches |
| `HandleUpdate`, `HandleCommit`, `HandleEnqueue` | the transaction: UPDATE (it locks the row), read back and COMMIT, and the INSERT into `outbox` that nobody awaits, before or after COMMIT |
| `ApiCrash`, `WebhookCrash` | the death of a process between any two of the above |

Abstractions: one flat `Fee` (the price tables are not part of the ledger's
control); every interim status of the provider is `open`, its final failures
are `dead`; events are kept as a set, so a repeated event is not counted; the
statuses of type REFUNDED and the other transaction types have no code that
sets them in these operations.

Amounts are any numbers: the DTOs ask for `@IsNumber()` and nothing compares an
amount with zero or with its fee. Triple-A may well turn such an amount away, the
model lets it accept one. Whether a debit comes beside another open one of its
wallet is told by `beside`, which records at the balance check what the code
never asks; no step depends on it.

The environment is a parameter: `Hazard` is the set of things it may do
(process deaths, lost answers, webhooks before the row is saved, interim
statuses, reordered or concurrent notifications). The code defends against some
and not against others, and each property is checked under the widest set under
which it holds.

`TokenCarriesId`: `TransferController.applyTransfer` passes `req.user.id`, and
`JwtStrategy.validate` never sets `id`. With FALSE the model does what the code
does today (run `ledger_noid`); the other runs set TRUE, what the endpoint is
written for, so that transfers take part in them. Likewise the notification
addresses given to Triple-A (`libs/triple-a/src/triple-a.service.ts:113,174`:
another path, and a test site for payouts) do not name the webhook's routes;
the models assume a deployment that routes them there.

### Outbox

`outbox` is the status of each row together with that of the transaction that
inserts it; `tick` the concurrent runs of `produceMessages` (the cron job does
not wait for the previous run); `log` the Kafka topics, merged into one sequence
since every handler treats its topic alone; `position` and `committed` the
consumer group's offsets; `handled` and `dropped` the rows whose handler ended
or threw; `Poison` the rows whose topic does not exist at the brokers.

| Action | Code |
|---|---|
| `Create`, `EndTransaction` | an awaited `outboxService.create` in a service's transaction, its end |
| `FindAll` | `ProducerService.produceMessages` up to `sendBatch`; the query takes any `BatchSize` of the created rows |
| `Publish`, `Resend` | `sendBatch`, one request per topic in any order; kafkajs sends again when an answer is lost |
| `SetAsSent` | the update and the end of the run |
| `BatchRefused` | a batch with a row whose topic no broker has: kafkajs looks all topics up before it sends anything, so nothing of the batch leaves and the process exits |
| `ProducerExit` | any error: `process.exit(1)`, and any other death |
| `Join` | the consumer group's first subscription, `fromBeginning: false` |
| `Consume` | one message through `ConsumerController`; an error is logged and the message is consumed |
| `CommitOffset`, `ConsumerCrash` | kafkajs (external) |

### CardIssuing

`order` is the progress of each request of `createCard`, `message` the delivery
of its event (pending until a handler ended or threw; what `EventDelivery`
promises), `exec` the executions of `handleBridgecardCreate`, `debits` the
PERFORMED rows, `issued` and `loads` what the provider did.

| Action | Code |
|---|---|
| `OrderCheck`, `OrderCommit`, `OrderAbort` | `KeecashService.createCard`, split at the balance check |
| `CreateCard`, `CreateCardFails` | `BridgecardService.createCard`, before the transaction |
| `LoadCard`, `LoadCardFails` | the INSERT of the row and `fundCard`; any error rolls the row back |
| `CommitDebit`, `DebitFails` | the status PERFORMED and COMMIT, or their failure |
| `ConsumerCrash`, `Redeliver` | a restart; an offset that was not committed |

The handler spans two systems and has no key that tells a repetition, so a fault
in the wrong place costs a card nobody paid for or a second debit. The model
counts the executions and deliveries that faults hit (`faults`), and the
properties say that nothing else costs anything.

The event `transaction.card.creation` has an empty handler. A verified
cardholder is an input here; `Cardholders` says how one comes about.

### CardControl, Cardholders

`flight` counts the events of each card and kind that are not consumed,
`frozen` and `minted` are the provider's, `list` the answer of
`getCardListByUserUuid`. A request that succeeds while an opposite event is in
flight, a handler that fails and a delivery that repeats put the card in
`unsure`; the property is about all others. `Linked` are the cards whose row has
a `bridgecardId`. No code stores one (the webhook that would is commented out),
so as deployed it is empty, no request ever reaches the provider, and a list
with a card in it fails; `NeverLinked` says so, and the run has one card of
either sort.

In `Cardholders`, the update that should store the provider's id names the user
by uuid where the table has ids, and throws; `StoreId` is the operator who
repairs a row by hand, early or late. `heard` are the ids a verification found
in a row. A verification that comes first is lost, and an id that is replaced
leaves its flag: `VerifiedIsVerified` says exactly that much.

| Action | Code |
|---|---|
| `BlockCard`, `UnlockCard` | `blockCard`, `unlockCard`: the event and the answer |
| `HandleFreeze`, `HandleFreezeFails` | `handleBridgecardFreeze`, `handleBridgecardUnfreeze` |
| `ReadList`, `ShowList`, `ListFails` | `getCardListByUserUuid`, split at the provider's answers |
| `Register`, `RegisterFails` | `handleUserComplete` |
| `Verified` | `handleBridgecardWebhookEvent` |
| `Verify`, `Mint`, `EventAgain`, `CompleteAgain`, `StoreId` | the provider, the relay, the operator |

### Charges

`rates` and `prices` are the rows of the pricing tables, per operation, card
usage and type, in cents. A deal is a quote and then the operation; `firm` says
that every row it rests on was the only one of its key and was not edited since.
Each `get-…-fee(s)` endpoint is an action, each `apply-…` endpoint the steps
`ReadPrice`, `ReadRate`, `Decline` and `Charge` of its operations. `ToFixed`
rounds as the code does up to a tie, which the binary fraction decides. The rows
of card top-ups and card withdrawals are created and never saved
(`applyCardTopup`, `applyCardWithdrawal`): the provider's call is all they do,
and nothing is debited. A client without an answer asks again, and since
`uuid()` makes a new reference each time nobody can tell the repetition; the
property counts operations against lost answers. As with transfers, the
endpoints that look up the balance of `req.user.id` need a token that carries
it.

### Beneficiaries

A withdrawal saves its beneficiary before it pays, a transfer after. `book` are
the rows of both tables, `spent` the payments that moved money, `raced` the
entries looked for while another request was about to insert them. `AddWallet`
inserts nothing: its name is NULL and its column forbids that. `add-user` is
turned away by its DTO (a `beneficiaryUserId` that is validated as text and as a
number) and has no action.

### AccessTokens

`bearer` is what the provider and the row know of each token, with the times of
its request, issue and save; `clock` moves at any await. `Lookup`, `Fetch`,
`Save` are `getAccessToken`/`generateToken`; a failed request makes Triple-A's
client go on with `undefined`, and Sumsub's throw. A payout uses its token
twice.

### Sessions

`row` is what was saved with each token and `live` the tokens whose row is in
the table; `request` the progress of each request that spans several awaits. A
refresh deletes one token and saves another: both belong to one `family`, and a
family with a refresh token is a session. `ended`, `applied` and `again` record
what logouts, logins and resets did; `raced` the sessions and reset tokens for
which a delete found no row (`deleteByToken` returns it, all callers drop it)
or a death left a PIN token that was used; `lost` those a death took between a
delete and what follows it.

| Action | Code |
|---|---|
| `CreateAccount` | `createAccount` and `generateCreateAccountToken` |
| `RefreshFind`, `RefreshDelete`, `RefreshRenew` | `AuthService.refreshTokens`, split at its awaits |
| `LoginFind`, `LoginReplace`, `LoginIssue` | `loginByPassword` of a Completed user |
| `Logout` | `logout`, with the cookie the request carries, fresh or not |
| `ConfirmCode` | a confirmed code and the reset token it gives |
| `ResetCheck` | `checkIfValid` |
| `PasswordDelete`, `PasswordSet` | `passwordReset`: the token goes first |
| `PincodeSet`, `PincodeDelete` | `resetPinCode`: the token goes last |
| `ApiCrash` | a restart (external) |

`refreshTokens` and `logout` look a token up by its text alone, so both may come
with a reset token, which belongs to no device: the logout uses it up, the
refresh opens a session with it, whose family is that token (`Refreshed` are
those). `RefreshTokenValidator` turns away what has no expiry, which is the
create-account token; `checkIfValid` does ask for the type.

Left out: expiry, which is that a token is no longer used; the login of a user who is not Completed, which reads back the token of
`CreateAccount` and changes nothing. Premises about clients are in `Hazard`: requests of a
user overlap, a login among them, a session moves to another address.

### Accounts

The completed user's row (`status`, `pin`), the access tokens that have not
expired and the requests between reading a row and acting on it. `Refresh`
stands for `refreshTokens`, which asks for no status; `Passes` is the guard
`JwtStrategy.validate`. `JwtCarriesId` is to `closeAccount` what
`TokenCarriesId` is to a transfer: the run sets it, since with the token as it
is the update has no criteria and throws. Setting a PIN reads `pincodeSet`,
hashes and saves; `crossed` are the users whose settings or resets met.

### Codes

Twilio keeps one verification of an address, whatever it was sent for. `pending`
are the addresses with an unspent code, `approvals` and `given` count what was
approved and what was given for it. A confirmation reads the address, asks
Twilio (`Approves`, `Refuses`) and then gives its token or change (`Grant…`);
that of a signup never looks at the answer. `JwtNamesUser` again lets
`confirmEmailChangeOtp` know its user.

### Onboarding

`account` is the row of each user, `profile` the users with a row in
`person_profile`, `token` those with a create-account token. `signup` and
`request` are the progress of `createAccount` and of the requests about phones,
`exec` the GREEN reviews that are being handled. `review` is what Sumsub decided,
in order, `notice` what became of each event (open until it was answered or
given up, failed when it will be repeated), `effect` the reviews that changed
the row. `approved` records Twilio's approvals; `rushed`, `overlap` and
`disorder` the emails and users hit by what the code does not defend against.

| Action | Code |
|---|---|
| `SignupCheck`, `SignupSave`, `SignupFails`, `SignupToken` | `createAccount`: the validator, the transaction of `UserService.create`, the token |
| `ConfirmEmail` | `confirmEmailVerificationCode`; Twilio's answer is not looked at |
| `SendPhone`, `SavePhone` | `sendPhoneVerificationCode`, split at Twilio's answer |
| `ConfirmPhone`, `ValidatePhone` | `confirmPhoneVerificationCode`, split likewise |
| `PhoneFails` | Twilio fails or does not approve, or the process dies |
| `Review`, `GiveUp` | Sumsub (external) |
| `Reject` | the `else` of `handleSumsubWebhookEvent` |
| `FetchApplicant`, `InsertProfile`, `Complete`, `CompleteFails` | `completeAccount`: Sumsub's data, the transaction up to its COMMIT, COMMIT, any error |
| `RegisterCardholder` | `handleUserComplete`, which may be repeated; its update names the user by uuid where the table has ids, and throws |

`Complete` and `Reject` may be answered or not: a lost answer is a failed event
that Sumsub repeats. The one-to-one of `person_profile` is a unique column
(the schema is synchronized from the entities), so a repeated GREEN fails and
changes nothing; after GREEN, RED, GREEN the row therefore stays REJECTED. The
referral ids, the addresses and the countries are data no property reads.
`setLanguage` looks up `req.user.id`, which the token never carries, and throws.

### Notifications, Dashboard

`told` are the rows of `notification` per payment, `handled` the deliveries of
each event. `feeless` is a country without a referral fee: the handler of a
deposit looks for the user who referred by a column that is null for all others,
TypeORM drops the criterion, some user is found and the missing fee throws
before the notification. The referral transaction is created and never saved.
A dashboard sums balances in one query and lists rows in the next; `moved` says
that a row of the wallet was settled between them. A history is one query, and
what it listed must stay listed.

## 3. Runs

All passing runs set `CHECK_DEADLOCK FALSE` where requests or rows are finitely
many and the model stops when all are served.

| Run | Bounds | Shows |
|---|---|---|
| `ledger_calm` | 2 wallets, 3 requests, 1 handler, amounts {-1,1,3}, fee 2; no hazard. Beside it: 1 deal, 2 rates, 2 prices, 1 edit, 2 tries; 3 errands of 2 owners for 1 target; 2 calls, 2 tokens, 2 keys, lifetime 1, clock to 2 | `ChecksHold` (only debits let in beside another one, and receipts below zero, overdraw a wallet), `Reconciled` (what the provider holds = what wallets are owed + fees, whenever nothing is under way); `QuotedIsCharged`, `BeneficiaryOnce`, `TokensAreFresh` |
| `ledger_adverse` | 1 wallet, 2 requests, 2 handlers; every hazard | `SettledBacked`, `RowsMatchRequests`, `AppendOnly` |
| `ledger_live` | 1 wallet, 2 requests, 2 handlers; no hazard; 1 repeated delivery; fair | `SettlementLive`, `Announced`, `EventCarriesSettledRow`, refinement of `PaymentLifecycle`; `SettledIsNotified`, `DashboardAddsUp` |
| `outbox_relay` | 2 rows, one of them poisoned, 2 ticks, batches of 2, 1 death, 2 messages at which resends stop; every hazard. Beside it: 2 rows, 2 ticks, batches of 1, 1 death, resends; fair | `SentImpliesPublished`, `CommittedIsConsumed`, `OutboxSafe` (the inductive invariant, and that nothing goes past a poisoned row); `RelayDelivers` (refinement of `EventDelivery`, its liveness included) |
| `cards_issue` | 2 orders, 1 wallet, 2 executions, top-ups {-3,2}, 3 faults; every hazard, one open order per wallet. Beside it: 2 cards, one linked, 2 events of a kind; 2 users, 3 cardholders; 1 account, 2 requests, 2 JWTs, 2 PINs; fair | `CardsSafe`, `FaultsBoundDamage`, `OverdraftBounded`, `OrderResolved`; `BlockIsLast`, `VerifiedIsVerified`, `PinIsKept`, `ClosedStaysOut` |
| `sessions_tokens` | 1 user, 2 devices, 4 tokens, 2 requests; overlapping requests and deaths | `SessionsAreOne`, `SessionsAreKept`, `ResetsAreKept`, `ResetsAreOnce`, `OneSessionPerDevice` |
| `onboarding_accounts` | 2 signups, 1 applicant, 2 emails, 2 numbers, 2 phone requests, 2 reviews, 2 deliveries at once, 2 registrations. Beside it: 2 users, 2 mailboxes, 2 confirmations, 1 approval of each | `EmailsAreUnique`, `PhoneIsApproved`, `OnboardingSafe`, `KycIsLastReview`; `CodesBuyOnce` |
| `ledger_overdraft` | expected violation | two debits of one wallet pass the check before either settles |
| `ledger_receipt` | expected violation | one transfer below its fee overdraws its receiver |
| `ledger_final` | expected violation | a late interim notification undoes a settled payment |
| `ledger_noid` | expected violation | every transfer is refused |
| `cards_cents` | expected violation | a card is loaded with units where the provider counts cents |

Why the bounds are enough: three requests are a deposit that funds a wallet and
two debits that race for it, the shortest overdraft; a fourth repeats one of
them. Two handlers are what it takes for a redelivered or reordered
notification to overtake another. Amounts -1, 1 and 3 with fee 2 are negative,
below the fee and above it, and a balance that one debit fits and two do not.
Two ticks and batches of two give every overlap of read, publish and mark of two
runs, with a poisoned row in the batch or beside it; the relay that delivers has
batches of one, so that a run may leave behind what the next one has to find. A
table larger than a batch that has a poisoned row is left to the proofs.
Two orders share one wallet whose funds cover one top-up of 2 and not two, while
one of -3 earns more than the card and its fee cost; three faults can hit one order twice and the other once, and two
executions are the overlap a rebalance allows. Four tokens are the account's, a
session, and the two that a doubled refresh or a reset adds; users share no row,
so one is enough, and two requests are a refresh beside a logout, two refreshes
or two resets of one token; three at once are left to the proofs. Logins that
overlap other requests are left to the proofs: `OneSessionPerDevice` is only claimed
without them.
For onboarding, two signups are a race for one email; a second applicant would
share nothing with the first, whose phone and review steps meet in one row. Two
phone requests are a send and a confirmation; two deliveries handle two reviews
of a user, or one review twice.
One deal is enough, since deals share only the tables and one edit is any change
of them between two of its lookups; two tries are an operation and its
repetition. Three errands are a saved beneficiary and two that race. A token of
lifetime 1 under a clock that reaches 2 can expire at each await of a call, and
two calls are what it takes to fetch twice. Two events of a kind let one repeat
while another is in flight; three cardholders are one user registered twice and
another. Two requests of an account are a close beside a refresh, or two PINs.
Two confirmations with one approval per mailbox are two purposes that compete
for one code.
The theorems of section 4 remove the bounds for most safety properties.

Fairness: weak fairness on the steps of requests and handlers (an event loop
runs what it started), and strong fairness on taking each undelivered notice:
Triple-A delivers until it is answered, and `Handler` bounds only how many
executions TLC sees at once. For the relay, weak fairness on the cron job, on
sending, on marking and on consuming: a dead process is restarted, and
`MaxCrash` makes deaths finite. For cards, weak fairness on the steps of a
handler and strong fairness on starting it (the relay delivers, `Exec` bounds
only what TLC sees at once); redeliveries are finite by `MaxFaults`. For notifications, weak fairness on the
first delivery of a payment's event, which is what `EventDelivery` promises. For
accounts, weak fairness on the expiry of each JWT: it carries its time and the
guard looks at it. None is assumed for clients or for the provider's decision.

## 4. Proofs

For all values of the constants that satisfy the assumption of each module
(`LedgerAssumption`, `OutboxAssumption`, …). A premise a theorem needs beyond
that stands in the table and is the hypothesis of the theorem:

| Theorem | Statement |
|---|---|
| `Ledger_proofs!TypeCorrect` | `Spec => []TypeOK` |
| `Ledger_proofs!LedgerInvariant` | `Spec => []LedgerInv` |
| `Ledger_proofs!BalancesAreBacked` | `Spec => []SettledBacked` |
| `Ledger_proofs!RowsAreThoseRequested` | `Spec => []RowsMatchRequests` |
| `Ledger_proofs!HistoryIsAppendOnly` | `Spec => AppendOnly` |
| `Ledger_proofs!LedgerKeepsLifecycle` | `Spec => KeepsLifecycle`, if the provider sends no interim notice |
| `Ledger_proofs!EventsCarryTheRow` | `Spec => []EventCarriesSettledRow`, if nothing dies, no answer is lost and no notice comes before the row |
| `Ledger_proofs!SettledIsAnnounced` | `Spec => []Announced`, if the webhook process does not die |
| `Balance_proofs!HandlersUndoNothing` | no handler undoes what another settled; `Steady` |
| `Balance_proofs!SettledStays` | `Spec => SettledIsFinal`; `Steady` |
| `Balance_proofs!BalanceChecksHold` | `Spec => []ChecksHold`; `Steady` |
| `Balance_proofs!BooksAgree` | `Spec => []Reconciled`; `Attentive`, `Steady` |
| `Balance_proofs!DashboardsAddUp` | `DashboardSpec => []DashboardAddsUp`; `Steady` |
| `Balance_proofs!NoticesAreTrue` | `NotificationsSpec => []ToldOfSettled`; `Attentive`, `Steady` |
| `Outbox_proofs!TypeCorrect` | `Spec => []TypeOK` |
| `Outbox_proofs!OutboxInvariant` | `Spec => []OutboxInv` |
| `Outbox_proofs!NothingSentIsLost` | `Spec => []SentImpliesPublished` |
| `Outbox_proofs!NothingCommittedIsSkipped` | `Spec => []CommittedIsConsumed` |
| `Outbox_proofs!RelayIsSafe` | `Spec => []OutboxSafe` |
| `Outbox_proofs!RelayRefinesDelivery` | `Spec => Delivery!Safety`: the relay implements `EventDelivery` but for its fairness |
| `Cards_proofs!TypeCorrect` | `Spec => []TypeOK` |
| `Cards_proofs!CardsInvariant` | `Spec => []CardsInv` |
| `Cards_proofs!CardsAreSafe` | `Spec => []CardsSafe` |
| `Cards_proofs!DamageIsBounded` | `Spec => []FaultsBoundDamage` |
| `Cards_proofs!OverdraftIsBounded` | `Spec => []OverdraftBounded`; one open order per wallet |
| `Cards_proofs!LastRequestDecides` | `CardControlSpec => []BlockIsLast` |
| `Cards_proofs!HoldersAreVerified` | `CardholdersSpec => []VerifiedIsVerified` |
| `Cards_proofs!PinsKept` | `AccountsSpec => []PinIsKept` |
| `Cards_proofs!ClosedForGood` | `AccountsSpec => [](Out(u) => [](status[u] = "CLOSED" /\ ~ Passes(u)))` |
| `Payments_proofs!QuotesAreKept` | `ChargesSpec => []QuotedIsCharged` |
| `Payments_proofs!SavedOnce` | `BookSpec => []BeneficiaryOnce` |
| `Payments_proofs!TokensFresh` | `AccessSpec => []TokensAreFresh` |
| `Onboarding_proofs!NoCodeBuysTwice` | `CodesSpec => []CodesBuyOnce` |
| `Sessions_proofs!TypeCorrect` | `Spec => []TypeOK` |
| `Sessions_proofs!SessionsInvariant` | `Spec => []SessionsInv` |
| `Sessions_proofs!OneHolder` | `Spec => []SessionsAreOne` |
| `Sessions_proofs!KeptUntilEnded` | `Spec => []SessionsAreKept` |
| `Sessions_proofs!ResetsDoTheirWork` | `Spec => []ResetsAreKept` |
| `Sessions_proofs!ResetsWorkOnce` | `Spec => []ResetsAreOnce` |
| `Sessions_proofs!OneRowPerDevice` | `Spec => []OneSessionPerDevice`; sessions stay on their devices, no login overlaps another request of its user |
| `Onboarding_proofs!TypeCorrect` | `Spec => []TypeOK` |
| `Onboarding_proofs!UniqueEmails` | `Spec => []EmailsAreUnique` |
| `Onboarding_proofs!ApprovedPhones` | `Spec => []PhoneIsApproved` |
| `Onboarding_proofs!WholeCompletion` | `Spec => []CompletionIsWhole` |
| `Onboarding_proofs!OnboardingIsSafe` | `Spec => []OnboardingSafe` |
| `Onboarding_proofs!LastReviewDecides` | `Spec => []KycIsLastReview` |

The premises, all of them about the environment or about clients:

- `Steady`: the provider sends no interim notice, or its notices of one payment
  come in order and one at a time. `ledger_final` is what happens otherwise.
- `Attentive`: nothing dies, no answer is lost, no notice comes before its row.
  Otherwise a payment has no row and the provider holds what nobody is owed.
- One open order per wallet, for `OverdraftIsBounded`: two orders that pass the
  check together overdraw it, as two withdrawals do (`ledger_overdraft`).
- The premises about logins are those of the runs.

None is about amounts: `LedgerAssumption` and `CardAssumption` take any integers,
since the DTOs ask for a number (`transfer-apply.dto.ts:15`,
`create-card.dto.ts:30`) and nothing behind them compares it. What the code does
not check is said in the property instead. `ChecksHold` leaves out what a wallet
was debited behind the back of the balance check, and the violations
`ledger_overdraft` and `ledger_receipt` show both ways this happens;
`OverdraftBounded` counts by the dearest order, or nothing where every order
earns.

Sums. A balance is a `SumFunction` over rows, which the community modules define
by recursion. The induction theorems of the library take an operator as a
parameter, which no installed prover can instantiate; the order in which sums are
taken does not matter all the same, since a smallest counterexample among the
subsets of a finite set (`SmallestSubset`, from the well-foundedness of strict
inclusion) is one element away from a set that is none. `Sums` proves from this
what a sum does when an element is added, taken out or changed (`SumAdd`,
`SumOut`, `SumAgree`, `SumMoves`), that sums over disjoint sets and of two
functions add up (`SumUnion`, `SumPlus`), and that a sum may be taken group by
group (`SumByGroup`).

The argument for the ledger. `SettledBacked` is not inductive: a COMMIT makes a
row PERFORMED because of a verdict taken long before, from a notice sent before
that. `NoticeBacked` and `VerdictBacked` carry the provider's decision along
that path, and they last because `done` is final for the provider.
`RowsMatchRequests` needs that a request saves one row only and only after its
provider call (`PaymentRequested`, `RowsOfDone`). The proof splits the invariant
in the part about the provider, notices and handlers (`ProviderInv`) and the
part about rows (`RowsInv`); an action either keeps the rows, changes one status
(`RowsRestatus`) or adds rows of a request that had none (`RowsAdded`).

The refinement. `Ledger` implements `PaymentLifecycle` for every hazard but
interim notices (run `ledger_final` shows why these are excluded): `FinalInv`
says that notices and verdicts then repeat the provider's decision and that a
REJECTED row belongs to a payment the provider failed. A handler that rejects
and one that settles cannot therefore meet on one payment, in whatever order
their notices arrive. `ShownRow` reads the abstract state off the only row of a
payment, and each action moves one payment (`OneMoves`) or shows nothing new.
`HistoryIsAppendOnly` needs that handlers only work on payments the provider has
(`HandlerRequested`), so that no UPDATE hits a transfer.

Events. `EventInv` follows a payment from its request: with an attentive
environment (`Attentive`) the provider's decision comes after the row, so notice
and handler always have a row, the UPDATE hits it, and what is read back is
PERFORMED. Each of the three premises is needed: without it the event of a
payment whose row is missing carries null. `Announced` is inductive as it
stands, once a death between COMMIT and the INSERT nobody awaits is excluded.

Money. `ChecksHold` is not inductive: a debit is checked long before its row
counts. What the check has promised is `Own`, the balance without what came
unchecked. `OneDebit` says that a wallet has one open debit that came alone (`Alone`),
`Covered` that `Own` still pays for it; each step leaves a wallet's `Own` alone,
adds to it, or takes what it closes. A receipt below zero is no part of `Own`, and
a debit of a negative amount only adds to it (`MoneyMoves`). A row that is PERFORMED must not become
REJECTED for this, which is `NoneUndoes`: a handler about to reject finds no
PERFORMED row. For `Reconciled`, `Pending` says that a completed payment has a
notice to come or a settled row, and `TransferRows` that a transfer has both of
its rows; when all is quiet each finished request has exactly its rows, so the sum
over the settled rows, taken request by request (`SumByGroup`), is what the
provider holds for the request less the fee. `DashboardsAddUp` takes the
same sums by sign of the amount, and `SettledStays` for the rows that were listed.
`NoticesAreTrue` needs that an event names a payment whose row is settled
(`Vouched`), and that this lasts.

The argument for the relay. `TickPublished`: what a run has taken off its list is
in the log. So when the list is empty the whole batch is there, and marking it
keeps `SentImpliesPublished`, whatever other runs did. `PositionIsConsumed` and
`OffsetsOrdered` do the same for the consumer's offsets. A batch with a poisoned
row is never touched (`PoisonStays`), so nothing of it is in the log or marked.

The refinement of `EventDelivery`. `Origin` says that what a run has read, what is
in the log and what was handled was committed. So every step of the relay is a
`Commit`, a `Handle` of a committed event, or a stutter: reading a row before its
transaction ends is impossible, and a copy in the log handles nothing new.
The fairness of `EventDelivery` is left to TLC.

The argument for cards. "No more debits than loads" is not inductive: an
execution that has loaded is about to debit. `DebitsAreLoaded` and
`LoadsAreIssued` add the executions that stand before their next step, as
cardinalities; each handler step moves one execution from one count to the next
(`Joins`, `Leaves`).

`FaultsBoundDamage` speaks of the moment when no order is open. `Lost` is its
measure in between: per order, what is loaded and not debited, what is debited
twice, and what is under way. `Damage` bounds its total by the faults, and each
step moves one order (`DamageStep`); a crash moves all, by one for each execution
it hits (`LoadedAreBusy`). `OverdraftBounded` has the same shape in money: what a
wallet's orders cost it or may still cost it (`Paying`) is within its funds plus
the cost of the dearest order per fault. A negative top-up makes an order earn,
which the wallet may only count on once it is booked: `Paying` takes what was
debited as it is, and of what is still due the positive part.

Block and unlock. `BlockIsLast` speaks of cards without events in flight; while
there are some, `OneMindInFlight` says that those of a card that is not in doubt
all ask for what its last request wanted.

Cardholders, PINs, closing. `Told` says that a notification under way and the flag
in a row are about a verified cardholder of that user. `OneSetting` says that an
uncontested setting of a PIN is the only one and that its user was told nothing
yet. For `ClosedForGood`, `Out` (closed, every token signed from the open row
expired, and none about to be signed) is kept by every step.

Quotes. `Kept` follows a deal from its first lookup: while it is `firm`, the row
that gave its fee is the only one of its key, so the second lookup finds it again.
An edit either unsettles the deal or changes no row it rests on (`EditKeeps`).

Provider tokens. `AccessInv` orders the times of a token (requested, issued,
saved) and says of every call what it has seen: a refusal then has an interval of
time to blame, and a second request a call that looked before the first was saved.

Beneficiaries. `Sole` says that an entry nobody raced for has one holder, a row
or a request about to insert it; `Course` says where the money of a payment is
at each of its steps, which is what its answer later rests on.

Codes. `CodesBuyOnce` counts the confirmations that passed Twilio and have not
given yet, as a cardinality, so it is inductive but for `CallsNameMailboxes`.

The argument for sessions. `Base` (types, `Families`, `Drawn`, `RequestsFit`)
says that what a request holds was drawn for its endpoint; it is inductive as a
whole, not its type invariant alone, since a delete records the family of a
token the request must hold. `OneHolds` and `SomeHolds` follow a session from
row to request and back; a delete that finds no row is the only way to a second
holder, and it puts the session into `raced`. A reset token may become a session:
`Untouched` says that none in the table has (`Renewed`) unless it raced, `Gone`
names all that can have happened to one that left the table. `PasswordOnce` and
`PincodeOnce` count the requests between the two steps of a reset: a PIN that was
set twice while its token lives has two of them, and only one will find the row;
a session opened with the token besides leaves one that will find none.

`OneSessionPerDevice` needs `OneEach`: per user and device one row, or one request
that is about to save one, never both. A request keeps to the device of the row
it replaces (`Matches`), and asks for a new row in the step that deletes the old
one. A refreshed reset token replaces no row of a device, so it is excluded here
(`Steady`): after it a device may have two sessions.

The argument for onboarding. `Base` is the type invariant with what makes it
inductive: a request or a delivery is of a user whose row is there. Four small
invariants stand on it, each about a few variables, with a lemma that says which
kinds of steps leave these alone (`PhoneFrame`, `ReviewFrame`). `EmailsInv`
speaks of signups rather than rows: two past the validator with one email were
there together, since one that has saved its row stops the next. `PhonesInv`
says that a number being confirmed is the one in the row and that none is being
sent. `SavedAlone` is the unique profile while its transaction is open.
`InOrder` says that events before a closed or handled one are closed and those
after it open, so a review that has its effect is later than those that had
theirs (`LastVerdictNew`).

Only model-checked: liveness (`SettlementLive`, `OrderResolved`, and the leads-to
in `SettledIsNotified`, `ClosedStaysOut` and `RelayDelivers`, whose safety parts
are `NoticesAreTrue`, `ClosedForGood` and `RelayRefinesDelivery`). The provers
have no rule for fairness and `ENABLED`. Every safety invariant and action property
of a passing run is a theorem.

## 5. Plan

1. *Done*: `Ledger`, `Outbox`, `CardIssuing`, `Sessions`, `Onboarding`, their
   abstract specifications and their safety theorems.
2. *Done*: the components around them: `Charges`, `Beneficiaries`,
   `AccessTokens`, `CardControl`, `Cardholders`, `Accounts`, `Codes`,
   `Notifications`, `Dashboard`, and their safety theorems.
3. *Done*: sums over finite sets; conservation of money, overdrafts, damage by
   faults; the safety part of `Outbox`'s refinement.
4. Left: weaker premises where the code allows them (`Reconciled` counted without
   the payments a death took; `OneSessionPerDevice` with logins that overlap only
   refreshes), and bounds on how far parallel debits can overdraw a wallet.

## 6. Not modelled

- Environment and configuration (`libs/env`, `env.validator.ts`), the database
  module, migrations, the storage client: wiring and I/O.
- The shapes of requests (`dto/`), but where one decides what an operation does
  (`add-user`); the fields of a profile, a shareholder or a document, which no
  property reads, and their repositories, which no code calls.
- Countries and activations: reference data no code writes. No code reads
  `country_activation`; a user's country is in the keys of `Charges`.
- The admin application and the Sumsub webhook application: stubs without
  endpoints. Sumsub's events are handled by the api (`Onboarding`).
- Operations that never reach a change: `removeCard` soft-deletes an entity
  without a delete date, which TypeORM refuses; the history of a card reads the
  card without its user and throws; `setLanguage` updates nobody and throws;
  `add-user` is always invalid.
- Stubs: invoices (an empty link), the picture upload.
- One query each, with nothing to interleave with: listing notifications and
  marking them as read, listing beneficiaries and referred users, looking a user
  up by email, number or referral id.
- Code nothing calls: the services behind `account/settings` (its handler is
  commented out), the synchronous registration of a cardholder.
- The death of the api between a signup's row and its token
  (`auth.controller.ts:54`) is a step of `Onboarding`, and no property: the
  address stays taken and nothing repairs it.
