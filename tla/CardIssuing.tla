----------------------------- MODULE CardIssuing -----------------------------
(***************************************************************************)
(* Issuing a card: KeecashService.createCard checks the wallet and commits *)
(* the card row with a bridgecard.create event; the consumer then creates  *)
(* the card at Bridgecard, loads it and books the debit.  The delivery of  *)
(* the event is that of EventDelivery: at least once.                      *)
(*                                                                         *)
(* The provider's cards and the ledger live in two systems and nothing     *)
(* spans them, so a fault between two steps of a handler costs something:  *)
(* the model counts faults and the properties bound what they may cost.    *)
(***************************************************************************)
EXTENDS Integers, FiniteSets, Functions

CONSTANTS
  Order,      \* the requests for a card
  Wallet,     \* the wallets they are paid from
  Exec,       \* concurrent executions of handleBridgecardCreate
  Amount,     \* the top-ups orders may name: any number passes @IsNumber
  Price,      \* the card price the pricing tables answer
  Fee,        \* the top-up fee they answer (flat here)
  Funds,      \* what a wallet holds before its first order
  Null,       \* no order, no wallet
  MaxFaults,  \* bound on the executions faults hit in a behaviour
  Hazard      \* what the environment may do, a subset of AllHazards

AllHazards ==
  { "crash",            \* the consumer dies
    "lost_answer",      \* a provider call takes effect, its answer is lost
    "redelivery",       \* a message is delivered again, also concurrently
    "refusal",          \* the provider refuses a call
    "db_error",         \* the database fails a transaction
    "parallel_orders" } \* a wallet orders a card while an order of it is open

ASSUME CardAssumption ==
  /\ Null \notin Order \cup Wallet
  /\ Amount \subseteq Int
  /\ Price \in Nat /\ Fee \in Nat /\ Funds \in Nat /\ MaxFaults \in Nat
  /\ Hazard \subseteq AllHazards
  /\ IsFiniteSet(Exec) /\ IsFiniteSet(Order)

VARIABLES
  order,    \* progress of each request of createCard
  message,  \* delivery of the event of each order
  exec,     \* progress of each execution of the handler
  debits,   \* PERFORMED CARD_CREATION rows of each order
  issued,   \* cards the provider has made for each order
  loads,    \* times the provider has loaded a card of each order
  faults    \* executions and deliveries that faults have hit so far

vars == <<order, message, exec, debits, issued, loads, faults>>

Idle == [pc |-> "idle", wallet |-> Null, amount |-> 0]
Free == [pc |-> "free", order |-> Null]

TypeOK ==
  /\ order \in [Order -> {Idle} \cup
                  [pc : {"checked", "ordered", "refused"}, wallet : Wallet,
                   amount : Amount]]
  /\ message \in [Order -> {"none", "pending", "done", "dropped"}]
  /\ exec \in [Exec -> {Free} \cup [pc : {"created", "loaded"}, order : Order]]
  /\ debits \in [Order -> Nat]
  /\ issued \in [Order -> Nat]
  /\ loads \in [Order -> Nat]
  /\ faults \in 0 .. MaxFaults

Init ==
  /\ order = [o \in Order |-> Idle]
  /\ message = [o \in Order |-> "none"]
  /\ exec = [e \in Exec |-> Free]
  /\ debits = [o \in Order |-> 0]
  /\ issued = [o \in Order |-> 0]
  /\ loads = [o \in Order |-> 0]
  /\ faults = 0

-----------------------------------------------------------------------------
(* The api process.                                                        *)

TotalToPay(a) == Price + a + Fee

OrdersOf(w) == {o \in Order : order[o].wallet = w}

Balance(w) ==
  Funds - SumFunctionOnSet(
            [o \in Order |-> debits[o] * TotalToPay(order[o].amount)],
            OrdersOf(w))

\* Mutant: the price of the card is left out of the check.
EnoughForTopup(w, a) == ~ (Balance(w) < a + Fee)

EnoughFor(w, a) == ~ (Balance(w) < TotalToPay(a))

Active(o) == {e \in Exec : exec[e].order = o}

\* An order whose debit may still come.
Open(o) == \/ order[o].pc = "checked"
           \/ message[o] = "pending"
           \/ Active(o) # {}

MayOrder(w) ==
  "parallel_orders" \in Hazard \/ \A o \in OrdersOf(w) : ~ Open(o)

\* createCard's balance check.
OrderCheck(o, w, a) ==
  /\ order[o].pc = "idle" /\ MayOrder(w)
  /\ order' = [order EXCEPT
       ![o] = [pc |-> IF EnoughFor(w, a) THEN "checked" ELSE "refused",
               wallet |-> w, amount |-> a]]
  /\ UNCHANGED <<message, exec, debits, issued, loads, faults>>

\* The transaction that saves the card row and its event.
OrderCommit(o) ==
  /\ order[o].pc = "checked"
  /\ order' = [order EXCEPT ![o].pc = "ordered"]
  /\ message' = [message EXCEPT ![o] = "pending"]
  /\ UNCHANGED <<exec, debits, issued, loads, faults>>

\* No verified cardholder, an error that rolls back, or the process dies.
OrderAbort(o) ==
  /\ order[o].pc = "checked"
  /\ order' = [order EXCEPT ![o].pc = "refused"]
  /\ UNCHANGED <<message, exec, debits, issued, loads, faults>>

-----------------------------------------------------------------------------
(* The consumer process.                                                   *)

\* A fault that hits n executions or deliveries.
Fault(hazard, n) ==
  /\ hazard \in Hazard /\ faults + n <= MaxFaults
  /\ faults' = faults + n

\* The message of o is consumed: its handler ended, or threw and was logged.
Consumed(o, outcome) == message' = [message EXCEPT ![o] = outcome]

\* Mutant: a message that has been started is taken for a duplicate.
DeliverableOnce(o) ==
  message[o] = "pending" /\ Active(o) = {} /\ issued[o] = 0

\* The messages of a partition are handled in turn.
Deliverable(o) == message[o] = "pending" /\ Active(o) = {}

\* After a rebalance the next owner of a partition may take a message while
\* the previous one is still at it.
CreateCard(e, o) ==
  /\ exec[e].pc = "free"
  /\ \/ Deliverable(o) /\ UNCHANGED faults
     \/ /\ message[o] = "pending" /\ Active(o) # {}
        /\ Fault("redelivery", 1)
  /\ issued' = [issued EXCEPT ![o] = @ + 1]
  /\ exec' = [exec EXCEPT ![e] = [pc |-> "created", order |-> o]]
  /\ UNCHANGED <<order, message, debits, loads>>

\* Bridgecard refuses to create the card, or has and its answer is lost.
CreateCardFails(e, o) ==
  /\ exec[e].pc = "free" /\ Deliverable(o)
  /\ \/ "refusal" \in Hazard /\ UNCHANGED <<issued, faults>>
     \/ /\ Fault("lost_answer", 1)
        /\ issued' = [issued EXCEPT ![o] = @ + 1]
  /\ Consumed(o, "dropped")
  /\ UNCHANGED <<order, exec, debits, loads>>

\* Mutant: the row is committed on its own, before the card is loaded.
LoadCardBooked(e) ==
  LET o == exec[e].order IN
  /\ exec[e].pc = "created"
  /\ loads' = loads
  /\ debits' = [debits EXCEPT ![o] = @ + 1]
  /\ exec' = [exec EXCEPT ![e].pc = "loaded"]
  /\ UNCHANGED <<order, message, issued, faults>>

\* In the transaction: the row is inserted and the card loaded.
LoadCard(e) ==
  LET o == exec[e].order IN
  /\ exec[e].pc = "created"
  /\ loads' = [loads EXCEPT ![o] = @ + 1]
  /\ exec' = [exec EXCEPT ![e].pc = "loaded"]
  /\ UNCHANGED <<order, message, debits, issued, faults>>

\* fundCard throws: the row is rolled back, the card stays at the provider.
LoadCardFails(e) ==
  LET o == exec[e].order IN
  /\ exec[e].pc = "created"
  /\ \/ "refusal" \in Hazard /\ UNCHANGED <<loads, faults>>
     \/ /\ Fault("lost_answer", 1)
        /\ loads' = [loads EXCEPT ![o] = @ + 1]
  /\ Consumed(o, "dropped")
  /\ exec' = [exec EXCEPT ![e] = Free]
  /\ UNCHANGED <<order, debits, issued>>

\* Mutant: the handler ends without a COMMIT.
CommitDebitNot(e) ==
  LET o == exec[e].order IN
  /\ exec[e].pc = "loaded"
  /\ Consumed(o, "done")
  /\ exec' = [exec EXCEPT ![e] = Free]
  /\ UNCHANGED <<order, debits, issued, loads, faults>>

\* The status becomes PERFORMED and the transaction commits.
CommitDebit(e) ==
  LET o == exec[e].order IN
  /\ exec[e].pc = "loaded"
  /\ debits' = [debits EXCEPT ![o] = @ + 1]
  /\ Consumed(o, "done")
  /\ exec' = [exec EXCEPT ![e] = Free]
  /\ UNCHANGED <<order, issued, loads, faults>>

\* The UPDATE or the COMMIT fails: the row is rolled back, the load stays.
DebitFails(e) ==
  /\ exec[e].pc = "loaded" /\ Fault("db_error", 1)
  /\ Consumed(exec[e].order, "dropped")
  /\ exec' = [exec EXCEPT ![e] = Free]
  /\ UNCHANGED <<order, debits, issued, loads>>

ConsumerCrash ==
  /\ Fault("crash", Cardinality({e \in Exec : exec[e].pc # "free"}))
  /\ exec' = [e \in Exec |-> Free]
  /\ UNCHANGED <<order, message, debits, issued, loads>>

\* The offset of a consumed message was not committed.
Redeliver(o) ==
  /\ message[o] \in {"done", "dropped"}
  /\ Fault("redelivery", 1)
  /\ message' = [message EXCEPT ![o] = "pending"]
  /\ UNCHANGED <<order, exec, debits, issued, loads>>

-----------------------------------------------------------------------------
HandlerStep(e) ==
  LoadCard(e) \/ LoadCardFails(e) \/ CommitDebit(e) \/ DebitFails(e)

Start(o) == \E e \in Exec : CreateCard(e, o) \/ CreateCardFails(e, o)

Next ==
  \/ \E o \in Order, w \in Wallet, a \in Amount : OrderCheck(o, w, a)
  \/ \E o \in Order : OrderCommit(o) \/ OrderAbort(o)
  \/ \E o \in Order : Start(o)
  \/ \E e \in Exec : HandlerStep(e)
  \/ ConsumerCrash
  \/ \E o \in Order : Redeliver(o)

Spec == Init /\ [][Next]_vars

(***************************************************************************)
(* The relay delivers a committed event until it is consumed (Exec bounds  *)
(* the executions TLC considers, hence strong fairness) and an event loop  *)
(* runs what it started.                                                   *)
(***************************************************************************)
Fairness ==
  /\ \A e \in Exec : WF_vars(HandlerStep(e))
  /\ \A o \in Order : SF_vars(Start(o))

FairSpec == Spec /\ Fairness

-----------------------------------------------------------------------------
(* Properties.                                                             *)

At(pc, o) == {e \in Exec : exec[e] = [pc |-> pc, order |-> o]}

(***************************************************************************)
(* The books of each order: every debit paid for a load and every load is  *)
(* of a card the provider made, none counted twice, whatever crashes, is   *)
(* refused or delivered again; a message consumed without an error has     *)
(* been debited, and nothing happens for an order that did not commit.     *)
(***************************************************************************)
DebitsAreLoaded ==
  \A o \in Order : debits[o] + Cardinality(At("loaded", o)) <= loads[o]

LoadsAreIssued ==
  \A o \in Order :
    loads[o] + Cardinality(At("created", o)) <= issued[o]

DoneIsDebited == \A o \in Order : message[o] = "done" => debits[o] > 0

OnlyOrdered ==
  \A o \in Order : order[o].pc # "ordered" =>
    message[o] = "none" /\ issued[o] = 0 /\ Active(o) = {}

CardsInv ==
  DebitsAreLoaded /\ LoadsAreIssued /\ DoneIsDebited /\ OnlyOrdered

CardsSafe == TypeOK /\ CardsInv

Total(f) == SumFunctionOnSet(f, Order)

Quiet == \A o \in Order : ~ Open(o)

(***************************************************************************)
(* What faults may cost: loads nobody was debited for and second debits of *)
(* one order are never more than the executions the faults hit.  Without a *)
(* fault every order that was debited was debited and loaded once.         *)
(***************************************************************************)
FaultsBoundDamage ==
  Quiet =>
    Total([o \in Order |-> loads[o] - debits[o]])
      + Total([o \in Order |-> IF debits[o] > 1 THEN debits[o] - 1 ELSE 0])
    <= faults

\* What an order may cost; one of a negative top-up may earn.
Cost == {0} \cup {TotalToPay(a) : a \in Amount}

(***************************************************************************)
(* "Check if wallet balance is enough": as long as a wallet has one order  *)
(* open at a time, only debits repeated by faults overdraw it, and each by *)
(* no more than the dearest order costs.                                   *)
(***************************************************************************)
OverdraftBounded ==
  \A w \in Wallet, m \in Cost :
    (\A c \in Cost : c <= m) => Balance(w) >= - (faults * m)

(***************************************************************************)
(* An order that committed is issued or its failure logged, and this is    *)
(* its last word: it is not left pending.                                  *)
(***************************************************************************)
OrderResolved ==
  \A o \in Order :
    order[o].pc = "ordered" ~> [](message[o] \in {"done", "dropped"})

\* What fundCard passes for an order, while the provider counts in cents.
FundAmount(a) == a
Cents(a) == 100 * a

(***************************************************************************)
(* "Amount in cents": without faults, what the cards were loaded with is   *)
(* what the wallets paid for it.                                           *)
(***************************************************************************)
CardsReconciled ==
  Quiet /\ faults = 0 =>
    Total([o \in Order |-> loads[o] * FundAmount(order[o].amount)])
      = Total([o \in Order |-> debits[o] * Cents(order[o].amount)])
=============================================================================
