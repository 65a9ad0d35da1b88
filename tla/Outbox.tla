------------------------------- MODULE Outbox -------------------------------
(***************************************************************************)
(* The relay of domain events: rows written to the table outbox in the     *)
(* transactions of the other services, the producer that polls them every  *)
(* ten seconds and publishes them, the Kafka log, and the consumer group   *)
(* that reads it.                                                          *)
(*                                                                         *)
(* The cron job starts produceMessages whether or not the previous run has *)
(* ended, so several of them run at once in one process: those are the     *)
(* ticks.  Nothing locks the rows they read.                               *)
(***************************************************************************)
EXTENDS Naturals, Sequences, FiniteSets, Functions

CONSTANTS
  Row,        \* the rows of the table outbox
  Poison,     \* rows whose topic the brokers do not have
  Tick,       \* concurrent runs of produceMessages
  BatchSize,  \* the number of rows findAll takes, 100 in the code
  MaxCrash,   \* bound on the deaths of the producer and of the consumer
  MaxLog,     \* bound on the log, it limits the copies kafkajs retries make
  Hazard      \* what the environment may do, a subset of AllHazards

AllHazards ==
  { "resend",         \* kafkajs resends a message whose answer was lost
    "handler_error",  \* a handler throws
    "late_join" }     \* messages are published before the group first joins

ASSUME OutboxAssumption ==
  /\ Poison \subseteq Row
  /\ BatchSize \in Nat \ {0}
  /\ MaxCrash \in Nat
  /\ MaxLog \in Nat
  /\ Hazard \subseteq AllHazards

VARIABLES
  outbox,     \* status of each row, and of the transaction that inserts it
  tick,       \* progress of each run of produceMessages
  log,        \* the messages in Kafka, each carrying the row it was made of
  joined,     \* whether the consumer group has an offset
  start,      \* the offset it first joined at
  position,   \* the offset up to which the running consumer has handled
  committed,  \* the offset the group has committed
  handled,    \* rows whose handler has run to its end
  dropped,    \* rows whose handler threw: logged, never retried
  crashes     \* deaths so far

producerVars == <<outbox, tick, log>>
consumerVars == <<joined, start, position, committed, handled, dropped>>
vars == <<outbox, tick, log, joined, start, position, committed, handled,
          dropped, crashes>>

RowState == {"none", "inserted", "created", "sent", "rolled_back"}
Free == [pc |-> "free", batch |-> {}, todo |-> {}]

TypeOK ==
  /\ outbox \in [Row -> RowState]
  /\ tick \in [Tick -> [pc : {"free", "sending"}, batch : SUBSET Row,
                        todo : SUBSET Row]]
  /\ log \in Seq(Row)
  /\ joined \in BOOLEAN
  /\ start \in Nat /\ position \in Nat /\ committed \in Nat
  /\ handled \subseteq Row /\ dropped \subseteq Row
  /\ crashes \in 0 .. MaxCrash

Init ==
  /\ outbox = [r \in Row |-> "none"]
  /\ tick = [t \in Tick |-> Free]
  /\ log = <<>>
  /\ joined = ("late_join" \notin Hazard)
  /\ start = 0 /\ position = 0 /\ committed = 0
  /\ handled = {} /\ dropped = {}
  /\ crashes = 0

-----------------------------------------------------------------------------
(* The services that raise events, each in a transaction of its own.       *)

\* outboxService.create, awaited.
Create(r) ==
  /\ outbox[r] = "none"
  /\ outbox' = [outbox EXCEPT ![r] = "inserted"]
  /\ UNCHANGED <<tick, log, consumerVars, crashes>>

EndTransaction(r) ==
  /\ outbox[r] = "inserted"
  /\ \E s \in {"created", "rolled_back"} : outbox' = [outbox EXCEPT ![r] = s]
  /\ UNCHANGED <<tick, log, consumerVars, crashes>>

-----------------------------------------------------------------------------
(* The producer.                                                           *)

\* Mutant: rows of transactions under way are read.
CreatedOrInserted == {r \in Row : outbox[r] \in {"inserted", "created"}}

Created == {r \in Row : outbox[r] = "created"}

\* take: batchSize, without an ORDER BY.
Batches ==
  {b \in SUBSET Created : \/ b = Created /\ Cardinality(b) <= BatchSize
                          \/ Cardinality(b) = BatchSize}

FindAll(t) ==
  /\ tick[t].pc = "free"
  /\ \E b \in Batches \ {{}} :
       tick' = [tick EXCEPT ![t] = [pc |-> "sending", batch |-> b, todo |-> b]]
  /\ UNCHANGED <<outbox, log, consumerVars, crashes>>

\* sendBatch looks every topic up before it sends anything.
Sendable(t) == tick[t].pc = "sending" /\ tick[t].batch \cap Poison = {}

\* sendBatch has one request per topic under way: messages arrive in any order.
Publish(t, r) ==
  /\ Sendable(t) /\ r \in tick[t].todo
  /\ log' = Append(log, r)
  /\ tick' = [tick EXCEPT ![t].todo = @ \ {r}]
  /\ UNCHANGED <<outbox, consumerVars, crashes>>

\* The broker has the message, its answer is lost, kafkajs sends it again.
Resend(t, r) ==
  /\ "resend" \in Hazard /\ Len(log) < MaxLog
  /\ Sendable(t) /\ r \in tick[t].todo
  /\ log' = Append(log, r)
  /\ UNCHANGED <<outbox, tick, consumerVars, crashes>>

\* Mutants: rows are marked without waiting for sendBatch; every created row
\* is marked, not only those of the batch.
SetAsSentEarly(t) ==
  /\ tick[t].pc = "sending"
  /\ outbox' = [r \in Row |-> IF r \in tick[t].batch THEN "sent" ELSE outbox[r]]
  /\ tick' = [tick EXCEPT ![t] = Free]
  /\ UNCHANGED <<log, consumerVars, crashes>>
SetAsSentAll(t) ==
  /\ tick[t].pc = "sending" /\ tick[t].todo = {}
  /\ outbox' = [r \in Row |-> IF r \in Created THEN "sent" ELSE outbox[r]]
  /\ tick' = [tick EXCEPT ![t] = Free]
  /\ UNCHANGED <<log, consumerVars, crashes>>

SetAsSent(t) ==
  /\ tick[t].pc = "sending" /\ tick[t].todo = {}
  /\ outbox' = [r \in Row |-> IF r \in tick[t].batch THEN "sent" ELSE outbox[r]]
  /\ tick' = [tick EXCEPT ![t] = Free]
  /\ UNCHANGED <<log, consumerVars, crashes>>

\* Any error ends in process.exit(1), which takes the other ticks with it.
ProducerExit ==
  /\ crashes < MaxCrash
  /\ crashes' = crashes + 1
  /\ tick' = [t \in Tick |-> Free]
  /\ UNCHANGED <<outbox, log, consumerVars>>

\* The process exits, and the next one reads the row again.
BatchRefused(t) ==
  /\ tick[t].pc = "sending" /\ ~ Sendable(t)
  /\ ProducerExit

-----------------------------------------------------------------------------
(* The consumer group, with fromBeginning: false.                          *)

Join ==
  /\ ~ joined
  /\ joined' = TRUE
  /\ start' = Len(log) /\ position' = Len(log) /\ committed' = Len(log)
  /\ UNCHANGED <<producerVars, handled, dropped, crashes>>

\* A handler that throws is logged and the message counts as consumed.
Consume ==
  /\ joined /\ position < Len(log)
  /\ position' = position + 1
  /\ \/ handled' = handled \cup {log[position + 1]} /\ UNCHANGED dropped
     \/ /\ "handler_error" \in Hazard
        /\ dropped' = dropped \cup {log[position + 1]} /\ UNCHANGED handled
  /\ UNCHANGED <<producerVars, joined, start, committed, crashes>>

\* Mutant: the offset of what was fetched is committed.
CommitFetched ==
  /\ joined /\ committed < Len(log)
  /\ committed' = Len(log)
  /\ UNCHANGED <<producerVars, joined, start, position, handled, dropped, crashes>>

CommitOffset ==
  /\ committed < position
  /\ committed' = position
  /\ UNCHANGED <<producerVars, joined, start, position, handled, dropped, crashes>>

ConsumerCrash ==
  /\ crashes < MaxCrash
  /\ crashes' = crashes + 1
  /\ position' = committed
  /\ UNCHANGED <<producerVars, joined, start, committed, handled, dropped>>

-----------------------------------------------------------------------------
Next ==
  \/ \E r \in Row : Create(r) \/ EndTransaction(r)
  \/ \E t \in Tick : FindAll(t) \/ SetAsSent(t) \/ BatchRefused(t)
  \/ \E t \in Tick, r \in Row : Publish(t, r) \/ Resend(t, r)
  \/ ProducerExit
  \/ Join
  \/ Consume
  \/ CommitOffset
  \/ ConsumerCrash

Spec == Init /\ [][Next]_vars

(***************************************************************************)
(* The cron job fires every ten seconds, Kafka is reachable again some day *)
(* and a dead process is restarted: a run that started ends unless the     *)
(* process dies, and the processes die finitely often (MaxCrash).          *)
(***************************************************************************)
Fairness ==
  /\ \A t \in Tick : /\ WF_vars(FindAll(t))
                     /\ WF_vars(SetAsSent(t))
                     /\ \A r \in Row : WF_vars(Publish(t, r))
  /\ WF_vars(Join)
  /\ WF_vars(Consume)

FairSpec == Spec /\ Fairness

-----------------------------------------------------------------------------
(* Properties.                                                             *)

(***************************************************************************)
(* A row is never marked as sent before its message is in Kafka, whatever  *)
(* ticks overlap and wherever the process exits: nothing marked is lost.   *)
(***************************************************************************)
SentImpliesPublished ==
  \A r \in Row : outbox[r] = "sent" => r \in Range(log)

(***************************************************************************)
(* The group's committed offset never runs ahead of the handlers: a        *)
(* message it passed was handled or dropped, unless it predates the group. *)
(***************************************************************************)
CommittedIsConsumed ==
  \A i \in start + 1 .. committed : log[i] \in handled \cup dropped

Committed == {r \in Row : outbox[r] \in {"created", "sent"}}

Delivery == INSTANCE EventDelivery
              WITH Event <- Row, committed <- Committed, handled <- handled

(***************************************************************************)
(* The relay implements EventDelivery while the group has joined first and *)
(* no handler throws: committed events are handled in the end, those of a  *)
(* transaction that rolled back never, across crashes, overlapping ticks   *)
(* and resends.                                                            *)
(***************************************************************************)
DeliversEvents == Delivery!Spec

(***************************************************************************)
(* Why the two invariants hold: what a tick no longer has to publish is in *)
(* the log, only rows it read are marked, and offsets advance in order.    *)
(***************************************************************************)
TickPublished ==
  \A t \in Tick : /\ tick[t].todo \subseteq tick[t].batch
                  /\ tick[t].batch \ tick[t].todo \subseteq Range(log)

OffsetsOrdered ==
  start <= committed /\ committed <= position /\ position <= Len(log)

PositionIsConsumed ==
  \A i \in start + 1 .. position : log[i] \in handled \cup dropped

OutboxInv ==
  TickPublished /\ SentImpliesPublished /\ OffsetsOrdered /\ PositionIsConsumed

(***************************************************************************)
(* A row that no broker takes is neither published nor marked, so it is in *)
(* every batch until somebody removes it, and nothing that shares a batch  *)
(* with it gets out: once there are no more unsent rows than a batch       *)
(* holds, nothing does.                                                    *)
(***************************************************************************)
PoisonStays ==
  /\ \A r \in Poison : outbox[r] # "sent" /\ r \notin Range(log)
  /\ \A t \in Tick : tick[t].batch \cap Poison # {} => tick[t].todo = tick[t].batch

\* With the types and the reasons that the other properties rest on.
OutboxSafe == TypeOK /\ OutboxInv /\ PoisonStays
=============================================================================
