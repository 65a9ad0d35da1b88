---------------------------- MODULE Outbox_proofs ----------------------------
(***************************************************************************)
(* Proofs about Outbox for every set of rows and ticks, every batch size   *)
(* and bound, and every hazard.                                            *)
(***************************************************************************)
EXTENDS Outbox, TLAPS

(***************************************************************************)
(* Types.                                                                  *)
(***************************************************************************)
LEMMA TypeStep == TypeOK /\ [Next]_vars => TypeOK'
<1> SUFFICES ASSUME TypeOK, [Next]_vars PROVE TypeOK' OBVIOUS
<1> USE OutboxAssumption DEF OutboxAssumption
<1>1. ASSUME NEW r \in Row, Create(r) \/ EndTransaction(r) PROVE TypeOK'
  BY <1>1 DEF Create, EndTransaction, TypeOK, RowState, consumerVars
<1>2. ASSUME NEW t \in Tick, FindAll(t) PROVE TypeOK'
  <2>1. PICK b \in SUBSET Row :
               tick' = [tick EXCEPT ![t] = [pc |-> "sending", batch |-> b, todo |-> b]]
    BY <1>2 DEF FindAll, Batches, Created
  <2>2. QED BY <1>2, <2>1 DEF FindAll, TypeOK, consumerVars
<1>3. ASSUME NEW t \in Tick, SetAsSent(t) PROVE TypeOK'
  BY <1>3 DEF SetAsSent, TypeOK, RowState, Free, consumerVars
<1>4. ASSUME NEW t \in Tick, NEW r \in Row, Publish(t, r) PROVE TypeOK'
  <2>1. tick' \in [Tick -> [pc : {"free", "sending"}, batch : SUBSET Row,
                            todo : SUBSET Row]]
    BY <1>4 DEF Publish, TypeOK
  <2>2. log' \in Seq(Row)
    BY <1>4 DEF Publish, TypeOK
  <2>3. UNCHANGED <<outbox, joined, start, position, committed, handled,
                    dropped, crashes>>
    BY <1>4 DEF Publish, consumerVars
  <2>4. QED BY <2>1, <2>2, <2>3 DEF TypeOK
<1>5. ASSUME NEW t \in Tick, NEW r \in Row, Resend(t, r) PROVE TypeOK'
  BY <1>5 DEF Resend, TypeOK, consumerVars
<1>6. CASE ProducerExit
  BY <1>6 DEF ProducerExit, TypeOK, Free, consumerVars
<1>7. CASE Join
  BY <1>7 DEF Join, TypeOK, producerVars
<1>8. CASE Consume
  <2>1. log[position + 1] \in Row BY <1>8 DEF Consume, TypeOK
  <2>2. QED BY <1>8, <2>1 DEF Consume, TypeOK, producerVars
<1>9. CASE CommitOffset \/ ConsumerCrash
  BY <1>9 DEF CommitOffset, ConsumerCrash, TypeOK, producerVars
<1>10. CASE UNCHANGED vars
  BY <1>10 DEF vars, TypeOK
<1>11. QED
  BY <1>1, <1>2, <1>3, <1>4, <1>5, <1>6, <1>7, <1>8, <1>9, <1>10
  DEF Next, BatchRefused

(***************************************************************************)
(* Type correctness of the relay.                                          *)
(***************************************************************************)
THEOREM TypeCorrect == Spec => []TypeOK
<1>1. Init => TypeOK
  BY OutboxAssumption DEF OutboxAssumption, Init, TypeOK, RowState, Free
<1>2. QED BY <1>1, TypeStep, PTL DEF Spec

-----------------------------------------------------------------------------
(* The log only grows: what was in it stays, at its offset.                *)
LEMMA AppendKeeps ==
  ASSUME log \in Seq(Row), NEW r \in Row
  PROVE  /\ Range(log) \subseteq Range(Append(log, r))
         /\ r \in Range(Append(log, r))
         /\ Len(Append(log, r)) = Len(log) + 1
         /\ \A i \in 1 .. Len(log) : Append(log, r)[i] = log[i]
<1>1. /\ Len(Append(log, r)) = Len(log) + 1
      /\ DOMAIN Append(log, r) = 1 .. Len(log) + 1
      /\ DOMAIN log = 1 .. Len(log)
      /\ Append(log, r)[Len(log) + 1] = r
      /\ \A i \in 1 .. Len(log) : Append(log, r)[i] = log[i]
  OBVIOUS
<1>2. QED BY <1>1 DEF Range

(***************************************************************************)
(* The producer's half: ticks, rows and log.                               *)
(***************************************************************************)
ProducerInv == TickPublished /\ SentImpliesPublished

LEMMA ProducerStep == TypeOK /\ ProducerInv /\ [Next]_vars => ProducerInv'
<1> SUFFICES ASSUME TypeOK, ProducerInv, [Next]_vars PROVE ProducerInv' OBVIOUS
<1> USE DEF ProducerInv, TickPublished, SentImpliesPublished
<1>1. ASSUME NEW r \in Row, Create(r) \/ EndTransaction(r) PROVE ProducerInv'
  BY <1>1 DEF Create, EndTransaction, TypeOK
<1>2. ASSUME NEW t \in Tick, FindAll(t) PROVE ProducerInv'
  BY <1>2 DEF FindAll, TypeOK
<1>3. ASSUME NEW t \in Tick, SetAsSent(t) PROVE ProducerInv'
  <2>1. tick[t].batch \subseteq Range(log) BY <1>3 DEF SetAsSent
  <2>2. QED BY <1>3, <2>1 DEF SetAsSent, TypeOK, Free
<1>4. ASSUME NEW t \in Tick, NEW r \in Row, Publish(t, r) PROVE ProducerInv'
  <2>1. Range(log) \subseteq Range(log') /\ r \in Range(log')
    BY <1>4, AppendKeeps DEF Publish, TypeOK
  <2>2. \A u \in Tick : /\ tick'[u].batch = tick[u].batch
                        /\ tick'[u].todo = IF u = t THEN tick[u].todo \ {r}
                                           ELSE tick[u].todo
    BY <1>4 DEF Publish, TypeOK
  <2>3. TickPublished' BY <2>1, <2>2
  <2>4. SentImpliesPublished' BY <1>4, <2>1 DEF Publish
  <2>5. QED BY <2>3, <2>4
<1>5. ASSUME NEW t \in Tick, NEW r \in Row, Resend(t, r) PROVE ProducerInv'
  <2>1. Range(log) \subseteq Range(log')
    BY <1>5, AppendKeeps DEF Resend, TypeOK
  <2>2. QED BY <1>5, <2>1 DEF Resend
<1>6. CASE ProducerExit
  BY <1>6 DEF ProducerExit, Free
<1>7. CASE Join \/ Consume \/ CommitOffset \/ ConsumerCrash
  BY <1>7 DEF Join, Consume, CommitOffset, ConsumerCrash, producerVars
<1>8. CASE UNCHANGED vars
  BY <1>8 DEF vars
<1>9. QED BY <1>1, <1>2, <1>3, <1>4, <1>5, <1>6, <1>7, <1>8 DEF Next, BatchRefused

(***************************************************************************)
(* The consumer's half: offsets and what they passed.                      *)
(***************************************************************************)
ConsumerInv == OffsetsOrdered /\ PositionIsConsumed

LEMMA ConsumerStep == TypeOK /\ ConsumerInv /\ [Next]_vars => ConsumerInv'
<1> SUFFICES ASSUME TypeOK, ConsumerInv, [Next]_vars PROVE ConsumerInv' OBVIOUS
<1> USE DEF ConsumerInv, OffsetsOrdered, PositionIsConsumed
<1>1. CASE UNCHANGED <<log, consumerVars>>
  BY <1>1 DEF consumerVars
<1>2. ASSUME NEW r \in Row, log' = Append(log, r), UNCHANGED consumerVars
      PROVE  ConsumerInv'
  <2>1. /\ Len(log') = Len(log) + 1
        /\ \A i \in 1 .. Len(log) : log'[i] = log[i]
    BY <1>2, AppendKeeps DEF TypeOK
  <2>2. Len(log) \in Nat BY DEF TypeOK
  <2>3. QED BY <1>2, <2>1, <2>2 DEF consumerVars, TypeOK
<1>3. CASE Join
  <2>1. Len(log) \in Nat BY DEF TypeOK
  <2>2. QED BY <1>3, <2>1 DEF Join, producerVars
<1>4. CASE Consume
  <2>1. Len(log) \in Nat BY DEF TypeOK
  <2>2. log[position + 1] \in handled' \cup dropped'
        /\ handled \subseteq handled' /\ dropped \subseteq dropped'
    BY <1>4 DEF Consume
  <2>3. QED BY <1>4, <2>1, <2>2 DEF Consume, TypeOK, producerVars
<1>5. CASE CommitOffset
  BY <1>5 DEF CommitOffset, TypeOK, producerVars
<1>6. CASE ConsumerCrash
  BY <1>6 DEF ConsumerCrash, TypeOK, producerVars
<1>7. CASE UNCHANGED vars
  BY <1>7 DEF vars
<1>8. ASSUME NEW r \in Row, Create(r) \/ EndTransaction(r) PROVE ConsumerInv'
  BY <1>1, <1>8 DEF Create, EndTransaction
<1>9. ASSUME NEW t \in Tick, FindAll(t) \/ SetAsSent(t) PROVE ConsumerInv'
  BY <1>1, <1>9 DEF FindAll, SetAsSent
<1>10. ASSUME NEW t \in Tick, NEW r \in Row, Publish(t, r) \/ Resend(t, r)
       PROVE  ConsumerInv'
  BY <1>2, <1>10 DEF Publish, Resend
<1>11. CASE ProducerExit
  BY <1>1, <1>11 DEF ProducerExit
<1>12. QED
  BY <1>3, <1>4, <1>5, <1>6, <1>7, <1>8, <1>9, <1>10, <1>11
  DEF Next, BatchRefused

(***************************************************************************)
(* The inductive invariant of the relay.                                   *)
(***************************************************************************)
THEOREM OutboxInvariant == Spec => []OutboxInv
<1>1. Init => OutboxInv
  BY DEF Init, Free, OutboxInv, TickPublished, SentImpliesPublished,
         OffsetsOrdered, PositionIsConsumed
<1>2. TypeOK /\ OutboxInv /\ [Next]_vars => OutboxInv'
  BY ProducerStep, ConsumerStep DEF OutboxInv, ProducerInv, ConsumerInv
<1>3. QED BY <1>1, <1>2, TypeCorrect, PTL DEF Spec

(***************************************************************************)
(* No row is marked as sent before its message is in Kafka.                *)
(***************************************************************************)
THEOREM NothingSentIsLost == Spec => []SentImpliesPublished
<1>1. OutboxInv => SentImpliesPublished BY DEF OutboxInv
<1>2. QED BY <1>1, OutboxInvariant, PTL

(***************************************************************************)
(* The group's committed offset never passes a message nobody consumed.    *)
(***************************************************************************)
THEOREM NothingCommittedIsSkipped == Spec => []CommittedIsConsumed
<1>1. TypeOK /\ OutboxInv => CommittedIsConsumed
  BY DEF TypeOK, OutboxInv, OffsetsOrdered, PositionIsConsumed,
         CommittedIsConsumed
<1>2. QED BY <1>1, OutboxInvariant, TypeCorrect, PTL

(***************************************************************************)
(* What no broker takes stays where it is, and holds up its batch.         *)
(***************************************************************************)
LEMMA PoisonStep ==
  TypeOK /\ TickPublished /\ PoisonStays /\ [Next]_vars => PoisonStays'
<1> SUFFICES ASSUME TypeOK, TickPublished, PoisonStays, [Next]_vars
             PROVE  PoisonStays'
  OBVIOUS
<1> USE OutboxAssumption DEF OutboxAssumption, PoisonStays
<1>1. ASSUME NEW r \in Row, Create(r) \/ EndTransaction(r) PROVE PoisonStays'
  BY <1>1 DEF Create, EndTransaction, TypeOK
<1>2. ASSUME NEW t \in Tick, FindAll(t) PROVE PoisonStays'
  BY <1>2 DEF FindAll, TypeOK
<1>3. ASSUME NEW t \in Tick, SetAsSent(t) PROVE PoisonStays'
  <2>1. tick[t].batch \cap Poison = {} BY <1>3 DEF SetAsSent
  <2>2. QED BY <1>3, <2>1 DEF SetAsSent, TypeOK, Free
<1>4. ASSUME NEW t \in Tick, NEW r \in Row, Publish(t, r) \/ Resend(t, r)
      PROVE  PoisonStays'
  <2>1. r \notin Poison
    BY <1>4 DEF Publish, Resend, Sendable, TickPublished
  <2>2. Range(log') = Range(log) \cup {r}
    <3>1. /\ log' = Append(log, r) /\ log \in Seq(Row)
      BY <1>4 DEF Publish, Resend, TypeOK
    <3>2. /\ DOMAIN log' = 1 .. Len(log) + 1 /\ DOMAIN log = 1 .. Len(log)
          /\ log'[Len(log) + 1] = r /\ Len(log) \in Nat
          /\ \A i \in 1 .. Len(log) : log'[i] = log[i]
      BY <3>1
    <3>3. QED BY <3>2 DEF Range
  <2>3. \A u \in Tick : /\ tick'[u].batch = tick[u].batch
                        /\ tick[u].batch \cap Poison # {} => tick'[u] = tick[u]
    BY <1>4 DEF Publish, Resend, Sendable, TypeOK
  <2>4. outbox' = outbox BY <1>4 DEF Publish, Resend
  <2>5. QED BY <2>1, <2>2, <2>3, <2>4
<1>5. CASE ProducerExit
  BY <1>5 DEF ProducerExit, Free
<1>6. CASE Join \/ Consume \/ CommitOffset \/ ConsumerCrash
  BY <1>6 DEF Join, Consume, CommitOffset, ConsumerCrash, producerVars
<1>7. CASE UNCHANGED vars
  BY <1>7 DEF vars
<1>8. QED BY <1>1, <1>2, <1>3, <1>4, <1>5, <1>6, <1>7 DEF Next, BatchRefused

(***************************************************************************)
(* Types, offsets, ticks and poison together.                              *)
(***************************************************************************)
THEOREM RelayIsSafe == Spec => []OutboxSafe
<1>1. Init => PoisonStays
  BY OutboxAssumption DEF OutboxAssumption, Init, Free, PoisonStays, Range
<1>2. TypeOK /\ OutboxInv /\ PoisonStays /\ [Next]_vars => PoisonStays'
  BY PoisonStep DEF OutboxInv
<1>3. TypeOK /\ OutboxInv /\ PoisonStays => OutboxSafe BY DEF OutboxSafe
<1>4. QED BY <1>1, <1>2, <1>3, TypeCorrect, OutboxInvariant, PTL DEF Spec

-----------------------------------------------------------------------------
(***************************************************************************)
(* EventDelivery.  What the producer reads, publishes and the consumer     *)
(* handles was committed: rolled back rows never get that far.             *)
(***************************************************************************)
Origin ==
  /\ \A t \in Tick : tick[t].batch \subseteq Committed
  /\ \A i \in 1 .. Len(log) : log[i] \in Committed
  /\ handled \subseteq Committed

(* Once committed, always committed: no step takes a row back.              *)
LEMMA CommittedStays ==
  ASSUME TypeOK, Origin, [Next]_vars
  PROVE  \/ Committed' = Committed
         \/ \E r \in Row : Committed' = Committed \cup {r} /\ UNCHANGED handled
<1>1. ASSUME NEW r \in Row, EndTransaction(r)
      PROVE  \/ Committed' = Committed
             \/ Committed' = Committed \cup {r} /\ UNCHANGED handled
  <2>1. PICK s \in {"created", "rolled_back"} :
          \A q \in Row : outbox'[q] = IF q = r THEN s ELSE outbox[q]
    BY <1>1 DEF EndTransaction, TypeOK
  <2>2. outbox[r] = "inserted" /\ UNCHANGED handled
    BY <1>1 DEF EndTransaction, consumerVars
  <2>3. CASE s = "created"
    BY <2>1, <2>2, <2>3 DEF Committed
  <2>4. CASE s = "rolled_back"
    BY <2>1, <2>2, <2>4 DEF Committed
  <2>5. QED BY <2>3, <2>4
<1>2. ASSUME NEW t \in Tick, SetAsSent(t) PROVE Committed' = Committed
  <2>1. \A q \in Row :
          outbox'[q] = IF q \in tick[t].batch THEN "sent" ELSE outbox[q]
    BY <1>2 DEF SetAsSent
  <2>2. tick[t].batch \subseteq Committed
    BY DEF Origin
  <2>3. QED BY <2>1, <2>2 DEF Committed
<1>3. ASSUME NEW r \in Row, Create(r) PROVE Committed' = Committed
  BY <1>3 DEF Create, Committed, TypeOK
<1>4. CASE UNCHANGED outbox
  BY <1>4 DEF Committed
<1>5. QED
  BY <1>1, <1>2, <1>3, <1>4
  DEF Next, FindAll, BatchRefused, ProducerExit, Publish, Resend, Join, Consume,
      CommitOffset, ConsumerCrash, producerVars, vars

LEMMA OriginStep ==
  TypeOK /\ TickPublished /\ OffsetsOrdered /\ Origin /\ [Next]_vars => Origin'
<1> SUFFICES ASSUME TypeOK, TickPublished, OffsetsOrdered, Origin, [Next]_vars
             PROVE  Origin'
  OBVIOUS
<1>0. Committed \subseteq Committed'
  BY CommittedStays
<1>1. ASSUME NEW t \in Tick, FindAll(t) PROVE Origin'
  <2>1. PICK b : b \subseteq Created /\ tick' = [tick EXCEPT ![t] =
                   [pc |-> "sending", batch |-> b, todo |-> b]]
    BY <1>1 DEF FindAll, Batches
  <2>2. b \subseteq Committed
    BY <2>1 DEF Created, Committed
  <2>3. \A u \in Tick : tick'[u].batch \subseteq Committed
    BY <2>1, <2>2 DEF TypeOK, Origin
  <2>4. UNCHANGED <<outbox, log, handled>>
    BY <1>1 DEF FindAll, consumerVars
  <2>5. QED BY <2>3, <2>4 DEF Origin, Committed
<1>2. ASSUME NEW t \in Tick, NEW r \in Row, Publish(t, r) \/ Resend(t, r)
      PROVE  Origin'
  <2>1. r \in Committed
    BY <1>2 DEF Publish, Resend, TickPublished, Origin
  <2>2. log' = Append(log, r) /\ UNCHANGED <<outbox, handled>>
    BY <1>2 DEF Publish, Resend, consumerVars
  <2>3. \A u \in Tick : tick'[u].batch = tick[u].batch
    BY <1>2 DEF Publish, Resend, TypeOK
  <2>4. /\ Len(log') = Len(log) + 1 /\ log'[Len(log) + 1] = r
        /\ \A i \in 1 .. Len(log) : log'[i] = log[i]
    BY <2>2 DEF TypeOK
  <2>5. \A i \in 1 .. Len(log') : log'[i] \in Committed
    BY <2>1, <2>4 DEF TypeOK, Origin
  <2>6. QED BY <2>2, <2>3, <2>5 DEF Origin, Committed
<1>3. CASE Consume
  <2>1. position + 1 \in 1 .. Len(log)
    BY <1>3 DEF Consume, TypeOK
  <2>2. handled' \subseteq handled \cup {log[position + 1]}
    BY <1>3 DEF Consume
  <2>3. UNCHANGED <<outbox, tick, log>>
    BY <1>3 DEF Consume, producerVars
  <2>4. QED BY <2>1, <2>2, <2>3 DEF Origin, Committed
<1>4. ASSUME NEW t \in Tick, SetAsSent(t) PROVE Origin'
  <2>1. UNCHANGED <<log, handled>>
    BY <1>4 DEF SetAsSent, consumerVars
  <2>2. \A u \in Tick : tick'[u].batch = {} \/ tick'[u] = tick[u]
    BY <1>4 DEF SetAsSent, TypeOK, Free
  <2>3. QED BY <1>0, <2>1, <2>2 DEF Origin
<1>5. CASE ProducerExit
  BY <1>0, <1>5 DEF ProducerExit, Origin, Free, consumerVars
<1>6. CASE UNCHANGED <<tick, log, handled>>
  BY <1>0, <1>6 DEF Origin
<1>7. QED
  BY <1>1, <1>2, <1>3, <1>4, <1>5, <1>6
  DEF Next, Create, EndTransaction, BatchRefused, Join, CommitOffset,
      ConsumerCrash, consumerVars, producerVars, vars

(***************************************************************************)
(* The relay implements the safety of EventDelivery under every hazard:    *)
(* its steps are Commit, Handle or none of its business, so that an event  *)
(* is handled only after its transaction committed, across crashes,        *)
(* overlapping ticks, resends, failing handlers and a late first join.     *)
(***************************************************************************)
THEOREM RelayRefinesDelivery == Spec => Delivery!Safety
<1>1. Init => Delivery!Init /\ Origin
  BY DEF Init, Delivery!Init, Origin, Committed, Free
<1>2. TypeOK /\ OffsetsOrdered /\ Origin /\ [Next]_vars
        => [Delivery!Next]_(Delivery!EDvars)
  <2> SUFFICES ASSUME TypeOK, OffsetsOrdered, Origin, [Next]_vars,
                      <<Committed, handled>>' # <<Committed, handled>>
               PROVE  \E r \in Row : Delivery!Commit(r) \/ Delivery!Handle(r)
    BY DEF Delivery!Next, Delivery!EDvars
  <2>1. ASSUME NEW r \in Row, Committed' = Committed \cup {r}, UNCHANGED handled
        PROVE  Delivery!Commit(r)
    BY <2>1 DEF Delivery!Commit
  <2>2. CASE Committed' = Committed
    <3>1. handled' # handled
      BY <2>2
    <3>2. Consume
      BY <3>1
      DEF Next, Create, EndTransaction, FindAll, SetAsSent, BatchRefused,
          ProducerExit, Publish, Resend, Join, CommitOffset, ConsumerCrash,
          consumerVars, producerVars, vars
    <3>3. position + 1 \in 1 .. Len(log)
      BY <3>2 DEF Consume, TypeOK
    <3>4. handled' = handled \cup {log[position + 1]}
      BY <3>1, <3>2 DEF Consume
    <3>5. log[position + 1] \in Row /\ log[position + 1] \in Committed
      BY <3>3 DEF Origin, Committed
    <3>6. Delivery!Handle(log[position + 1])
      BY <2>2, <3>4, <3>5 DEF Delivery!Handle
    <3>7. QED BY <3>5, <3>6
  <2>3. QED BY <2>1, <2>2, CommittedStays
<1>3. TypeOK /\ TickPublished /\ OffsetsOrdered /\ Origin /\ [Next]_vars => Origin'
  BY OriginStep
<1>4. OutboxInv => TickPublished /\ OffsetsOrdered
  BY DEF OutboxInv
<1>5. QED
  BY <1>1, <1>2, <1>3, <1>4, TypeCorrect, OutboxInvariant, PTL
  DEF Spec, Delivery!Safety
=============================================================================
